------------------------------ MODULE EdgeProofs ------------------------------
(***************************************************************************)
(* What crosses the edge of the backend, for any number of events, pages,  *)
(* callers, servers and changes of files.                                  *)
(*                                                                         *)
(* RunEvents: histories stay suffixes under any retention, and the pages,  *)
(* the stream and the recovery of the viewer implement RunFeed.            *)
(* EventsIInv says what is under way to the viewer.                        *)
(*                                                                         *)
(* McpServers: McpIInv follows the managers of a server, the threads they  *)
(* start and the calls between them: a thread that lives is the one its    *)
(* manager knows, and a call is sent on a loop of the manager whose        *)
(* configuration its approval names.                                       *)
(*                                                                         *)
(* FileEffects: FilesIInv follows one file operation: the plan it carries  *)
(* is the one that was agreed on, a planned effect leaves its trace on the *)
(* disk, what it destroys is in the snapshot, and the snapshot is young    *)
(* when an open row comes to refer to it.                                  *)
(***************************************************************************)
EXTENDS RunEvents, McpServers, FileEffects, FiniteSetTheorems, SequenceTheorems, TLAPS

------------------------------------------------------------------------------
(* The viewer's feed of a run.                                               *)

Latest == lastSeq[Watched]
Seqs   == 0 .. MaxSeq

RunAnswers == [last : Seqs, terminal : BOOLEAN]
ViewRows   == [cursor : Seqs, held : SUBSET Seqs, base : Seqs]
MainPcs    == {"waiting", "sync", "connect", "reading", "gap", "gap recover", "gap run",
               "recover", "recover run", "ended", "ended run", "done"}
MainRows   == [pc : MainPcs, from : Seqs, pending : Seqs, run : RunAnswers]
SyncRows   == [pc : {"off", "asked", "page", "recover", "run"}, from : Seqs, page : SUBSET Seqs, run : RunAnswers]
ConnRows   == [pc : {"closed", "run", "page", "events_expired", "auth_expired", "end"}, cursor : Seqs, run : RunAnswers]

\* A page is an interval of the log: retention leaves no hole in what it keeps.
Interval(page) == \E a, b \in 0 .. Latest : page = a + 1 .. b

\* What a viewer holds is everything from its snapshot to its cursor.
ViewOK(w) ==
    w \in ViewRows /\ w.base <= w.cursor /\ w.cursor <= Latest /\ w.held = w.base + 1 .. w.cursor

\* Nothing that is under way to the viewer is newer than the run.
AnswerOK(run) == run \in RunAnswers /\ run.last <= Latest /\ (run.terminal => Terminal(Watched))
MainOK(m) == m \in MainRows /\ m.pending <= Latest /\ m.from <= Latest /\ AnswerOK(m.run)
SyncOK(x) == x \in SyncRows /\ x.from <= Latest /\ AnswerOK(x.run) /\ Interval(x.page)
ConnOK(x) == x \in ConnRows /\ x.cursor <= Latest /\ AnswerOK(x.run)
WireOK == wire \in Seq(Nat) /\ \A i \in DOMAIN wire : wire[i] <= Latest

StoreOK ==
    /\ finished \in Seq(Runs) /\ lastSeq \in [Runs -> Seqs] /\ log \in [Runs -> SUBSET Nat]
    /\ \A r \in Runs : log[r] \subseteq 1 .. lastSeq[r]
    /\ HistoriesAreSuffixes

EventsIInv == StoreOK /\ ViewOK(view) /\ MainOK(main) /\ SyncOK(sync) /\ ConnOK(conn) /\ WireOK

-----------------------------------------------------------------------------
(* Sets of events. *)

LEMMA LogTypes ==
    ASSUME StoreOK, NEW r \in Runs
    PROVE  lastSeq[r] \in Nat /\ lastSeq[r] <= MaxSeq /\ log[r] \subseteq 1 .. lastSeq[r]
BY ViewerAssumption DEF StoreOK, Seqs

LEMMA FiniteEvents ==
    ASSUME NEW n \in Nat, NEW set \in SUBSET (1 .. n)
    PROVE  IsFiniteSet(set) /\ Cardinality(set) \in Nat
<1>1. IsFiniteSet(1 .. n) BY FS_Interval
<1>2. IsFiniteSet(set) BY <1>1, FS_Subset
<1> QED BY <1>2, FS_CardinalityType

\* What is older than an old event is old: the rest of a suffix is a suffix.
LEMMA OldestIsPrefix ==
    ASSUME NEW m \in Nat, NEW set \in SUBSET (1 .. m), NEW n \in Int,
           NEW e \in set \ Oldest(set, n), NEW f \in set, f > e
    PROVE  f \notin Oldest(set, n)
<1> DEFINE below(g) == {h \in set : h < g}
<1>0. \A h \in set : h \in Nat OBVIOUS
<1>1. ASSUME NEW h \in below(e) PROVE h \in below(f)
  <2>1. h \in set /\ h < e /\ e \in set BY DEF below
  <2>2. h \in Nat /\ e \in Nat /\ f \in Nat BY <1>0, <2>1
  <2> QED BY <2>1, <2>2 DEF below
<1>2. below(f) \in SUBSET (1 .. m) /\ below(e) \in SUBSET (1 .. m) OBVIOUS
<1>3. IsFiniteSet(below(f)) /\ Cardinality(below(e)) \in Nat /\ Cardinality(below(f)) \in Nat
  BY <1>2, FiniteEvents
<1>4. Cardinality(below(e)) <= Cardinality(below(f)) BY <1>1, <1>3, FS_Subset
<1>5. ~(Cardinality(below(e)) < n) BY DEF Oldest
<1>6. f \in Oldest(set, n) => Cardinality(below(f)) < n BY DEF Oldest
<1> HIDE DEF below
<1> QED BY <1>3, <1>4, <1>5, <1>6

LEMMA NewestIsSuffix ==
    ASSUME NEW m \in Nat, NEW set \in SUBSET (1 .. m), NEW n \in Int,
           NEW e \in Newest(set, n), NEW f \in set, f > e
    PROVE  f \in Newest(set, n)
<1> DEFINE above(g) == {h \in set : h > g}
<1>0. \A h \in set : h \in Nat OBVIOUS
<1>1. ASSUME NEW h \in above(f) PROVE h \in above(e)
  <2>1. h \in set /\ h > f /\ e \in set BY DEF above, Newest
  <2>2. h \in Nat /\ e \in Nat /\ f \in Nat BY <1>0, <2>1
  <2> QED BY <2>1, <2>2 DEF above
<1>2. above(f) \in SUBSET (1 .. m) /\ above(e) \in SUBSET (1 .. m) OBVIOUS
<1>3. IsFiniteSet(above(e)) /\ Cardinality(above(e)) \in Nat /\ Cardinality(above(f)) \in Nat
  BY <1>2, FiniteEvents
<1>4. Cardinality(above(f)) <= Cardinality(above(e)) BY <1>1, <1>3, FS_Subset
<1>5. Cardinality(above(e)) < n BY DEF Newest
<1>6. Cardinality(above(f)) < n => f \in Newest(set, n) BY DEF Newest
<1> HIDE DEF above
<1> QED BY <1>3, <1>4, <1>5, <1>6

LEMMA IntervalMax ==
    ASSUME NEW a \in Nat, NEW b \in Nat, a < b
    PROVE  Max(a + 1 .. b) = b
<1>1. b \in a + 1 .. b /\ \A y \in a + 1 .. b : b >= y OBVIOUS
<1>2. \A x \in a + 1 .. b : (\A y \in a + 1 .. b : x >= y) => x = b BY <1>1
<1> QED BY <1>1, <1>2 DEF Max

\* A page that is not expired follows its cursor.
LEMMA PageFollows ==
    ASSUME StoreOK, NEW after \in Nat, after <= Latest, ~Expired(after)
    PROVE  \E b \in Nat : after <= b /\ b <= Latest /\ Page(after) = after + 1 .. b
<1> DEFINE n == Cardinality(Page(after))
<1>1. Latest \in Nat /\ log[Watched] \subseteq 1 .. Latest /\ Page(after) \subseteq log[Watched]
  <2>1. Page(after) \subseteq log[Watched] BY DEF Page, Oldest
  <2> QED BY <2>1, ViewerAssumption, LogTypes DEF Latest
<1>2. Page(after) \in SUBSET (1 .. Latest) BY <1>1
<1>3. n \in Nat BY <1>1, <1>2, FiniteEvents
<1>4. CASE after = Latest
  <2>1. Page(after) = {} BY <1>1, <1>4 DEF Page, Oldest
  <2> QED BY <1>1, <1>4, <2>1
<1>5. CASE after < Latest
  <2>1. Page(after) = after + 1 .. after + n /\ Page(after) # {} BY <1>5 DEF Expired, Latest
  <2> HIDE DEF n
  <2>2. n > 0 BY <1>3, <2>1
  <2>3. after + n \in Page(after) BY <1>3, <2>1, <2>2
  <2>4. after + n <= Latest BY <1>1, <1>2, <2>3
  <2> QED BY <1>3, <2>1, <2>4
<1> QED BY <1>1, <1>4, <1>5

\* The stream sends a page in its order.
LEMMA InOrderOfPage ==
    ASSUME NEW a \in Nat, NEW b \in Nat, a <= b
    PROVE  /\ Cardinality(a + 1 .. b) = b - a /\ InOrder(a + 1 .. b) \in Seq(Nat)
           /\ \A i \in DOMAIN InOrder(a + 1 .. b) : InOrder(a + 1 .. b)[i] \in a + 1 .. b
<1> DEFINE page == a + 1 .. b
           pick(i) == CHOOSE e \in page : Cardinality({f \in page : f < e}) = i - 1
<1>1. Cardinality(page) = b - a
  <2>1. a + 1 \in Int /\ b \in Int /\ (a + 1 > b => b - a = 0) /\ b - (a + 1) + 1 = b - a OBVIOUS
  <2> QED BY <2>1, FS_Interval
<1>2. ASSUME NEW i \in 1 .. b - a PROVE pick(i) \in page
  <2>1. a + i \in page OBVIOUS
  <2>2. {f \in page : f < a + i} = a + 1 .. a + i - 1 OBVIOUS
  <2>3. Cardinality(a + 1 .. a + i - 1) = i - 1 BY FS_Interval
  <2> QED BY <2>1, <2>2, <2>3
<1>3. InOrder(page) = [i \in 1 .. b - a |-> pick(i)] BY <1>1 DEF InOrder
<1> HIDE DEF page, pick
<1>4. \A i \in 1 .. b - a : pick(i) \in Nat BY <1>2 DEF page
<1>5. b - a \in Nat OBVIOUS
<1>6. InOrder(page) \in Seq(Nat) BY <1>3, <1>4, <1>5
<1> QED BY <1>1, <1>2, <1>3, <1>6 DEF page

-----------------------------------------------------------------------------
(* The viewer's own operations. *)

LEMMA Numbers ==
    ASSUME StoreOK
    PROVE  Latest \in Nat /\ Latest <= MaxSeq /\ Latest \in Seqs /\ 0 \in Seqs
BY LogTypes, ViewerAssumption DEF Latest, Seqs

LEMMA SnapshotOK ==
    ASSUME StoreOK
    PROVE  AnswerOK(Snapshot) /\ AnswerOK(Unanswered)
<1>1. Latest \in Seqs /\ Latest \in Nat /\ 0 \in Seqs BY Numbers
<1>2. Terminal(Watched) \in BOOLEAN BY DEF Terminal
<1>3. AnswerOK(Snapshot) BY <1>1, <1>2 DEF Snapshot, AnswerOK, RunAnswers, Latest
<1>4. AnswerOK(Unanswered) BY <1>1 DEF Unanswered, AnswerOK, RunAnswers
<1> QED BY <1>3, <1>4

LEMMA PublishedOK ==
    ASSUME StoreOK, NEW w, ViewOK(w), NEW e \in Nat, e <= Latest, e <= w.cursor + 1
    PROVE  /\ ViewOK(Published(w, e)) /\ Published(w, e).base = w.base
           /\ w.held \subseteq Published(w, e).held
<1>1. Latest \in Nat /\ Latest <= MaxSeq BY Numbers
<1>2. /\ w.cursor \in Nat /\ w.base \in Nat /\ w.held = w.base + 1 .. w.cursor /\ w \in ViewRows
      /\ w.base <= w.cursor
  BY DEF ViewOK, ViewRows, Seqs
<1>3. CASE e <= w.cursor BY <1>3 DEF Published
<1>4. CASE ~(e <= w.cursor)
  <2>1. e = w.cursor + 1 BY <1>2, <1>4
  <2>2. e \in Seqs BY <1>1, <2>1, ViewerAssumption DEF Seqs
  <2>3. (w.base + 1 .. w.cursor) \cup {e} = w.base + 1 .. e BY <1>2, <2>1
  <2>4. Published(w, e) = [w EXCEPT !.cursor = e, !.held = @ \cup {e}] BY <1>4 DEF Published
  <2>5. /\ Published(w, e) \in ViewRows /\ Published(w, e).cursor = e /\ Published(w, e).base = w.base
        /\ Published(w, e).held = w.held \cup {e}
    BY <1>2, <2>2, <2>4 DEF ViewRows
  <2>6. Published(w, e).held = w.base + 1 .. e BY <1>2, <2>3, <2>5
  <2>7. ViewOK(Published(w, e)) BY <1>2, <2>1, <2>5, <2>6 DEF ViewOK
  <2> QED BY <2>5, <2>7
<1> QED BY <1>3, <1>4

LEMMA PublishedPageOK ==
    ASSUME StoreOK, NEW w, ViewOK(w), NEW page, Interval(page),
           ~ \E e \in page : e > w.cursor + 1 /\ e - 1 \notin page
    PROVE  /\ ViewOK(PublishedPage(w, page)) /\ PublishedPage(w, page).base = w.base
           /\ w.held \subseteq PublishedPage(w, page).held
<1>1. Latest \in Nat /\ Latest <= MaxSeq BY Numbers
<1>2. /\ w.cursor \in Nat /\ w.base \in Nat /\ w.held = w.base + 1 .. w.cursor /\ w \in ViewRows
      /\ w.base <= w.cursor
  BY DEF ViewOK, ViewRows, Seqs
<1>3. PICK a \in 0 .. Latest, b \in 0 .. Latest : page = a + 1 .. b BY DEF Interval
<1>4. a \in Nat /\ b \in Nat BY <1>1, <1>3
<1>5. CASE \A e \in page : e <= w.cursor BY <1>5 DEF PublishedPage
<1>6. CASE ~ \A e \in page : e <= w.cursor
  <2>1. a < b /\ b > w.cursor BY <1>2, <1>3, <1>4, <1>6
  <2>2. a <= w.cursor
    <3>1. a + 1 \in page /\ a \notin page /\ (a + 1) - 1 = a BY <1>3, <1>4, <2>1
    <3>2. ~(a + 1 > w.cursor + 1) BY <3>1
    <3> QED BY <1>2, <1>4, <3>2
  <2>3. Max(page) = b BY <1>3, <1>4, <2>1, IntervalMax
  <2>4. {e \in page : e > w.cursor} = w.cursor + 1 .. b BY <1>2, <1>3, <1>4, <2>1, <2>2
  <2>5. (w.base + 1 .. w.cursor) \cup (w.cursor + 1 .. b) = w.base + 1 .. b BY <1>2, <1>4, <2>1
  <2>6. b \in Seqs /\ w.cursor + 1 .. b \in SUBSET Seqs
    BY <1>1, <1>2, <1>4, ViewerAssumption DEF Seqs
  <2>7. PublishedPage(w, page) = [w EXCEPT !.cursor = b, !.held = @ \cup (w.cursor + 1 .. b)]
    BY <1>6, <2>3, <2>4 DEF PublishedPage
  <2>8. /\ PublishedPage(w, page) \in ViewRows /\ PublishedPage(w, page).cursor = b
        /\ PublishedPage(w, page).base = w.base
        /\ PublishedPage(w, page).held = w.held \cup (w.cursor + 1 .. b)
    BY <1>2, <2>6, <2>7 DEF ViewRows
  <2>9. PublishedPage(w, page).held = w.base + 1 .. b BY <1>2, <2>5, <2>8
  <2>10. b <= Latest /\ w.base <= b BY <1>1, <1>2, <1>3, <1>4, <2>1
  <2>11. ViewOK(PublishedPage(w, page)) BY <2>8, <2>9, <2>10 DEF ViewOK
  <2> QED BY <2>8, <2>11
<1> QED BY <1>5, <1>6

LEMMA RecoveredOK ==
    ASSUME StoreOK, NEW run, AnswerOK(run)
    PROVE  /\ ViewOK(Recovered(run)) /\ Recovered(run).base = run.last
           /\ Recovered(run).cursor = run.last /\ Recovered(run).held = {}
<1>1. run.last \in Seqs /\ run.last <= Latest /\ run.last \in Nat BY DEF AnswerOK, RunAnswers, Seqs
<1>2. run.last + 1 .. run.last = {} BY <1>1
<1> QED BY <1>1, <1>2 DEF ViewOK, Recovered, ViewRows

LEMMA NoPage ==
    ASSUME StoreOK
    PROVE  Interval({}) /\ {} \in SUBSET Seqs
<1>1. 0 \in 0 .. Latest /\ 0 + 1 .. 0 = {} BY Numbers
<1> QED BY <1>1 DEF Interval

LEMMA MainAtOK ==
    ASSUME StoreOK, MainOK(main), NEW pc \in MainPcs
    PROVE  /\ MainOK(MainAt(pc)) /\ MainAt(pc).pc = pc
           /\ \A e \in Nat : e <= Latest => MainOK([MainAt(pc) EXCEPT !.pending = e])
                                         /\ [MainAt(pc) EXCEPT !.pending = e].pc = pc
           /\ \A e \in Nat : e <= Latest => MainOK([MainAt(pc) EXCEPT !.from = e])
                                         /\ [MainAt(pc) EXCEPT !.from = e].pc = pc
<1>1. AnswerOK(Unanswered) /\ Unanswered \in RunAnswers BY SnapshotOK DEF AnswerOK
<1>2. 0 \in Seqs /\ 0 <= Latest /\ Latest \in Nat /\ Latest <= MaxSeq BY Numbers
<1>3. main \in MainRows /\ main.from <= Latest BY DEF MainOK
<1>4. /\ MainAt(pc) \in MainRows /\ MainAt(pc).pc = pc /\ MainAt(pc).from = main.from
      /\ MainAt(pc).pending = 0 /\ MainAt(pc).run = Unanswered
  BY <1>1, <1>2, <1>3 DEF MainAt, MainRows
<1>5. MainOK(MainAt(pc)) BY <1>1, <1>2, <1>3, <1>4 DEF MainOK
<1>6. ASSUME NEW e \in Nat, e <= Latest
      PROVE  /\ MainOK([MainAt(pc) EXCEPT !.pending = e]) /\ [MainAt(pc) EXCEPT !.pending = e].pc = pc
             /\ MainOK([MainAt(pc) EXCEPT !.from = e]) /\ [MainAt(pc) EXCEPT !.from = e].pc = pc
  <2>1. e \in Seqs BY <1>2, <1>6, ViewerAssumption DEF Seqs
  <2> QED BY <1>1, <1>2, <1>3, <1>4, <1>6, <2>1 DEF MainOK, MainRows
<1> QED BY <1>4, <1>5, <1>6

LEMMA MainMoves ==
    ASSUME StoreOK, MainOK(main), NEW pc \in MainPcs,
           main' = MainAt(pc) \/ \E e \in Nat : e <= Latest /\ main' = [MainAt(pc) EXCEPT !.pending = e]
    PROVE  MainOK(main') /\ main'.pc = pc
<1>1. CASE main' = MainAt(pc) BY <1>1, MainAtOK
<1>2. CASE \E e \in Nat : e <= Latest /\ main' = [MainAt(pc) EXCEPT !.pending = e]
  <2>1. PICK e \in Nat : e <= Latest /\ main' = [MainAt(pc) EXCEPT !.pending = e] BY <1>2
  <2>2. MainOK([MainAt(pc) EXCEPT !.pending = e]) /\ [MainAt(pc) EXCEPT !.pending = e].pc = pc BY <2>1, MainAtOK
  <2> QED BY <2>1, <2>2
<1> QED BY <1>1, <1>2

LEMMA SyncRowsOK ==
    ASSUME StoreOK
    PROVE  /\ SyncOK(SyncOff)
           /\ \A e \in Nat : e <= Latest => SyncOK([SyncOff EXCEPT !.pc = "asked", !.from = e])
           /\ SyncOK([SyncOff EXCEPT !.pc = "recover"])
           /\ \A page \in SUBSET Seqs : Interval(page) => SyncOK([SyncOff EXCEPT !.pc = "page", !.page = page])
<1>1. AnswerOK(Unanswered) /\ Unanswered \in RunAnswers BY SnapshotOK DEF AnswerOK
<1>2. 0 \in Seqs /\ 0 <= Latest /\ Latest \in Nat /\ Latest <= MaxSeq BY Numbers
<1>3. \A e \in Nat : e <= Latest => e \in Seqs BY <1>2, ViewerAssumption DEF Seqs
<1>4. SyncOff \in SyncRows BY <1>1, <1>2, NoPage DEF SyncOff, SyncRows
<1>5. SyncOK(SyncOff) BY <1>1, <1>2, <1>4, NoPage DEF SyncOK, SyncOff
<1>6. \A e \in Nat : e <= Latest => SyncOK([SyncOff EXCEPT !.pc = "asked", !.from = e])
  BY <1>1, <1>2, <1>3, <1>4, NoPage DEF SyncOK, SyncOff, SyncRows
<1>7. SyncOK([SyncOff EXCEPT !.pc = "recover"])
  BY <1>1, <1>2, <1>4, NoPage DEF SyncOK, SyncOff, SyncRows
<1>8. \A page \in SUBSET Seqs : Interval(page) => SyncOK([SyncOff EXCEPT !.pc = "page", !.page = page])
  BY <1>1, <1>2, <1>4 DEF SyncOK, SyncOff, SyncRows
<1> QED BY <1>5, <1>6, <1>7, <1>8

LEMMA ConnRowsOK ==
    ASSUME StoreOK
    PROVE  /\ ConnOK(NoStream)
           /\ \A message \in LastMessages : ConnOK(Ending(message))
           /\ \A e \in Nat : e <= Latest => ConnOK([NoStream EXCEPT !.pc = "run", !.cursor = e])
<1>1. AnswerOK(Unanswered) /\ Unanswered \in RunAnswers BY SnapshotOK DEF AnswerOK
<1>2. 0 \in Seqs /\ 0 <= Latest /\ Latest \in Nat /\ Latest <= MaxSeq BY Numbers
<1>3. \A e \in Nat : e <= Latest => e \in Seqs BY <1>2, ViewerAssumption DEF Seqs
<1>4. ConnOK(NoStream) BY <1>1, <1>2 DEF NoStream, ConnRows, ConnOK
<1>5. \A message \in LastMessages : ConnOK(Ending(message))
  BY <1>1, <1>2 DEF NoStream, Ending, ConnRows, ConnOK, LastMessages
<1>6. \A e \in Nat : e <= Latest => ConnOK([NoStream EXCEPT !.pc = "run", !.cursor = e])
  BY <1>1, <1>2, <1>3 DEF NoStream, ConnRows, ConnOK
<1> QED BY <1>4, <1>5, <1>6

LEMMA NoWire ==
    ASSUME StoreOK, wire' = <<>>
    PROVE  WireOK'
<1>1. DOMAIN <<>> = {} OBVIOUS
<1> QED BY <1>1 DEF WireOK

-----------------------------------------------------------------------------
(* What a step may be for the viewer. *)

\* The store grows or stays, and what is said of it stays true.
StoreGrows ==
    /\ StoreOK' /\ Latest' \in Nat /\ Latest <= Latest'
    /\ Terminal(Watched) => Terminal(Watched)'

Following == (main.pc = "done") = (main'.pc = "done")

LEMMA StoreStays ==
    ASSUME EventsIInv, UNCHANGED store
    PROVE  StoreGrows /\ StoreOK' /\ Latest' = Latest /\ Terminal(Watched)' = Terminal(Watched)
<1>1. StoreOK /\ Latest \in Nat BY Numbers DEF EventsIInv
<1>2. StoreOK' BY <1>1 DEF store, StoreOK, HistoriesAreSuffixes, Terminal
<1> QED BY <1>1, <1>2 DEF StoreGrows, store, Latest, Terminal

LEMMA KeptAnswer ==
    ASSUME StoreGrows, Latest \in Nat, NEW run, AnswerOK(run)
    PROVE  AnswerOK(run)'
<1>1. run.last \in Nat BY DEF AnswerOK, RunAnswers, Seqs
<1> QED BY <1>1 DEF StoreGrows, AnswerOK

\* What a request, a page or a stream brought is no newer than the run.
LEMMA KeptRecords ==
    ASSUME EventsIInv, StoreGrows
    PROVE  /\ UNCHANGED view => ViewOK(view)'
           /\ UNCHANGED main => MainOK(main)'
           /\ UNCHANGED sync => SyncOK(sync)'
           /\ UNCHANGED conn => ConnOK(conn)'
           /\ UNCHANGED wire => WireOK'
<1>1. Latest \in Nat /\ Latest' \in Nat /\ Latest <= Latest' BY Numbers DEF EventsIInv, StoreGrows
<1>2. ASSUME UNCHANGED view PROVE ViewOK(view)'
  BY <1>1, <1>2 DEF EventsIInv, ViewOK, ViewRows, Seqs
<1>3. ASSUME UNCHANGED main PROVE MainOK(main)'
  <2>1. AnswerOK(main.run)' BY <1>1, <1>3, KeptAnswer DEF EventsIInv, MainOK
  <2> QED BY <1>1, <1>3, <2>1 DEF EventsIInv, MainOK, MainRows, Seqs
<1>4. ASSUME UNCHANGED sync PROVE SyncOK(sync)'
  <2>1. AnswerOK(sync.run)' BY <1>1, <1>4, KeptAnswer DEF EventsIInv, SyncOK
  <2>2. 0 .. Latest \subseteq 0 .. Latest' BY <1>1
  <2>3. Interval(sync.page)' BY <1>4, <2>2 DEF EventsIInv, SyncOK, Interval
  <2> QED BY <1>1, <1>4, <2>1, <2>3 DEF EventsIInv, SyncOK, SyncRows, Seqs
<1>5. ASSUME UNCHANGED conn PROVE ConnOK(conn)'
  <2>1. AnswerOK(conn.run)' BY <1>1, <1>5, KeptAnswer DEF EventsIInv, ConnOK
  <2> QED BY <1>1, <1>5, <2>1 DEF EventsIInv, ConnOK, ConnRows, Seqs
<1>6. ASSUME UNCHANGED wire PROVE WireOK'
  <2>1. \A i \in DOMAIN wire : wire[i] \in Nat BY DEF EventsIInv, WireOK
  <2> QED BY <1>1, <1>6, <2>1 DEF EventsIInv, WireOK
<1> QED BY <1>2, <1>3, <1>4, <1>5, <1>6

-----------------------------------------------------------------------------
(* The steps of the viewer and of the server, which leave the store alone. *)

LEMMA Records ==
    ASSUME EventsIInv, UNCHANGED store, ViewOK(view'), MainOK(main'), SyncOK(sync'), ConnOK(conn'), WireOK'
    PROVE  EventsIInv'
<1>1. StoreOK' /\ Latest' = Latest /\ Terminal(Watched)' = Terminal(Watched) BY StoreStays
<1>2. ViewOK(view)' BY <1>1 DEF ViewOK
<1>3. MainOK(main)' BY <1>1 DEF MainOK, AnswerOK
<1>4. SyncOK(sync)' BY <1>1 DEF SyncOK, AnswerOK, Interval
<1>5. ConnOK(conn)' BY <1>1 DEF ConnOK, AnswerOK
<1> QED BY <1>1, <1>2, <1>3, <1>4, <1>5 DEF EventsIInv

FeedStep == [Feed!Grow \/ Feed!Show \/ Feed!StartOver \/ Feed!Leave]_Feed!feed

LEMMA ShowStep ==
    ASSUME EventsIInv, UNCHANGED store, ViewOK(view'), Following,
           view'.base = view.base, view.held \subseteq view'.held
    PROVE  FeedStep
<1>1. Latest' = Latest /\ Terminal(Watched)' = Terminal(Watched) /\ Latest \in Nat
  BY StoreStays, Numbers DEF EventsIInv
<1>2. /\ view'.cursor \in Nat /\ view'.base \in Nat /\ view'.base <= view'.cursor
      /\ view'.cursor <= Latest /\ view'.held = view'.base + 1 .. view'.cursor
  BY DEF ViewOK, ViewRows, Seqs
<1>3. view'.cursor \in view.base .. Latest BY <1>1, <1>2
<1>4. \E n \in view.base .. Latest : view'.held = view.base + 1 .. n BY <1>2, <1>3
<1>5. Feed!Show BY <1>1, <1>4 DEF Feed!Show, Following, Latest
<1> QED BY <1>5 DEF FeedStep

LEMMA RestartStep ==
    ASSUME EventsIInv, UNCHANGED store, ViewOK(view'), Following
    PROVE  FeedStep
<1>1. Latest' = Latest /\ Terminal(Watched)' = Terminal(Watched) /\ Latest \in Nat
  BY StoreStays, Numbers DEF EventsIInv
<1>2. /\ view'.cursor \in Nat /\ view'.base \in Nat /\ view'.base <= view'.cursor
      /\ view'.cursor <= Latest /\ view'.held = view'.base + 1 .. view'.cursor
  BY DEF ViewOK, ViewRows, Seqs
<1>3. view'.base \in 0 .. Latest /\ view'.cursor \in view'.base .. Latest BY <1>1, <1>2
<1>4. \E n \in view'.base .. Latest : view'.held = view'.base + 1 .. n BY <1>2, <1>3
<1>5. view'.base \in 0 .. lastSeq[Watched] BY <1>3 DEF Latest
<1>6. \E n \in view'.base .. lastSeq[Watched] : view'.held = view'.base + 1 .. n BY <1>4 DEF Latest
<1>7. UNCHANGED <<lastSeq[Watched], Terminal(Watched), main.pc = "done">> BY <1>1 DEF Following, Latest
<1>8. Feed!StartOver BY <1>5, <1>6, <1>7 DEF Feed!StartOver
<1> QED BY <1>8 DEF FeedStep

LEMMA Standing ==
    ASSUME EventsIInv, UNCHANGED <<store, view>>, Following
    PROVE  ViewOK(view') /\ FeedStep
<1>1. ViewOK(view') /\ view'.base = view.base /\ view.held \subseteq view'.held BY DEF EventsIInv
<1>2. UNCHANGED store OBVIOUS
<1> QED BY <1>1, <1>2, ShowStep

\* What stays is what it was.
LEMMA RecordsNow ==
    ASSUME EventsIInv, UNCHANGED store
    PROVE  /\ StoreOK /\ ViewOK(view) /\ MainOK(main) /\ SyncOK(sync) /\ ConnOK(conn)
           /\ Latest \in Nat /\ Latest <= MaxSeq /\ main.pc \in MainPcs
           /\ view.cursor \in Nat /\ view.cursor <= Latest
           /\ main.pending \in Nat /\ main.pending <= Latest /\ main.from \in Nat /\ main.from <= Latest
           /\ AnswerOK(main.run) /\ AnswerOK(sync.run) /\ sync.from \in Nat /\ sync.from <= Latest
           /\ Interval(sync.page) /\ conn.cursor \in Nat /\ conn.cursor <= Latest
           /\ (UNCHANGED wire => WireOK') /\ (wire' = <<>> => WireOK')
<1>1. StoreOK /\ ViewOK(view) /\ MainOK(main) /\ SyncOK(sync) /\ ConnOK(conn) BY DEF EventsIInv
<1>2. Latest \in Nat /\ Latest <= MaxSeq BY <1>1, Numbers
<1>3. main.pc \in MainPcs /\ main.pending \in Nat /\ main.from \in Nat
  BY <1>1 DEF MainOK, MainRows, Seqs
<1>4. sync.from \in Nat /\ conn.cursor \in Nat /\ view.cursor \in Nat
  BY <1>1 DEF SyncOK, SyncRows, ConnOK, ConnRows, ViewOK, ViewRows, Seqs
<1>5. StoreGrows /\ (UNCHANGED wire => WireOK') BY StoreStays, KeptRecords
<1>6. wire' = <<>> => WireOK' BY <1>1, NoWire
<1> QED BY <1>1, <1>2, <1>3, <1>4, <1>5, <1>6 DEF ViewOK, MainOK, SyncOK, ConnOK

LEMMA AskingOK ==
    ASSUME EventsIInv, UNCHANGED store
    PROVE  SyncOK(Asking)
<1>1. CASE sync.pc = "off" BY <1>1, RecordsNow, SyncRowsOK DEF Asking
<1>2. CASE sync.pc # "off" BY <1>2, RecordsNow DEF Asking
<1> QED BY <1>1, <1>2

\* syncPages ends with a view that is sound, and so those who waited leave it.
LEMMA SyncEndsOK ==
    ASSUME EventsIInv, UNCHANGED store, NEW w, ViewOK(w), SyncEnds(w)
    PROVE  /\ SyncOK(sync') /\ MainOK(main') /\ ViewOK(view') /\ Following
           /\ view'.base = w.base /\ w.held \subseteq view'.held
<1>1. StoreOK /\ MainOK(main) /\ Latest \in Nat /\ main.pending \in Nat /\ main.pending <= Latest
  BY RecordsNow
<1>2. SyncOK(sync') BY <1>1, SyncRowsOK DEF SyncEnds
<1>3. w.cursor \in Nat /\ w.cursor <= Latest BY DEF ViewOK, ViewRows, Seqs
<1>4. {"connect", "gap recover", "reading"} \subseteq MainPcs BY DEF MainPcs
<1>5. CASE main.pc = "sync" /\ main' = Connecting(w) /\ view' = w
  <2>1. MainOK(main') /\ main'.pc = "connect" BY <1>1, <1>3, <1>4, <1>5, MainAtOK DEF Connecting
  <2> QED BY <1>2, <1>5, <2>1 DEF Following
<1>6. CASE main.pc = "gap" /\ main' = MainAt("gap recover") /\ view' = w
  <2>1. MainOK(main') /\ main'.pc = "gap recover" BY <1>1, <1>4, <1>6, MainAtOK
  <2> QED BY <1>2, <1>6, <2>1 DEF Following
<1>7. CASE /\ main.pc = "gap" /\ main.pending <= w.cursor + 1
           /\ main' = MainAt("reading") /\ view' = Published(w, main.pending)
  <2>1. MainOK(main') /\ main'.pc = "reading" BY <1>1, <1>4, <1>7, MainAtOK
  <2>2. ViewOK(view') /\ view'.base = w.base /\ w.held \subseteq view'.held
    BY <1>1, <1>7, PublishedOK
  <2> QED BY <1>2, <1>7, <2>1, <2>2 DEF Following
<1>8. CASE main.pc \notin {"sync", "gap"} /\ UNCHANGED main /\ view' = w
  BY <1>1, <1>2, <1>8 DEF Following
<1> QED BY <1>5, <1>6, <1>7, <1>8 DEF SyncEnds

LEMMA RefreshStep ==
    ASSUME EventsIInv, Refresh
    PROVE  EventsIInv' /\ FeedStep
<1>1. UNCHANGED <<store, view>> /\ UNCHANGED <<main, conn, wire>> /\ sync' = Asking
  BY DEF Refresh, server
<1>2. SyncOK(sync') BY <1>1, AskingOK
<1>3. ViewOK(view') /\ FeedStep BY <1>1, Standing DEF Following
<1> QED BY <1>1, <1>2, <1>3, RecordsNow, Records

LEMMA AnswerPageStep ==
    ASSUME EventsIInv, AnswerPage
    PROVE  EventsIInv' /\ FeedStep
<1>1. UNCHANGED <<store, view>> /\ UNCHANGED <<main, conn, wire>>
  BY DEF AnswerPage, server
<1>2. StoreOK /\ sync.from \in Nat /\ sync.from <= Latest /\ Latest \in Nat /\ Latest <= MaxSeq
  BY <1>1, RecordsNow
<1>3. CASE Expired(sync.from)
  <2>1. SyncOK(sync') BY <1>2, <1>3, SyncRowsOK DEF AnswerPage
  <2> QED BY <1>1, <2>1, RecordsNow, Records, Standing DEF Following
<1>4. CASE ~Expired(sync.from)
  <2>1. PICK b \in Nat : sync.from <= b /\ b <= Latest /\ Page(sync.from) = sync.from + 1 .. b
    BY <1>2, <1>4, PageFollows
  <2>2. sync.from \in 0 .. Latest /\ b \in 0 .. Latest BY <1>2, <2>1
  <2>3. Interval(Page(sync.from)) BY <2>1, <2>2 DEF Interval
  <2>4. Page(sync.from) \in SUBSET Seqs BY <1>2, <2>1, ViewerAssumption DEF Seqs
  <2>5. SyncOK(sync') BY <1>2, <1>4, <2>3, <2>4, SyncRowsOK DEF AnswerPage
  <2> QED BY <1>1, <2>5, RecordsNow, Records, Standing DEF Following
<1> QED BY <1>3, <1>4

LEMMA GotPageStep ==
    ASSUME EventsIInv, GotPage
    PROVE  EventsIInv' /\ FeedStep
<1> DEFINE w == PublishedPage(view, sync.page)
           Hole == \E e \in sync.page : e > view.cursor + 1 /\ e - 1 \notin sync.page
<1>1. UNCHANGED store /\ UNCHANGED <<conn, wire>> BY DEF GotPage, server
<1>2. /\ StoreOK /\ ViewOK(view) /\ MainOK(main) /\ Interval(sync.page) /\ Latest \in Nat
  BY <1>1, RecordsNow
<1>3. CASE Hole
  <2>1. sync' = [SyncOff EXCEPT !.pc = "recover"] /\ UNCHANGED <<view, main>> BY <1>3 DEF GotPage
  <2>2. SyncOK(sync') BY <1>2, <2>1, SyncRowsOK
  <2> QED BY <1>1, <2>1, <2>2, RecordsNow, Records, Standing DEF Following
<1>4. CASE ~Hole
  <2>1. ViewOK(w) /\ w.base = view.base /\ view.held \subseteq w.held BY <1>2, <1>4, PublishedPageOK
  <2> HIDE DEF w
  <2>2. CASE SyncEnds(w)
    <3>1. /\ SyncOK(sync') /\ MainOK(main') /\ ViewOK(view') /\ Following
          /\ view'.base = w.base /\ w.held \subseteq view'.held
      BY <1>1, <2>1, <2>2, SyncEndsOK
    <3>2. FeedStep BY <1>1, <2>1, <3>1, ShowStep
    <3> QED BY <1>1, <3>1, <3>2, RecordsNow, Records
  <2>3. CASE sync' = [SyncOff EXCEPT !.pc = "asked", !.from = w.cursor] /\ view' = w /\ UNCHANGED main
    <3>1. w.cursor \in Nat /\ w.cursor <= Latest BY <2>1 DEF ViewOK, ViewRows, Seqs
    <3>2. SyncOK(sync') BY <1>2, <2>3, <3>1, SyncRowsOK
    <3>3. FeedStep BY <1>1, <2>1, <2>3, ShowStep DEF Following
    <3> QED BY <1>1, <1>2, <2>1, <2>3, <3>2, <3>3, RecordsNow, Records
  <2>4. CASE Cardinality(sync.page) < PageSize
    <3>1. SyncEnds(w) BY <1>4, <2>4 DEF GotPage, w
    <3> QED BY <3>1, <2>2
  <2>5. CASE ~(Cardinality(sync.page) < PageSize)
    <3>1. sync' = [SyncOff EXCEPT !.pc = "asked", !.from = w.cursor] /\ view' = w /\ UNCHANGED main
      BY <1>4, <2>5 DEF GotPage, w
    <3> QED BY <3>1, <2>3
  <2> QED BY <2>4, <2>5
<1> QED BY <1>3, <1>4

LEMMA RecoverySteps ==
    ASSUME EventsIInv, AnswerRunToSync \/ GotRunForSync
    PROVE  EventsIInv' /\ FeedStep
<1>1. CASE AnswerRunToSync
  <2>1. UNCHANGED <<store, view>> /\ UNCHANGED <<main, conn, wire>> /\ sync' = [sync EXCEPT !.pc = "run", !.run = Snapshot]
    BY <1>1 DEF AnswerRunToSync, server
  <2>2. SyncOK(sync) /\ AnswerOK(Snapshot) BY <2>1, RecordsNow, SnapshotOK
  <2>3. SyncOK(sync') BY <2>1, <2>2 DEF SyncOK, SyncRows, AnswerOK
  <2> QED BY <2>1, <2>3, RecordsNow, Records, Standing DEF Following
<1>2. CASE GotRunForSync
  <2>1. UNCHANGED store /\ UNCHANGED <<conn, wire>> /\ SyncEnds(Recovered(sync.run))
    BY <1>2 DEF GotRunForSync, server
  <2>2. ViewOK(Recovered(sync.run)) BY <2>1, RecordsNow, RecoveredOK
  <2>3. SyncOK(sync') /\ MainOK(main') /\ ViewOK(view') /\ Following BY <2>1, <2>2, SyncEndsOK
  <2>4. FeedStep BY <2>1, <2>3, RestartStep
  <2> QED BY <2>1, <2>3, <2>4, RecordsNow, Records
<1> QED BY <1>1, <1>2

LEMMA SyncFailsStep ==
    ASSUME EventsIInv, SyncFails
    PROVE  EventsIInv' /\ FeedStep
<1>1. UNCHANGED <<store, view>> /\ sync' = SyncOff BY DEF SyncFails
<1>2. StoreOK /\ MainOK(main) /\ ConnOK(conn) BY <1>1, RecordsNow
<1>3. SyncOK(sync') /\ ViewOK(view') BY <1>1, <1>2, SyncRowsOK DEF EventsIInv
<1>4. CASE main.pc \in {"sync", "gap"}
  <2>1. main' = MainAt("waiting") /\ conn' = NoStream /\ wire' = <<>> BY <1>4 DEF SyncFails
  <2>2. MainOK(main') /\ main'.pc = "waiting" /\ ConnOK(conn') /\ WireOK'
    BY <1>1, <1>2, <2>1, MainAtOK, ConnRowsOK, NoWire DEF MainPcs
  <2>3. Following BY <1>4, <2>2 DEF Following
  <2>4. FeedStep BY <1>1, <2>3, Standing
  <2> QED BY <1>1, <1>3, <2>2, <2>4, Records
<1>5. CASE main.pc \notin {"sync", "gap"}
  <2>1. UNCHANGED <<main, conn, wire>> BY <1>5 DEF SyncFails, server
  <2> QED BY <1>1, <1>3, <2>1, RecordsNow, Records, Standing DEF Following
<1> QED BY <1>4, <1>5

\* The loop starts again with pages, and opens the stream where they end.
LEMMA ConnectSteps ==
    ASSUME EventsIInv, Reconnect \/ Connect
    PROVE  EventsIInv' /\ FeedStep
<1>1. UNCHANGED <<store, view>> /\ UNCHANGED wire BY DEF Reconnect, Connect, server
<1>2. StoreOK /\ MainOK(main) /\ main.from \in Nat /\ main.from <= Latest BY <1>1, RecordsNow
<1>3. CASE Reconnect
  <2>1. main.pc = "waiting" /\ main' = MainAt("sync") /\ sync' = Asking /\ UNCHANGED conn
    BY <1>3 DEF Reconnect, server
  <2>2. MainOK(main') /\ main'.pc = "sync" BY <1>2, <2>1, MainAtOK DEF MainPcs
  <2>3. SyncOK(sync') BY <1>1, <2>1, AskingOK
  <2>4. FeedStep BY <1>1, <2>1, <2>2, Standing DEF Following
  <2> QED BY <1>1, <2>1, <2>2, <2>3, <2>4, RecordsNow, Records
<1>4. CASE Connect
  <2>1. main.pc = "connect" /\ UNCHANGED sync
        /\ \/ main' = MainAt("recover") /\ UNCHANGED conn
           \/ main' = MainAt("reading") /\ conn' = [NoStream EXCEPT !.pc = "run", !.cursor = main.from]
    BY <1>4 DEF Connect
  <2>a. PICK pc \in {"recover", "reading"} : main' = MainAt(pc) BY <2>1
  <2>b. pc \in MainPcs BY DEF MainPcs
  <2>2. MainOK(main') /\ main'.pc # "done" BY <1>2, <2>a, <2>b, MainMoves
  <2>3. ConnOK(conn') BY <1>1, <1>2, <2>1, RecordsNow, ConnRowsOK
  <2>4. FeedStep BY <1>1, <2>1, <2>2, Standing DEF Following
  <2> QED BY <1>1, <2>1, <2>2, <2>3, <2>4, RecordsNow, Records
<1> QED BY <1>3, <1>4

LEMMA HandleStep ==
    ASSUME EventsIInv, HandleStreamEvent
    PROVE  EventsIInv' /\ FeedStep
<1> DEFINE e == Head(wire)
<1>1. /\ UNCHANGED store /\ UNCHANGED conn /\ main.pc = "reading" /\ wire # <<>> /\ wire' = Tail(wire)
      /\ \/ /\ main' = [MainAt("gap") EXCEPT !.pending = e]
            /\ sync' = Asking /\ UNCHANGED view
         \/ /\ ~(e > view.cursor + 1)
            /\ view' = Published(view, e) /\ UNCHANGED <<main, sync>>
  BY DEF HandleStreamEvent
<1>2. StoreOK /\ MainOK(main) /\ ViewOK(view) /\ view.cursor \in Nat /\ Latest \in Nat BY <1>1, RecordsNow
<1>3. wire \in Seq(Nat) /\ \A i \in DOMAIN wire : wire[i] <= Latest BY DEF EventsIInv, WireOK
<1>4. e \in Nat /\ e <= Latest
  <2>1. 1 \in DOMAIN wire /\ e = wire[1] BY <1>1, <1>3
  <2> QED BY <2>1, <1>3
<1>5. WireOK'
  <2>1. wire' \in Seq(Nat) /\ \A i \in DOMAIN wire' : i + 1 \in DOMAIN wire /\ wire'[i] = wire[i + 1]
    BY <1>1, <1>3
  <2>2. Latest' = Latest BY <1>1, StoreStays
  <2> QED BY <1>3, <2>1, <2>2 DEF WireOK
<1> HIDE DEF e
<1>6. CASE main' = [MainAt("gap") EXCEPT !.pending = e] /\ sync' = Asking /\ UNCHANGED view
  <2>a. "gap" \in MainPcs BY DEF MainPcs
  <2>1. MainOK(main') /\ main'.pc = "gap" BY <1>2, <1>4, <1>6, <2>a, MainMoves
  <2>2. SyncOK(sync') BY <1>1, <1>6, AskingOK
  <2>3. FeedStep BY <1>1, <1>6, <2>1, Standing DEF Following
  <2> QED BY <1>1, <1>2, <1>5, <1>6, <2>1, <2>2, <2>3, RecordsNow, Records
<1>7. CASE ~(e > view.cursor + 1) /\ view' = Published(view, e) /\ UNCHANGED <<main, sync>>
  <2>1. e <= view.cursor + 1 BY <1>2, <1>4, <1>7
  <2>2. ViewOK(view') /\ view'.base = view.base /\ view.held \subseteq view'.held
    BY <1>2, <1>4, <1>7, <2>1, PublishedOK
  <2>3. FeedStep BY <1>1, <1>7, <2>2, ShowStep DEF Following
  <2> QED BY <1>1, <1>2, <1>5, <1>7, <2>2, <2>3, RecordsNow, Records
<1> QED BY <1>1, <1>6, <1>7

LEMMA EndSteps ==
    ASSUME EventsIInv, StreamEnds \/ AnswerRun \/ MainFails
    PROVE  EventsIInv' /\ FeedStep
<1>1. UNCHANGED <<store, view>> /\ UNCHANGED sync BY DEF StreamEnds, AnswerRun, MainFails
<1>2. StoreOK /\ MainOK(main) BY <1>1, RecordsNow
<1>3. CASE StreamEnds
  <2>1. main.pc = "reading" /\ conn' = NoStream /\ UNCHANGED wire BY <1>3 DEF StreamEnds
  <2>2. PICK pc \in {"recover", "waiting", "ended"} : main' = MainAt(pc) BY <1>3 DEF StreamEnds, LastMessages
  <2>a. pc \in MainPcs BY DEF MainPcs
  <2>3. MainOK(main') /\ main'.pc # "done" BY <1>2, <2>2, <2>a, MainMoves
  <2>4. ConnOK(conn') BY <1>2, <2>1, ConnRowsOK
  <2>5. FeedStep BY <1>1, <2>1, <2>3, Standing DEF Following
  <2> QED BY <1>1, <2>1, <2>3, <2>4, <2>5, RecordsNow, Records
<1>4. CASE AnswerRun
  <2>1. /\ main.pc \in {"recover", "gap recover", "ended"} /\ UNCHANGED <<conn, wire>>
        /\ \E pc \in {"ended run", "recover run", "gap run"} : main' = [main EXCEPT !.run = Snapshot, !.pc = pc]
    BY <1>4 DEF AnswerRun, server
  <2>2. AnswerOK(Snapshot) BY <1>2, SnapshotOK
  <2>3. PICK pc \in {"ended run", "recover run", "gap run"} : main' = [main EXCEPT !.run = Snapshot, !.pc = pc]
    BY <2>1
  <2>4. pc \in MainPcs BY DEF MainPcs
  <2>5. MainOK(main') /\ main'.pc = pc BY <1>2, <2>2, <2>3, <2>4 DEF MainOK, MainRows, AnswerOK
  <2>6. FeedStep BY <1>1, <2>1, <2>5, Standing DEF Following
  <2> QED BY <1>1, <2>1, <2>5, <2>6, RecordsNow, Records
<1>5. CASE MainFails
  <2>1. /\ main.pc # "done" /\ main' = MainAt("waiting") /\ conn' = NoStream /\ wire' = <<>>
    BY <1>5 DEF MainFails
  <2>2. MainOK(main') /\ main'.pc = "waiting" BY <1>2, <2>1, MainAtOK DEF MainPcs
  <2>3. ConnOK(conn') BY <1>2, <2>1, ConnRowsOK
  <2>4. FeedStep BY <1>1, <2>1, <2>2, Standing DEF Following
  <2> QED BY <1>1, <2>1, <2>2, <2>3, <2>4, RecordsNow, Records
<1> QED BY <1>3, <1>4, <1>5

\* The snapshot of a run: the last of a viewer, or the start of another view.
LEMMA GotRunStep ==
    ASSUME EventsIInv, GotRun
    PROVE  EventsIInv' /\ FeedStep
<1>1. UNCHANGED store /\ UNCHANGED <<sync, conn, wire>> BY DEF GotRun, server
<1>2. StoreOK /\ ViewOK(view) /\ MainOK(main) /\ AnswerOK(main.run) BY <1>1, RecordsNow
<1>3. CASE main.pc = "ended run"
  <2>1. UNCHANGED view /\ main' = MainAt(IF main.run.terminal THEN "done" ELSE "waiting")
    BY <1>3 DEF GotRun
  <2>2. CASE main.run.terminal
    <3>1. MainOK(main') /\ main'.pc = "done" BY <1>2, <2>1, <2>2, MainAtOK DEF MainPcs
    <3>2. Terminal(Watched) BY <1>2, <2>2 DEF AnswerOK
    <3>3. Latest' = Latest /\ Terminal(Watched)' = Terminal(Watched) BY <1>1, StoreStays
    <3>4. Feed!Leave BY <1>3, <2>1, <3>1, <3>2, <3>3 DEF Feed!Leave, Latest
    <3>5. FeedStep BY <3>4 DEF FeedStep
    <3> QED BY <1>1, <1>2, <2>1, <3>1, <3>5, RecordsNow, Records
  <2>3. CASE ~main.run.terminal
    <3>1. MainOK(main') /\ main'.pc = "waiting" BY <1>2, <2>1, <2>3, MainAtOK DEF MainPcs
    <3>2. FeedStep BY <1>1, <1>3, <2>1, <3>1, Standing DEF Following
    <3> QED BY <1>1, <1>2, <2>1, <3>1, <3>2, RecordsNow, Records
  <2> QED BY <2>2, <2>3
<1>4. CASE main.pc \in {"recover run", "gap run"}
  <2>1. view' = Recovered(main.run) /\ \E pc \in {"waiting", "reading"} : main' = MainAt(pc)
    BY <1>4 DEF GotRun
  <2>a. PICK pc \in {"waiting", "reading"} : main' = MainAt(pc) BY <2>1
  <2>b. pc \in MainPcs BY DEF MainPcs
  <2>2. MainOK(main') /\ main'.pc # "done" BY <1>2, <2>a, <2>b, MainMoves
  <2>3. ViewOK(view') BY <1>2, <2>1, RecoveredOK
  <2>4. FeedStep BY <1>1, <1>4, <2>2, <2>3, RestartStep DEF Following
  <2> QED BY <1>1, <2>2, <2>3, <2>4, RecordsNow, Records
<1> QED BY <1>3, <1>4 DEF GotRun

\* The server sends pages that follow what it sent, or an end.
LEMMA ServerSteps ==
    ASSUME EventsIInv, StreamReadsRun \/ StreamReadsPage \/ StreamGivesUp
    PROVE  EventsIInv' /\ FeedStep
<1>1. UNCHANGED <<store, view>> /\ UNCHANGED <<main, sync>>
  BY DEF StreamReadsRun, StreamReadsPage, StreamGivesUp
<1>2. StoreOK /\ ConnOK(conn) /\ conn.cursor \in Nat /\ conn.cursor <= Latest /\ Latest \in Nat /\ Latest <= MaxSeq
  BY <1>1, RecordsNow
<1>3. ViewOK(view') /\ FeedStep BY <1>1, Standing DEF Following
<1>4. MainOK(main') /\ SyncOK(sync') BY <1>1, RecordsNow
<1>5. SUFFICES ConnOK(conn') /\ WireOK' BY <1>1, <1>3, <1>4, Records
<1>6. CASE StreamReadsRun
  <2>1. conn' = [conn EXCEPT !.pc = "page", !.run = Snapshot] /\ UNCHANGED wire BY <1>6 DEF StreamReadsRun
  <2>2. AnswerOK(Snapshot) BY <1>2, SnapshotOK
  <2>3. ConnOK(conn') BY <1>2, <2>1, <2>2 DEF ConnOK, ConnRows, AnswerOK
  <2> QED BY <1>1, <2>1, <2>3, RecordsNow
<1>7. CASE \E message \in LastMessages : conn' = Ending(message) /\ UNCHANGED wire
  BY <1>1, <1>2, <1>7, ConnRowsOK, RecordsNow
<1>8. CASE StreamGivesUp
  <2>1. \E message \in LastMessages : conn' = Ending(message) /\ UNCHANGED wire
    BY <1>8 DEF StreamGivesUp, LastMessages
  <2> QED BY <1>7, <2>1
<1>9. CASE StreamReadsPage
  <2> DEFINE page == Page(conn.cursor)
             upto == conn.cursor + Cardinality(page)
  <2>1. CASE conn' = Ending("events_expired") /\ UNCHANGED wire BY <1>7, <2>1 DEF LastMessages
  <2>2. CASE conn' = Ending("end") /\ UNCHANGED wire BY <1>7, <2>2 DEF LastMessages
  <2>3. CASE ~Expired(conn.cursor) /\ wire' = wire \o InOrder(page) /\ conn' = [conn EXCEPT !.pc = "run", !.cursor = upto]
    <3>1. PICK b \in Nat : conn.cursor <= b /\ b <= Latest /\ page = conn.cursor + 1 .. b
      BY <1>2, <2>3, PageFollows
    <3>2. /\ Cardinality(page) = b - conn.cursor /\ InOrder(page) \in Seq(Nat)
          /\ \A i \in DOMAIN InOrder(page) : InOrder(page)[i] \in page
      BY <1>2, <3>1, InOrderOfPage
    <3> DEFINE more == InOrder(page)
    <3>3. wire \in Seq(Nat) /\ \A i \in DOMAIN wire : wire[i] <= Latest BY DEF EventsIInv, WireOK
    <3>4. \A i \in DOMAIN more : more[i] <= Latest BY <1>2, <3>1, <3>2
    <3>5. upto = b /\ b \in Seqs BY <1>2, <3>1, <3>2, ViewerAssumption DEF Seqs
    <3>6. wire' = wire \o more /\ more \in Seq(Nat) BY <2>3, <3>2
    <3> HIDE DEF more, page, upto
    <3>7. ConnOK(conn') BY <1>2, <2>3, <3>1, <3>5 DEF ConnOK, ConnRows, AnswerOK
    <3>8. /\ wire' \in Seq(Nat) /\ Len(wire') = Len(wire) + Len(more)
          /\ \A i \in 1 .. Len(wire) + Len(more) : wire'[i] = IF i <= Len(wire) THEN wire[i] ELSE more[i - Len(wire)]
      BY <3>3, <3>6, ConcatProperties
    <3>9. ASSUME NEW i \in DOMAIN wire' PROVE wire'[i] <= Latest
      <4>1. i \in 1 .. Len(wire) + Len(more) /\ Len(wire) \in Nat /\ Len(more) \in Nat BY <3>3, <3>6, <3>8
      <4>2. CASE i <= Len(wire)
        <5>1. i \in DOMAIN wire BY <3>3, <4>1, <4>2
        <5> QED BY <3>3, <3>8, <4>1, <4>2, <5>1
      <4>3. CASE ~(i <= Len(wire))
        <5>1. i - Len(wire) \in 1 .. Len(more) BY <4>1, <4>3
        <5>2. i - Len(wire) \in DOMAIN more BY <3>6, <5>1
        <5> QED BY <3>4, <3>8, <4>1, <4>3, <5>2
      <4> QED BY <4>2, <4>3
    <3>10. Latest' = Latest BY <1>1, StoreStays
    <3>11. WireOK' BY <3>8, <3>9, <3>10 DEF WireOK
    <3> QED BY <3>7, <3>11
  <2> QED BY <1>9, <2>1, <2>2, <2>3 DEF StreamReadsPage
<1> QED BY <1>6, <1>8, <1>9

-----------------------------------------------------------------------------
(* The steps of the store, which leave the viewer and the server alone. *)

LEMMA StoreKeepsRecords ==
    ASSUME EventsIInv, StoreGrows, UNCHANGED <<view, main, sync, server>>
    PROVE  EventsIInv'
<1>1. UNCHANGED view /\ UNCHANGED main /\ UNCHANGED sync /\ UNCHANGED conn /\ UNCHANGED wire BY DEF server
<1>2. ViewOK(view)' /\ MainOK(main)' /\ SyncOK(sync)' /\ ConnOK(conn)' /\ WireOK' BY <1>1, KeptRecords
<1> QED BY <1>2 DEF EventsIInv, StoreGrows

\* A new event follows the last one, whether the run is over or not.
LEMMA OneMoreEvent ==
    ASSUME EventsIInv, NEW r \in Runs, lastSeq[r] < MaxSeq, UNCHANGED <<view, main, sync, server>>,
           lastSeq' = [lastSeq EXCEPT ![r] = @ + 1],
           log' = [log EXCEPT ![r] = @ \cup {lastSeq[r] + 1}],
           \/ UNCHANGED finished
           \/ finished' = Append(finished, r)
    PROVE  EventsIInv' /\ FeedStep
<1> USE ViewerAssumption
<1>1. StoreOK /\ finished \in Seq(Runs) /\ lastSeq \in [Runs -> Seqs] /\ log \in [Runs -> SUBSET Nat]
  BY DEF EventsIInv, StoreOK
<1>2. \A q \in Runs : lastSeq[q] \in Nat /\ lastSeq[q] <= MaxSeq /\ log[q] \subseteq 1 .. lastSeq[q]
  BY <1>1, LogTypes
<1>3. \A q \in Runs : lastSeq'[q] = IF q = r THEN lastSeq[q] + 1 ELSE lastSeq[q] BY <1>1
<1>4. \A q \in Runs : log'[q] = IF q = r THEN log[q] \cup {lastSeq[q] + 1} ELSE log[q] BY <1>1
<1>5. lastSeq[r] + 1 \in Seqs BY <1>2 DEF Seqs
<1>6. lastSeq' \in [Runs -> Seqs] BY <1>1, <1>5
<1>7. log' \in [Runs -> SUBSET Nat] BY <1>1, <1>2
<1>8. finished' \in Seq(Runs) BY <1>1
<1>9. \A q : Terminal(q) => Terminal(q)'
  <2>1. CASE UNCHANGED finished BY <2>1 DEF Terminal
  <2>2. CASE finished' = Append(finished, r)
    <3>1. \A i \in DOMAIN finished : i \in DOMAIN finished' /\ finished'[i] = finished[i] BY <1>1, <2>2
    <3> QED BY <3>1 DEF Terminal
  <2> QED BY <2>1, <2>2
<1>10. ASSUME NEW q \in Runs
       PROVE  /\ log'[q] \subseteq 1 .. lastSeq'[q]
              /\ ~Terminal(q)' => log'[q] = 1 .. lastSeq'[q]
              /\ \A e \in log'[q] : e .. lastSeq'[q] \subseteq log'[q]
  <2>1. /\ ~Terminal(q) => log[q] = 1 .. lastSeq[q]
        /\ \A e \in log[q] : e .. lastSeq[q] \subseteq log[q]
    BY <1>1 DEF StoreOK, HistoriesAreSuffixes
  <2>2. lastSeq[q] \in Nat /\ log[q] \subseteq 1 .. lastSeq[q] BY <1>2
  <2>3. CASE q # r
    <3>1. lastSeq'[q] = lastSeq[q] /\ log'[q] = log[q] BY <1>3, <1>4, <2>3
    <3> QED BY <1>9, <2>1, <2>2, <3>1
  <2>4. CASE q = r
    <3>1. lastSeq'[q] = lastSeq[q] + 1 /\ log'[q] = log[q] \cup {lastSeq[q] + 1} BY <1>3, <1>4, <2>4
    <3>2. 1 .. lastSeq[q] + 1 = (1 .. lastSeq[q]) \cup {lastSeq[q] + 1} BY <2>2
    <3>3. log'[q] \subseteq 1 .. lastSeq'[q] BY <2>2, <3>1, <3>2
    <3>4. ~Terminal(q)' => log'[q] = 1 .. lastSeq'[q] BY <1>9, <2>1, <3>1, <3>2
    <3>5. ASSUME NEW e \in log'[q], NEW f \in e .. lastSeq'[q] PROVE f \in log'[q]
      <4>1. e \in Nat /\ f \in Nat BY <2>2, <3>1, <3>3
      <4>2. CASE f = lastSeq[q] + 1 BY <3>1, <4>2
      <4>3. CASE f # lastSeq[q] + 1
        <5>1. f <= lastSeq[q] /\ e <= f BY <2>2, <3>1, <4>1, <4>3
        <5>2. e \in log[q] BY <2>2, <3>1, <4>1, <5>1
        <5>3. f \in e .. lastSeq[q] BY <2>2, <4>1, <5>1
        <5> QED BY <2>1, <3>1, <5>2, <5>3
      <4> QED BY <4>2, <4>3
    <3> QED BY <3>3, <3>4, <3>5
  <2> QED BY <2>3, <2>4
<1>11. StoreOK' BY <1>6, <1>7, <1>8, <1>10 DEF StoreOK, HistoriesAreSuffixes
<1>12. Latest \in Nat /\ Latest' = IF r = Watched THEN Latest + 1 ELSE Latest BY <1>2, <1>3 DEF Latest
<1>13. StoreGrows BY <1>9, <1>11, <1>12 DEF StoreGrows
<1>14. EventsIInv' BY <1>13, StoreKeepsRecords
<1>15. FeedStep
  <2>1. UNCHANGED <<view.base, view.held, main.pc = "done">> OBVIOUS
  <2>2. CASE r = Watched
    <3>1. Terminal(Watched)' \in {Terminal(Watched), TRUE} BY <1>9 DEF Terminal
    <3>2. Feed!Grow BY <1>12, <2>1, <2>2, <3>1 DEF Feed!Grow, Latest
    <3> QED BY <3>2 DEF FeedStep
  <2>3. CASE r # Watched
    <3>1. Terminal(Watched)' = Terminal(Watched)
      <4>1. CASE UNCHANGED finished BY <4>1 DEF Terminal
      <4>2. CASE finished' = Append(finished, r)
        <5>1. DOMAIN finished' = DOMAIN finished \cup {Len(finished) + 1} /\ finished'[Len(finished) + 1] = r
              /\ \A i \in DOMAIN finished : finished'[i] = finished[i]
          BY <1>1, <4>2
        <5> QED BY <2>3, <5>1 DEF Terminal
      <4> QED BY <4>1, <4>2
    <3>2. UNCHANGED Feed!feed BY <1>12, <2>1, <2>3, <3>1 DEF Feed!feed, Latest
    <3> QED BY <3>2 DEF FeedStep
  <2> QED BY <2>2, <2>3
<1> QED BY <1>14, <1>15

LEMMA AppendStep ==
    ASSUME EventsIInv, NEW r \in Runs, AppendEvent(r) \/ FinishRun(r)
    PROVE  EventsIInv' /\ FeedStep
<1>1. lastSeq[r] \in Nat BY LogTypes DEF EventsIInv
<1>2. /\ lastSeq[r] < MaxSeq /\ UNCHANGED <<view, main, sync, server>>
      /\ lastSeq' = [lastSeq EXCEPT ![r] = @ + 1]
      /\ log' = [log EXCEPT ![r] = @ \cup {lastSeq[r] + 1}]
      /\ UNCHANGED finished \/ finished' = Append(finished, r)
  BY <1>1, ViewerAssumption DEF AppendEvent, FinishRun
<1> QED BY <1>2, OneMoreEvent

\* The rows of some terminal runs can be counted.
LEMMA RowsAreFinite ==
    ASSUME StoreOK, NEW kept, \A r \in Runs : kept[r] \subseteq 1 .. MaxSeq,
           NEW S \in SUBSET {r \in Runs : Terminal(r)}
    PROVE  Cardinality(UNION {{r} \X kept[r] : r \in S}) \in Nat
<1> DEFINE T == {r \in Runs : Terminal(r)}
<1>1. finished \in Seq(Runs) BY DEF StoreOK
<1>2. DOMAIN finished = 1 .. Len(finished) /\ Len(finished) \in Nat BY <1>1
<1>3. finished \in Surjection(1 .. Len(finished), T)
  <2>1. \A i \in 1 .. Len(finished) : finished[i] \in T BY <1>1, <1>2 DEF Terminal
  <2>2. finished = [i \in 1 .. Len(finished) |-> finished[i]] BY <1>1
  <2>3. finished \in [1 .. Len(finished) -> T] BY <2>1, <2>2
  <2>4. \A r \in T : \E i \in 1 .. Len(finished) : finished[i] = r BY <1>2 DEF Terminal
  <2> QED BY <2>3, <2>4 DEF Surjection
<1>4. IsFiniteSet(1 .. Len(finished)) BY <1>2, FS_Interval
<1>5. IsFiniteSet(T) BY <1>3, <1>4, FS_Surjection
<1>6. IsFiniteSet(1 .. MaxSeq) BY FS_Interval, ViewerAssumption
<1>7. IsFiniteSet(T \X (1 .. MaxSeq)) BY <1>5, <1>6, FS_Product
<1>8. UNION {{r} \X kept[r] : r \in S} \in SUBSET (T \X (1 .. MaxSeq))
  <2>1. ASSUME NEW r \in S, NEW x \in {r} \X kept[r] PROVE x \in T \X (1 .. MaxSeq)
    <3>1. r \in Runs /\ r \in T BY <2>1
    <3>2. kept[r] \subseteq 1 .. MaxSeq BY <3>1
    <3> QED BY <2>1, <3>1, <3>2
  <2> QED BY <2>1
<1>9. IsFiniteSet(UNION {{r} \X kept[r] : r \in S}) BY <1>7, <1>8, FS_Subset
<1> QED BY <1>9, FS_CardinalityType

\* The total bound takes the oldest events of a run that is over, if any.
LEMMA OverTotalIsOldest ==
    ASSUME StoreOK, NEW kept, \A r \in Runs : kept[r] \subseteq 1 .. MaxSeq, NEW r \in Runs
    PROVE  /\ ~Terminal(r) => OverTotal(kept)[r] = {}
           /\ Terminal(r) => \E n \in Int : OverTotal(kept)[r] = Oldest(kept[r], n)
<1> DEFINE terminal == {q \in Runs : Terminal(q)}
           place(q) == CHOOSE i \in DOMAIN finished : finished[i] = q
           rows(S)  == Cardinality(UNION {{q} \X kept[q] : q \in S})
           older(q) == rows({p \in terminal : place(p) < place(q)})
<1>1. rows(terminal) \in Nat BY RowsAreFinite
<1>2. {p \in terminal : place(p) < place(r)} \in SUBSET {q \in Runs : Terminal(q)} OBVIOUS
<1>3. older(r) \in Nat BY <1>2, RowsAreFinite
<1>4. OverTotal(kept)[r] = IF Terminal(r) THEN Oldest(kept[r], rows(terminal) - MaxTotal - older(r)) ELSE {}
  BY DEF OverTotal
<1> HIDE DEF terminal, rows, older
<1>5. rows(terminal) - MaxTotal - older(r) \in Int BY <1>1, <1>3, ViewerAssumption
<1> QED BY <1>4, <1>5

LEMMA RetentionStep ==
    ASSUME EventsIInv, NEW n \in 0 .. Len(finished), EnforceRetention(n)
    PROVE  EventsIInv' /\ FeedStep
<1> USE ViewerAssumption
<1> DEFINE aged == {finished[i] : i \in 1 .. n}
           kept == [r \in Runs |-> CASE ~Terminal(r) -> log[r]
                                     [] r \in aged   -> {}
                                     [] OTHER        -> Newest(log[r], MaxPerRun)]
<1>1. StoreOK BY DEF EventsIInv
<1>2. \A r \in Runs : lastSeq[r] \in Nat /\ lastSeq[r] <= MaxSeq /\ log[r] \subseteq 1 .. lastSeq[r]
  BY <1>1, LogTypes
<1>3. /\ log' = [r \in Runs |-> kept[r] \ OverTotal(kept)[r]]
      /\ UNCHANGED <<lastSeq, finished, view, main, sync, server>>
  BY DEF EnforceRetention
<1>4. \A r \in Runs : \/ ~Terminal(r) /\ kept[r] = log[r]
                      \/ Terminal(r) /\ (kept[r] = {} \/ kept[r] = Newest(log[r], MaxPerRun))
  <2>1. ASSUME NEW r \in Runs
        PROVE  kept[r] = CASE ~Terminal(r) -> log[r]
                           [] r \in aged   -> {}
                           [] OTHER        -> Newest(log[r], MaxPerRun)
    OBVIOUS
  <2>2. \A r \in aged : Terminal(r)
    <3>1. finished \in Seq(Runs) BY <1>1 DEF StoreOK
    <3>2. \A i \in 1 .. n : i \in DOMAIN finished BY <3>1
    <3> QED BY <3>2 DEF Terminal
  <2> HIDE DEF kept, aged
  <2>3. ASSUME NEW r \in Runs
        PROVE  \/ ~Terminal(r) /\ kept[r] = log[r]
               \/ Terminal(r) /\ (kept[r] = {} \/ kept[r] = Newest(log[r], MaxPerRun))
    <3>1. CASE ~Terminal(r) BY <2>1, <2>2, <3>1
    <3>2. CASE Terminal(r) /\ r \in aged BY <2>1, <3>2
    <3>3. CASE Terminal(r) /\ r \notin aged BY <2>1, <3>3
    <3> QED BY <3>1, <3>2, <3>3
  <2> QED BY <2>3
<1> HIDE DEF kept
<1>5. \A r \in Runs : kept[r] \subseteq log[r] BY <1>4 DEF Newest
<1>6. \A r \in Runs : kept[r] \subseteq 1 .. MaxSeq
  <2>1. \A r \in Runs : 1 .. lastSeq[r] \subseteq 1 .. MaxSeq BY <1>2
  <2> QED BY <1>2, <1>5, <2>1
<1>7. ASSUME NEW r \in Runs
      PROVE  /\ log'[r] \subseteq log[r] /\ (~Terminal(r) => log'[r] = log[r])
             /\ \A e \in log'[r] : e .. lastSeq[r] \subseteq log'[r]
  <2>1. /\ ~Terminal(r) => log[r] = 1 .. lastSeq[r]
        /\ \A e \in log[r] : e .. lastSeq[r] \subseteq log[r]
    BY <1>1 DEF StoreOK, HistoriesAreSuffixes
  <2>2. lastSeq[r] \in Nat /\ log[r] \in SUBSET (1 .. lastSeq[r]) BY <1>2
  <2>3. log'[r] = kept[r] \ OverTotal(kept)[r] BY <1>3
  <2>4. kept[r] \in SUBSET (1 .. lastSeq[r]) BY <1>5, <2>2
  <2>5. CASE ~Terminal(r)
    <3>1. OverTotal(kept)[r] = {} BY <1>1, <1>6, <2>5, OverTotalIsOldest
    <3>2. log'[r] = log[r] BY <1>4, <2>3, <2>5, <3>1
    <3> QED BY <2>1, <3>2
  <2>6. CASE Terminal(r)
    <3>1. PICK k \in Int : OverTotal(kept)[r] = Oldest(kept[r], k) BY <1>1, <1>6, <2>6, OverTotalIsOldest
    <3>2. log'[r] = kept[r] \ Oldest(kept[r], k) BY <2>3, <3>1
    <3>3. ASSUME NEW e \in log'[r], NEW f \in e .. lastSeq[r] PROVE f \in log'[r]
      <4>1. e \in kept[r] /\ e \in log[r] /\ f \in log[r] /\ e \in Nat /\ f \in Nat
        BY <1>5, <2>1, <2>2, <3>2, <3>3
      <4>2. CASE f = e BY <3>3, <4>2
      <4>3. CASE f # e
        <5>1. f > e BY <3>3, <4>1, <4>3
        <5>2. kept[r] = Newest(log[r], MaxPerRun) BY <1>4, <2>6, <4>1
        <5>3. f \in kept[r]
          <6>1. e \in Newest(log[r], MaxPerRun) /\ MaxPerRun \in Int BY <4>1, <5>2
          <6>2. f \in Newest(log[r], MaxPerRun) BY <2>2, <4>1, <5>1, <6>1, NewestIsSuffix
          <6> QED BY <5>2, <6>2
        <5>4. e \in kept[r] \ Oldest(kept[r], k) BY <3>2, <3>3
        <5>5. f \notin Oldest(kept[r], k) BY <2>2, <2>4, <5>1, <5>3, <5>4, OldestIsPrefix
        <5> QED BY <3>2, <5>3, <5>5
      <4> QED BY <4>2, <4>3
    <3> QED BY <1>5, <2>6, <3>2, <3>3
  <2> QED BY <2>5, <2>6
<1>8. \A r : Terminal(r)' = Terminal(r) BY <1>3 DEF Terminal
<1>9. StoreOK'
  <2>1. log' \in [Runs -> SUBSET Nat]
    <3>1. \A r \in Runs : kept[r] \ OverTotal(kept)[r] \in SUBSET Nat BY <1>6
    <3> QED BY <1>3, <3>1
  <2>2. finished' \in Seq(Runs) /\ lastSeq' \in [Runs -> Seqs] BY <1>1, <1>3 DEF StoreOK
  <2>3. \A r \in Runs : log'[r] \subseteq 1 .. lastSeq'[r] BY <1>2, <1>3, <1>7
  <2>4. HistoriesAreSuffixes' BY <1>1, <1>3, <1>7, <1>8 DEF StoreOK, HistoriesAreSuffixes
  <2> QED BY <2>1, <2>2, <2>3, <2>4 DEF StoreOK
<1>10. Latest \in Nat /\ Latest' = Latest BY <1>1, <1>3, Numbers DEF Latest
<1>11. StoreGrows BY <1>8, <1>9, <1>10 DEF StoreGrows
<1>12. EventsIInv' BY <1>3, <1>11, StoreKeepsRecords
<1>13. UNCHANGED Feed!feed BY <1>3, <1>8 DEF Feed!feed
<1> QED BY <1>12, <1>13 DEF FeedStep

-----------------------------------------------------------------------------
(* The theorems. *)

LEMMA EventsStart ==
    ASSUME EventsInit
    PROVE  EventsIInv /\ Feed!FeedInit
<1> USE ViewerAssumption
<1>1. finished = <<>> /\ log = [r \in Runs |-> {}] /\ lastSeq = [r \in Runs |-> 0] BY DEF EventsInit
<1>2. DOMAIN finished = {} /\ \A r : ~Terminal(r) BY <1>1 DEF Terminal
<1>3. 0 \in Seqs BY DEF Seqs
<1>4. finished \in Seq(Runs) /\ lastSeq \in [Runs -> Seqs] /\ log \in [Runs -> SUBSET Nat] BY <1>1, <1>3
<1>5. HistoriesAreSuffixes
  <2>1. \A r \in Runs : log[r] = {} /\ lastSeq[r] = 0 BY <1>1
  <2>2. 1 .. 0 = {} OBVIOUS
  <2>3. \A r \in Runs : log[r] = 1 .. lastSeq[r] /\ (\A e \in log[r] : e .. lastSeq[r] \subseteq log[r])
    BY <2>1, <2>2
  <2> QED BY <2>3 DEF HistoriesAreSuffixes
<1>6. StoreOK BY <1>1, <1>4, <1>5 DEF StoreOK
<1>7. Latest = 0 /\ AnswerOK(Unanswered) /\ Unanswered \in RunAnswers
  BY <1>1, <1>6, SnapshotOK DEF Latest, AnswerOK
<1>8. ViewOK(view) BY <1>3, <1>7 DEF EventsInit, ViewOK, ViewRows
<1>9. MainOK(main) BY <1>3, <1>7 DEF EventsInit, MainOK, MainRows, MainPcs
<1>10. SyncOK(sync) BY <1>6, SyncRowsOK DEF EventsInit
<1>11. ConnOK(conn) BY <1>6, ConnRowsOK DEF EventsInit
<1>12. WireOK BY DEF EventsInit, WireOK
<1>13. EventsIInv BY <1>6, <1>8, <1>9, <1>10, <1>11, <1>12 DEF EventsIInv
<1>14. Feed!FeedInit BY <1>2, <1>7 DEF EventsInit, Feed!FeedInit, Latest, Terminal
<1> QED BY <1>13, <1>14

LEMMA EventsStep ==
    ASSUME EventsIInv, [EventsNext]_vars
    PROVE  EventsIInv' /\ FeedStep
<1>1. CASE \E r \in Runs : AppendEvent(r) \/ FinishRun(r) BY <1>1, AppendStep
<1>2. CASE \E n \in 0 .. Len(finished) : EnforceRetention(n) BY <1>2, RetentionStep
<1>3. CASE GotPage BY <1>3, GotPageStep
<1>4. CASE AnswerRunToSync \/ GotRunForSync BY <1>4, RecoverySteps
<1>5. CASE Reconnect \/ Connect BY <1>5, ConnectSteps
<1>6. CASE HandleStreamEvent BY <1>6, HandleStep
<1>7. CASE StreamEnds \/ AnswerRun \/ MainFails BY <1>7, EndSteps
<1>8. CASE GotRun BY <1>8, GotRunStep
<1>9. CASE Refresh BY <1>9, RefreshStep
<1>10. CASE AnswerPage BY <1>10, AnswerPageStep
<1>11. CASE StreamReadsRun \/ StreamReadsPage \/ StreamGivesUp BY <1>11, ServerSteps
<1>12. CASE SyncFails BY <1>12, SyncFailsStep
<1>13. CASE UNCHANGED vars
  <2>1. UNCHANGED <<store, view, main, sync, server>> BY <1>13 DEF vars
  <2>2. UNCHANGED store BY <2>1
  <2>3. StoreGrows BY <2>2, StoreStays
  <2>4. UNCHANGED <<store, view>> /\ Following BY <2>1 DEF Following
  <2> QED BY <2>1, <2>3, <2>4, StoreKeepsRecords, Standing
<1> QED
  BY <1>1, <1>2, <1>3, <1>4, <1>5, <1>6, <1>7, <1>8, <1>9, <1>10, <1>11, <1>12, <1>13
  DEF EventsNext, Viewer, Server, Answer

THEOREM EventsIInvHolds == EventsSpec => []EventsIInv
<1>1. EventsInit => EventsIInv BY EventsStart
<1>2. EventsIInv /\ [EventsNext]_vars => EventsIInv' BY EventsStep
<1> QED BY <1>1, <1>2, PTL DEF EventsSpec

\* Whatever retention takes, of however many runs, what is left of the history
\* of a run is all of its end: nothing is missing between two events of a page.
THEOREM HistoriesStaySuffixes == EventsSpec => []HistoriesAreSuffixes
<1>1. EventsIInv => HistoriesAreSuffixes BY DEF EventsIInv, StoreOK
<1> QED BY <1>1, EventsIInvHolds, PTL

\* The implementation: each step of the store, of the server and of the viewer
\* is a step of RunFeed for what the viewer holds, or is not seen by it.
THEOREM TheViewerIsShownTheFeed == EventsSpec => ShowsTheFeed
<1>1. EventsInit => Feed!FeedInit BY EventsStart
<1>2. EventsIInv /\ [EventsNext]_vars => [Feed!Grow \/ Feed!Show \/ Feed!StartOver \/ Feed!Leave]_Feed!feed
  BY EventsStep DEF FeedStep
<1> QED BY <1>1, <1>2, EventsIInvHolds, PTL DEF EventsSpec, ShowsTheFeed, Feed!FeedSpec

------------------------------------------------------------------------------
(* The bridge to one MCP server.                                             *)

OnLoopPcs == {"listing", "sending", "unanswered", "refreshing"}
CallerPcs ==
    OnLoopPcs \cup {"idle", "start", "register", "lock", "restart", "close", "tear down", "join", "unregister",
                    "wait", "overdue", "ensure", "ensured", "create", "check", "approval", "call", "submit", "call failed",
                    "forget", "reflect", "refused"}
Nexts  == {"done", "submit", "create", "forget", "reflect"}
Scopes == [m : Managers \cup {None}, cfg : Nat, schema : Nat]
ManagerStates == {"stopped", "connected", "unhealthy", "failed", "starting", "credentials_unavailable"}
ManagerRows ==
    [cfg : Nat, state : ManagerStates,
     connected : BOOLEAN, thread : Threads \cup {None}, loop : Threads \cup {None}, session : Threads \cup {None},
     ready : BOOLEAN, tools : Nat, misses : Nat, retired : BOOLEAN, lock : Callers \cup {None}]
ThreadRows ==
    [of : Managers \cup {None}, phase : {"none", "new", "opening", "serving", "unwinding", "closing"},
     stop : BOOLEAN, dead : BOOLEAN]
CallerRows ==
    [job : {"none", "tool", "approved", "refresh", "reconnect", "enable", "reset"}, pc : CallerPcs,
     m : Managers \cup {None}, cfg : Nat, scope : Scopes, then : Nexts,
     why : {"none", "start", "restart", "close", "give up"}, on : Threads \cup {None}, listed : Nat]

(* A manager keeps the configuration it was created with.                    *)
Made(m, managers) == m \in Managers /\ managers[m].cfg # None

(* The loop of a manager is that of a thread it started, and a server thread *)
(* that lives is the one its manager knows.                                  *)
ManagerFits(m, managers, runs) ==
    /\ managers[m] \in ManagerRows
    /\ managers[m].loop # None => runs[managers[m].loop].of = m
ThreadFits(t, managers, runs) ==
    /\ runs[t] \in ThreadRows
    /\ runs[t].phase # "none" => Made(runs[t].of, managers) /\ managers[runs[t].of].thread = t

(* A caller works with a manager that was created, waits on a loop of that   *)
(* manager, and sends only where the configuration is that of its scope.     *)
CallerFits(r, managers, runs) ==
    /\ r \in CallerRows
    /\ r.pc \notin {"idle", "ensure"} => Made(r.m, managers)
    /\ r.pc \in {"ensure", "create", "forget"} \/ r.then \in {"create", "forget"} \/ r.job = "reconnect" => r.cfg # None
    /\ r.pc \in OnLoopPcs => r.on \in Threads /\ runs[r.on].of = r.m
    /\ r.pc = "sending" => managers[r.m].cfg = r.scope.cfg

MapsFit(map, tools, managers) ==
    /\ map \in [m : Managers \cup {None}, lock : Callers \cup {None}]
    /\ map.m # None => Made(map.m, managers)
    /\ tools \in [entry : Scopes, executor : Managers]
    /\ Made(tools.executor, managers) /\ (tools.entry = Unmapped \/ Made(tools.entry.m, managers))

McpIInv ==
    /\ config \in Nat \ {None} /\ tool \in Nat
    /\ DOMAIN manager = Managers /\ DOMAIN threads = Threads /\ DOMAIN caller = Callers
    /\ \A m \in Managers : ManagerFits(m, manager, threads)
    /\ \A t \in Threads : ThreadFits(t, manager, threads)
    /\ \A c \in Callers : CallerFits(caller[c], manager, threads)
    /\ MapsFit(active, reflected, manager)
    /\ CallsKeepTheirScope

LEMMA McpNumbers ==
    /\ None = 0 /\ None \notin Managers /\ None \notin Threads /\ 1 \in Managers /\ 1 \in Threads
    /\ Managers \subseteq Nat /\ Threads \subseteq Nat /\ \A m \in Nat : m # None <=> m # 0
BY McpAssumption DEF None, Managers, Threads

(* What every invariant is for.                                              *)
LEMMA AtMostOne ==
    ASSUME NEW S, \A x, y \in S : x = y
    PROVE  Cardinality(S) <= 1
<1>1. CASE S = {} BY <1>1, FS_EmptySet
<1>2. CASE S # {}
  <2>1. PICK x \in S : TRUE BY <1>2
  <2>2. S = {x} BY <2>1
  <2> QED BY <2>2, FS_Singleton
<1> QED BY <1>1, <1>2

LEMMA ScopesFollow == McpIInv => McpCallsAreScoped
<1> SUFFICES ASSUME McpIInv PROVE OneServerEach BY DEF McpCallsAreScoped, McpIInv
<1>1. ASSUME NEW m \in Managers, NEW t \in Threads, NEW u \in Threads,
             ThreadAlive(t), ThreadAlive(u), Own(t) = m, Own(u) = m
      PROVE  t = u
  BY <1>1 DEF McpIInv, ThreadFits, ThreadAlive, Own
<1>2. ASSUME NEW m \in Managers PROVE Cardinality({t \in Threads : ThreadAlive(t) /\ Own(t) = m}) <= 1
  <2> DEFINE S == {t \in Threads : ThreadAlive(t) /\ Own(t) = m}
  <2>1. \A x, y \in S : x = y BY <1>1
  <2> HIDE DEF S
  <2> QED BY <2>1, AtMostOne DEF S
<1> QED BY <1>2 DEF OneServerEach

(* Created managers and owned threads stay what they are.                    *)
Lasts(managers, after, runs, later) ==
    /\ \A m \in Managers : managers[m].cfg # None => after[m].cfg = managers[m].cfg
    /\ \A t \in Threads : runs[t].of # None => later[t].of = runs[t].of

LEMMA CallerStays ==
    ASSUME NEW r, NEW managers, NEW after, NEW runs, NEW later,
           CallerFits(r, managers, runs), Lasts(managers, after, runs, later)
    PROVE  CallerFits(r, after, later)
<1>1. r.pc \notin {"idle", "ensure"} => Made(r.m, managers) /\ Made(r.m, after) /\ after[r.m].cfg = managers[r.m].cfg
  BY DEF CallerFits, Made, Lasts
<1>2. r.pc \in OnLoopPcs => r.on \in Threads /\ later[r.on].of = r.m
  <2>1. SUFFICES ASSUME r.pc \in OnLoopPcs PROVE r.on \in Threads /\ later[r.on].of = r.m OBVIOUS
  <2>2. r.pc \notin {"idle", "ensure"} BY <2>1 DEF OnLoopPcs
  <2>3. r.m # None BY <1>1, <2>2, McpNumbers DEF Made
  <2> QED BY <2>1, <2>3 DEF CallerFits, Lasts
<1>3. r.pc = "sending" => after[r.m].cfg = r.scope.cfg BY <1>1 DEF CallerFits
<1> QED BY <1>1, <1>2, <1>3 DEF CallerFits

LEMMA MapsStay ==
    ASSUME NEW map, NEW tools, NEW managers, NEW after, NEW runs, NEW later,
           MapsFit(map, tools, managers), Lasts(managers, after, runs, later)
    PROVE  MapsFit(map, tools, after)
BY DEF MapsFit, Made, Lasts

LEMMA McpRests ==
    ASSUME McpIInv, Lasts(manager, manager', threads, threads'),
           DOMAIN manager' = Managers, DOMAIN threads' = Threads,
           \A m \in Managers : ManagerFits(m, manager', threads'),
           \A t \in Threads : ThreadFits(t, manager', threads'),
           DOMAIN caller' = Callers,
           \A c \in Callers : \/ caller'[c] = caller[c]
                              \/ CallerFits(caller'[c], manager, threads)
                              \/ CallerFits(caller'[c], manager', threads'),
           MapsFit(active', reflected', manager) \/ MapsFit(active', reflected', manager'),
           config' \in Nat \ {None}, tool' \in Nat, CallsKeepTheirScope'
    PROVE  McpIInv'
<1>1. ASSUME NEW c \in Callers PROVE CallerFits(caller'[c], manager', threads')
  <2>1. CallerFits(caller[c], manager, threads) BY DEF McpIInv
  <2> QED BY <2>1, CallerStays
<1>2. MapsFit(active', reflected', manager') BY MapsStay
<1> QED BY <1>1, <1>2 DEF McpIInv

(* A step leaves a manager its configuration and, while its server thread    *)
(* lives, that thread; and a thread its manager.                             *)
RowKept(m, r) ==
    /\ r \in ManagerRows /\ r.cfg = manager[m].cfg /\ (r.loop # None => threads[r.loop].of = m)
    /\ r.thread = manager[m].thread \/ ~ThreadAlive(manager[m].thread)
ManagersKept(after) == DOMAIN after = Managers /\ \A m \in Managers : RowKept(m, after[m])
RunKept(t, r) == r \in ThreadRows /\ r.of = threads[t].of /\ (r.phase # "none" => threads[t].phase # "none")
RunsKept(later) == DOMAIN later = Threads /\ \A t \in Threads : RunKept(t, later[t])

LEMMA RuntimeStays ==
    ASSUME McpIInv, ManagersKept(manager'), RunsKept(threads')
    PROVE  /\ Lasts(manager, manager', threads, threads')
           /\ \A m \in Managers : ManagerFits(m, manager', threads')
           /\ \A t \in Threads : ThreadFits(t, manager', threads')
<1>1. Lasts(manager, manager', threads, threads') BY DEF Lasts, ManagersKept, RowKept, RunsKept, RunKept
<1>2. ASSUME NEW m \in Managers PROVE ManagerFits(m, manager', threads')
  <2>1. RowKept(m, manager'[m]) BY DEF ManagersKept
  <2>2. manager'[m].loop # None => manager'[m].loop \in Threads BY <2>1 DEF RowKept, ManagerRows, ManagerStates
  <2> QED BY <2>1, <2>2 DEF ManagerFits, RowKept, RunsKept, RunKept
<1>3. ASSUME NEW t \in Threads PROVE ThreadFits(t, manager', threads')
  <2>1. RunKept(t, threads'[t]) /\ ThreadFits(t, manager, threads) BY DEF RunsKept, McpIInv
  <2>2. SUFFICES ASSUME threads'[t].phase # "none"
                 PROVE  Made(threads'[t].of, manager') /\ manager'[threads'[t].of].thread = t
    BY <2>1 DEF ThreadFits, RunKept
  <2> DEFINE m == threads[t].of
  <2>3. threads[t].phase # "none" /\ Made(m, manager) /\ manager[m].thread = t /\ threads'[t].of = m
    BY <2>1, <2>2 DEF RunKept, ThreadFits
  <2>4. RowKept(m, manager'[m]) BY <2>3 DEF ManagersKept, Made
  <2>5. ThreadAlive(manager[m].thread) BY <2>3, McpNumbers DEF ThreadAlive
  <2> QED BY <2>3, <2>4, <2>5 DEF Made, RowKept
<1> QED BY <1>1, <1>2, <1>3

LEMMA RowEdit ==
    ASSUME McpIInv
    PROVE  /\ UNCHANGED manager => ManagersKept(manager')
           /\ \A m \in Managers : \A r : RowKept(m, r) /\ manager' = [manager EXCEPT ![m] = r] => ManagersKept(manager')
           /\ \A m \in Managers : RowKept(m, manager[m]) /\ manager[m] \in ManagerRows
<1>1. \A m \in Managers : RowKept(m, manager[m]) /\ manager[m] \in ManagerRows
  BY DEF McpIInv, ManagerFits, RowKept
<1>2. DOMAIN manager = Managers BY DEF McpIInv
<1> QED BY <1>1, <1>2 DEF ManagersKept

LEMMA RunEdit ==
    ASSUME McpIInv
    PROVE  /\ UNCHANGED threads => RunsKept(threads')
           /\ \A t \in Threads : \A r : RunKept(t, r) /\ threads' = [threads EXCEPT ![t] = r] => RunsKept(threads')
           /\ \A t \in Threads : RunKept(t, threads[t]) /\ threads[t] \in ThreadRows
<1>1. \A t \in Threads : RunKept(t, threads[t]) /\ threads[t] \in ThreadRows
  BY DEF McpIInv, ThreadFits, RunKept
<1>2. DOMAIN threads = Threads BY DEF McpIInv
<1> QED BY <1>1, <1>2 DEF RunsKept

LEMMA CallerMoves ==
    ASSUME McpIInv, NEW c \in Callers, NEW r, CallerFits(r, manager, threads), caller' = [caller EXCEPT ![c] = r],
           ManagersKept(manager'), RunsKept(threads'), MapsFit(active', reflected', manager),
           UNCHANGED <<config, tool>>, CallsKeepTheirScope'
    PROVE  McpIInv'
<1>1. DOMAIN caller = Callers /\ config \in Nat \ {None} /\ tool \in Nat BY DEF McpIInv
<1>2. DOMAIN caller' = Callers /\ \A d \in Callers : caller'[d] = caller[d] \/ CallerFits(caller'[d], manager, threads)
  BY <1>1
<1>3. DOMAIN manager' = Managers /\ DOMAIN threads' = Threads BY DEF ManagersKept, RunsKept
<1> QED BY <1>1, <1>2, <1>3, RuntimeStays, McpRests

(* The rows a caller comes to.                                               *)
LEMMA CallerFacts ==
    ASSUME McpIInv, NEW c \in Callers
    PROVE  /\ CallerFits(caller[c], manager, threads) /\ caller[c] \in CallerRows /\ DOMAIN caller = Callers
           /\ caller[c].pc \notin {"idle", "ensure"} =>
                 Made(caller[c].m, manager) /\ caller[c].m \in Managers /\ M(c) \in ManagerRows /\ RowKept(caller[c].m, M(c))
           /\ MapsFit(active, reflected, manager) /\ CallsKeepTheirScope
<1>1. CallerFits(caller[c], manager, threads) BY DEF McpIInv
<1>2. caller[c].pc \notin {"idle", "ensure"} => Made(caller[c].m, manager) /\ caller[c].m \in Managers
  BY <1>1 DEF CallerFits, Made
<1> QED BY <1>1, <1>2, RowEdit DEF McpIInv, CallerFits, M

LEMMA IdleFits == CallerFits(IdleCaller, manager, threads)
<1>1. None \in Nat /\ Unmapped \in Scopes BY McpNumbers DEF Unmapped, Scopes
<1>2. IdleCaller \in CallerRows BY <1>1 DEF IdleCaller, CallerRows, CallerPcs, Nexts
<1>3. IdleCaller.pc = "idle" /\ IdleCaller.then = "done" /\ IdleCaller.job = "none" BY DEF IdleCaller
<1> QED BY <1>2, <1>3 DEF CallerFits, OnLoopPcs

GoRow(c, pc) == IF pc = "done" THEN IdleCaller ELSE [caller[c] EXCEPT !.pc = pc, !.why = "none"]

LEMMA GoFits ==
    ASSUME McpIInv, NEW c \in Callers, NEW pc,
           \/ pc = "done"
           \/ /\ pc \in CallerPcs \ (OnLoopPcs \cup {"idle", "ensure"}) /\ caller[c].pc \notin {"idle", "ensure"}
              /\ pc \in {"create", "forget"} => caller[c].cfg # None
    PROVE  /\ CallerFits(GoRow(c, pc), manager, threads)
           /\ Go(c, pc) => caller' = [caller EXCEPT ![c] = GoRow(c, pc)]
<1>1. CallerFits(caller[c], manager, threads) /\ caller[c] \in CallerRows /\ DOMAIN caller = Callers BY CallerFacts
<1>2. Go(c, pc) => caller' = [caller EXCEPT ![c] = GoRow(c, pc)] BY <1>1 DEF Go, GoRow
<1>3. CASE pc = "done" BY <1>2, <1>3, IdleFits DEF GoRow
<1>4. CASE pc # "done"
  <2> DEFINE r == [caller[c] EXCEPT !.pc = pc, !.why = "none"]
  <2>1. r \in CallerRows BY <1>1, <1>4 DEF CallerRows
  <2>2. /\ r.pc = pc /\ r.m = caller[c].m /\ r.cfg = caller[c].cfg /\ r.then = caller[c].then /\ r.job = caller[c].job
        /\ r.on = caller[c].on /\ r.scope = caller[c].scope
    BY <1>1 DEF CallerRows
  <2> HIDE DEF r
  <2>3. pc \notin OnLoopPcs /\ pc \notin {"idle", "ensure", "sending"} BY <1>4 DEF OnLoopPcs
  <2>4. CallerFits(r, manager, threads) BY <1>1, <1>4, <2>1, <2>2, <2>3 DEF CallerFits
  <2> QED BY <1>2, <1>4, <2>4 DEF GoRow, r
<1> QED BY <1>3, <1>4

LEMMA ReturnFits ==
    ASSUME McpIInv, NEW c \in Callers, caller[c].pc \notin {"idle", "ensure"}
    PROVE  /\ CallerFits(GoRow(c, caller[c].then), manager, threads)
           /\ Go(c, caller[c].then) => caller' = [caller EXCEPT ![c] = GoRow(c, caller[c].then)]
<1> DEFINE pc == caller[c].then
<1>1. CallerFits(caller[c], manager, threads) /\ caller[c] \in CallerRows BY CallerFacts
<1>2. pc \in Nexts BY <1>1 DEF CallerRows
<1>3. pc \in {"create", "forget"} => caller[c].cfg # None BY <1>1 DEF CallerFits
<1> HIDE DEF pc
<1>4. pc = "done" \/ pc \in CallerPcs \ (OnLoopPcs \cup {"idle", "ensure"})
  BY <1>2 DEF Nexts, CallerPcs, OnLoopPcs
<1> QED BY <1>3, <1>4, GoFits DEF pc

LEMMA QuietMoves ==
    ASSUME McpIInv, NEW c \in Callers, NEW r, CallerFits(r, manager, threads), caller' = [caller EXCEPT ![c] = r],
           UNCHANGED <<config, tool, manager, threads, sent>>, MapsFit(active', reflected', manager)
    PROVE  McpIInv'
<1>1. ManagersKept(manager') /\ RunsKept(threads') BY RowEdit, RunEdit
<1>2. CallsKeepTheirScope' BY DEF McpIInv, CallsKeepTheirScope
<1> QED BY <1>1, <1>2, CallerMoves

(* A start waits its turn, returns, or is refused.                           *)
LEMMA StartMoves ==
    ASSUME McpIInv, NEW c \in Callers, StartCheck(c) \/ Register(c) \/ Unregister(c) \/ Ready(c) \/ WaitTimesOut(c)
    PROVE  McpIInv'
<1>1. /\ CallerFits(caller[c], manager, threads) /\ caller[c] \in CallerRows /\ DOMAIN caller = Callers
      /\ MapsFit(active, reflected, manager)
  BY CallerFacts
<1>2. caller[c].pc \in {"start", "register", "unregister", "wait"}
  BY DEF StartCheck, Register, Unregister, Ready, WaitTimesOut, CallerAt
<1>3. Made(caller[c].m, manager) /\ caller[c].m \in Managers BY <1>1, <1>2 DEF CallerFits, Made
<1>4. /\ \A pc \in {"refused", "register", "lock", "overdue"} : Go(c, pc) =>
            CallerFits(GoRow(c, pc), manager, threads) /\ caller' = [caller EXCEPT ![c] = GoRow(c, pc)]
      /\ Go(c, caller[c].then) =>
            CallerFits(GoRow(c, caller[c].then), manager, threads) /\ caller' = [caller EXCEPT ![c] = GoRow(c, caller[c].then)]
  BY <1>2, GoFits, ReturnFits DEF CallerPcs, OnLoopPcs
<1>5. Go(c, "refused") \/ Go(c, "register") \/ Go(c, "lock") \/ Go(c, "overdue") \/ Go(c, caller[c].then)
  BY DEF StartCheck, Register, Unregister, Ready, WaitTimesOut, Return
<1>6. PICK r : CallerFits(r, manager, threads) /\ caller' = [caller EXCEPT ![c] = r] BY <1>4, <1>5
<1>7. UNCHANGED <<config, tool, manager, threads, sent, reflected>>
  BY DEF StartCheck, Register, Unregister, Ready, WaitTimesOut, outside, maps
<1>8. MapsFit(active', reflected', manager)
  <2>1. active' = active \/ active' = [active EXCEPT !.m = caller[c].m] \/ active' = [active EXCEPT !.m = None]
    BY <1>1 DEF StartCheck, Register, Unregister, Ready, WaitTimesOut, outside, maps, MapsFit
  <2>2. active \in [m : Managers \cup {None}, lock : Callers \cup {None}] BY <1>1 DEF MapsFit
  <2>3. active' \in [m : Managers \cup {None}, lock : Callers \cup {None}]
        /\ active'.m \in {active.m, caller[c].m, None}
    BY <1>3, <2>1, <2>2
  <2> QED BY <1>1, <1>3, <1>7, <2>3 DEF MapsFit
<1> QED BY <1>6, <1>7, <1>8, QuietMoves

(* What a caller sets of its row.                                            *)
LEMMA EnsureMoves ==
    ASSUME McpIInv, NEW c \in Callers, EnsureSame(c) \/ Ensured(c) \/ BeginControl(c) \/ BeginTool(c)
    PROVE  McpIInv'
<1>1. /\ CallerFits(caller[c], manager, threads) /\ caller[c] \in CallerRows /\ DOMAIN caller = Callers
      /\ MapsFit(active, reflected, manager)
  BY CallerFacts
<1>2. UNCHANGED <<config, tool, manager, threads, sent, active, reflected>>
  BY DEF EnsureSame, Ensured, BeginControl, BeginTool, outside, maps
<1>3. SUFFICES \E r : CallerFits(r, manager, threads) /\ caller' = [caller EXCEPT ![c] = r]
  BY <1>1, <1>2, QuietMoves
<1>4. CASE EnsureSame(c)
  <2> DEFINE r == [caller[c] EXCEPT !.pc = "ensured", !.m = active.m]
  <2>1. caller[c].pc = "ensure" /\ active.m # None /\ caller' = [caller EXCEPT ![c] = r]
    BY <1>1, <1>4 DEF EnsureSame, CallerAt
  <2>2. Made(active.m, manager) BY <1>1, <2>1 DEF MapsFit
  <2>3. /\ r \in CallerRows /\ r.pc = "ensured" /\ r.m = active.m /\ r.cfg = caller[c].cfg
        /\ r.then = caller[c].then /\ r.job = caller[c].job
    BY <1>1, <2>2 DEF CallerRows, CallerPcs, Made
  <2> HIDE DEF r
  <2>4. CallerFits(r, manager, threads) BY <1>1, <2>1, <2>2, <2>3 DEF CallerFits, OnLoopPcs
  <2> QED BY <2>1, <2>4
<1>5. CASE Ensured(c)
  <2> DEFINE pc   == CASE caller[c].job = "reconnect" -> "restart"
                       [] caller[c].job = "refresh" /\ M(c).connected -> "call"
                       [] OTHER -> "start"
             next == CASE caller[c].job = "reconnect" -> "forget"
                       [] caller[c].job = "refresh" -> "reflect"
                       [] OTHER -> "done"
             r == [caller[c] EXCEPT !.pc = pc, !.then = next]
  <2>1. caller[c].pc = "ensured" /\ caller' = [caller EXCEPT ![c] = r] BY <1>1, <1>5 DEF Ensured, CallerAt
  <2>2. pc \in {"restart", "call", "start"} /\ next \in {"forget", "reflect", "done"}
        /\ (next = "forget" => caller[c].job = "reconnect")
    OBVIOUS
  <2> HIDE DEF pc, next
  <2>5. pc \in CallerPcs /\ next \in Nexts BY <2>2 DEF CallerPcs, Nexts
  <2>3. /\ r \in CallerRows /\ r.pc = pc /\ r.m = caller[c].m /\ r.cfg = caller[c].cfg
        /\ r.then = next /\ r.job = caller[c].job
    BY <1>1, <2>5 DEF CallerRows
  <2> HIDE DEF r
  <2>4. CallerFits(r, manager, threads) BY <1>1, <2>1, <2>2, <2>3 DEF CallerFits, OnLoopPcs
  <2> QED BY <2>1, <2>4
<1>6. IdleCaller \in CallerRows /\ IdleCaller.then = "done" BY IdleFits DEF CallerFits, IdleCaller
<1>7. CASE BeginControl(c)
  <2>1. PICK job \in {"refresh", "reconnect", "enable"} :
           caller' = [caller EXCEPT ![c] = [IdleCaller EXCEPT !.job = job, !.pc = "ensure", !.cfg = config]]
    BY <1>7 DEF BeginControl
  <2> DEFINE r == [IdleCaller EXCEPT !.job = job, !.pc = "ensure", !.cfg = config]
  <2>2. config \in Nat /\ config # None BY DEF McpIInv
  <2>3. r \in CallerRows /\ r.pc = "ensure" /\ r.cfg = config
    <3> DEFINE p  == [IdleCaller EXCEPT !.job = job]
               at == "ensure"
    <3>1. p \in CallerRows BY <1>6 DEF CallerRows
    <3>2. at \in CallerPcs BY DEF CallerPcs
    <3>3. r = [p EXCEPT !.pc = at, !.cfg = config] OBVIOUS
    <3> HIDE DEF p, at, r
    <3>4. r \in CallerRows /\ r.pc = at /\ r.cfg = config BY <2>2, <3>1, <3>2, <3>3 DEF CallerRows
    <3> QED BY <3>4 DEF at
  <2> HIDE DEF r
  <2>4. CallerFits(r, manager, threads) BY <2>2, <2>3 DEF CallerFits, OnLoopPcs
  <2> QED BY <2>1, <2>4 DEF r
<1>8. CASE BeginTool(c)
  <2> DEFINE r == [IdleCaller EXCEPT !.job = "tool", !.pc = "check", !.m = reflected.entry.m, !.scope = reflected.entry]
  <2>1. caller' = [caller EXCEPT ![c] = r] /\ reflected.entry # Unmapped BY <1>8 DEF BeginTool
  <2>2. Made(reflected.entry.m, manager) /\ reflected.entry \in Scopes BY <1>1, <2>1 DEF MapsFit
  <2>3. r \in CallerRows /\ r.pc = "check" /\ r.m = reflected.entry.m /\ r.then = "done" /\ r.job = "tool"
    BY <1>6, <2>2 DEF CallerRows, CallerPcs, Made
  <2> HIDE DEF r
  <2>4. CallerFits(r, manager, threads) BY <2>2, <2>3 DEF CallerFits, OnLoopPcs
  <2> QED BY <2>1, <2>4
<1> QED BY <1>4, <1>5, <1>7, <1>8

LEMMA CheckMoves ==
    ASSUME McpIInv, NEW c \in Callers, CheckScope(c) \/ Approved(c) \/ EnterCall(c) \/ Submit(c)
    PROVE  McpIInv'
<1>1. /\ CallerFits(caller[c], manager, threads) /\ caller[c] \in CallerRows /\ DOMAIN caller = Callers
      /\ MapsFit(active, reflected, manager)
  BY CallerFacts
<1>2. UNCHANGED <<config, tool, manager, threads, sent, active, reflected>>
  BY DEF CheckScope, Approved, EnterCall, Submit, outside, maps
<1>3. caller[c].pc \in {"check", "approval", "call", "submit"}
  BY DEF CheckScope, Approved, EnterCall, Submit, CallerAt
<1>4. Made(caller[c].m, manager) /\ caller[c].m \in Managers BY <1>1, <1>3 DEF CallerFits, Made
<1>5. SUFFICES \E r : CallerFits(r, manager, threads) /\ caller' = [caller EXCEPT ![c] = r]
  BY <1>1, <1>2, QuietMoves
<1>6. \A pc \in {"refused", "call", "approval", "submit", "done"} : Go(c, pc) =>
         CallerFits(GoRow(c, pc), manager, threads) /\ caller' = [caller EXCEPT ![c] = GoRow(c, pc)]
  BY <1>3, GoFits DEF CallerPcs, OnLoopPcs
<1>7. ASSUME NEW pc \in {"refused", "call", "approval", "submit", "done"}, Go(c, pc)
      PROVE  \E r : CallerFits(r, manager, threads) /\ caller' = [caller EXCEPT ![c] = r]
  BY <1>6, <1>7
<1>8. CASE CheckScope(c) BY <1>7, <1>8 DEF CheckScope
<1>9. CASE Approved(c)
  <2>1. CASE Go(c, "refused") BY <1>7, <2>1
  <2>2. CASE caller' = [caller EXCEPT ![c].pc = "check", ![c].m = reflected.executor, ![c].job = "approved"]
    <3> DEFINE r == [caller[c] EXCEPT !.pc = "check", !.m = reflected.executor, !.job = "approved"]
    <3>1. caller' = [caller EXCEPT ![c] = r] BY <1>1, <2>2
    <3>2. Made(reflected.executor, manager) BY <1>1 DEF MapsFit
    <3>3. /\ r \in CallerRows /\ r.pc = "check" /\ r.m = reflected.executor /\ r.cfg = caller[c].cfg
          /\ r.then = caller[c].then /\ r.job = "approved"
      BY <1>1, <3>2 DEF CallerRows, CallerPcs, Made
    <3> HIDE DEF r
    <3>4. CallerFits(r, manager, threads) BY <1>1, <3>2, <3>3 DEF CallerFits, OnLoopPcs
    <3> QED BY <3>1, <3>4
  <2> QED BY <1>9, <2>1, <2>2 DEF Approved
<1>10. CASE EnterCall(c)
  <2>1. CASE caller' = [caller EXCEPT ![c].pc = "restart", ![c].then = "submit"]
    <3> DEFINE r == [caller[c] EXCEPT !.pc = "restart", !.then = "submit"]
    <3>1. caller' = [caller EXCEPT ![c] = r] BY <1>1, <2>1
    <3>2. /\ r \in CallerRows /\ r.pc = "restart" /\ r.m = caller[c].m /\ r.cfg = caller[c].cfg
          /\ r.then = "submit" /\ r.job = caller[c].job
      <4> DEFINE at == "restart"
                 next == "submit"
      <4>1. at \in CallerPcs /\ next \in Nexts BY DEF CallerPcs, Nexts
      <4>2. r = [caller[c] EXCEPT !.pc = at, !.then = next] OBVIOUS
      <4> HIDE DEF at, next, r
      <4>3. /\ r \in CallerRows /\ r.pc = at /\ r.m = caller[c].m /\ r.cfg = caller[c].cfg
            /\ r.then = next /\ r.job = caller[c].job
        BY <1>1, <4>1, <4>2 DEF CallerRows
      <4> QED BY <4>3 DEF at, next
    <3> HIDE DEF r
    <3>3. r.pc \notin OnLoopPcs /\ r.pc \notin {"idle", "ensure", "create", "forget", "sending"}
          /\ r.then \notin {"create", "forget"}
      BY <3>2 DEF OnLoopPcs
    <3>4. r.job = "reconnect" => r.cfg # None BY <1>1, <3>2 DEF CallerFits
    <3>5. CallerFits(r, manager, threads) BY <1>4, <3>2, <3>3, <3>4 DEF CallerFits
    <3> QED BY <3>1, <3>5
  <2>2. CASE Go(c, "refused") \/ Go(c, "submit") BY <1>7, <2>2
  <2> QED BY <1>10, <2>1, <2>2 DEF EnterCall, Recover
<1>11. CASE Submit(c)
  <2>1. CASE M(c).loop = None \/ M(c).session = None
    <3>1. Go(c, "done") \/ Go(c, "refused") BY <1>11, <2>1 DEF Submit
    <3> QED BY <1>7, <3>1
  <2>2. CASE ~(M(c).loop = None \/ M(c).session = None)
    <3> DEFINE pc == IF caller[c].job = "refresh" THEN "refreshing" ELSE "listing"
               r  == [caller[c] EXCEPT !.pc = pc, !.on = M(c).loop]
    <3>1. caller' = [caller EXCEPT ![c] = r] BY <1>1, <1>11, <2>2 DEF Submit
    <3>2. ManagerFits(caller[c].m, manager, threads) /\ M(c).loop # None BY <1>4, <2>2 DEF McpIInv
    <3>3. M(c).loop \in Threads /\ threads[M(c).loop].of = caller[c].m
      BY <3>2 DEF ManagerFits, ManagerRows, M
    <3>4. pc \in {"refreshing", "listing"} OBVIOUS
    <3>4a. pc \in OnLoopPcs /\ pc \in CallerPcs BY <3>4 DEF CallerPcs, OnLoopPcs
    <3> HIDE DEF pc
    <3>5. /\ r \in CallerRows /\ r.pc = pc /\ r.m = caller[c].m /\ r.cfg = caller[c].cfg
          /\ r.then = caller[c].then /\ r.job = caller[c].job /\ r.on = M(c).loop
      BY <1>1, <3>3, <3>4a DEF CallerRows
    <3> HIDE DEF r
    <3>6. CallerFits(r, manager, threads) BY <1>1, <1>4, <3>3, <3>4, <3>5 DEF CallerFits
    <3> QED BY <3>1, <3>6
  <2> QED BY <2>1, <2>2
<1> QED BY <1>8, <1>9, <1>10, <1>11

(* The reflected tool is replaced or forgotten.                              *)
LEMMA ReflectMoves ==
    ASSUME McpIInv, NEW c \in Callers, Forget(c) \/ Reflect(c) \/ RefuseCall(c)
    PROVE  McpIInv'
<1>1. /\ CallerFits(caller[c], manager, threads) /\ caller[c] \in CallerRows /\ DOMAIN caller = Callers
      /\ MapsFit(active, reflected, manager)
  BY CallerFacts
<1>2. UNCHANGED <<config, tool, manager, threads, sent, active>> BY DEF Forget, Reflect, RefuseCall, outside
<1>3. caller[c].pc \in {"forget", "reflect", "refused"} BY DEF Forget, Reflect, RefuseCall, CallerAt
<1>4. Made(caller[c].m, manager) /\ M(c) \in ManagerRows BY <1>1, <1>3, CallerFacts
<1>5. \E r : CallerFits(r, manager, threads) /\ caller' = [caller EXCEPT ![c] = r]
  <2>1. CASE Go(c, "done") BY <2>1, GoFits
  <2>2. CASE Forget(c)
    <3> DEFINE r == [caller[c] EXCEPT !.pc = "ensure", !.job = "refresh"]
    <3>1. caller' = [caller EXCEPT ![c] = r] /\ caller[c].cfg # None
      BY <1>1, <2>2 DEF Forget, CallerAt, CallerFits
    <3>2. /\ r \in CallerRows /\ r.pc = "ensure" /\ r.cfg = caller[c].cfg BY <1>1 DEF CallerRows, CallerPcs
    <3> HIDE DEF r
    <3>3. CallerFits(r, manager, threads) BY <3>1, <3>2 DEF CallerFits, OnLoopPcs
    <3> QED BY <3>1, <3>3
  <2> QED BY <2>1, <2>2 DEF Reflect, RefuseCall
<1>6. MapsFit(active', reflected', manager)
  <2> DEFINE fresh == [entry |-> [m |-> caller[c].m, cfg |-> caller[c].cfg, schema |-> M(c).tools],
                       executor |-> caller[c].m]
  <2>1. reflected' \in {reflected, [reflected EXCEPT !.entry = Unmapped], fresh} BY DEF Forget, Reflect, RefuseCall
  <2>2. reflected \in [entry : Scopes, executor : Managers] BY <1>1 DEF MapsFit
  <2>3. Unmapped \in Scopes BY McpNumbers DEF Unmapped, Scopes
  <2>4. CASE reflected' = [reflected EXCEPT !.entry = Unmapped]
    BY <1>1, <1>2, <2>2, <2>3, <2>4 DEF MapsFit
  <2>5. CASE reflected' = fresh
    <3>1. fresh.entry \in Scopes BY <1>1, <1>4 DEF Scopes, CallerRows, ManagerRows, Made
    <3>2. fresh \in [entry : Scopes, executor : Managers] /\ fresh.executor = caller[c].m /\ fresh.entry.m = caller[c].m
      BY <1>4, <3>1 DEF Made
    <3> QED BY <1>1, <1>2, <1>4, <2>5, <3>2 DEF MapsFit
  <2>6. CASE reflected' = reflected BY <1>1, <1>2, <2>6
  <2> QED BY <2>1, <2>4, <2>5, <2>6
<1> QED BY <1>2, <1>5, <1>6, QuietMoves

(* A call goes out.                                                          *)
LEMMA CallGoesOut ==
    ASSUME McpIInv, NEW c \in Callers, SendCall(c)
    PROVE  McpIInv'
<1>1. /\ CallerFits(caller[c], manager, threads) /\ caller[c] \in CallerRows /\ DOMAIN caller = Callers
      /\ MapsFit(active, reflected, manager) /\ CallsKeepTheirScope
  BY CallerFacts
<1>2. caller[c].pc = "sending" /\ UNCHANGED <<config, tool, active, reflected, manager, threads>>
  BY DEF SendCall, CallerAt, outside, maps
<1>3. Made(caller[c].m, manager) /\ caller[c].on \in Threads /\ Own(caller[c].on) = caller[c].m
      /\ manager[caller[c].m].cfg = caller[c].scope.cfg
  BY <1>1, <1>2 DEF CallerFits, OnLoopPcs, Own
<1>4. \E r : CallerFits(r, manager, threads) /\ caller' = [caller EXCEPT ![c] = r]
  <2>1. CASE Go(c, "done") \/ Go(c, "call failed") BY <1>2, <2>1, GoFits DEF CallerPcs, OnLoopPcs
  <2>2. CASE Go(c, "unanswered")
    <3> DEFINE r == [caller[c] EXCEPT !.pc = "unanswered", !.why = "none"]
    <3>1. caller' = [caller EXCEPT ![c] = r] BY <1>1, <2>2 DEF Go
    <3>2. /\ r \in CallerRows /\ r.pc = "unanswered" /\ r.m = caller[c].m /\ r.cfg = caller[c].cfg
          /\ r.then = caller[c].then /\ r.job = caller[c].job /\ r.on = caller[c].on
      <4> DEFINE at == "unanswered"
      <4>1. at \in CallerPcs BY DEF CallerPcs, OnLoopPcs
      <4>2. r = [caller[c] EXCEPT !.pc = at, !.why = "none"] OBVIOUS
      <4> HIDE DEF at, r
      <4>3. /\ r \in CallerRows /\ r.pc = at /\ r.m = caller[c].m /\ r.cfg = caller[c].cfg
            /\ r.then = caller[c].then /\ r.job = caller[c].job /\ r.on = caller[c].on
        BY <1>1, <4>1, <4>2 DEF CallerRows
      <4> QED BY <4>3 DEF at
    <3> HIDE DEF r
    <3>3. CallerFits(r, manager, threads) BY <1>1, <1>2, <1>3, <3>2 DEF CallerFits, OnLoopPcs, Own
    <3> QED BY <3>1, <3>3
  <2> QED BY <2>1, <2>2 DEF SendCall
<1>5. CallsKeepTheirScope'
  <2>1. CASE AsApproved(c)
    <3> DEFINE s == [scope |-> caller[c].scope, listed |-> caller[c].listed, by |-> manager[Own(caller[c].on)].cfg]
    <3>1. sent' = sent \cup {s} BY <2>1 DEF SendCall
    <3>2. s.by = s.scope.cfg /\ s.listed = s.scope.schema BY <1>3, <2>1 DEF AsApproved
    <3> HIDE DEF s
    <3> QED BY <1>1, <3>1, <3>2 DEF CallsKeepTheirScope
  <2>2. CASE ~AsApproved(c) BY <1>1, <2>2 DEF SendCall, CallsKeepTheirScope
  <2> QED BY <2>1, <2>2
<1>6. ManagersKept(manager') /\ RunsKept(threads') BY <1>2, RowEdit, RunEdit
<1> QED BY <1>1, <1>2, <1>4, <1>5, <1>6, CallerMoves

(* The lock, the join and what follows: a manager forgets its thread only    *)
(* when that one is over.                                                    *)
LEMMA RowFacts ==
    ASSUME McpIInv, NEW c \in Callers, caller[c].pc \notin {"idle", "ensure"}
    PROVE  /\ caller[c].m \in Managers /\ M(c) \in ManagerRows
           /\ \A r : RowKept(caller[c].m, r) /\ SetM(c, r) => ManagersKept(manager')
           /\ \A x \in Callers \cup {None} : RowKept(caller[c].m, [M(c) EXCEPT !.lock = x])
           /\ \A x \in Callers \cup {None} : RowKept(caller[c].m, [MarkUnhealthy(M(c)) EXCEPT !.lock = x])
           /\ RowKept(caller[c].m, MarkUnhealthy(M(c)))
           /\ \A x \in Callers \cup {None} :
                 RowKept(caller[c].m, [M(c) EXCEPT !.state = "failed", !.connected = FALSE, !.lock = x])
<1> DEFINE m == caller[c].m
<1>1. m \in Managers /\ M(c) \in ManagerRows /\ RowKept(m, M(c)) BY CallerFacts
<1>2. \A r : RowKept(m, r) /\ SetM(c, r) => ManagersKept(manager') BY <1>1, RowEdit DEF SetM
<1> HIDE DEF m
<1>3. ASSUME NEW r \in ManagerRows, r.cfg = M(c).cfg, r.loop = M(c).loop, r.thread = M(c).thread PROVE RowKept(m, r)
  BY <1>1, <1>3 DEF RowKept
<1>4. ASSUME NEW x \in Callers \cup {None} PROVE RowKept(m, [M(c) EXCEPT !.lock = x])
  <2> DEFINE r == [M(c) EXCEPT !.lock = x]
  <2>1. r \in ManagerRows /\ r.cfg = M(c).cfg /\ r.loop = M(c).loop /\ r.thread = M(c).thread
    BY <1>1 DEF ManagerRows, ManagerStates
  <2> HIDE DEF r
  <2> QED BY <1>3, <2>1 DEF r
<1>5. RowKept(m, MarkUnhealthy(M(c)))
  <2> DEFINE r == MarkUnhealthy(M(c))
  <2>1. r \in ManagerRows /\ r.cfg = M(c).cfg /\ r.loop = M(c).loop /\ r.thread = M(c).thread
    BY <1>1 DEF ManagerRows, ManagerStates, MarkUnhealthy
  <2> HIDE DEF r
  <2> QED BY <1>3, <2>1 DEF r
<1>6. ASSUME NEW x \in Callers \cup {None} PROVE RowKept(m, [MarkUnhealthy(M(c)) EXCEPT !.lock = x])
  <2> DEFINE r == [MarkUnhealthy(M(c)) EXCEPT !.lock = x]
  <2>1. r \in ManagerRows /\ r.cfg = M(c).cfg /\ r.loop = M(c).loop /\ r.thread = M(c).thread
    BY <1>1 DEF ManagerRows, ManagerStates, MarkUnhealthy
  <2> HIDE DEF r
  <2> QED BY <1>3, <2>1 DEF r
<1>7. ASSUME NEW x \in Callers \cup {None}
      PROVE  RowKept(m, [M(c) EXCEPT !.state = "failed", !.connected = FALSE, !.lock = x])
  <2> DEFINE r == [M(c) EXCEPT !.state = "failed", !.connected = FALSE, !.lock = x]
  <2>1. r \in ManagerRows /\ r.cfg = M(c).cfg /\ r.loop = M(c).loop /\ r.thread = M(c).thread
    BY <1>1 DEF ManagerRows, ManagerStates
  <2> HIDE DEF r
  <2> QED BY <1>3, <2>1 DEF r
<1> QED BY <1>1, <1>2, <1>4, <1>5, <1>6, <1>7 DEF m

(* The loop that a manager has is told to stop.                              *)
LEMMA StopTold ==
    ASSUME McpIInv, NEW c \in Callers, caller[c].pc \notin {"idle", "ensure"},
           threads' = IF M(c).loop = None THEN threads ELSE [threads EXCEPT ![M(c).loop].stop = TRUE]
    PROVE  RunsKept(threads')
<1>1. M(c) \in ManagerRows BY CallerFacts
<1>2. CASE M(c).loop = None BY <1>2, RunEdit
<1>3. CASE M(c).loop # None
  <2> DEFINE t == M(c).loop
             r == [threads[t] EXCEPT !.stop = TRUE]
  <2>1. t \in Threads BY <1>1, <1>3 DEF ManagerRows, ManagerStates
  <2>2. threads[t] \in ThreadRows /\ DOMAIN threads = Threads BY <2>1, RunEdit DEF McpIInv
  <2>3. threads' = [threads EXCEPT ![t] = r] BY <1>3, <2>2
  <2>4. r \in ThreadRows /\ r.of = threads[t].of /\ r.phase = threads[t].phase BY <2>2 DEF ThreadRows
  <2>5. RunKept(t, r) BY <2>4 DEF RunKept
  <2> HIDE DEF t, r
  <2> QED BY <2>1, <2>3, <2>5, RunEdit
<1> QED BY <1>2, <1>3

LEMMA StopMoves ==
    ASSUME McpIInv, NEW c \in Callers,
           LockToStart(c) \/ LockToRestart(c) \/ LockToClose(c) \/ LockToTearDown(c) \/ StartTimesOut(c)
    PROVE  McpIInv'
<1>1. /\ CallerFits(caller[c], manager, threads) /\ caller[c] \in CallerRows /\ DOMAIN caller = Callers
      /\ MapsFit(active, reflected, manager)
  BY CallerFacts
<1>2. UNCHANGED <<config, tool, sent, active, reflected>>
  BY DEF LockToStart, LockToRestart, LockToClose, LockToTearDown, StartTimesOut, outside, maps
<1>3. caller[c].pc \in {"lock", "restart", "close", "tear down", "overdue"}
  BY DEF LockToStart, LockToRestart, LockToClose, LockToTearDown, StartTimesOut, CallerAt
<1>4. Made(caller[c].m, manager) BY <1>1, <1>3, CallerFacts
<1>5. ASSUME NEW why \in {"start", "restart", "close", "give up"},
             caller' = [caller EXCEPT ![c].pc = "join", ![c].why = why]
      PROVE  \E r : CallerFits(r, manager, threads) /\ caller' = [caller EXCEPT ![c] = r]
  <2> DEFINE r == [caller[c] EXCEPT !.pc = "join", !.why = why]
  <2>1. caller' = [caller EXCEPT ![c] = r] BY <1>1, <1>5
  <2>2. /\ r \in CallerRows /\ r.pc = "join" /\ r.m = caller[c].m /\ r.cfg = caller[c].cfg
        /\ r.then = caller[c].then /\ r.job = caller[c].job
    <3> DEFINE at == "join"
    <3>1. at \in CallerPcs BY DEF CallerPcs
    <3>2. r = [caller[c] EXCEPT !.pc = at, !.why = why] OBVIOUS
    <3> HIDE DEF at, r
    <3>3. /\ r \in CallerRows /\ r.pc = at /\ r.m = caller[c].m /\ r.cfg = caller[c].cfg
          /\ r.then = caller[c].then /\ r.job = caller[c].job
      BY <1>1, <3>1, <3>2 DEF CallerRows
    <3> QED BY <3>3 DEF at
  <2> HIDE DEF r
  <2>3. CallerFits(r, manager, threads) BY <1>1, <1>4, <2>2 DEF CallerFits, OnLoopPcs
  <2> QED BY <2>1, <2>3
<1>6. ASSUME NEW why \in {"start", "restart", "close", "give up"}, StopRuntime(c, why) PROVE McpIInv'
  <2>1. \E r : CallerFits(r, manager, threads) /\ caller' = [caller EXCEPT ![c] = r]
    BY <1>5, <1>6 DEF StopRuntime
  <2>2. RunsKept(threads') BY <1>3, <1>6, StopTold DEF StopRuntime
  <2>3. ManagersKept(manager') BY <1>3, <1>6, RowFacts DEF StopRuntime
  <2>4. CallsKeepTheirScope' BY <1>2 DEF McpIInv, CallsKeepTheirScope
  <2> QED BY <1>1, <1>2, <2>1, <2>2, <2>3, <2>4, CallerMoves
<1>7. CASE LockToStart(c) /\ ThreadAlive(M(c).thread) /\ M(c).connected
  <2>1. Go(c, caller[c].then) /\ UNCHANGED <<manager, threads>> BY <1>7 DEF LockToStart, Return
  <2>2. caller[c].pc \notin {"idle", "ensure"} BY <1>3
  <2> QED BY <1>1, <1>2, <2>1, <2>2, ReturnFits, QuietMoves
<1>8. CASE StartTimesOut(c)
  <2>1. \E r : CallerFits(r, manager, threads) /\ caller' = [caller EXCEPT ![c] = r]
    BY <1>5, <1>8 DEF StartTimesOut
  <2>2. RunsKept(threads') BY <1>3, <1>8, StopTold DEF StartTimesOut
  <2>3. SetM(c, [M(c) EXCEPT !.state = "failed", !.connected = FALSE, !.lock = c]) BY <1>8 DEF StartTimesOut
  <2>4. ManagersKept(manager') BY <1>3, <2>3, RowFacts
  <2>5. CallsKeepTheirScope' BY <1>2 DEF McpIInv, CallsKeepTheirScope
  <2> QED BY <1>1, <1>2, <2>1, <2>2, <2>4, <2>5, CallerMoves
<1> QED BY <1>6, <1>7, <1>8 DEF LockToStart, LockToRestart, LockToClose, LockToTearDown

(* A join that comes to its end: the thread is over.                         *)
LEMMA ClearedFits ==
    ASSUME McpIInv, NEW c \in Callers, CallerAt(c, "join"), ~ThreadAlive(M(c).thread),
           NEW x \in Callers \cup {None}, NEW state \in {"stopped", "starting", "credentials_unavailable"}
    PROVE  /\ RowKept(caller[c].m, [Cleared(M(c)) EXCEPT !.lock = x])
           /\ RowKept(caller[c].m, [Cleared(M(c)) EXCEPT !.state = state, !.lock = x])
<1> DEFINE m == caller[c].m
           r == [Cleared(M(c)) EXCEPT !.lock = x]
           q == [Cleared(M(c)) EXCEPT !.state = state, !.lock = x]
<1>1. m \in Managers /\ M(c) \in ManagerRows /\ M(c) = manager[m] BY CallerFacts DEF CallerAt, M
<1>2. r \in ManagerRows /\ r.cfg = M(c).cfg /\ r.loop = None BY <1>1 DEF ManagerRows, ManagerStates, Cleared
<1>3. q \in ManagerRows /\ q.cfg = M(c).cfg /\ q.loop = None BY <1>1 DEF ManagerRows, ManagerStates, Cleared
<1> HIDE DEF m, r, q
<1>4. RowKept(m, r) /\ RowKept(m, q) BY <1>1, <1>2, <1>3 DEF RowKept
<1> QED BY <1>4 DEF m, r, q

LEMMA JoinMoves ==
    ASSUME McpIInv, NEW c \in Callers,
           \/ JoinTimesOut(c) \/ Restarted(c) \/ GivenUp(c) \/ Closed(c)
           \/ Prepare(c) /\ UNCHANGED threads
    PROVE  McpIInv'
<1>1. /\ caller[c] \in CallerRows /\ DOMAIN caller = Callers /\ MapsFit(active, reflected, manager)
  BY CallerFacts
<1>2. UNCHANGED <<config, tool, sent, active, reflected, threads>> /\ CallerAt(c, "join")
  BY DEF JoinTimesOut, Restarted, GivenUp, Closed, Prepare, Joined, outside, maps
<1>3. caller[c].pc \notin {"idle", "ensure"} /\ None \in Callers \cup {None} BY <1>2 DEF CallerAt
<1>4. \E r : CallerFits(r, manager, threads) /\ caller' = [caller EXCEPT ![c] = r]
  <2>1. CASE Go(c, "refused") \/ Go(c, "start") \/ Go(c, "unregister")
    BY <1>3, <2>1, GoFits DEF CallerPcs, OnLoopPcs
  <2>2. CASE Go(c, caller[c].then) BY <1>3, <2>2, ReturnFits
  <2>3. CASE JoinTimesOut(c) BY <2>1, <2>2, <2>3 DEF JoinTimesOut
  <2>4. CASE Prepare(c) /\ UNCHANGED threads
    <3>1. CASE Go(c, "refused") BY <2>1, <3>1
    <3>2. ASSUME NEW t \in Threads, threads[t].of = None, threads' = [threads EXCEPT ![t] = NewThread(caller[c].m)]
          PROVE  FALSE
      <4>1. threads'[t].of = caller[c].m BY <3>2 DEF McpIInv, NewThread
      <4>2. caller[c].m # None BY <1>3, CallerFacts, McpNumbers
      <4> QED BY <1>2, <3>2, <4>1, <4>2
    <3> QED BY <2>4, <3>1, <3>2 DEF Prepare
  <2> QED BY <2>1, <2>3, <2>4 DEF Restarted, GivenUp, Closed
<1>5. ManagersKept(manager')
  <2>1. CASE SetM(c, [MarkUnhealthy(M(c)) EXCEPT !.lock = None]) BY <1>3, <2>1, RowFacts
  <2>2. CASE ~ThreadAlive(M(c).thread)
    <3>1. /\ RowKept(caller[c].m, [Cleared(M(c)) EXCEPT !.lock = None])
          /\ \A state \in {"stopped", "starting", "credentials_unavailable"} :
                RowKept(caller[c].m, [Cleared(M(c)) EXCEPT !.state = state, !.lock = None])
      BY <1>2, <1>3, <2>2, ClearedFits
    <3>2. \/ SetM(c, [Cleared(M(c)) EXCEPT !.lock = None])
          \/ SetM(c, [Cleared(M(c)) EXCEPT !.state = "stopped", !.lock = None])
          \/ SetM(c, [Cleared(M(c)) EXCEPT !.state = "credentials_unavailable", !.lock = None])
      <4>1. ASSUME NEW t \in Threads, threads[t].of = None, threads' = [threads EXCEPT ![t] = NewThread(caller[c].m)]
            PROVE  FALSE
        <5>1. threads'[t].of = caller[c].m BY <4>1 DEF McpIInv, NewThread
        <5>2. caller[c].m # None BY <1>3, CallerFacts, McpNumbers
        <5> QED BY <1>2, <4>1, <5>1, <5>2
      <4> QED BY <2>2, <4>1 DEF JoinTimesOut, Restarted, GivenUp, Closed, Prepare
    <3> QED BY <1>3, <3>1, <3>2, RowFacts
  <2> QED BY <2>1, <2>2 DEF JoinTimesOut, Restarted, GivenUp, Closed, Prepare, Joined
<1>6. RunsKept(threads') BY <1>2, RunEdit
<1>7. CallsKeepTheirScope' BY <1>2 DEF McpIInv, CallsKeepTheirScope
<1> QED BY <1>1, <1>2, <1>4, <1>5, <1>6, <1>7, CallerMoves

(* A manager that is starting has no tools yet.                              *)
LEMMA Retooled ==
    ASSUME NEW p \in ManagerRows
    PROVE  [p EXCEPT !.state = "starting", !.tools = None] \in ManagerRows
<1>1. [p EXCEPT !.state = "starting"] \in ManagerRows BY DEF ManagerRows, ManagerStates
<1> DEFINE q == [p EXCEPT !.state = "starting"]
<1>2. q \in ManagerRows BY <1>1
<1> HIDE DEF q
<1>3. [q EXCEPT !.tools = None] \in ManagerRows BY <1>2 DEF ManagerRows, ManagerStates, None
<1>4. [p EXCEPT !.state = "starting", !.tools = None] = [q EXCEPT !.tools = None] BY DEF q
<1> QED BY <1>3, <1>4

LEMMA PrepareMoves ==
    ASSUME McpIInv, NEW c \in Callers, Prepare(c)
    PROVE  McpIInv'
<1>1. CASE UNCHANGED threads BY <1>1, JoinMoves
<1>2. CASE ~UNCHANGED threads
  <2> DEFINE m == caller[c].m
  <2>1. PICK t \in Threads :
           /\ threads[t].of = None /\ threads' = [threads EXCEPT ![t] = NewThread(m)]
           /\ SetM(c, [Cleared(M(c)) EXCEPT !.state = "starting", !.tools = None, !.thread = t,
                                            !.ready = FALSE, !.lock = None])
           /\ Go(c, "wait")
    BY <1>2 DEF Prepare
  <2> DEFINE r == [Cleared(M(c)) EXCEPT !.state = "starting", !.tools = None, !.thread = t, !.ready = FALSE, !.lock = None]
  <2>2. /\ CallerAt(c, "join") /\ ~ThreadAlive(M(c).thread)
        /\ UNCHANGED <<config, tool, sent, active, reflected>>
    BY DEF Prepare, Joined, outside, maps
  <2>3. /\ Made(m, manager) /\ m \in Managers /\ M(c) \in ManagerRows /\ M(c) = manager[m]
        /\ MapsFit(active, reflected, manager) /\ DOMAIN caller = Callers
    BY <2>2, CallerFacts DEF CallerAt, M
  <2>4. /\ r \in ManagerRows /\ r.cfg = M(c).cfg /\ r.loop = None /\ r.thread = t
    <3> DEFINE p == Cleared(M(c))
    <3>1. p \in ManagerRows /\ p.cfg = M(c).cfg /\ p.loop = None BY <2>3 DEF ManagerRows, ManagerStates, Cleared
    <3> HIDE DEF p
    <3>2. [p EXCEPT !.state = "starting", !.tools = None, !.thread = t, !.ready = FALSE, !.lock = None] \in ManagerRows
      <4>1. [p EXCEPT !.state = "starting", !.tools = None] \in ManagerRows
        BY <3>1, Retooled
      <4> DEFINE p1 == [p EXCEPT !.state = "starting", !.tools = None]
      <4>2. [p EXCEPT !.state = "starting", !.tools = None, !.thread = t, !.ready = FALSE, !.lock = None]
               = [p1 EXCEPT !.thread = t, !.ready = FALSE, !.lock = None]
        OBVIOUS
      <4>3. p1 \in ManagerRows BY <4>1
      <4> HIDE DEF p1
      <4> QED BY <4>2, <4>3 DEF ManagerRows, ManagerStates
    <3>3. /\ r = [p EXCEPT !.state = "starting", !.tools = None, !.thread = t, !.ready = FALSE, !.lock = None]
          /\ r.cfg = p.cfg /\ r.loop = p.loop /\ r.thread = t
      BY <3>1 DEF ManagerRows, ManagerStates, p
    <3> QED BY <3>1, <3>2, <3>3
  <2>5. /\ NewThread(m) \in ThreadRows /\ NewThread(m).of = m /\ m # None
    BY <2>3, McpNumbers DEF NewThread, ThreadRows
  <2>6. /\ DOMAIN manager = Managers /\ DOMAIN threads = Threads /\ manager' = [manager EXCEPT ![m] = r]
    BY <2>1 DEF McpIInv, SetM
  <2> HIDE DEF m, r
  <2>7. /\ DOMAIN manager' = Managers /\ manager'[m] = r /\ \A n \in Managers : n # m => manager'[n] = manager[n]
    BY <2>3, <2>6
  <2>8. /\ DOMAIN threads' = Threads /\ threads'[t] = NewThread(m) /\ \A u \in Threads : u # t => threads'[u] = threads[u]
    BY <2>1, <2>6 DEF m
  <2>9. Lasts(manager, manager', threads, threads')
    <3>1. \A n \in Managers : manager'[n].cfg = manager[n].cfg BY <2>3, <2>4, <2>7
    <3>2. \A u \in Threads : threads[u].of # None => threads'[u].of = threads[u].of BY <2>1, <2>8
    <3> QED BY <3>1, <3>2 DEF Lasts
  <2>10. ASSUME NEW n \in Managers PROVE ManagerFits(n, manager', threads')
    <3>1. ManagerFits(n, manager, threads) BY DEF McpIInv
    <3>2. CASE n = m BY <2>4, <2>7, <3>2 DEF ManagerFits
    <3>3. CASE n # m
      <4>1. manager[n].loop # None => manager[n].loop \in Threads /\ manager[n].loop # t
        BY <2>1, <3>1, McpNumbers DEF ManagerFits, ManagerRows, ManagerStates
      <4> QED BY <2>7, <2>8, <3>1, <3>3, <4>1 DEF ManagerFits
    <3> QED BY <3>2, <3>3
  <2>11. ASSUME NEW u \in Threads PROVE ThreadFits(u, manager', threads')
    <3>1. ThreadFits(u, manager, threads) BY DEF McpIInv
    <3>2. CASE u = t BY <2>3, <2>4, <2>5, <2>7, <2>8, <3>2 DEF ThreadFits, Made
    <3>3. CASE u # t
      <4>1. threads[u].phase # "none" => threads[u].of # m
        BY <2>2, <2>3, <3>1, McpNumbers DEF ThreadFits, ThreadAlive
      <4> QED BY <2>7, <2>8, <3>1, <3>3, <4>1 DEF ThreadFits, Made
    <3> QED BY <3>2, <3>3
  <2>12. CallerFits(GoRow(c, "wait"), manager, threads) /\ caller' = [caller EXCEPT ![c] = GoRow(c, "wait")]
    BY <2>1, <2>2, GoFits DEF CallerAt, CallerPcs, OnLoopPcs
  <2>13. DOMAIN caller' = Callers /\ \A d \in Callers : caller'[d] = caller[d] \/ CallerFits(caller'[d], manager, threads)
    BY <2>3, <2>12
  <2>14. config' \in Nat \ {None} /\ tool' \in Nat /\ CallsKeepTheirScope'
    BY <2>2 DEF McpIInv, CallsKeepTheirScope
  <2>15. MapsFit(active', reflected', manager) BY <2>2, <2>3
  <2> QED BY <2>7, <2>8, <2>9, <2>10, <2>11, <2>13, <2>14, <2>15, McpRests
<1> QED BY <1>1, <1>2

(* A manager of another configuration is retired; another one takes its place. *)
LEMMA RetireMoves ==
    ASSUME McpIInv, NEW c \in Callers, EnsureRetire(c) \/ BeginReset(c)
    PROVE  McpIInv'
<1>1. /\ CallerFits(caller[c], manager, threads) /\ caller[c] \in CallerRows /\ DOMAIN caller = Callers
      /\ MapsFit(active, reflected, manager) /\ DOMAIN manager = Managers
  BY CallerFacts DEF McpIInv
<1>2. UNCHANGED <<config, tool, sent, threads>> BY DEF EnsureRetire, BeginReset, outside
<1>3. CallsKeepTheirScope' /\ RunsKept(threads') BY <1>2, RunEdit DEF McpIInv, CallsKeepTheirScope
<1>4. active.m # None /\ manager' = [manager EXCEPT ![active.m].retired = TRUE] => ManagersKept(manager')
  <2> DEFINE m == active.m
             r == [manager[m] EXCEPT !.retired = TRUE]
  <2>1. SUFFICES ASSUME m # None, manager' = [manager EXCEPT ![m].retired = TRUE] PROVE ManagersKept(manager') OBVIOUS
  <2>2. m \in Managers BY <1>1, <2>1 DEF MapsFit, Made
  <2>3. RowKept(m, manager[m]) /\ manager[m] \in ManagerRows BY <2>2, RowEdit
  <2>4. r \in ManagerRows /\ r.cfg = manager[m].cfg /\ r.loop = manager[m].loop /\ r.thread = manager[m].thread
    BY <2>3 DEF ManagerRows, ManagerStates
  <2>5. manager' = [manager EXCEPT ![m] = r] BY <1>1, <2>1
  <2> HIDE DEF m, r
  <2>6. RowKept(m, r) BY <2>3, <2>4 DEF RowKept
  <2> QED BY <2>2, <2>5, <2>6, RowEdit
<1>5. CASE EnsureRetire(c)
  <2> DEFINE r == [caller[c] EXCEPT !.pc = "close", !.m = active.m, !.then = "create"]
  <2>1. /\ caller[c].pc = "ensure" /\ active.m # None /\ active' = [active EXCEPT !.lock = c] /\ UNCHANGED reflected
        /\ manager' = [manager EXCEPT ![active.m].retired = TRUE]
    BY <1>5 DEF EnsureRetire, CallerAt
  <2>6. caller' = [caller EXCEPT ![c] = r] BY <1>1, <1>5 DEF EnsureRetire
  <2>2. Made(active.m, manager) /\ caller[c].cfg # None BY <1>1, <2>1 DEF MapsFit, CallerFits
  <2>3. /\ r \in CallerRows /\ r.pc = "close" /\ r.m = active.m /\ r.cfg = caller[c].cfg
        /\ r.then = "create" /\ r.job = caller[c].job
    BY <1>1, <2>2 DEF CallerRows, CallerPcs, Nexts, Made
  <2> HIDE DEF r
  <2>4. CallerFits(r, manager, threads) BY <2>2, <2>3 DEF CallerFits, OnLoopPcs
  <2>5. MapsFit(active', reflected', manager)
    <3>1. active \in [m : Managers \cup {None}, lock : Callers \cup {None}] BY <1>1 DEF MapsFit
    <3>2. active' \in [m : Managers \cup {None}, lock : Callers \cup {None}] /\ active'.m = active.m BY <2>1, <3>1
    <3> QED BY <1>1, <2>1, <3>2 DEF MapsFit
  <2> QED BY <1>2, <1>3, <1>4, <2>1, <2>4, <2>5, <2>6, CallerMoves
<1>6. CASE BeginReset(c)
  <2>1. reflected' = [reflected EXCEPT !.entry = Unmapped] /\ UNCHANGED active BY <1>6 DEF BeginReset
  <2>2. MapsFit(active', reflected', manager)
    <3>1. Unmapped \in Scopes BY McpNumbers DEF Unmapped, Scopes
    <3>2. reflected' \in [entry : Scopes, executor : Managers] /\ reflected'.entry = Unmapped
          /\ reflected'.executor = reflected.executor
      BY <1>1, <2>1, <3>1 DEF MapsFit
    <3> QED BY <1>1, <2>1, <3>2 DEF MapsFit
  <2>3. CASE active.m = None
    <3>1. UNCHANGED <<caller, manager>> BY <1>6, <2>3 DEF BeginReset
    <3>2. ManagersKept(manager') BY <3>1, RowEdit
    <3>3. DOMAIN manager' = Managers /\ DOMAIN threads' = Threads /\ DOMAIN caller' = Callers
      BY <1>1, <1>3, <3>1, <3>2 DEF ManagersKept, RunsKept
    <3>4. config' \in Nat \ {None} /\ tool' \in Nat BY <1>2 DEF McpIInv
    <3> QED BY <1>1, <1>3, <2>2, <3>1, <3>2, <3>3, <3>4, RuntimeStays, McpRests
  <2>4. CASE active.m # None
    <3> DEFINE r == [IdleCaller EXCEPT !.job = "reset", !.pc = "close", !.m = active.m]
    <3>1. caller' = [caller EXCEPT ![c] = r] /\ manager' = [manager EXCEPT ![active.m].retired = TRUE]
      BY <1>6, <2>4 DEF BeginReset
    <3>2. Made(active.m, manager) BY <1>1, <2>4 DEF MapsFit
    <3>3. IdleCaller \in CallerRows /\ IdleCaller.then = "done" BY IdleFits DEF CallerFits, IdleCaller
    <3>4. r \in CallerRows /\ r.pc = "close" /\ r.m = active.m /\ r.then = "done" /\ r.job = "reset"
      BY <3>2, <3>3 DEF CallerRows, CallerPcs, Made
    <3> HIDE DEF r
    <3>5. CallerFits(r, manager, threads) BY <3>2, <3>4 DEF CallerFits, OnLoopPcs
    <3> QED BY <1>2, <1>3, <1>4, <2>2, <2>4, <3>1, <3>5, CallerMoves
  <2> QED BY <2>3, <2>4
<1> QED BY <1>5, <1>6

LEMMA NewMoves ==
    ASSUME McpIInv, NEW c \in Callers, EnsureNew(c)
    PROVE  McpIInv'
<1>1. /\ CallerFits(caller[c], manager, threads) /\ caller[c] \in CallerRows /\ DOMAIN caller = Callers
      /\ MapsFit(active, reflected, manager) /\ DOMAIN manager = Managers
  BY CallerFacts DEF McpIInv
<1>2. UNCHANGED <<config, tool, sent, reflected, threads>> BY DEF EnsureNew, outside
<1>3. PICK m \in Managers :
         /\ manager[m].cfg = None /\ manager' = [manager EXCEPT ![m] = NewManager(caller[c].cfg)]
         /\ active' = [m |-> m, lock |-> None]
         /\ caller' = [caller EXCEPT ![c].pc = "ensured", ![c].m = m]
  BY DEF EnsureNew
<1> DEFINE q == NewManager(caller[c].cfg)
           r == [caller[c] EXCEPT !.pc = "ensured", !.m = m]
<1>4. caller[c].pc \in {"ensure", "create"} BY DEF EnsureNew, CallerAt
<1>5. caller[c].cfg # None /\ caller[c].cfg \in Nat BY <1>1, <1>4 DEF CallerFits, CallerRows
<1>6. q \in ManagerRows /\ q.cfg = caller[c].cfg /\ q.loop = None
  BY <1>5, McpNumbers DEF NewManager, ManagerRows, ManagerStates
<1>7. /\ r \in CallerRows /\ r.pc = "ensured" /\ r.m = m /\ r.cfg = caller[c].cfg
      /\ r.then = caller[c].then /\ r.job = caller[c].job
  BY <1>1 DEF CallerRows, CallerPcs
<1>8. caller' = [caller EXCEPT ![c] = r] BY <1>1, <1>3
<1> HIDE DEF q, r
<1>9. /\ DOMAIN manager' = Managers /\ manager'[m] = q /\ \A n \in Managers : n # m => manager'[n] = manager[n]
  BY <1>1, <1>3 DEF q
<1>10. Lasts(manager, manager', threads, threads') BY <1>2, <1>3, <1>9 DEF Lasts
<1>11. ASSUME NEW n \in Managers PROVE ManagerFits(n, manager', threads')
  <2>1. ManagerFits(n, manager, threads) BY DEF McpIInv
  <2> QED BY <1>2, <1>6, <1>9, <2>1 DEF ManagerFits
<1>12. ASSUME NEW t \in Threads PROVE ThreadFits(t, manager', threads')
  <2>1. ThreadFits(t, manager, threads) BY DEF McpIInv
  <2>2. threads[t].phase # "none" => threads[t].of # m BY <1>3, <2>1 DEF ThreadFits, Made
  <2> QED BY <1>2, <1>9, <2>1, <2>2 DEF ThreadFits, Made
<1>13. CallerFits(r, manager', threads') BY <1>1, <1>5, <1>6, <1>7, <1>9 DEF CallerFits, OnLoopPcs, Made
<1>14. DOMAIN caller' = Callers /\ \A d \in Callers : caller'[d] = caller[d] \/ CallerFits(caller'[d], manager', threads')
  BY <1>1, <1>8, <1>13
<1>15. MapsFit(active', reflected', manager')
  <2>1. MapsFit(active, reflected, manager') BY <1>1, <1>10, MapsStay
  <2>2. active' \in [m : Managers \cup {None}, lock : Callers \cup {None}] /\ active'.m = m BY <1>3
  <2>3. Made(m, manager') BY <1>5, <1>6, <1>9 DEF Made
  <2> QED BY <1>2, <2>1, <2>2, <2>3 DEF MapsFit
<1>16. config' \in Nat \ {None} /\ tool' \in Nat /\ CallsKeepTheirScope' /\ DOMAIN threads' = Threads
  BY <1>2 DEF McpIInv, CallsKeepTheirScope
<1> QED BY <1>9, <1>10, <1>11, <1>12, <1>14, <1>15, <1>16, McpRests

(* A caller on the loop of its manager.                                      *)
LEMMA AnswerMoves ==
    ASSUME McpIInv, NEW c \in Callers, ListTools(c) \/ CallTimesOut(c) \/ CallFails(c) \/ Refreshed(c)
    PROVE  McpIInv'
<1>1. /\ CallerFits(caller[c], manager, threads) /\ caller[c] \in CallerRows /\ DOMAIN caller = Callers
      /\ MapsFit(active, reflected, manager)
  BY CallerFacts
<1>2. UNCHANGED <<config, tool, sent, active, reflected, threads>>
  BY DEF ListTools, CallTimesOut, CallFails, Refreshed, outside, maps
<1>3. caller[c].pc \in OnLoopPcs \cup {"call failed"}
  BY DEF ListTools, CallTimesOut, CallFails, Refreshed, CallerAt, OnLoopPcs
<1>4. caller[c].pc \notin {"idle", "ensure"} BY <1>3 DEF OnLoopPcs
<1>5. Made(caller[c].m, manager) /\ caller[c].m \in Managers /\ M(c) \in ManagerRows BY <1>4, CallerFacts
<1>6. CallsKeepTheirScope' /\ RunsKept(threads') /\ tool \in Nat
  BY <1>2, RunEdit DEF McpIInv, CallsKeepTheirScope
<1>7. MapsFit(active', reflected', manager) BY <1>1, <1>2
<1>8. ASSUME NEW pc \in {"tear down", "refused", "reflect"},
             caller' = [caller EXCEPT ![c].pc = pc, ![c].on = None]
      PROVE  \E r : CallerFits(r, manager, threads) /\ caller' = [caller EXCEPT ![c] = r]
  <2> DEFINE r == [caller[c] EXCEPT !.pc = pc, !.on = None]
  <2>1. caller' = [caller EXCEPT ![c] = r] BY <1>1, <1>8
  <2>2. pc \in CallerPcs BY DEF CallerPcs
  <2>3. /\ r \in CallerRows /\ r.pc = pc /\ r.m = caller[c].m /\ r.cfg = caller[c].cfg
        /\ r.then = caller[c].then /\ r.job = caller[c].job
    BY <1>1, <2>2 DEF CallerRows
  <2> HIDE DEF r
  <2>4. CallerFits(r, manager, threads) BY <1>1, <1>5, <2>3 DEF CallerFits, OnLoopPcs
  <2> QED BY <2>1, <2>4
<1>9. CASE CallTimesOut(c) \/ CallFails(c)
  <2>1. SetM(c, MarkUnhealthy(M(c))) BY <1>9 DEF CallTimesOut, CallFails
  <2>2. ManagersKept(manager') BY <1>4, <2>1, RowFacts
  <2>3. \E r : CallerFits(r, manager, threads) /\ caller' = [caller EXCEPT ![c] = r]
    BY <1>8, <1>9 DEF CallTimesOut, CallFails
  <2> QED BY <1>2, <1>6, <1>7, <2>2, <2>3, CallerMoves
<1>10. CASE Refreshed(c)
  <2> DEFINE q == [M(c) EXCEPT !.tools = tool, !.state = "connected", !.connected = TRUE]
  <2>1. SetM(c, q) BY <1>10 DEF Refreshed
  <2>2. q \in ManagerRows /\ q.cfg = M(c).cfg /\ q.loop = M(c).loop /\ q.thread = M(c).thread
    BY <1>5, <1>6 DEF ManagerRows, ManagerStates
  <2> HIDE DEF q
  <2>3. RowKept(caller[c].m, M(c)) BY <1>4, CallerFacts
  <2>4. RowKept(caller[c].m, q) BY <2>2, <2>3 DEF RowKept, M
  <2>5. ManagersKept(manager') BY <1>4, <2>1, <2>4, RowFacts
  <2>6. \E r : CallerFits(r, manager, threads) /\ caller' = [caller EXCEPT ![c] = r]
    BY <1>8, <1>10 DEF Refreshed
  <2> QED BY <1>2, <1>6, <1>7, <2>5, <2>6, CallerMoves
<1>11. CASE ListTools(c)
  <2>1. CASE M(c).retired \/ M(c).cfg # caller[c].scope.cfg
    <3>1. Go(c, "call failed") /\ UNCHANGED manager BY <1>11, <2>1 DEF ListTools
    <3>2. \E r : CallerFits(r, manager, threads) /\ caller' = [caller EXCEPT ![c] = r]
      BY <1>4, <3>1, GoFits DEF CallerPcs, OnLoopPcs
    <3> QED BY <1>2, <1>7, <3>1, <3>2, QuietMoves
  <2>2. CASE ~(M(c).retired \/ M(c).cfg # caller[c].scope.cfg)
    <3> DEFINE q == [M(c) EXCEPT !.tools = tool]
               r == [caller[c] EXCEPT !.pc = "sending", !.listed = tool]
    <3>1. SetM(c, q) /\ caller[c].pc = "listing" BY <1>11, <2>2 DEF ListTools, CallerAt
    <3>2. caller' = [caller EXCEPT ![c] = r] BY <1>1, <1>11, <2>2 DEF ListTools
    <3>3. q \in ManagerRows /\ q.cfg = M(c).cfg /\ q.loop = M(c).loop /\ q.thread = M(c).thread
      BY <1>5, <1>6 DEF ManagerRows, ManagerStates
    <3>4. /\ r \in CallerRows /\ r.pc = "sending" /\ r.m = caller[c].m /\ r.cfg = caller[c].cfg /\ r.on = caller[c].on
          /\ r.then = caller[c].then /\ r.job = caller[c].job /\ r.scope = caller[c].scope
      BY <1>1, <1>6 DEF CallerRows, CallerPcs, OnLoopPcs
    <3> HIDE DEF q, r
    <3>5. RowKept(caller[c].m, M(c)) BY <1>4, CallerFacts
    <3>6. RowKept(caller[c].m, q) BY <3>3, <3>5 DEF RowKept, M
    <3>7. ManagersKept(manager') BY <1>4, <3>1, <3>6, RowFacts
    <3>8. CallerFits(r, manager, threads) BY <1>1, <1>5, <2>2, <3>1, <3>4 DEF CallerFits, OnLoopPcs, M
    <3> QED BY <1>2, <1>6, <1>7, <3>2, <3>7, <3>8, CallerMoves
  <2> QED BY <2>1, <2>2
<1> QED BY <1>9, <1>10, <1>11

(* The server thread: what it does to its manager.                           *)
LEMMA ThreadFacts ==
    ASSUME McpIInv, NEW t \in Threads, threads[t].phase # "none"
    PROVE  /\ threads[t] \in ThreadRows /\ Own(t) \in Managers /\ manager[Own(t)] \in ManagerRows
           /\ RowKept(Own(t), manager[Own(t)]) /\ DOMAIN manager = Managers /\ DOMAIN threads = Threads
           /\ \A p \in {"opening", "serving", "unwinding", "closing"} : Phase(t, p) => RunsKept(threads')
<1>1. ThreadFits(t, manager, threads) /\ DOMAIN manager = Managers /\ DOMAIN threads = Threads BY DEF McpIInv
<1>2. threads[t] \in ThreadRows /\ Own(t) \in Managers BY <1>1 DEF ThreadFits, Own, Made
<1>3. manager[Own(t)] \in ManagerRows /\ RowKept(Own(t), manager[Own(t)]) BY <1>2, RowEdit
<1>4. ASSUME NEW p \in {"opening", "serving", "unwinding", "closing"}, Phase(t, p) PROVE RunsKept(threads')
  <2> DEFINE r == [threads[t] EXCEPT !.phase = p]
  <2>1. threads' = [threads EXCEPT ![t] = r] BY <1>1, <1>4 DEF Phase
  <2>2. r \in ThreadRows /\ r.of = threads[t].of BY <1>2 DEF ThreadRows
  <2> HIDE DEF r
  <2>3. RunKept(t, r) BY <2>2 DEF RunKept
  <2> QED BY <2>1, <2>3, RunEdit
<1> QED BY <1>1, <1>2, <1>3, <1>4

LEMMA CallersStay ==
    ASSUME McpIInv, ManagersKept(manager'), RunsKept(threads'), UNCHANGED <<config, tool, sent, active, reflected>>,
           DOMAIN caller' = Callers, \A c \in Callers : caller'[c] = caller[c] \/ CallerFits(caller'[c], manager, threads)
    PROVE  McpIInv'
<1>1. DOMAIN manager' = Managers /\ DOMAIN threads' = Threads BY DEF ManagersKept, RunsKept
<1>2. MapsFit(active', reflected', manager) /\ config' \in Nat \ {None} /\ tool' \in Nat /\ CallsKeepTheirScope'
  BY DEF McpIInv, CallsKeepTheirScope
<1> QED BY <1>1, <1>2, RuntimeStays, McpRests

LEMMA PhaseMoves ==
    ASSUME McpIInv, NEW t \in Threads, Begin(t) \/ Serve(t) \/ OpenFails(t) \/ StopSeen(t) \/ Unwind(t)
    PROVE  McpIInv'
<1> DEFINE m == Own(t)
<1>1. threads[t].phase # "none" BY DEF Begin, Serve, OpenFails, StopSeen, Unwind
<1>2. /\ threads[t] \in ThreadRows /\ m \in Managers /\ manager[m] \in ManagerRows
      /\ RowKept(m, manager[m]) /\ DOMAIN manager = Managers
  BY <1>1, ThreadFacts
<1>3. \E p \in {"opening", "serving", "unwinding", "closing"} : Phase(t, p)
  BY DEF Begin, Serve, OpenFails, StopSeen, Unwind
<1>4. RunsKept(threads') BY <1>1, <1>3, ThreadFacts
<1>5. UNCHANGED <<config, tool, sent, active, reflected, caller>> /\ tool \in Nat /\ DOMAIN caller = Callers
  BY DEF Begin, Serve, OpenFails, StopSeen, Unwind, outside, maps, McpIInv
<1>6. \/ UNCHANGED manager
      \/ \E r \in ManagerRows :
           /\ manager' = [manager EXCEPT ![m] = r] /\ r.cfg = manager[m].cfg /\ r.thread = manager[m].thread
           /\ r.loop \in {manager[m].loop, t, None}
  <2>1. CASE Begin(t)
    <3> DEFINE r == [manager[m] EXCEPT !.loop = t]
    <3>1. manager' = [manager EXCEPT ![m] = r] BY <1>2, <2>1 DEF Begin
    <3>2. r \in ManagerRows /\ r.cfg = manager[m].cfg /\ r.thread = manager[m].thread /\ r.loop = t
      BY <1>2 DEF ManagerRows, ManagerStates
    <3> QED BY <3>1, <3>2
  <2>2. CASE Serve(t)
    <3> DEFINE r == [manager[m] EXCEPT !.session = t, !.tools = tool, !.connected = TRUE,
                                       !.state = "connected", !.ready = TRUE, !.misses = 0]
    <3>1. manager' = [manager EXCEPT ![m] = r] BY <1>2, <2>2 DEF Serve
    <3>2. r \in ManagerRows /\ r.cfg = manager[m].cfg /\ r.thread = manager[m].thread /\ r.loop = manager[m].loop
      BY <1>2, <1>5 DEF ManagerRows, ManagerStates
    <3> QED BY <3>1, <3>2
  <2>3. CASE OpenFails(t)
    <3> DEFINE r == [manager[m] EXCEPT !.state = "failed", !.ready = TRUE]
    <3>1. manager' = [manager EXCEPT ![m] = r] BY <1>2, <2>3 DEF OpenFails
    <3>2. r \in ManagerRows /\ r.cfg = manager[m].cfg /\ r.thread = manager[m].thread /\ r.loop = manager[m].loop
      BY <1>2 DEF ManagerRows, ManagerStates
    <3> QED BY <3>1, <3>2
  <2>4. CASE StopSeen(t) BY <2>4 DEF StopSeen
  <2>5. CASE Unwind(t)
    <3> DEFINE state == IF manager[m].state = "connected" THEN "stopped" ELSE manager[m].state
               r == [manager[m] EXCEPT !.connected = FALSE, !.session = None, !.loop = None, !.state = state]
               p == [manager[m] EXCEPT !.connected = FALSE, !.session = None]
    <3>1. manager' = [manager EXCEPT ![m] = r] BY <1>2, <2>5 DEF Unwind, ManagerRows, ManagerStates
    <3>2. p \in ManagerRows /\ p.cfg = manager[m].cfg /\ p.thread = manager[m].thread BY <1>2 DEF ManagerRows, ManagerStates
    <3>3. r = [p EXCEPT !.loop = None, !.state = state] OBVIOUS
    <3>4. state \in {manager[m].state, "stopped"} OBVIOUS
    <3>5. manager[m].state \in ManagerStates /\ "stopped" \in ManagerStates BY <1>2 DEF ManagerRows, ManagerStates
    <3> HIDE DEF p, r, state
    <3>6. r \in ManagerRows /\ r.cfg = p.cfg /\ r.thread = p.thread /\ r.loop = None
      BY <3>2, <3>3, <3>4, <3>5 DEF ManagerRows
    <3> QED BY <3>1, <3>2, <3>6
  <2> QED BY <2>1, <2>2, <2>3, <2>4, <2>5
<1>7. ManagersKept(manager')
  <2>1. CASE UNCHANGED manager BY <2>1, RowEdit
  <2>2. CASE ~UNCHANGED manager
    <3>1. PICK r \in ManagerRows :
             /\ manager' = [manager EXCEPT ![m] = r] /\ r.cfg = manager[m].cfg /\ r.thread = manager[m].thread
             /\ r.loop \in {manager[m].loop, t, None}
      BY <1>6, <2>2
    <3>2. threads[t].of = m BY DEF Own
    <3> HIDE DEF m
    <3>3. RowKept(m, r) BY <1>2, <3>1, <3>2 DEF RowKept
    <3> QED BY <1>2, <3>1, <3>3, RowEdit
  <2> QED BY <2>1, <2>2
<1> QED BY <1>4, <1>5, <1>7, CallersStay

LEMMA ProbeMoves ==
    ASSUME McpIInv, NEW t \in Threads, ProbeAnswers(t) \/ ProbeMisses(t)
    PROVE  McpIInv'
<1> DEFINE m == Own(t)
<1>1. threads[t].phase # "none" BY DEF ProbeAnswers, ProbeMisses
<1>2. /\ threads[t] \in ThreadRows /\ m \in Managers /\ manager[m] \in ManagerRows
      /\ RowKept(m, manager[m]) /\ DOMAIN manager = Managers /\ DOMAIN threads = Threads
  BY <1>1, ThreadFacts
<1>3. UNCHANGED <<config, tool, sent, active, reflected, caller>> /\ tool \in Nat /\ DOMAIN caller = Callers
  BY DEF ProbeAnswers, ProbeMisses, outside, maps, McpIInv
<1>4. RunsKept(threads')
  <2>1. CASE UNCHANGED threads BY <2>1, RunEdit
  <2>2. CASE threads' = [threads EXCEPT ![t].stop = TRUE]
    <3> DEFINE r == [threads[t] EXCEPT !.stop = TRUE]
    <3>1. threads' = [threads EXCEPT ![t] = r] BY <1>2, <2>2
    <3>2. r \in ThreadRows /\ r.of = threads[t].of /\ r.phase = threads[t].phase BY <1>2 DEF ThreadRows
    <3> HIDE DEF r
    <3>3. RunKept(t, r) BY <3>2 DEF RunKept
    <3> QED BY <3>1, <3>3, RunEdit
  <2> QED BY <2>1, <2>2 DEF ProbeAnswers, ProbeMisses
<1>5. manager[m].misses + 1 \in Nat BY <1>2 DEF ManagerRows, ManagerStates
<1>6. \E r \in ManagerRows :
         /\ manager' = [manager EXCEPT ![m] = r] /\ r.cfg = manager[m].cfg /\ r.thread = manager[m].thread
         /\ r.loop = manager[m].loop
  <2>1. CASE ProbeAnswers(t)
    <3> DEFINE r == [manager[m] EXCEPT !.misses = 0, !.tools = tool]
    <3>1. manager' = [manager EXCEPT ![m] = r] BY <1>2, <2>1 DEF ProbeAnswers
    <3>2. r \in ManagerRows /\ r.cfg = manager[m].cfg /\ r.thread = manager[m].thread /\ r.loop = manager[m].loop
      BY <1>2, <1>3 DEF ManagerRows, ManagerStates
    <3> QED BY <3>1, <3>2
  <2>2. CASE ProbeMisses(t)
    <3> DEFINE n == manager[m].misses + 1
               r == [manager[m] EXCEPT !.misses = n]
               q == MarkUnhealthy(r)
    <3> HIDE DEF n
    <3>1. n \in Nat BY <1>5 DEF n
    <3>2. r \in ManagerRows /\ r.cfg = manager[m].cfg /\ r.thread = manager[m].thread /\ r.loop = manager[m].loop
      BY <1>2, <3>1 DEF ManagerRows, ManagerStates
    <3>3. manager' = [manager EXCEPT ![m] = r] \/ manager' = [manager EXCEPT ![m] = q]
      BY <1>2, <2>2 DEF ProbeMisses, n
    <3> HIDE DEF r
    <3>4. q \in ManagerRows /\ q.cfg = r.cfg /\ q.thread = r.thread /\ q.loop = r.loop
      BY <3>2 DEF ManagerRows, ManagerStates, MarkUnhealthy
    <3> HIDE DEF q
    <3> QED BY <3>2, <3>3, <3>4
  <2> QED BY <2>1, <2>2
<1>7. ManagersKept(manager')
  <2>1. PICK r \in ManagerRows :
           /\ manager' = [manager EXCEPT ![m] = r] /\ r.cfg = manager[m].cfg /\ r.thread = manager[m].thread
           /\ r.loop = manager[m].loop
    BY <1>6
  <2> HIDE DEF m
  <2>2. RowKept(m, r) BY <1>2, <2>1 DEF RowKept
  <2> QED BY <1>2, <2>1, <2>2, RowEdit
<1> QED BY <1>3, <1>4, <1>7, CallersStay

LEMMA ExitMoves ==
    ASSUME McpIInv, NEW t \in Threads, Exit(t)
    PROVE  McpIInv'
<1>1. /\ threads[t].phase # "none" /\ threads' = [threads EXCEPT ![t] = [NoThread EXCEPT !.of = Own(t)]]
      /\ caller' = [c \in Callers |-> IF c \in OnLoop(t) THEN [caller[c] EXCEPT !.pc = "call failed"] ELSE caller[c]]
      /\ UNCHANGED <<config, tool, sent, active, reflected, manager>>
  BY DEF Exit, outside, maps
<1>2. Own(t) \in Managers /\ Own(t) = threads[t].of BY <1>1, ThreadFacts DEF Own
<1>3. RunsKept(threads')
  <2> DEFINE r == [NoThread EXCEPT !.of = Own(t)]
  <2>1. r \in ThreadRows /\ r.of = Own(t) /\ r.phase = "none" BY <1>2, McpNumbers DEF NoThread, ThreadRows
  <2> HIDE DEF r
  <2>2. RunKept(t, r) BY <1>2, <2>1 DEF RunKept
  <2> QED BY <1>1, <2>2, RunEdit DEF r
<1>4. ManagersKept(manager') BY <1>1, RowEdit
<1>5. ASSUME NEW c \in OnLoop(t) PROVE CallerFits([caller[c] EXCEPT !.pc = "call failed"], manager, threads)
  <2> DEFINE r == [caller[c] EXCEPT !.pc = "call failed"]
  <2>1. c \in Callers /\ caller[c].pc \notin {"idle", "ensure"} BY DEF OnLoop
  <2>2. CallerFits(caller[c], manager, threads) /\ caller[c] \in CallerRows BY <2>1, CallerFacts
  <2>3. Made(caller[c].m, manager) BY <2>1, CallerFacts
  <2>4. /\ r \in CallerRows /\ r.pc = "call failed" /\ r.m = caller[c].m /\ r.cfg = caller[c].cfg
        /\ r.then = caller[c].then /\ r.job = caller[c].job
    BY <2>2 DEF CallerRows, CallerPcs
  <2> HIDE DEF r
  <2>5. CallerFits(r, manager, threads) BY <2>2, <2>3, <2>4 DEF CallerFits, OnLoopPcs
  <2> QED BY <2>5 DEF r
<1>6. DOMAIN caller' = Callers /\ \A c \in Callers : caller'[c] = caller[c] \/ CallerFits(caller'[c], manager, threads)
  BY <1>1, <1>5
<1> QED BY <1>1, <1>3, <1>4, <1>6, CallersStay

LEMMA DisturbMoves ==
    ASSUME McpIInv, ConfigChanges \/ ToolChanges \/ \E t \in Threads : ServerDies(t)
    PROVE  McpIInv'
<1>1. UNCHANGED <<active, reflected, manager, caller, sent>>
  BY DEF ConfigChanges, ToolChanges, ServerDies, McpDisturb, maps
<1>2. ManagersKept(manager') BY <1>1, RowEdit
<1>3. CASE \E t \in Threads : ServerDies(t)
  <2>1. PICK t \in Threads : ServerDies(t) BY <1>3
  <2> DEFINE r == [threads[t] EXCEPT !.dead = TRUE]
  <2>2. threads[t] \in ThreadRows /\ DOMAIN threads = Threads BY <2>1, RunEdit DEF McpIInv
  <2>3. threads' = [threads EXCEPT ![t] = r] /\ UNCHANGED <<config, tool>> BY <2>1, <2>2 DEF ServerDies
  <2>4. r \in ThreadRows /\ r.of = threads[t].of /\ r.phase = threads[t].phase BY <2>2 DEF ThreadRows
  <2> HIDE DEF r
  <2>5. RunKept(t, r) BY <2>4 DEF RunKept
  <2>6. RunsKept(threads') BY <2>1, <2>3, <2>5, RunEdit
  <2>7. DOMAIN caller' = Callers BY <1>1 DEF McpIInv
  <2> QED BY <1>1, <1>2, <2>3, <2>6, <2>7, CallersStay
<1>4. CASE ConfigChanges \/ ToolChanges
  <2>1. UNCHANGED threads /\ config' \in {config, config + 1} /\ tool' \in {tool, tool + 1}
    BY <1>4 DEF ConfigChanges, ToolChanges
  <2>2. config \in Nat \ {None} /\ tool \in Nat BY DEF McpIInv
  <2>3. config' \in Nat \ {None} /\ tool' \in Nat BY <2>1, <2>2, McpNumbers
  <2>4. RunsKept(threads') BY <2>1, RunEdit
  <2>5. /\ DOMAIN manager' = Managers /\ DOMAIN threads' = Threads /\ DOMAIN caller' = Callers
        /\ MapsFit(active', reflected', manager) /\ CallsKeepTheirScope'
    BY <1>1, <2>1 DEF McpIInv, CallsKeepTheirScope
  <2> QED BY <1>1, <1>2, <2>3, <2>4, <2>5, RuntimeStays, McpRests
<1> QED BY <1>3, <1>4

LEMMA McpBegins == McpInit => McpIInv
<1> SUFFICES ASSUME McpInit PROVE McpIInv OBVIOUS
<1> DEFINE First == [NewManager(1) EXCEPT !.state = "connected", !.connected = TRUE, !.thread = 1, !.loop = 1,
                                          !.session = 1, !.ready = TRUE, !.tools = 1]
           Serving == [NewThread(1) EXCEPT !.phase = "serving"]
<1>1. /\ config = 1 /\ tool = 1 /\ sent = {} /\ active = [m |-> 1, lock |-> None]
      /\ manager = [m \in Managers |-> IF m # 1 THEN NewManager(None) ELSE First]
      /\ threads = [t \in Threads |-> IF t # 1 THEN NoThread ELSE Serving]
      /\ reflected = [entry |-> [m |-> 1, cfg |-> 1, schema |-> 1], executor |-> 1]
      /\ caller = [c \in Callers |-> IdleCaller]
  BY DEF McpInit
<1>2. NewManager(None) \in ManagerRows /\ NewManager(None).loop = None /\ NewManager(1) \in ManagerRows
      /\ NewManager(1).cfg = 1
  BY McpNumbers DEF NewManager, ManagerRows, ManagerStates
<1>3. First \in ManagerRows /\ First.cfg = 1 /\ First.thread = 1 /\ First.loop = 1
  BY <1>2, McpNumbers DEF ManagerRows, ManagerStates
<1>4. NoThread \in ThreadRows /\ NoThread.phase = "none" BY McpNumbers DEF NoThread, ThreadRows
<1>5. Serving \in ThreadRows /\ Serving.of = 1 BY McpNumbers DEF NewThread, ThreadRows
<1> HIDE DEF First, Serving
<1>6. manager[1] = First /\ threads[1] = Serving BY <1>1, McpNumbers
<1>7. Made(1, manager) BY <1>3, <1>6, McpNumbers DEF Made
<1>8. ASSUME NEW m \in Managers PROVE ManagerFits(m, manager, threads)
  BY <1>1, <1>2, <1>3, <1>5, <1>6 DEF ManagerFits
<1>9. ASSUME NEW t \in Threads PROVE ThreadFits(t, manager, threads)
  <2>1. CASE t = 1 BY <1>3, <1>5, <1>6, <1>7, <2>1 DEF ThreadFits
  <2>2. CASE t # 1 BY <1>1, <1>4, <2>2 DEF ThreadFits
  <2> QED BY <2>1, <2>2
<1>10. \A c \in Callers : CallerFits(caller[c], manager, threads) BY <1>1, IdleFits
<1>11. MapsFit(active, reflected, manager)
  <2>1. 1 \in Managers /\ 1 \in Nat /\ None \in Callers \cup {None} BY McpNumbers
  <2>2. [m |-> 1, cfg |-> 1, schema |-> 1] \in Scopes BY <2>1 DEF Scopes
  <2>3. active \in [m : Managers \cup {None}, lock : Callers \cup {None}] /\ active.m = 1 BY <1>1, <2>1
  <2>4. /\ reflected \in [entry : Scopes, executor : Managers] /\ reflected.executor = 1 /\ reflected.entry.m = 1
    BY <1>1, <2>1, <2>2
  <2> QED BY <1>7, <2>3, <2>4 DEF MapsFit
<1>12. config \in Nat \ {None} /\ tool \in Nat /\ CallsKeepTheirScope BY <1>1, McpNumbers DEF CallsKeepTheirScope
<1>13. DOMAIN manager = Managers /\ DOMAIN threads = Threads /\ DOMAIN caller = Callers BY <1>1
<1> QED BY <1>8, <1>9, <1>10, <1>11, <1>12, <1>13 DEF McpIInv

LEMMA McpStep == McpIInv /\ [McpNext]_mcpVars => McpIInv'
<1> SUFFICES ASSUME McpIInv, [McpNext]_mcpVars PROVE McpIInv' OBVIOUS
<1>1. CASE UNCHANGED mcpVars
  <2>1. UNCHANGED <<config, tool, sent, active, reflected, manager, threads, caller>> BY <1>1 DEF mcpVars
  <2>2. ManagersKept(manager') /\ RunsKept(threads') /\ DOMAIN caller' = Callers
    BY <2>1, RowEdit, RunEdit DEF McpIInv
  <2> QED BY <2>1, <2>2, CallersStay
<1>2. ASSUME NEW c \in Callers, Lifecycle(c) PROVE McpIInv'
  <2>1. CASE StartCheck(c) \/ Register(c) \/ Unregister(c) \/ Ready(c) \/ WaitTimesOut(c)
    BY <2>1, StartMoves
  <2>2. CASE LockToStart(c) \/ LockToRestart(c) \/ LockToClose(c) \/ LockToTearDown(c) \/ StartTimesOut(c)
    BY <2>2, StopMoves
  <2>3. CASE JoinTimesOut(c) \/ Restarted(c) \/ GivenUp(c) \/ Closed(c) BY <2>3, JoinMoves
  <2>4. CASE Prepare(c) BY <2>4, PrepareMoves
  <2>5. CASE EnsureSame(c) BY <2>5, EnsureMoves
  <2>6. CASE EnsureRetire(c) BY <2>6, RetireMoves
  <2>7. CASE EnsureNew(c) BY <2>7, NewMoves
  <2> QED BY <1>2, <2>1, <2>2, <2>3, <2>4, <2>5, <2>6, <2>7 DEF Lifecycle
<1>3. ASSUME NEW c \in Callers, Tool(c) PROVE McpIInv'
  <2>1. CASE BeginTool(c) BY <2>1, EnsureMoves
  <2>2. CASE CheckScope(c) \/ Approved(c) \/ EnterCall(c) \/ Submit(c) BY <2>2, CheckMoves
  <2>3. CASE SendCall(c) BY <2>3, CallGoesOut
  <2>4. CASE ListTools(c) \/ CallTimesOut(c) \/ CallFails(c) BY <2>4, AnswerMoves
  <2> QED BY <1>3, <2>1, <2>2, <2>3, <2>4 DEF Tool
<1>4. ASSUME NEW c \in Callers, Control(c) PROVE McpIInv'
  <2>1. CASE BeginControl(c) \/ Ensured(c) BY <2>1, EnsureMoves
  <2>2. CASE Forget(c) \/ Reflect(c) \/ RefuseCall(c) BY <2>2, ReflectMoves
  <2>3. CASE Refreshed(c) BY <2>3, AnswerMoves
  <2>4. CASE BeginReset(c) BY <2>4, RetireMoves
  <2> QED BY <1>4, <2>1, <2>2, <2>3, <2>4 DEF Control
<1>5. ASSUME NEW t \in Threads, Thread(t) PROVE McpIInv'
  <2>1. CASE Begin(t) \/ Serve(t) \/ OpenFails(t) \/ StopSeen(t) \/ Unwind(t) BY <2>1, PhaseMoves
  <2>2. CASE ProbeAnswers(t) \/ ProbeMisses(t) BY <2>2, ProbeMoves
  <2>3. CASE Exit(t) BY <2>3, ExitMoves
  <2>4. CASE ServerDies(t) BY <2>4, DisturbMoves
  <2> QED BY <1>5, <2>1, <2>2, <2>3, <2>4 DEF Thread
<1>6. CASE ConfigChanges \/ ToolChanges BY <1>6, DisturbMoves
<1> QED BY <1>1, <1>2, <1>3, <1>4, <1>5, <1>6 DEF McpNext, Steps

(* skills/mcp_bridge: however starts, restarts, stops, timeouts, edits of    *)
(* the settings and calls meet, a call goes out to a server of the           *)
(* configuration and with the schema of its scope, and a manager has one     *)
(* server thread at most.                                                    *)
THEOREM McpCallsStayScoped == McpSpec => []McpCallsAreScoped
<1>1. McpInit => McpIInv BY McpBegins
<1>2. McpIInv /\ [McpNext]_mcpVars => McpIInv' BY McpStep
<1>3. McpIInv => McpCallsAreScoped BY ScopesFollow
<1> QED BY <1>1, <1>2, <1>3, PTL DEF McpSpec


------------------------------------------------------------------------------
(* One file operation.                                                       *)

(* The handler: while it asks, once its plan is agreed on, while its effect  *)
(* is under way, and when it is over.                                        *)
Proposing == {"checking", "admit", "access", "asking", "plan", "waiting", "gate legacy", "act legacy"}
Accepted  == {"ready", "stage", "capture", "promote"}
Before    == Proposing \cup Accepted \cup {"idle", "claimed", "gate"}
Effecting == {"recheck", "publish", "unlink stage", "look", "act", "rewrite", "linked", "unlink source", "verify"}
Over      == {"answered", "nothing to do", "done", "crashed"}
FilePcs   == Before \cup Effecting \cup Over

FileRows    == [node : Nat, at : Nat, data : {"none", "old", "new", "edit", "torn"}]
FilePlans   == {NoPlan} \cup [{"target"} -> FileRows] \cup [Paths -> FileRows]
FileOps     == [kind : Native \cup Opaque, by : {"turn", "preview"}, overwrite : BOOLEAN,
                platform : {"windows", "posix"}]
HandlerRows == [pc : FilePcs, plan : FilePlans, spelling : {"given", "pinned"}, replay : BOOLEAN]
Changes     == {"allowed", "confirm", "session", "once", "grant", "blocked"}
PreviewRows == [state : {"none", "previewed", "applying", "applied", "failed"}, plan : FilePlans,
                fresh : BOOLEAN, change : Changes]
Statuses    == {"absent", "executing", "failed", "returned", "verified", "uncertain", "deleted"}
EffectRows  == [status : Statuses, verifiable : BOOLEAN]
SnapRows    == [file : {"none", "published", "removed"}, plan : FilePlans, old : BOOLEAN, queued : BOOLEAN,
                kept : BOOLEAN, sweep : {"idle", "read"}]
Losses      == [file : FileRows, raced : BOOLEAN]
SeenRows    == [looked : [Paths -> FileRows], lost : SUBSET Losses, landed : {"no", "planned", "opaque"},
                edited : BOOLEAN]
Digests     == {<<>>} \cup [plan : FilePlans, spelling : {"given", "pinned"}]
TicketRows  == [state : {"none", "pending", "approved", "closed"}, digest : Digests]

FileTypes ==
    /\ op \in FileOps /\ (op.by = "preview" => op.kind = "write")
    /\ disk \in [Paths -> FileRows] /\ stage \in {Absent, Mine}
    /\ policy \in [change : Changes, read : BOOLEAN]
    /\ call \in HandlerRows /\ preview \in PreviewRows /\ row \in EffectRows /\ snap \in SnapRows
    /\ counts \in [edits : Nat, changes : Nat]
    /\ seen \in SeenRows /\ ticket \in TicketRows

(* A plan was read before the effect began to write, and is the one that was *)
(* previewed and the one the ticket was bound to.                            *)
TargetIsFree == call.plan["target"] = Absent
PlanFits ==
    /\ call.plan \in [Operands -> FileRows]
    /\ op.kind \in Native
    /\ \A p \in Operands : call.plan[p].at # Call /\ call.plan[p].at < Moment
    /\ op.by = "preview" => preview.plan = call.plan
    /\ op.kind = "move" => call.plan["source"] # Absent
    /\ op.kind = "delete" => ~TargetIsFree
PlanAgreed == PlanFits /\ (call.replay => ticket.digest.plan = call.plan)
NewFile    == op.kind = "write" /\ TargetIsFree

HandlerIInv ==
    /\ call.pc \in Before =>
         /\ seen.landed = "no" /\ seen.lost = {} /\ ~row.verifiable
         /\ \A p \in Paths : disk[p].at # Call
         /\ call.pc # "promote" => snap.file = "none"
    /\ call.pc \notin Over \cup {"idle", "claimed"} => row.status = "executing"
    /\ call.pc \in Before \ {"capture", "promote"} => stage = Absent
    /\ call.pc = "gate" => PlanFits
    /\ call.pc \in Accepted => PlanAgreed
    /\ call.pc = "stage" => NewFile
    /\ call.pc \in {"capture", "promote", "recheck"} => (stage = Mine <=> NewFile)
    /\ call.pc = "promote" => snap.file = "published" /\ snap.plan = call.plan
    /\ call.pc \in Effecting => row.verifiable
    /\ call.pc = "recheck" => seen.landed = "no"
    /\ call.pc = "publish" => stage = Mine
    /\ call.pc \in {"publish", "unlink stage"} => NewFile
    /\ call.pc \in {"look", "act", "rewrite"} => ~NewFile
    /\ call.pc = "rewrite" => op.kind = "write"
    /\ call.pc \in {"linked", "unlink source"} => op.kind = "move" /\ TargetIsFree
    /\ call.pc \in {"act", "rewrite"} => seen.looked["target"] = call.plan["target"]
    /\ call.pc = "unlink source" => seen.looked["source"].node = seen.looked["target"].node

(* A planned effect leaves a trace: a file of its plan is not the planned    *)
(* one any more, or it made a name that is there until another takes it.     *)
Gone(p) == disk[p] = Absent \/ disk[p].at # call.plan[p].at
Touched ==
    \/ \E p \in Operands : call.plan[p] # Absent /\ Gone(p)
    \/ MakesAName /\ (seen.edited \/ disk["target"] # Absent)
EffectIInv ==
    /\ \A p \in Paths : disk[p].at < Moment
    /\ row.verifiable => PlanAgreed /\ snap.plan = call.plan
    /\ seen.landed = "planned" => row.verifiable /\ Touched
    /\ seen.landed = "opaque" => row.status \notin {"executing", "failed"}
    /\ \A l \in seen.lost : \/ l.file \in NeedsBeforeImage(snap.plan)
                            \/ l.raced /\ ~(op.kind = "delete" /\ op.platform = "windows")
    /\ RowsTellTheTruth

(* No sweep takes the snapshot of an open row: it is young when the row      *)
(* comes to refer to it, and a sweep that read no reference spares the young.*)
SnapshotIInv ==
    /\ SnapshotsOutliveRows
    /\ snap.file = "none" => ~snap.old /\ snap.sweep = "idle"
    /\ ~row.verifiable /\ Executing => ~snap.old
    /\ snap.sweep = "read" /\ row.verifiable /\ Unresolved => snap.kept \/ ~snap.old

FilesIInv == FileTypes /\ HandlerIInv /\ EffectIInv /\ SnapshotIInv

LEMMA FilesFollow == FilesIInv => FileChangesAreSafe
<1> SUFFICES ASSUME FilesIInv PROVE FileChangesAreSafe OBVIOUS
<1>1. EffectsAreCovered BY DEF FilesIInv, EffectIInv, EffectsAreCovered
<1>2. ApprovedPlansLand BY DEF FilesIInv, EffectIInv, PlanAgreed, PlanFits, ApprovedPlansLand
<1> QED BY <1>1, <1>2 DEF FilesIInv, EffectIInv, SnapshotIInv, FileChangesAreSafe

LEMMA GoesTo ==
    ASSUME NEW pc \in FilePcs, FilesIInv, Goto(pc)
    PROVE  /\ call' \in HandlerRows /\ call'.pc = pc /\ call'.plan = call.plan /\ call'.replay = call.replay
           /\ call'.spelling = call.spelling
<1>1. call \in HandlerRows BY DEF FilesIInv, FileTypes
<1> QED BY <1>1 DEF HandlerRows, Goto

LEMMA Settles ==
    ASSUME NEW s \in Statuses, FilesIInv, Settle(s)
    PROVE  row' \in EffectRows /\ row'.status = s /\ row'.verifiable = row.verifiable
<1>1. row \in EffectRows BY DEF FilesIInv, FileTypes
<1> QED BY <1>1 DEF EffectRows, Settle

(* What the disk, the plan and the snapshot promise holds while they stay.   *)
LEMMA PlanStays ==
    ASSUME op' = op, counts'.edits = counts.edits, call'.plan = call.plan, call'.replay = call.replay,
           ticket'.digest = ticket.digest, preview'.plan = preview.plan
    PROVE  (PlanFits => PlanFits') /\ (PlanAgreed => PlanAgreed') /\ NewFile' = NewFile
           /\ TargetIsFree' = TargetIsFree
BY DEF PlanFits, PlanAgreed, NewFile, TargetIsFree, Operands, Moment

LEMMA FileRests ==
    ASSUME FilesIInv, op' = op, disk' = disk, counts'.edits = counts.edits, snap' = snap,
           seen'.landed = seen.landed, seen'.lost = seen.lost, seen'.edited = seen.edited,
           row'.verifiable = row.verifiable,
           row.verifiable => /\ call'.plan = call.plan /\ call'.replay = call.replay
                             /\ ticket'.digest = ticket.digest /\ preview'.plan = preview.plan,
           \/ row'.status = row.status \/ seen.landed = "no" \/ row'.status \notin {"executing", "failed"}
           \/ seen.landed = "planned" /\ MakesAName /\ seen.edited,
           row'.status = "executing" => row.status = "executing" \/ (snap.file = "none" /\ ~row.verifiable),
           row'.status = "uncertain" => row.status \in {"executing", "uncertain"}
    PROVE  EffectIInv' /\ SnapshotIInv'
<1>1. EffectIInv /\ SnapshotIInv BY DEF FilesIInv
<1>2. \A p \in Paths : disk'[p].at < Moment' BY <1>1 DEF EffectIInv, Moment
<1>3. row'.verifiable => PlanAgreed' /\ snap'.plan = call'.plan BY <1>1, PlanStays DEF EffectIInv
<1>4. seen'.landed = "planned" => row'.verifiable /\ Touched'
  <2> SUFFICES ASSUME seen.landed = "planned" PROVE row.verifiable /\ Touched' OBVIOUS
  <2>1. row.verifiable /\ Touched /\ call'.plan = call.plan BY <1>1 DEF EffectIInv
  <2> QED BY <2>1 DEF Touched, Gone, MakesAName, Operands
<1>5. seen'.landed = "opaque" => row'.status \notin {"executing", "failed"}
  BY <1>1 DEF EffectIInv
<1>6. \A l \in seen'.lost : \/ l.file \in NeedsBeforeImage(snap'.plan)
                            \/ l.raced /\ ~(op'.kind = "delete" /\ op'.platform = "windows")
  BY <1>1 DEF EffectIInv
<1>7. RowsTellTheTruth'
  <2> SUFFICES ASSUME row'.status = "failed", seen.landed # "no" PROVE MakesAName' /\ seen.edited
    BY DEF RowsTellTheTruth
  <2>1. MakesAName /\ seen.edited BY <1>1 DEF EffectIInv, RowsTellTheTruth
  <2>2. call'.plan = call.plan
    <3>1. seen.landed \in {"planned", "opaque"} BY DEF FilesIInv, FileTypes, SeenRows
    <3>2. seen.landed = "planned" BY <1>5, <3>1
    <3> QED BY <1>1, <3>2 DEF EffectIInv
  <2> QED BY <2>1, <2>2 DEF MakesAName
<1>8. EffectIInv' BY <1>2, <1>3, <1>4, <1>5, <1>6, <1>7 DEF EffectIInv, NeedsBeforeImage
<1>9. SnapshotIInv' BY <1>1 DEF SnapshotIInv, SnapshotsOutliveRows, Unresolved, Executing
<1> QED BY <1>8, <1>9

(* A step of the handler before its effect.                                  *)
LEMMA StillBefore ==
    ASSUME FilesIInv, call.pc \in Before
    PROVE  /\ seen.landed = "no" /\ seen.lost = {} /\ ~row.verifiable /\ \A p \in Paths : disk[p].at # Call
           /\ call.pc # "promote" => snap.file = "none"
           /\ call.pc \notin {"idle", "claimed"} => row.status = "executing"
           /\ call.pc \notin {"capture", "promote"} => stage = Absent
<1>1. call.pc \notin Over BY DEF Before, Proposing, Accepted, Over
<1> QED BY <1>1 DEF FilesIInv, HandlerIInv

LEMMA EffectEnds ==
    ASSUME FilesIInv, call.pc \in Before \cup {"recheck"}, NEW pc \in {"answered", "nothing to do"},
           Settle("failed"), Goto(pc),
           op' = op, disk' = disk, seen' = seen, counts' = counts, snap' = snap, preview' = preview,
           stage' \in {Absent, Mine}, policy' = policy, ticket' \in TicketRows,
           row.verifiable => ticket'.digest = ticket.digest
    PROVE  FilesIInv'
<1>1. /\ row' \in EffectRows /\ row'.status = "failed" /\ row'.verifiable = row.verifiable
  BY Settles DEF Statuses
<1>2. call' \in HandlerRows /\ call'.pc \in Over /\ call'.plan = call.plan /\ call'.replay = call.replay
  BY GoesTo DEF FilePcs, Over
<1>3. seen.landed = "no" BY StillBefore DEF FilesIInv, HandlerIInv
<1>4. EffectIInv' /\ SnapshotIInv' BY <1>1, <1>2, <1>3, FileRests
<1>5. HandlerIInv' BY <1>2 DEF HandlerIInv, Before, Proposing, Accepted, Effecting, Over
<1>6. FileTypes' BY <1>1, <1>2 DEF FilesIInv, FileTypes
<1> QED BY <1>4, <1>5, <1>6 DEF FilesIInv

LEMMA AsksOn ==
    ASSUME FilesIInv, call.pc \in Proposing \cup {"idle", "claimed", "gate"},
           call' \in HandlerRows, call'.pc \in Proposing,
           row' \in EffectRows, row'.status = "executing", row'.verifiable = row.verifiable,
           op' = op, disk' = disk, stage' = stage, seen' = seen, counts' = counts, snap' = snap,
           policy' \in [change : Changes, read : BOOLEAN], preview' \in PreviewRows, ticket' \in TicketRows
    PROVE  FilesIInv'
<1>1. /\ call.pc \in Before /\ call.pc \notin {"capture", "promote"} /\ call'.pc \in Before
      /\ call'.pc \notin {"capture", "promote", "gate", "stage"} \cup Accepted \cup Effecting \cup Over
  BY DEF Before, Proposing, Accepted, Effecting, Over
<1>2. /\ seen.landed = "no" /\ seen.lost = {} /\ ~row.verifiable /\ \A p \in Paths : disk[p].at # Call
      /\ snap.file = "none" /\ stage = Absent
  BY <1>1, StillBefore
<1>3. EffectIInv' /\ SnapshotIInv' BY <1>2, FileRests
<1>4. HandlerIInv' BY <1>1, <1>2 DEF HandlerIInv, Effecting
<1>5. FileTypes' BY DEF FilesIInv, FileTypes
<1> QED BY <1>3, <1>4, <1>5 DEF FilesIInv

(* It asks, is asked again, or gives up.                                     *)
quiet == <<op, disk, stage, seen, counts, snap>>

LEMMA AskMoves ==
    ASSUME FilesIInv, NEW pc \in Proposing, call.pc \in Proposing \cup {"gate"}, Goto(pc), row' = row, UNCHANGED quiet,
           policy' \in [change : Changes, read : BOOLEAN], preview' = preview, ticket' \in TicketRows
    PROVE  FilesIInv'
<1>1. call.pc \in Before /\ call.pc \notin {"idle", "claimed"} /\ pc \in FilePcs
  BY DEF Before, Proposing, FilePcs
<1>2. row.status = "executing" BY <1>1, StillBefore
<1>3. call' \in HandlerRows /\ call'.pc = pc BY <1>1, GoesTo
<1> QED BY <1>2, <1>3, AsksOn DEF quiet, FilesIInv, FileTypes

LEMMA EligibleMoves ==
    ASSUME FilesIInv, NEW pc \in Proposing, call.pc = "admit", Eligible(pc), UNCHANGED <<stable, world, fence, ticket, stores>>
    PROVE  FilesIInv'
<1>1. UNCHANGED quiet /\ UNCHANGED <<policy, preview, ticket>> /\ policy \in [change : Changes, read : BOOLEAN]
      /\ ticket \in TicketRows
  BY DEF stable, world, stores, quiet, FilesIInv, FileTypes
<1>2. call.pc \in Proposing /\ call.pc \in Before /\ {"gate legacy", "asking"} \subseteq Proposing
  BY DEF Proposing, Before
<1>3. \/ NoEffect
      \/ \E x \in Proposing : Goto(x) /\ row' = row
  <2>1. \/ Goto(pc) /\ row' = row
        \/ Goto("gate legacy") /\ row' = row
        \/ Goto("asking") /\ row' = row
        \/ NoEffect
    BY DEF Eligible, Unplanned
  <2> QED BY <2>1, <1>2
<1>4. CASE NoEffect
  <2>1. stage' \in {Absent, Mine} BY <1>1 DEF quiet, FilesIInv, FileTypes
  <2> QED BY <1>1, <1>2, <1>4, <2>1, EffectEnds DEF quiet, NoEffect
<1>5. CASE \E x \in Proposing : Goto(x) /\ row' = row BY <1>1, <1>2, <1>5, AskMoves DEF quiet
<1> QED BY <1>3, <1>4, <1>5

(* Whatever gives up before the effect.                                      *)
LEMMA GivesUp ==
    ASSUME FilesIInv, call.pc \in Before \cup {"recheck"}, NoEffect, UNCHANGED <<op, disk, seen, counts, snap>>,
           policy' = policy, preview' = preview, ticket' = ticket, stage' \in {Absent, Mine}
    PROVE  FilesIInv'
BY EffectEnds DEF FilesIInv, FileTypes, NoEffect

LEMMA AdmitMoves ==
    ASSUME FilesIInv, AdmitWrite \/ AdmitMove \/ AdmitDelete \/ CheckAccess
    PROVE  FilesIInv'
<1>1. UNCHANGED quiet /\ UNCHANGED <<policy, preview, ticket>> /\ policy \in [change : Changes, read : BOOLEAN]
      /\ ticket \in TicketRows /\ stage' \in {Absent, Mine}
  BY DEF AdmitWrite, AdmitMove, AdmitDelete, CheckAccess, stable, world, stores, quiet, FilesIInv, FileTypes
<1>2. call.pc \in {"admit", "access"} BY DEF AdmitWrite, AdmitMove, AdmitDelete, CheckAccess, At
<1>3. call.pc \in Proposing /\ call.pc \in Before /\ {"access", "plan", "gate legacy", "asking"} \subseteq Proposing
  BY <1>2 DEF Proposing, Before
<1>4. ASSUME NEW x \in Proposing, Goto(x), row' = row PROVE FilesIInv' BY <1>1, <1>3, <1>4, AskMoves DEF quiet
<1>5. CASE NoEffect BY <1>1, <1>3, <1>5, GivesUp DEF quiet
<1>6. CASE AdmitWrite BY <1>3, <1>6, EligibleMoves DEF AdmitWrite, At
<1>7. CASE AdmitMove
  <2>1. /\ call.pc = "admit" /\ UNCHANGED <<stable, world, fence, ticket, stores>>
        /\ NoEffect \/ Eligible("plan") \/ (Goto("gate legacy") /\ row' = row)
    BY <1>7 DEF AdmitMove, At, Unplanned
  <2> QED BY <1>3, <1>4, <1>5, <2>1, EligibleMoves
<1>8. CASE AdmitDelete
  <2>1. /\ call.pc = "admit" /\ UNCHANGED <<stable, world, fence, ticket, stores>>
        /\ (Goto("gate legacy") /\ row' = row) \/ Eligible("access")
    BY <1>8 DEF AdmitDelete, At, Unplanned
  <2> QED BY <1>3, <1>4, <2>1, EligibleMoves
<1>9. CASE CheckAccess
  <2>1. (Goto("plan") /\ row' = row) \/ (Goto("asking") /\ row' = row) \/ NoEffect BY <1>9 DEF CheckAccess
  <2> QED BY <1>3, <1>4, <1>5, <2>1
<1> QED BY <1>6, <1>7, <1>8, <1>9

LEMMA IdleMoves ==
    ASSUME FilesIInv, call.pc \in {"idle", "claimed"}, call' \in HandlerRows, call'.pc \in {"idle", "claimed"},
           row' = row, preview' \in PreviewRows, UNCHANGED quiet, policy' = policy, ticket' = ticket
    PROVE  FilesIInv'
<1>1. call.pc \in Before BY DEF Before
<1>2. /\ seen.landed = "no" /\ seen.lost = {} /\ ~row.verifiable /\ \A p \in Paths : disk[p].at # Call
      /\ snap.file = "none" /\ stage = Absent
  BY <1>1, StillBefore
<1>3. EffectIInv' /\ SnapshotIInv' BY <1>2, FileRests DEF quiet, FilesIInv, SnapshotIInv
<1>4. HandlerIInv' BY <1>2 DEF HandlerIInv, quiet, Effecting, Accepted
<1>5. FileTypes' BY DEF FilesIInv, FileTypes, quiet
<1> QED BY <1>3, <1>4, <1>5 DEF FilesIInv

(* An effect begins, by a call or by the Apply button.                       *)
LEMMA BeginMoves ==
    ASSUME FilesIInv, BeginEffect \/ ClaimApply
    PROVE  FilesIInv'
<1>1. UNCHANGED quiet /\ UNCHANGED <<policy, ticket>> /\ row \in EffectRows /\ preview \in PreviewRows
  BY DEF BeginEffect, ClaimApply, stable, world, stores, quiet, FilesIInv, FileTypes
<1>2. /\ call.pc \in {"idle", "claimed"} /\ call.pc \in Before
      /\ {"admit", "gate legacy", "checking"} \subseteq Proposing /\ Proposing \cup {"idle"} \subseteq FilePcs
  BY DEF BeginEffect, ClaimApply, At, Before, FilePcs, Proposing
<1>3. CASE BeginEffect
  <2> DEFINE pc == IF op.kind \in Native THEN "admit" ELSE "gate legacy"
  <2>1. Settle("executing") /\ Goto(pc) /\ preview' = preview BY <1>3 DEF BeginEffect, stores
  <2>2. pc \in Proposing /\ pc \in FilePcs BY <1>2
  <2> HIDE DEF pc
  <2>3. call' \in HandlerRows /\ call'.pc = pc BY <2>1, <2>2, GoesTo
  <2>4. row' \in EffectRows /\ row'.status = "executing" /\ row'.verifiable = row.verifiable
    BY <2>1, Settles DEF Statuses
  <2> QED BY <1>1, <1>2, <2>1, <2>2, <2>3, <2>4, AsksOn DEF quiet, FilesIInv, FileTypes
<1>4. CASE ClaimApply
  <2>1. CASE preview.fresh /\ PermissionsStillMatch
    <3>1. /\ row' = [row EXCEPT !.status = "executing"] /\ preview' = [preview EXCEPT !.fresh = FALSE]
          /\ Goto("checking")
      BY <1>4, <2>1 DEF ClaimApply
    <3>2. call' \in HandlerRows /\ call'.pc = "checking" /\ call'.pc \in Proposing BY <1>2, <3>1, GoesTo
    <3>3. row' \in EffectRows /\ row'.status = "executing" /\ row'.verifiable = row.verifiable
      BY <1>1, <3>1 DEF EffectRows, Statuses
    <3>4. preview' \in PreviewRows BY <1>1, <3>1 DEF PreviewRows
    <3> QED BY <1>1, <1>2, <3>2, <3>3, <3>4, AsksOn DEF quiet, FilesIInv, FileTypes
  <2>2. CASE ~(preview.fresh /\ PermissionsStillMatch)
    <3>1. preview' = [preview EXCEPT !.state = "previewed", !.fresh = FALSE] /\ Goto("idle") /\ row' = row
      BY <1>4, <2>2 DEF ClaimApply
    <3>2. call' \in HandlerRows /\ call'.pc = "idle" /\ call'.plan = call.plan BY <1>2, <3>1, GoesTo
    <3>3. preview' \in PreviewRows BY <1>1, <3>1 DEF PreviewRows
    <3> QED BY <1>1, <1>2, <3>1, <3>2, <3>3, IdleMoves
  <2> QED BY <2>1, <2>2
<1> QED BY <1>3, <1>4

LEMMA PlanIsTyped ==
    ASSUME FilesIInv
    PROVE  /\ Operands \in {{"target"}, Paths} /\ "target" \in Operands
           /\ Plan(disk) \in [Operands -> FileRows] /\ Plan(disk) \in FilePlans
           /\ \A p \in Operands : p \in Paths /\ Plan(disk)[p] = disk[p]
<1>1. disk \in [Paths -> FileRows] BY DEF FilesIInv, FileTypes
<1>2. Operands \in {{"target"}, Paths} /\ "target" \in Operands BY DEF Operands, Paths
<1>3. \A p \in Operands : p \in Paths /\ disk[p] \in FileRows BY <1>1 DEF Operands, Paths
<1>4. Plan(disk) \in [Operands -> FileRows] /\ \A p \in Operands : Plan(disk)[p] = disk[p] BY <1>3 DEF Plan
<1>5. Plan(disk) \in FilePlans BY <1>2, <1>4 DEF FilePlans
<1> QED BY <1>2, <1>3, <1>4, <1>5

LEMMA PreviewMoves ==
    ASSUME FilesIInv, PreviewFileMutation \/ ApplyFileMutation
    PROVE  FilesIInv'
<1>1. UNCHANGED quiet /\ UNCHANGED <<policy, ticket, row>> /\ call.pc = "idle" /\ preview \in PreviewRows
      /\ policy.change \in Changes /\ call \in HandlerRows
  BY DEF PreviewFileMutation, ApplyFileMutation, At, stable, world, quiet, FilesIInv, FileTypes
<1>2. CASE PreviewFileMutation
  <2>1. preview' = [state |-> "previewed", plan |-> Plan(disk), fresh |-> TRUE, change |-> policy.change] /\ call' = call
    BY <1>2 DEF PreviewFileMutation
  <2>2. preview' \in PreviewRows BY <1>1, <2>1, PlanIsTyped DEF PreviewRows
  <2> QED BY <1>1, <2>1, <2>2, IdleMoves
<1>3. CASE ApplyFileMutation
  <2>1. preview' = [preview EXCEPT !.state = "applying"] /\ Goto("claimed") BY <1>3 DEF ApplyFileMutation
  <2>2. preview' \in PreviewRows BY <1>1, <2>1 DEF PreviewRows
  <2>3. "claimed" \in FilePcs BY DEF FilePcs, Before
  <2> QED BY <1>1, <2>1, <2>2, <2>3, GoesTo, IdleMoves
<1> QED BY <1>2, <1>3

(* The answers of others: the Apply button, the ticket, a grant of access.   *)
Replay == [call EXCEPT !.pc = "admit", !.spelling = "pinned", !.replay = TRUE]

LEMMA Replays ==
    ASSUME FilesIInv, call.pc = "waiting", call' = Replay, ticket' = [ticket EXCEPT !.state = "approved"],
           row' = row, UNCHANGED quiet, policy' = policy, preview' = preview
    PROVE  FilesIInv'
<1>1. /\ call \in HandlerRows /\ ticket \in TicketRows /\ policy \in [change : Changes, read : BOOLEAN]
      /\ preview \in PreviewRows /\ row \in EffectRows
  BY DEF FilesIInv, FileTypes
<1>2. call' \in HandlerRows /\ call'.pc = "admit"
  <2>1. "admit" \in FilePcs BY DEF FilePcs, Before, Proposing
  <2> DEFINE at == "admit"
  <2>2. at \in FilePcs /\ Replay = [call EXCEPT !.pc = at, !.spelling = "pinned", !.replay = TRUE] BY <2>1 DEF Replay
  <2> HIDE DEF at
  <2>3. call' \in HandlerRows /\ call'.pc = at BY <1>1, <2>2 DEF HandlerRows
  <2> QED BY <2>3 DEF at
<1>3. ticket' \in TicketRows BY <1>1 DEF TicketRows
<1>4. "waiting" \in Proposing /\ "admit" \in Proposing /\ "waiting" \in Before BY DEF Proposing, Before
<1>5. row.status = "executing" BY <1>4, StillBefore
<1> QED BY <1>1, <1>2, <1>3, <1>4, <1>5, AsksOn DEF quiet

LEMMA FileAnswers ==
    ASSUME FilesIInv, CheckApply \/ ApproveApply \/ ResumeApproved \/ ResumeRefused
    PROVE  FilesIInv'
<1>1. UNCHANGED quiet /\ UNCHANGED <<policy, preview>> /\ ticket \in TicketRows /\ stage' \in {Absent, Mine}
      /\ policy \in [change : Changes, read : BOOLEAN]
  BY DEF CheckApply, ApproveApply, ResumeApproved, ResumeRefused, stable, world, stores, quiet, FilesIInv, FileTypes
<1>2. call.pc \in {"checking", "waiting"} BY DEF CheckApply, ApproveApply, ResumeApproved, ResumeRefused, At
<1>3. call.pc \in Proposing /\ call.pc \in Before /\ "admit" \in Proposing BY <1>2 DEF Proposing, Before
<1>5. CASE CheckApply
  <2>1. ticket' = ticket /\ (NoEffect \/ (Goto("admit") /\ row' = row)) BY <1>5 DEF CheckApply
  <2> QED BY <1>1, <1>3, <2>1, GivesUp, AskMoves DEF quiet
<1>6. CASE ApproveApply
  <2>1. \/ NoEffect /\ ticket' = ticket
        \/ call.pc = "waiting" /\ call' = Replay /\ ticket' = [ticket EXCEPT !.state = "approved"] /\ row' = row
    BY <1>6 DEF ApproveApply, Replay, At
  <2> QED BY <1>1, <1>3, <2>1, GivesUp, Replays DEF quiet
<1>7. CASE ResumeApproved
  <2>1. \/ NoEffect /\ ticket' = [ticket EXCEPT !.state = "closed"]
        \/ call.pc = "waiting" /\ call' = Replay /\ ticket' = [ticket EXCEPT !.state = "approved"] /\ row' = row
    BY <1>7 DEF ResumeApproved, Replay, At
  <2>2. CASE NoEffect /\ ticket' = [ticket EXCEPT !.state = "closed"]
    <3>1. ticket' \in TicketRows /\ ticket'.digest = ticket.digest BY <1>1, <2>2 DEF TicketRows
    <3> QED BY <1>1, <1>3, <2>2, <3>1, EffectEnds DEF quiet, NoEffect
  <2> QED BY <1>1, <2>1, <2>2, Replays
<1>8. CASE ResumeRefused
  <2>1. NoEffect /\ ticket' = ticket BY <1>8 DEF ResumeRefused
  <2> QED BY <1>1, <1>3, <2>1, GivesUp DEF quiet
<1> QED BY <1>5, <1>6, <1>7, <1>8

LEMMA GrantMoves ==
    ASSUME FilesIInv, AccessGrantAnswered
    PROVE  FilesIInv'
<1>1. UNCHANGED quiet /\ UNCHANGED <<preview, ticket>> /\ ticket \in TicketRows /\ stage' \in {Absent, Mine}
      /\ policy \in [change : Changes, read : BOOLEAN] /\ preview \in PreviewRows /\ row \in EffectRows
  BY DEF AccessGrantAnswered, world, stores, quiet, FilesIInv, FileTypes
<1>2. call.pc = "asking" /\ call.pc \in Proposing /\ call.pc \in Before
  BY DEF AccessGrantAnswered, At, Proposing, Before
<1>3. CASE NoEffect /\ policy' = policy BY <1>1, <1>2, <1>3, GivesUp DEF quiet
<1>4. CASE ~(NoEffect /\ policy' = policy)
  <2> DEFINE pc == IF op.kind \in Native THEN "admit" ELSE "gate legacy"
  <2>1. /\ \/ \E g \in Granted : policy' = [policy EXCEPT !.change = g]
           \/ policy' = policy
        /\ call' = [Idle EXCEPT !.pc = pc] /\ row' = row
    BY <1>4 DEF AccessGrantAnswered
  <2>2. pc \in Proposing /\ pc \in FilePcs BY DEF Proposing, FilePcs, Before
  <2> HIDE DEF pc
  <2>3. policy' \in [change : Changes, read : BOOLEAN] BY <1>1, <2>1 DEF Changes, Granted
  <2>4. call' \in HandlerRows /\ call'.pc = pc BY <2>1, <2>2 DEF Idle, HandlerRows, FilePlans
  <2>5. row.status = "executing" BY <1>2, StillBefore
  <2> QED BY <1>1, <1>2, <2>1, <2>2, <2>3, <2>4, <2>5, AsksOn DEF quiet
<1> QED BY <1>3, <1>4

(* A plan is made from the files as they are.                                *)
LEMMA PlanMoves ==
    ASSUME FilesIInv, PlanWrite \/ PlanMove \/ PlanDelete
    PROVE  FilesIInv'
<1>1. UNCHANGED quiet /\ UNCHANGED <<policy, ticket, preview>> /\ stage' \in {Absent, Mine}
      /\ call \in HandlerRows /\ op \in FileOps /\ (op.by = "preview" => op.kind = "write")
  BY DEF PlanWrite, PlanMove, PlanDelete, Planned, TooLarge, stable, world, stores, quiet, FilesIInv, FileTypes
<1>2. call.pc = "plan" /\ call.pc \in Before BY DEF PlanWrite, PlanMove, PlanDelete, At, Before, Proposing
<1>3. CASE NoEffect BY <1>1, <1>2, <1>3, GivesUp DEF quiet
<1>5. CASE Unplanned
  <2>1. "gate legacy" \in Proposing /\ Goto("gate legacy") /\ row' = row BY <1>5 DEF Unplanned, Proposing
  <2>2. call.pc \in Proposing BY <1>2 DEF Proposing
  <2>3. policy \in [change : Changes, read : BOOLEAN] /\ ticket \in TicketRows BY DEF FilesIInv, FileTypes
  <2> QED BY <1>1, <1>2, <2>1, <2>2, <2>3, AskMoves DEF quiet
<1>4. CASE ~NoEffect /\ ~Unplanned
  <2>1. call' = [call EXCEPT !.pc = "gate", !.plan = Plan(disk)] /\ row' = row
    BY <1>4 DEF PlanWrite, PlanMove, PlanDelete, Planned, TooLarge
  <2>2. /\ op.kind \in Native
        /\ op.by = "preview" => Plan(disk) = preview.plan
        /\ op.kind = "move" => disk["source"] # Absent
        /\ op.kind = "delete" => disk["target"] # Absent
    BY <1>1, <1>4 DEF PlanWrite, PlanMove, PlanDelete, Planned, TooLarge, Native
  <2>3. /\ seen.landed = "no" /\ seen.lost = {} /\ ~row.verifiable /\ \A p \in Paths : disk[p].at # Call
        /\ snap.file = "none" /\ stage = Absent /\ row.status = "executing"
    BY <1>2, StillBefore
  <2>4. call' \in HandlerRows /\ call'.pc = "gate" /\ call'.plan = Plan(disk)
    <3> DEFINE at == "gate"
    <3>1. at \in FilePcs BY DEF FilePcs, Before
    <3>2. call' = [call EXCEPT !.pc = at, !.plan = Plan(disk)] BY <2>1
    <3> HIDE DEF at
    <3>3. call' \in HandlerRows /\ call'.pc = at /\ call'.plan = Plan(disk)
      BY <1>1, <3>1, <3>2, PlanIsTyped DEF HandlerRows
    <3> QED BY <3>3 DEF at
  <2>5. PlanFits'
    <3>1. Operands' = Operands /\ Moment' = Moment BY <1>1 DEF quiet, Operands, Moment
    <3>2. \A p \in Operands : call'.plan[p].at # Call /\ call'.plan[p].at < Moment
      BY <2>3, <2>4, PlanIsTyped DEF FilesIInv, EffectIInv
    <3>3. op.kind = "move" => call'.plan["source"] # Absent
      BY <2>2, <2>4, PlanIsTyped DEF Operands, Paths
    <3>4. op.kind = "delete" => call'.plan["target"] # Absent BY <2>2, <2>4, PlanIsTyped
    <3>5. call'.plan \in [Operands' -> FileRows] BY <2>4, <3>1, PlanIsTyped
    <3>6. \A p \in Operands' : call'.plan[p].at # Call /\ call'.plan[p].at < Moment' BY <3>1, <3>2
    <3> QED BY <1>1, <2>2, <2>4, <3>3, <3>4, <3>5, <3>6 DEF PlanFits, quiet, TargetIsFree
  <2>6. EffectIInv' /\ SnapshotIInv' BY <1>1, <2>1, <2>3, FileRests DEF quiet, FilesIInv, SnapshotIInv
  <2>7. HandlerIInv' BY <1>1, <2>1, <2>3, <2>4, <2>5 DEF HandlerIInv, quiet, Effecting, Accepted
  <2>8. FileTypes' BY <1>1, <2>1, <2>4 DEF FilesIInv, FileTypes, quiet
  <2> QED BY <2>6, <2>7, <2>8 DEF FilesIInv
<1> QED BY <1>3, <1>4, <1>5

(* With an accepted plan the handler goes on to its snapshot.                *)
LEMMA AcceptedMoves ==
    ASSUME FilesIInv, call.pc \in {"gate", "ready", "stage"}, PlanAgreed, row' = row,
           NEW pc \in {"ready", "stage", "capture"}, Goto(pc), stage' \in {Absent, Mine},
           pc = "stage" => NewFile, pc = "capture" => (stage' = Mine <=> NewFile), pc # "capture" => stage' = Absent,
           UNCHANGED <<op, disk, seen, counts, snap, policy, preview, ticket>>
    PROVE  FilesIInv'
<1>1. call.pc \in Before /\ call.pc \notin {"idle", "claimed", "promote"} /\ pc \in FilePcs /\ pc \in Before
  BY DEF Before, Accepted, FilePcs
<1>2. /\ seen.landed = "no" /\ seen.lost = {} /\ ~row.verifiable /\ \A p \in Paths : disk[p].at # Call
      /\ snap.file = "none" /\ row.status = "executing"
  BY <1>1, StillBefore
<1>3. call' \in HandlerRows /\ call'.pc = pc /\ call'.plan = call.plan /\ call'.replay = call.replay
  BY <1>1, GoesTo
<1>4. PlanAgreed' /\ NewFile' = NewFile BY <1>3, PlanStays
<1>5. EffectIInv' /\ SnapshotIInv' BY <1>2, FileRests DEF FilesIInv, SnapshotIInv
<1>6. HandlerIInv' BY <1>2, <1>3, <1>4 DEF HandlerIInv, Effecting, Over
<1>7. FileTypes' BY <1>3 DEF FilesIInv, FileTypes
<1> QED BY <1>5, <1>6, <1>7 DEF FilesIInv

LEMMA GateMoves ==
    ASSUME FilesIInv, GatePlan
    PROVE  FilesIInv'
<1>1. UNCHANGED quiet /\ UNCHANGED <<policy, preview>> /\ ticket \in TicketRows /\ stage' \in {Absent, Mine}
      /\ policy \in [change : Changes, read : BOOLEAN] /\ call \in HandlerRows
  BY DEF GatePlan, stable, world, stores, quiet, FilesIInv, FileTypes
<1>2. call.pc = "gate" /\ call.pc \in Before /\ {"asking", "waiting"} \subseteq Proposing
  BY DEF GatePlan, At, Before, Proposing
<1>3. PlanFits /\ stage = Absent BY <1>2, StillBefore DEF FilesIInv, HandlerIInv
<1>4. \/ NoEffect /\ ticket' = ticket
      \/ Goto("asking") /\ row' = row /\ ticket' = ticket
      \/ Goto("waiting") /\ row' = row /\ ticket' = [state |-> "pending", digest |-> Digest(call)]
      \/ Goto("ready") /\ row' = row /\ ticket' = ticket /\ (call.replay => ApprovalCurrent(call))
  BY DEF GatePlan
<1>5. CASE NoEffect /\ ticket' = ticket BY <1>1, <1>2, <1>5, GivesUp DEF quiet
<1>6. CASE Goto("asking") /\ row' = row /\ ticket' = ticket BY <1>1, <1>2, <1>6, AskMoves
<1>7. CASE Goto("waiting") /\ row' = row /\ ticket' = [state |-> "pending", digest |-> Digest(call)]
  <2>1. Digest(call) \in Digests BY <1>1 DEF Digest, Digests, HandlerRows
  <2>2. ticket' \in TicketRows BY <1>7, <2>1 DEF TicketRows
  <2> QED BY <1>1, <1>2, <1>7, <2>2, AskMoves
<1>8. CASE Goto("ready") /\ row' = row /\ ticket' = ticket /\ (call.replay => ApprovalCurrent(call))
  <2>1. call.replay => ticket.digest.plan = call.plan BY <1>8 DEF ApprovalCurrent, Digest
  <2>2. PlanAgreed BY <1>3, <2>1 DEF PlanAgreed
  <2> QED BY <1>1, <1>2, <1>3, <1>8, <2>2, AcceptedMoves DEF quiet
<1> QED BY <1>4, <1>5, <1>6, <1>7, <1>8

LEMMA ReadyMoves ==
    ASSUME FilesIInv, ReadyWrite \/ ReadyMoveOrDelete \/ StageNewFile
    PROVE  FilesIInv'
<1>1. UNCHANGED <<op, disk, seen, counts, snap, policy, preview, ticket>> /\ ticket \in TicketRows
  BY DEF ReadyWrite, ReadyMoveOrDelete, StageNewFile, stable, world, stores, FilesIInv, FileTypes
<1>2. call.pc \in {"ready", "stage"} /\ call.pc \in Before /\ call.pc \in Accepted
  BY DEF ReadyWrite, ReadyMoveOrDelete, StageNewFile, At, Before, Accepted
<1>3. PlanAgreed /\ stage = Absent /\ Absent # Mine
  BY <1>2, StillBefore DEF FilesIInv, HandlerIInv, Absent, Mine, Nobody, Call
<1>4. CASE ReadyWrite
  <2>1. /\ op.kind = "write" /\ stage' = stage
        /\ \/ NoEffect
           \/ Settle("failed") /\ Goto("nothing to do")
           \/ row' = row /\ TargetIsFree /\ Goto("stage")
           \/ row' = row /\ ~TargetIsFree /\ Goto("capture")
    BY <1>4 DEF ReadyWrite, world, TargetIsFree
  <2>2. CASE NoEffect BY <1>1, <1>2, <1>3, <2>1, <2>2, GivesUp
  <2>3. CASE Settle("failed") /\ Goto("nothing to do") BY <1>1, <1>2, <1>3, <2>1, <2>3, EffectEnds
  <2>4. CASE row' = row /\ TargetIsFree /\ Goto("stage")
    BY <1>1, <1>2, <1>3, <2>1, <2>4, AcceptedMoves DEF NewFile
  <2>5. CASE row' = row /\ ~TargetIsFree /\ Goto("capture")
    BY <1>1, <1>2, <1>3, <2>1, <2>5, AcceptedMoves DEF NewFile
  <2> QED BY <2>1, <2>2, <2>3, <2>4, <2>5
<1>5. CASE ReadyMoveOrDelete
  <2>1. op.kind # "write" /\ stage' = stage /\ row' = row /\ Goto("capture")
    BY <1>5 DEF ReadyMoveOrDelete, world
  <2> QED BY <1>1, <1>2, <1>3, <2>1, AcceptedMoves DEF NewFile
<1>6. CASE StageNewFile
  <2>1. /\ call.pc = "stage"
        /\ \/ stage' = Mine /\ Goto("capture") /\ row' = row
           \/ stage' \in {Absent, Mine} /\ NoEffect
    BY <1>6 DEF StageNewFile, At
  <2>2. NewFile BY <2>1 DEF FilesIInv, HandlerIInv
  <2>3. CASE stage' = Mine /\ Goto("capture") /\ row' = row
    BY <1>1, <1>2, <1>3, <2>2, <2>3, AcceptedMoves
  <2>4. CASE stage' \in {Absent, Mine} /\ NoEffect BY <1>1, <1>2, <2>4, GivesUp
  <2> QED BY <2>1, <2>3, <2>4
<1> QED BY <1>4, <1>5, <1>6

(* The snapshot is published, and the row comes to refer to it.              *)
LEMMA CaptureMoves ==
    ASSUME FilesIInv, Capture
    PROVE  FilesIInv'
<1>1. /\ UNCHANGED <<op, disk, seen, counts, policy, preview, ticket, fence>> /\ stage \in {Absent, Mine}
      /\ snap \in SnapRows /\ call \in HandlerRows /\ call.pc = "capture"
  BY DEF Capture, At, stable, FilesIInv, FileTypes
<1>2. call.pc \in Before /\ call.pc \in Accepted BY <1>1 DEF Before, Accepted
<1>3. CASE DropStage /\ NoEffect /\ snap' = snap
  <2>1. stage' \in {Absent, Mine} BY <1>1, <1>3 DEF DropStage
  <2> QED BY <1>1, <1>2, <1>3, <2>1, GivesUp
<1>4. CASE ~(DropStage /\ NoEffect /\ snap' = snap)
  <2>1. snap' = [snap EXCEPT !.file = "published", !.plan = call.plan] /\ Goto("promote") /\ UNCHANGED <<stage, row>>
    BY <1>4 DEF Capture
  <2>2. /\ snap' \in SnapRows /\ snap'.file = "published" /\ snap'.plan = call.plan /\ snap'.old = snap.old
        /\ snap'.sweep = snap.sweep
    BY <1>1, <2>1 DEF SnapRows, HandlerRows
  <2>3. "promote" \in FilePcs /\ "promote" \in Before /\ "promote" \in Accepted BY DEF FilePcs, Before, Accepted
  <2>4. call' \in HandlerRows /\ call'.pc = "promote" /\ call'.plan = call.plan /\ call'.replay = call.replay
    BY <2>1, <2>3, GoesTo
  <2>5. PlanAgreed /\ (stage = Mine <=> NewFile) BY <1>1, <1>2 DEF FilesIInv, HandlerIInv
  <2>6. PlanAgreed' /\ NewFile' = NewFile BY <1>1, <2>4, <2>5, PlanStays
  <2>7. /\ seen.landed = "no" /\ seen.lost = {} /\ ~row.verifiable /\ \A p \in Paths : disk[p].at # Call
        /\ snap.file = "none" /\ row.status = "executing"
    BY <1>1, <1>2, StillBefore
  <2>8. HandlerIInv' BY <1>1, <2>1, <2>2, <2>4, <2>5, <2>6, <2>7 DEF HandlerIInv, Effecting, Over
  <2>9. EffectIInv' BY <1>1, <2>1, <2>7 DEF FilesIInv, EffectIInv, RowsTellTheTruth, Moment
  <2>10. SnapshotIInv' BY <2>1, <2>2, <2>7 DEF FilesIInv, SnapshotIInv, SnapshotsOutliveRows
  <2>11. FileTypes' BY <1>1, <2>1, <2>2, <2>4 DEF FilesIInv, FileTypes
  <2> QED BY <2>8, <2>9, <2>10, <2>11 DEF FilesIInv
<1> QED BY <1>3, <1>4

LEMMA PromoteMoves ==
    ASSUME FilesIInv, Promote
    PROVE  FilesIInv'
<1>1. /\ UNCHANGED <<op, disk, seen, counts, policy, preview, ticket, snap>> /\ stage \in {Absent, Mine}
      /\ row \in EffectRows /\ call.pc = "promote"
  BY DEF Promote, At, stable, stores, FilesIInv, FileTypes
<1>2. call.pc \in Before /\ call.pc \in Accepted BY <1>1 DEF Before, Accepted
<1>3. CASE fence # "open"
  <2>1. DropStage /\ NoEffect BY <1>3 DEF Promote
  <2>2. stage' \in {Absent, Mine} BY <1>1, <2>1 DEF DropStage
  <2> QED BY <1>1, <1>2, <2>1, <2>2, GivesUp
<1>4. CASE fence = "open"
  <2>1. row' = [row EXCEPT !.verifiable = TRUE] /\ Goto("recheck") /\ stage' = stage BY <1>4 DEF Promote
  <2>2. row' \in EffectRows /\ row'.status = row.status /\ row'.verifiable BY <1>1, <2>1 DEF EffectRows
  <2>3. "recheck" \in FilePcs /\ "recheck" \in Effecting /\ "recheck" \notin Before \cup Accepted
    BY DEF FilePcs, Effecting, Before, Proposing, Accepted
  <2>4. call' \in HandlerRows /\ call'.pc = "recheck" /\ call'.plan = call.plan /\ call'.replay = call.replay
    BY <2>1, <2>3, GoesTo
  <2>5. /\ PlanAgreed /\ (stage = Mine <=> NewFile) /\ snap.file = "published" /\ snap.plan = call.plan
        /\ ~snap.old
    <3>1. ~row.verifiable /\ row.status = "executing" BY <1>1, <1>2, StillBefore
    <3> QED BY <1>1, <1>2, <3>1 DEF FilesIInv, HandlerIInv, SnapshotIInv, Executing
  <2>6. PlanAgreed' /\ NewFile' = NewFile BY <1>1, <2>4, <2>5, PlanStays
  <2>7. seen.landed = "no" /\ seen.lost = {} /\ row.status = "executing" BY <1>1, <1>2, StillBefore
  <2>8. HandlerIInv' BY <1>1, <2>1, <2>2, <2>3, <2>4, <2>5, <2>6, <2>7 DEF HandlerIInv
  <2>9. EffectIInv' BY <1>1, <2>2, <2>4, <2>5, <2>6, <2>7 DEF FilesIInv, EffectIInv, RowsTellTheTruth, Moment
  <2>10. SnapshotIInv' BY <1>1, <2>2, <2>5 DEF FilesIInv, SnapshotIInv, SnapshotsOutliveRows
  <2>11. FileTypes' BY <1>1, <2>1, <2>2, <2>4 DEF FilesIInv, FileTypes
  <2> QED BY <2>8, <2>9, <2>10, <2>11 DEF FilesIInv
<1> QED BY <1>3, <1>4

(* While the effect is under way.                                            *)
LEMMA EffectFacts ==
    ASSUME FilesIInv, call.pc \in Effecting
    PROVE  /\ row.verifiable /\ row.status = "executing" /\ PlanAgreed /\ PlanFits /\ snap.plan = call.plan
           /\ seen.landed \in {"no", "planned"} /\ "target" \in Operands /\ Operands \subseteq Paths
           /\ call.plan \in [Operands -> FileRows] /\ op.kind \in Native
           /\ disk \in [Paths -> FileRows] /\ \A p \in Paths : disk[p].at < Moment
           /\ seen \in SeenRows /\ stage \in {Absent, Mine} /\ counts.edits \in Nat
<1>1. call.pc \notin Over \cup {"idle", "claimed"} BY DEF Effecting, Over
<1>2. row.verifiable /\ row.status = "executing" BY <1>1 DEF FilesIInv, HandlerIInv
<1>3. PlanAgreed /\ PlanFits /\ snap.plan = call.plan BY <1>2 DEF FilesIInv, EffectIInv, PlanAgreed
<1>4. seen.landed \in {"no", "planned"} BY <1>2 DEF FilesIInv, FileTypes, SeenRows, EffectIInv
<1> QED BY <1>2, <1>3, <1>4, PlanIsTyped DEF PlanFits, FilesIInv, FileTypes, EffectIInv

Loss(l) == \/ l.file \in NeedsBeforeImage(snap.plan)
           \/ l.raced /\ ~(op.kind = "delete" /\ op.platform = "windows")

LEMMA EffectMoves ==
    ASSUME FilesIInv, call.pc \in Effecting, NEW pc \in Effecting \ {"recheck"}, Goto(pc), row' = row,
           UNCHANGED <<op, counts, snap, policy, preview, ticket>>, stage' \in {Absent, Mine},
           disk' \in [Paths -> FileRows], \A p \in Paths : disk'[p].at < Moment,
           seen' \in SeenRows, seen'.landed \in {seen.landed, "planned"}, seen'.landed = "planned" => Touched',
           \A l \in seen'.lost : Loss(l),
           pc = "publish" => stage' = Mine,
           pc \in {"publish", "unlink stage"} => NewFile,
           pc \in {"look", "act", "rewrite"} => ~NewFile,
           pc = "rewrite" => op.kind = "write",
           pc \in {"linked", "unlink source"} => op.kind = "move" /\ TargetIsFree,
           pc \in {"act", "rewrite"} => seen'.looked["target"] = call.plan["target"],
           pc = "unlink source" => seen'.looked["source"].node = seen'.looked["target"].node
    PROVE  FilesIInv'
<1>1. pc \in FilePcs /\ pc \notin Before \cup Accepted \cup Over \cup {"capture", "promote", "recheck"}
  BY DEF FilePcs, Effecting, Before, Proposing, Accepted, Over
<1>2. call' \in HandlerRows /\ call'.pc = pc /\ call'.plan = call.plan /\ call'.replay = call.replay
  BY <1>1, GoesTo
<1>3. row.verifiable /\ row.status = "executing" /\ PlanAgreed /\ snap.plan = call.plan
      /\ seen.landed \in {"no", "planned"}
  BY EffectFacts
<1>4. PlanAgreed' /\ NewFile' = NewFile /\ TargetIsFree' = TargetIsFree BY <1>2, <1>3, PlanStays
<1>5. HandlerIInv'
  <2>1. pc \notin {"idle", "claimed", "gate", "stage", "capture", "promote", "recheck"}
    BY <1>1 DEF Before, Accepted
  <2> QED BY <1>1, <1>2, <1>3, <1>4, <2>1 DEF HandlerIInv
<1>6. EffectIInv'
  <2>1. \A l \in seen'.lost : \/ l.file \in NeedsBeforeImage(snap'.plan)
                              \/ l.raced /\ ~(op'.kind = "delete" /\ op'.platform = "windows")
    BY DEF Loss
  <2>2. RowsTellTheTruth' BY <1>3 DEF RowsTellTheTruth
  <2>3. \A p \in Paths : disk'[p].at < Moment' BY DEF Moment
  <2> QED BY <1>2, <1>3, <1>4, <2>1, <2>2, <2>3 DEF EffectIInv, NeedsBeforeImage
<1>7. SnapshotIInv' BY DEF FilesIInv, SnapshotIInv, SnapshotsOutliveRows, Unresolved, Executing
<1>8. FileTypes' BY <1>2 DEF FilesIInv, FileTypes
<1> QED BY <1>5, <1>6, <1>7, <1>8 DEF FilesIInv

(* It goes on without a change of the files.                                 *)
LEMMA EffectGoesOn ==
    ASSUME FilesIInv, call.pc \in Effecting, NEW pc \in Effecting \ {"recheck"}, Goto(pc), row' = row,
           UNCHANGED <<op, counts, snap, policy, preview, ticket, disk>>, stage' \in {Absent, Mine},
           \/ seen' = seen
           \/ seen' = [seen EXCEPT !.looked = disk],
           pc = "publish" => stage' = Mine,
           pc \in {"publish", "unlink stage"} => NewFile,
           pc \in {"look", "act", "rewrite"} => ~NewFile,
           pc = "rewrite" => op.kind = "write",
           pc \in {"linked", "unlink source"} => op.kind = "move" /\ TargetIsFree,
           pc \in {"act", "rewrite"} => seen'.looked["target"] = call.plan["target"],
           pc = "unlink source" => seen'.looked["source"].node = seen'.looked["target"].node
    PROVE  FilesIInv'
<1>1. /\ seen \in SeenRows /\ disk \in [Paths -> FileRows] /\ \A p \in Paths : disk[p].at < Moment
      /\ seen.landed \in {"no", "planned"}
  BY EffectFacts
<1>2. /\ seen' \in SeenRows /\ seen'.landed = seen.landed /\ seen'.lost = seen.lost
      /\ seen'.edited = seen.edited
  BY <1>1 DEF SeenRows
<1>3. \A l \in seen'.lost : Loss(l) BY <1>2 DEF FilesIInv, EffectIInv, Loss
<1>4. pc \in FilePcs BY DEF FilePcs
<1>5. call'.plan = call.plan BY <1>4, GoesTo
<1>6. seen'.landed = "planned" => Touched'
  <2>1. seen.landed = "planned" => Touched BY DEF FilesIInv, EffectIInv
  <2> QED BY <1>2, <1>5, <2>1 DEF Touched, Gone, MakesAName, Operands
<1> QED BY <1>1, <1>2, <1>3, <1>6, EffectMoves

LEMMA RecheckMoves ==
    ASSUME FilesIInv, RecheckEffectBoundary
    PROVE  FilesIInv'
<1>1. /\ UNCHANGED <<op, counts, snap, policy, preview, ticket, disk, seen>> /\ call.pc = "recheck"
      /\ stage \in {Absent, Mine}
  BY DEF RecheckEffectBoundary, At, stable, stores, FilesIInv, FileTypes
<1>2. /\ call.pc \in Effecting /\ "publish" \in Effecting \ {"recheck"} /\ "look" \in Effecting \ {"recheck"}
  BY <1>1 DEF Effecting
<1>3. stage = Mine <=> NewFile BY <1>1 DEF FilesIInv, HandlerIInv
<1>4. \/ DropStage /\ NoEffect
      \/ stage = Mine /\ Goto("publish") /\ UNCHANGED <<stage, row>>
      \/ stage # Mine /\ Goto("look") /\ UNCHANGED <<stage, row>>
  BY DEF RecheckEffectBoundary
<1>5. CASE DropStage /\ NoEffect
  <2>1. stage' \in {Absent, Mine} BY <1>1, <1>5 DEF DropStage
  <2> QED BY <1>1, <1>5, <2>1, GivesUp
<1>6. CASE stage = Mine /\ Goto("publish") /\ UNCHANGED <<stage, row>>
  BY <1>1, <1>2, <1>3, <1>6, EffectGoesOn
<1>7. CASE stage # Mine /\ Goto("look") /\ UNCHANGED <<stage, row>>
  BY <1>1, <1>2, <1>3, <1>7, EffectGoesOn
<1> QED BY <1>4, <1>5, <1>6, <1>7

LEMMA LookMoves ==
    ASSUME FilesIInv, LastLook \/ CheckLinked \/ UnlinkStage
    PROVE  FilesIInv'
<1>1. /\ UNCHANGED <<op, counts, snap, policy, preview, ticket, row, disk>>
      /\ call.pc \in {"look", "linked", "unlink stage"} /\ stage \in {Absent, Mine}
  BY DEF LastLook, CheckLinked, UnlinkStage, Raises, At, stable, stores, FilesIInv, FileTypes
<1>2. call.pc \in Effecting /\ {"verify", "act", "unlink source"} \subseteq Effecting \ {"recheck"}
  BY <1>1 DEF Effecting
<1>3. seen \in SeenRows /\ disk \in [Paths -> FileRows] /\ "target" \in Operands /\ Paths = {"source", "target"}
  BY <1>2, EffectFacts DEF Paths
<1>4. CASE LastLook
  <2>1. call.pc = "look" /\ stage' = stage BY <1>4 DEF LastLook, At, Raises
  <2>2. ~NewFile BY <2>1 DEF FilesIInv, HandlerIInv
  <2>3. \/ StatesMatch(call.plan) /\ Goto("act") /\ seen' = [seen EXCEPT !.looked = disk]
        \/ Goto("verify") /\ seen' = seen
    BY <1>4 DEF LastLook, Raises
  <2>4. CASE StatesMatch(call.plan) /\ Goto("act") /\ seen' = [seen EXCEPT !.looked = disk]
    <3>1. seen'.looked = disk BY <1>3, <2>4 DEF SeenRows
    <3>2. disk["target"] = call.plan["target"] BY <1>3, <2>4, PlanIsTyped DEF StatesMatch
    <3> QED BY <1>1, <1>2, <2>1, <2>2, <2>4, <3>1, <3>2, EffectGoesOn
  <2>5. CASE Goto("verify") /\ seen' = seen BY <1>1, <1>2, <2>1, <2>5, EffectGoesOn
  <2> QED BY <2>3, <2>4, <2>5
<1>5. CASE CheckLinked
  <2>1. call.pc = "linked" /\ stage' = stage BY <1>5 DEF CheckLinked, At
  <2>2. op.kind = "move" /\ TargetIsFree BY <2>1 DEF FilesIInv, HandlerIInv
  <2>3. \/ /\ \A p \in Paths : Node(p) = call.plan["source"].node
           /\ Goto("unlink source") /\ seen' = [seen EXCEPT !.looked = disk]
        \/ Goto("verify") /\ seen' = seen
    BY <1>5 DEF CheckLinked
  <2>4. CASE Goto("verify") /\ seen' = seen BY <1>1, <1>2, <2>1, <2>4, EffectGoesOn
  <2>5. CASE ~(Goto("verify") /\ seen' = seen)
    <3>1. seen'.looked = disk BY <1>3, <2>3, <2>5 DEF SeenRows
    <3>2. disk["source"].node = disk["target"].node BY <1>3, <2>3, <2>5 DEF Node
    <3> QED BY <1>1, <1>2, <2>1, <2>2, <2>3, <2>5, <3>1, <3>2, EffectGoesOn
  <2> QED BY <2>4, <2>5
<1>6. CASE UnlinkStage
  <2>1. stage' \in {Absent, Mine} /\ Goto("verify") /\ seen' = seen BY <1>1, <1>6 DEF UnlinkStage, DropStage
  <2> QED BY <1>1, <1>2, <2>1, EffectGoesOn
<1> QED BY <1>4, <1>5, <1>6

(* The files change.  What is lost was planned, or was put there since the   *)
(* last look.                                                                *)
LEMMA FileConstants ==
    /\ Paths = {"source", "target"} /\ Absent \in FileRows /\ Mine \in FileRows /\ Mine # Absent
    /\ Absent.at = 0 /\ Mine.at = Call /\ Call = 1 /\ Absent.node = 0
BY DEF Paths, Absent, Mine, FileRows, Nobody, Call

LEMMA LandedFacts ==
    ASSUME FilesIInv, call.pc \in Effecting, NEW fs \in SUBSET FileRows, Landed(fs),
           \A f \in fs \ {Absent} : Loss([file |-> f, raced |-> disk # seen.looked])
    PROVE  /\ seen' \in SeenRows /\ seen'.landed = "planned" /\ ~seen'.edited
           /\ \A l \in seen'.lost : Loss(l)
<1>1. seen \in SeenRows /\ (\A l \in seen.lost : Loss(l)) BY EffectFacts DEF FilesIInv, EffectIInv, Loss
<1> DEFINE more == Lose(fs)
<1>2. \A f \in fs : [file |-> f, raced |-> disk # seen.looked] \in Losses BY DEF Losses
<1>3. more \subseteq Losses BY <1>1, <1>2 DEF Lose, SeenRows
<1>4. \A l \in more : Loss(l) BY <1>1 DEF Lose
<1>5. seen' = [seen EXCEPT !.landed = "planned", !.lost = more, !.edited = FALSE] BY DEF Landed
<1> HIDE DEF more
<1>6. seen' \in SeenRows /\ seen'.landed = "planned" /\ ~seen'.edited /\ seen'.lost = more
  BY <1>1, <1>3, <1>5 DEF SeenRows
<1> QED BY <1>4, <1>6

LEMMA NameMade ==
    ASSUME FilesIInv, call.pc \in Effecting, call'.plan = call.plan, op' = op, TargetIsFree,
           op.kind \in {"write", "move"}, disk'["target"] # Absent
    PROVE  Touched'
<1>1. call.plan \in [Operands -> FileRows] /\ "target" \in Operands BY EffectFacts
<1>2. call.plan # NoPlan BY <1>1 DEF NoPlan
<1> QED BY <1>2 DEF Touched, MakesAName, TargetIsFree

LEMMA FileGone ==
    ASSUME FilesIInv, call.pc \in Effecting, call'.plan = call.plan, op' = op,
           NEW p \in Operands, call.plan[p] # Absent,
           disk'[p] = Absent \/ disk'[p].at # call.plan[p].at
    PROVE  Touched'
BY DEF Touched, Gone, Operands

LEMMA PublishMoves ==
    ASSUME FilesIInv, PublishStaged
    PROVE  FilesIInv'
<1>1. /\ UNCHANGED <<op, counts, snap, policy, preview, ticket, row>> /\ call.pc = "publish" /\ stage \in {Absent, Mine}
  BY DEF PublishStaged, At, stable, stores, FilesIInv, FileTypes
<1>2. call.pc \in Effecting /\ {"verify", "unlink stage"} \subseteq Effecting \ {"recheck"} /\ Effecting \subseteq FilePcs
  BY <1>1 DEF Effecting, FilePcs
<1>3. stage = Mine /\ NewFile BY <1>1 DEF FilesIInv, HandlerIInv
<1>4. CASE disk["target"] = Absent
  <2>1. disk' = [disk EXCEPT !["target"] = stage] /\ Landed({}) /\ Goto("unlink stage") /\ stage' = stage
    BY <1>4 DEF PublishStaged
  <2>2. /\ seen' \in SeenRows /\ seen'.landed = "planned" /\ \A l \in seen'.lost : Loss(l)
    BY <1>2, <2>1, LandedFacts
  <2>3. /\ disk' \in [Paths -> FileRows] /\ (\A p \in Paths : disk'[p].at < Moment)
        /\ disk'["target"] # Absent
    <3>1. disk \in [Paths -> FileRows] /\ (\A p \in Paths : disk[p].at < Moment) /\ counts.edits \in Nat
      BY <1>2, EffectFacts
    <3>2. disk' = [disk EXCEPT !["target"] = Mine] BY <1>3, <2>1
    <3>3. Mine.at < Moment BY <3>1, FileConstants DEF Moment
    <3> QED BY <3>1, <3>2, <3>3, FileConstants
  <2>4. call'.plan = call.plan BY <1>2, <2>1, GoesTo
  <2>5. Touched' BY <1>1, <1>2, <1>3, <2>3, <2>4, NameMade DEF NewFile
  <2> QED BY <1>1, <1>2, <1>3, <2>1, <2>2, <2>3, <2>5, EffectMoves
<1>5. CASE disk["target"] # Absent
  <2>1. DropStage /\ Goto("verify") /\ UNCHANGED <<disk, seen>> BY <1>5 DEF PublishStaged
  <2>2. stage' \in {Absent, Mine} BY <1>1, <2>1 DEF DropStage
  <2> QED BY <1>1, <1>2, <2>1, <2>2, EffectGoesOn
<1> QED BY <1>4, <1>5

(* At the call that changes the files, or after it.                          *)
LEMMA ActFacts ==
    ASSUME FilesIInv, call.pc \in {"act", "rewrite"}
    PROVE  /\ call.pc \in Effecting /\ "verify" \in Effecting \ {"recheck"} /\ "rewrite" \in Effecting \ {"recheck"}
           /\ "linked" \in Effecting \ {"recheck"}
           /\ ~NewFile /\ disk["target"] \in FileRows /\ disk["source"] \in FileRows
           /\ \A b \in BOOLEAN : (disk = seen.looked \/ disk["target"] = call.plan["target"]
                                  \/ (b /\ ~(op.kind = "delete" /\ op.platform = "windows")))
                 => (disk["target"] # Absent => Loss([file |-> disk["target"], raced |-> b]))
<1>1. call.pc \in Effecting /\ "verify" \in Effecting \ {"recheck"} /\ "rewrite" \in Effecting \ {"recheck"}
      /\ "linked" \in Effecting \ {"recheck"}
  BY DEF Effecting
<1>2. ~NewFile /\ seen.looked["target"] = call.plan["target"] BY DEF FilesIInv, HandlerIInv
<1>3. snap.plan = call.plan /\ disk \in [Paths -> FileRows] BY <1>1, EffectFacts
<1> QED BY <1>1, <1>2, <1>3, FileConstants DEF Loss, NeedsBeforeImage

LEMMA TruncateMoves ==
    ASSUME FilesIInv, TruncateTarget
    PROVE  FilesIInv'
<1>1. /\ UNCHANGED <<op, counts, snap, policy, preview, ticket, row, stage>> /\ call.pc = "act" /\ op.kind = "write"
      /\ Goto("rewrite")
  BY DEF TruncateTarget, At, stable, stores
<1>2. /\ call.pc \in Effecting /\ "rewrite" \in Effecting \ {"recheck"} /\ ~NewFile
      /\ disk["target"] \in FileRows
  BY <1>1, ActFacts
<1>3. /\ disk \in [Paths -> FileRows] /\ (\A p \in Paths : disk[p].at < Moment) /\ seen \in SeenRows
      /\ stage \in {Absent, Mine} /\ counts.edits \in Nat /\ "target" \in Operands /\ PlanFits
  BY <1>2, EffectFacts
<1>4. seen.looked["target"] = call.plan["target"] BY <1>1 DEF FilesIInv, HandlerIInv
<1>5. CASE InPlace
  <2>1. disk' = [disk EXCEPT !["target"].data = "torn", !["target"].at = Call] /\ Landed({disk["target"]})
    BY <1>5 DEF TruncateTarget
  <2>2. Loss([file |-> disk["target"], raced |-> disk # seen.looked]) \/ disk["target"] = Absent
    <3>1. (disk # seen.looked) \in BOOLEAN OBVIOUS
    <3> QED BY <1>1, <3>1, ActFacts
  <2>3. /\ seen' \in SeenRows /\ seen'.landed = "planned" /\ \A l \in seen'.lost : Loss(l)
    BY <1>2, <2>1, <2>2, LandedFacts
  <2>4. seen'.looked = seen.looked BY <1>3, <2>1 DEF Landed, SeenRows
  <2>5. /\ disk' \in [Paths -> FileRows] /\ (\A p \in Paths : disk'[p].at < Moment) /\ disk'["target"].at = Call
    <3> DEFINE f == [disk["target"] EXCEPT !.data = "torn", !.at = Call]
    <3>1. disk' = [disk EXCEPT !["target"] = f] BY <1>3, <2>1
    <3>2. f \in FileRows /\ f.at = Call BY <1>2, FileConstants DEF FileRows
    <3> HIDE DEF f
    <3>3. Call < Moment BY <1>3, FileConstants DEF Moment
    <3> QED BY <1>3, <3>1, <3>2, <3>3, FileConstants
  <2>6. call'.plan = call.plan
    <3>1. "rewrite" \in FilePcs BY <1>2 DEF FilePcs
    <3> QED BY <1>1, <3>1, GoesTo
  <2>7. Touched'
    <3>1. call.plan["target"] # Absent /\ call.plan["target"].at # Call
      BY <1>1, <1>2, <1>3 DEF PlanFits, NewFile, TargetIsFree
    <3> QED BY <1>1, <1>2, <1>3, <2>5, <2>6, <3>1, FileGone
  <2> QED BY <1>1, <1>2, <1>3, <1>4, <2>3, <2>4, <2>5, <2>7, EffectMoves
<1>6. CASE ~InPlace
  <2>1. UNCHANGED <<disk, seen>> BY <1>6 DEF TruncateTarget
  <2> QED BY <1>1, <1>2, <1>3, <1>4, <2>1, EffectGoesOn
<1> QED BY <1>5, <1>6

LEMMA RewriteMoves ==
    ASSUME FilesIInv, RewriteTarget
    PROVE  FilesIInv'
<1>1. /\ UNCHANGED <<op, counts, snap, policy, preview, ticket, row, stage>> /\ call.pc = "rewrite" /\ Goto("verify")
  BY DEF RewriteTarget, At, stable, stores
<1>2. /\ call.pc \in Effecting /\ "verify" \in Effecting \ {"recheck"} /\ ~NewFile
      /\ disk["target"] \in FileRows
  BY <1>1, ActFacts
<1>3. /\ disk \in [Paths -> FileRows] /\ (\A p \in Paths : disk[p].at < Moment) /\ seen \in SeenRows
      /\ stage \in {Absent, Mine} /\ counts.edits \in Nat /\ "target" \in Operands /\ PlanFits
  BY <1>2, EffectFacts
<1>4. op.kind = "write" /\ (\A l \in seen.lost : Loss(l)) /\ (seen.landed = "planned" => Touched)
  BY <1>1 DEF FilesIInv, HandlerIInv, EffectIInv, Loss
<1>5. call'.plan = call.plan
  <2>1. "verify" \in FilePcs BY <1>2 DEF FilePcs
  <2> QED BY <1>1, <2>1, GoesTo
<1>6. disk' = disk \/ disk' = [disk EXCEPT !["target"].data = "new", !["target"].at = Call] BY DEF RewriteTarget
<1>7. disk' \in [Paths -> FileRows] /\ (\A p \in Paths : disk'[p].at < Moment)
  <2> DEFINE f == [disk["target"] EXCEPT !.data = "new", !.at = Call]
  <2>1. disk' = disk \/ disk' = [disk EXCEPT !["target"] = f] BY <1>3, <1>6
  <2>2. f \in FileRows /\ f.at = Call BY <1>2, FileConstants DEF FileRows
  <2> HIDE DEF f
  <2>3. Call < Moment BY <1>3, FileConstants DEF Moment
  <2> QED BY <1>3, <2>1, <2>2, <2>3, FileConstants
<1> DEFINE lost == IF disk' # disk /\ disk["target"].data # "torn" THEN Lose({disk["target"]}) ELSE seen.lost
<1>8. seen' = [seen EXCEPT !.lost = lost] BY DEF RewriteTarget
<1>9. lost \subseteq Losses /\ \A l \in lost : Loss(l)
  <2> DEFINE l1 == [file |-> disk["target"], raced |-> disk # seen.looked]
  <2>1. l1 \in Losses BY <1>2 DEF Losses
  <2>2. disk["target"] = Absent \/ Loss(l1)
    <3>1. (disk # seen.looked) \in BOOLEAN OBVIOUS
    <3> QED BY <1>1, <1>4, <3>1, ActFacts
  <2>3. Lose({disk["target"]}) \subseteq seen.lost \cup {l1}
        /\ (disk["target"] = Absent => Lose({disk["target"]}) = seen.lost)
    BY DEF Lose
  <2> QED BY <1>3, <1>4, <2>1, <2>2, <2>3 DEF SeenRows
<1> HIDE DEF lost
<1>10. /\ seen' \in SeenRows /\ seen'.lost = lost /\ seen'.landed = seen.landed /\ seen'.edited = seen.edited
  BY <1>3, <1>8, <1>9 DEF SeenRows
<1>11. seen'.landed = "planned" => Touched'
  <2>1. CASE disk' = disk BY <1>1, <1>4, <1>5, <1>10, <2>1 DEF Touched, Gone, MakesAName, Operands
  <2>2. CASE disk' # disk
    <3>1. disk'["target"].at = Call BY <1>3, <1>6, <2>2, FileConstants DEF FileRows
    <3>2. call.plan["target"] # Absent /\ call.plan["target"].at # Call
      BY <1>2, <1>3, <1>4 DEF PlanFits, NewFile, TargetIsFree
    <3> QED BY <1>1, <1>2, <1>3, <1>5, <3>1, <3>2, FileGone
  <2> QED BY <2>1, <2>2
<1> QED BY <1>1, <1>2, <1>3, <1>7, <1>9, <1>10, <1>11, EffectMoves

(* One file is taken away, or given a new name.                              *)
LEMMA RemovalMoves ==
    ASSUME FilesIInv, call.pc \in Effecting, NEW pc \in {"verify", "linked"}, Goto(pc),
           UNCHANGED <<op, counts, snap, policy, preview, ticket, row, stage>>,
           disk' \in [Paths -> FileRows], \A p \in Paths : disk'[p].at < Moment,
           NEW fs \in SUBSET FileRows, Landed(fs),
           \A f \in fs \ {Absent} : Loss([file |-> f, raced |-> disk # seen.looked]),
           pc = "linked" => op.kind = "move" /\ TargetIsFree,
           \/ \E p \in Operands : call.plan[p] # Absent /\ disk'[p] = Absent
           \/ TargetIsFree /\ op.kind \in {"write", "move"} /\ disk'["target"] # Absent
    PROVE  FilesIInv'
<1>1. pc \in Effecting \ {"recheck"} /\ pc \in FilePcs /\ pc \notin {"publish", "unlink stage", "look", "act", "rewrite", "unlink source"}
  BY DEF Effecting, FilePcs
<1>2. seen' \in SeenRows /\ seen'.landed = "planned" /\ \A l \in seen'.lost : Loss(l) BY LandedFacts
<1>3. call'.plan = call.plan BY <1>1, GoesTo
<1>4. Touched'
  <2>1. CASE \E p \in Operands : call.plan[p] # Absent /\ disk'[p] = Absent BY <1>3, <2>1, FileGone
  <2>2. CASE TargetIsFree /\ op.kind \in {"write", "move"} /\ disk'["target"] # Absent BY <1>3, <2>2, NameMade
  <2> QED BY <2>1, <2>2
<1>5. stage \in {Absent, Mine} BY EffectFacts
<1> QED BY <1>1, <1>2, <1>4, <1>5, EffectMoves

LEMMA DeleteMoves ==
    ASSUME FilesIInv, DeleteRegularFile
    PROVE  FilesIInv'
<1>1. /\ UNCHANGED <<op, counts, snap, policy, preview, ticket, row, stage>> /\ call.pc = "act" /\ op.kind = "delete"
      /\ Goto("verify")
  BY DEF DeleteRegularFile, Raises, At, stable, stores
<1>2. call.pc \in Effecting /\ "verify" \in Effecting \ {"recheck"} /\ disk["target"] \in FileRows
  BY <1>1, ActFacts
<1>3. /\ disk \in [Paths -> FileRows] /\ (\A p \in Paths : disk[p].at < Moment) /\ stage \in {Absent, Mine}
      /\ counts.edits \in Nat /\ "target" \in Operands /\ PlanFits
  BY <1>2, EffectFacts
<1>4. CASE UNCHANGED <<disk, seen>> BY <1>1, <1>2, <1>3, <1>4, EffectGoesOn
<1>5. CASE ~UNCHANGED <<disk, seen>>
  <2>1. /\ disk["target"] # Absent /\ (op.platform = "windows" => disk["target"] = call.plan["target"])
        /\ disk' = [disk EXCEPT !["target"] = Absent] /\ Landed({disk["target"]})
    BY <1>5 DEF DeleteRegularFile, Raises
  <2>2. Loss([file |-> disk["target"], raced |-> disk # seen.looked])
    <3> DEFINE b == disk # seen.looked
    <3>1. b \in BOOLEAN /\ (b \/ disk = seen.looked) OBVIOUS
    <3> HIDE DEF b
    <3>2. disk = seen.looked \/ disk["target"] = call.plan["target"]
          \/ (b /\ ~(op.kind = "delete" /\ op.platform = "windows"))
      BY <2>1, <3>1
    <3>3. Loss([file |-> disk["target"], raced |-> b]) BY <1>1, <2>1, <3>1, <3>2, ActFacts
    <3> QED BY <3>3 DEF b
  <2>3. disk' \in [Paths -> FileRows] /\ disk'["target"] = Absent BY <1>3, <2>1, FileConstants
  <2>4. \A p \in Paths : disk'[p].at < Moment
    <3>1. Absent.at < Moment BY <1>3, FileConstants DEF Moment
    <3> QED BY <1>3, <2>1, <3>1
  <2>5. call.plan["target"] # Absent BY <1>1, <1>3 DEF PlanFits, TargetIsFree
  <2>6. {disk["target"]} \in SUBSET FileRows BY <1>2
  <2> QED BY <1>1, <1>2, <1>3, <2>1, <2>2, <2>3, <2>4, <2>5, <2>6, RemovalMoves
<1> QED BY <1>4, <1>5

LEMMA MoveMoves ==
    ASSUME FilesIInv, MoveOver \/ MoveToFreeName
    PROVE  FilesIInv'
<1>1. /\ UNCHANGED <<op, counts, snap, policy, preview, ticket, row, stage>> /\ call.pc = "act" /\ op.kind = "move"
  BY DEF MoveOver, MoveToFreeName, Raises, At, stable, stores
<1>2. /\ call.pc \in Effecting /\ "verify" \in Effecting \ {"recheck"} /\ disk["target"] \in FileRows
      /\ disk["source"] \in FileRows
  BY <1>1, ActFacts
<1>3. /\ disk \in [Paths -> FileRows] /\ (\A p \in Paths : disk[p].at < Moment) /\ stage \in {Absent, Mine}
      /\ counts.edits \in Nat /\ PlanFits
  BY <1>2, EffectFacts
<1>4. call.plan["source"] # Absent /\ "source" \in Operands
  BY <1>1, <1>3, FileConstants DEF PlanFits, Operands
<1>5. CASE Raises BY <1>1, <1>2, <1>3, <1>5, EffectGoesOn DEF Raises
<1> DEFINE moved == [source |-> Absent, target |-> disk["source"]]
<1>6. /\ moved \in [Paths -> FileRows] /\ moved["source"] = Absent
      /\ \A p \in Paths : moved[p].at < Moment
  <2>1. Absent.at < Moment BY <1>3, FileConstants DEF Moment
  <2>2. disk["source"].at < Moment BY <1>3, FileConstants
  <2>3. moved = [p \in {"source", "target"} |-> IF p = "source" THEN Absent ELSE disk["source"]] OBVIOUS
  <2> HIDE DEF moved
  <2>4. moved = [p \in Paths |-> IF p = "source" THEN Absent ELSE disk["source"]] BY <2>3, FileConstants
  <2> QED BY <1>2, <2>1, <2>2, <2>4, FileConstants
<1>7. CASE MoveOver /\ ~Raises
  <2>1. disk' = moved /\ Landed({disk["target"]}) /\ Goto("verify") BY <1>7 DEF MoveOver
  <2> HIDE DEF moved
  <2>2. disk["target"] # Absent => Loss([file |-> disk["target"], raced |-> disk # seen.looked])
    <3> DEFINE b == disk # seen.looked
    <3>1. b \in BOOLEAN /\ (b \/ disk = seen.looked) OBVIOUS
    <3> HIDE DEF b
    <3>2. disk["target"] # Absent => Loss([file |-> disk["target"], raced |-> b]) BY <1>1, <3>1, ActFacts
    <3> QED BY <3>2 DEF b
  <2>3. {disk["target"]} \in SUBSET FileRows BY <1>2
  <2> QED BY <1>1, <1>2, <1>4, <1>6, <2>1, <2>2, <2>3, RemovalMoves
<1>8. CASE MoveToFreeName /\ ~Raises
  <2>1. /\ TargetIsFree /\ disk["source"] # Absent /\ Landed({})
        /\ \/ disk' = moved /\ Goto("verify")
           \/ disk' = [disk EXCEPT !["target"] = disk["source"]] /\ Goto("linked")
    BY <1>8 DEF MoveToFreeName, TargetIsFree
  <2> HIDE DEF moved
  <2>2. CASE disk' = moved /\ Goto("verify")
    BY <1>1, <1>2, <1>4, <1>6, <2>1, <2>2, RemovalMoves
  <2>3. CASE disk' = [disk EXCEPT !["target"] = disk["source"]] /\ Goto("linked")
    <3>1. /\ disk' \in [Paths -> FileRows] /\ disk'["target"] = disk["source"]
          /\ \A p \in Paths : disk'[p].at < Moment
      BY <1>2, <1>3, <2>3, FileConstants
    <3> QED BY <1>1, <1>2, <2>1, <2>3, <3>1, RemovalMoves
  <2> QED BY <2>1, <2>2, <2>3
<1> QED BY <1>5, <1>7, <1>8

LEMMA UnlinkMoves ==
    ASSUME FilesIInv, UnlinkSource
    PROVE  FilesIInv'
<1>1. /\ UNCHANGED <<op, counts, snap, policy, preview, ticket, row, stage>> /\ call.pc = "unlink source"
      /\ Goto("verify")
  BY DEF UnlinkSource, At, stable, stores
<1>2. call.pc \in Effecting /\ "verify" \in Effecting \ {"recheck"} BY <1>1 DEF Effecting
<1>3. /\ disk \in [Paths -> FileRows] /\ (\A p \in Paths : disk[p].at < Moment) /\ stage \in {Absent, Mine}
      /\ counts.edits \in Nat /\ PlanFits
  BY <1>2, EffectFacts
<1>4. op.kind = "move" /\ TargetIsFree /\ seen.looked["source"].node = seen.looked["target"].node
  BY <1>1 DEF FilesIInv, HandlerIInv
<1>5. CASE UNCHANGED <<disk, seen>> BY <1>1, <1>2, <1>3, <1>5, EffectGoesOn
<1>6. CASE ~UNCHANGED <<disk, seen>>
  <2> DEFINE fs == IF Node("source") = Node("target") THEN {} ELSE {disk["source"]}
  <2>1. disk' = [disk EXCEPT !["source"] = Absent] /\ Landed(fs) BY <1>6 DEF UnlinkSource
  <2>2. fs \in SUBSET FileRows BY <1>3, FileConstants
  <2>3. \A f \in fs \ {Absent} : Loss([file |-> f, raced |-> disk # seen.looked])
    <3>1. fs # {} => disk # seen.looked BY <1>4 DEF Node
    <3> QED BY <1>4, <3>1 DEF Loss
  <2> HIDE DEF fs
  <2>4. disk' \in [Paths -> FileRows] /\ disk'["source"] = Absent BY <1>3, <2>1, FileConstants
  <2>5. \A p \in Paths : disk'[p].at < Moment
    <3>1. Absent.at < Moment BY <1>3, FileConstants DEF Moment
    <3> QED BY <1>3, <2>1, <3>1
  <2>6. call.plan["source"] # Absent /\ "source" \in Operands
    BY <1>3, <1>4, FileConstants DEF PlanFits, Operands
  <2> QED BY <1>1, <1>2, <2>1, <2>2, <2>3, <2>4, <2>5, <2>6, RemovalMoves
<1> QED BY <1>5, <1>6

(* The verdict.  A planned effect whose files are what they were only made a *)
(* name that another program took away.                                      *)
LEMMA UnchangedIsHonest ==
    ASSUME FilesIInv, row.verifiable, Executing, Unchanged(snap.plan)
    PROVE  seen.landed = "no" \/ (seen.landed = "planned" /\ MakesAName /\ seen.edited)
<1>1. seen.landed \in {"no", "planned"} BY DEF FilesIInv, FileTypes, SeenRows, EffectIInv, Executing
<1>2. SUFFICES ASSUME seen.landed = "planned" PROVE MakesAName /\ seen.edited BY <1>1
<1>3. Touched /\ snap.plan = call.plan BY <1>2 DEF FilesIInv, EffectIInv
<1>4. \A p \in Operands : disk[p] = call.plan[p] BY <1>3 DEF Unchanged
<1>5. \A p \in Operands : ~(call.plan[p] # Absent /\ Gone(p)) BY <1>4 DEF Gone
<1>6. MakesAName /\ (seen.edited \/ disk["target"] # Absent) BY <1>3, <1>5 DEF Touched
<1>7. disk["target"] = Absent BY <1>4, <1>6, PlanIsTyped DEF MakesAName
<1> QED BY <1>6, <1>7

(* It is over, or goes on over.                                              *)
LEMMA OverMoves ==
    ASSUME FilesIInv, NEW pc \in Over, Goto(pc), row' \in EffectRows, row'.verifiable = row.verifiable,
           UNCHANGED quiet, policy' \in [change : Changes, read : BOOLEAN], ticket' = ticket,
           preview' \in PreviewRows, preview'.plan = preview.plan,
           \/ row'.status = row.status
           \/ /\ row.status = "executing" /\ row'.status \notin {"executing", "absent"}
              /\ row'.status = "failed" => seen.landed = "no" \/ (seen.landed = "planned" /\ MakesAName /\ seen.edited)
    PROVE  FilesIInv'
<1>1. pc \in FilePcs /\ pc \notin Before \cup Accepted \cup Effecting
  BY DEF FilePcs, Over, Before, Proposing, Accepted, Effecting
<1>2. call' \in HandlerRows /\ call'.pc = pc /\ call'.plan = call.plan /\ call'.replay = call.replay
  BY <1>1, GoesTo
<1>3. EffectIInv' /\ SnapshotIInv' BY <1>2, FileRests DEF quiet
<1>4. HandlerIInv' BY <1>1, <1>2 DEF HandlerIInv, Before, Proposing, Accepted, Effecting, Over
<1>5. FileTypes' BY <1>2 DEF FilesIInv, FileTypes, quiet
<1> QED BY <1>3, <1>4, <1>5 DEF FilesIInv

LEMMA UncertainMoves ==
    ASSUME FilesIInv, Executing, Uncertain, UNCHANGED quiet, policy' \in [change : Changes, read : BOOLEAN],
           ticket' = ticket, preview' = preview
    PROVE  FilesIInv'
<1>1. row' \in EffectRows /\ row'.status = "uncertain" /\ row'.verifiable = row.verifiable /\ Goto("answered")
  BY Settles DEF Uncertain, Statuses
<1> QED BY <1>1, OverMoves DEF Over, Executing, FilesIInv, FileTypes

LEMMA JudgeMoves ==
    ASSUME FilesIInv, VerifyEffect \/ RecoverOperation
    PROVE  FilesIInv'
<1>1. /\ UNCHANGED quiet /\ UNCHANGED <<policy, ticket, preview>> /\ policy \in [change : Changes, read : BOOLEAN]
      /\ preview \in PreviewRows /\ Executing
  BY DEF VerifyEffect, RecoverOperation, stable, world, stores, quiet, FilesIInv, FileTypes
<1>2. CASE Uncertain BY <1>1, <1>2, UncertainMoves
<1>3. CASE ~Uncertain
  <2>1. Judge(Verification) /\ row.verifiable
    <3>1. CASE VerifyEffect
      <4>1. call.pc = "verify" /\ Judge(Verification) BY <1>3, <3>1 DEF VerifyEffect, At
      <4>2. call.pc \in Effecting BY <4>1 DEF Effecting
      <4> QED BY <4>1, <4>2, EffectFacts
    <3>2. CASE RecoverOperation BY <1>3, <3>2 DEF RecoverOperation
    <3> QED BY <3>1, <3>2
  <2>2. \/ Settle("verified") /\ Goto("answered")
        \/ Settle("failed") /\ Goto("answered") /\ Unchanged(snap.plan)
    <3>1. Verification = "unchanged" => Unchanged(snap.plan) BY DEF Verification
    <3> QED BY <1>3, <2>1, <3>1 DEF Judge
  <2>3. CASE Settle("verified") /\ Goto("answered")
    <3>1. row' \in EffectRows /\ row'.status = "verified" /\ row'.verifiable = row.verifiable
      BY <2>3, Settles DEF Statuses
    <3> QED BY <1>1, <2>3, <3>1, OverMoves DEF Over, Executing
  <2>4. CASE Settle("failed") /\ Goto("answered") /\ Unchanged(snap.plan)
    <3>1. row' \in EffectRows /\ row'.status = "failed" /\ row'.verifiable = row.verifiable
      BY <2>4, Settles DEF Statuses
    <3>2. seen.landed = "no" \/ (seen.landed = "planned" /\ MakesAName /\ seen.edited)
      BY <1>1, <2>1, <2>4, UnchangedIsHonest
    <3> QED BY <1>1, <2>4, <3>1, <3>2, OverMoves DEF Over, Executing
  <2> QED BY <2>2, <2>3, <2>4
<1> QED BY <1>2, <1>3

LEMMA EndMoves ==
    ASSUME FilesIInv, AnswerApply \/ Crash
    PROVE  FilesIInv'
<1>1. /\ UNCHANGED quiet /\ UNCHANGED <<policy, ticket, row>> /\ policy \in [change : Changes, read : BOOLEAN]
      /\ preview \in PreviewRows /\ row \in EffectRows
  BY DEF AnswerApply, Crash, stable, world, quiet, FilesIInv, FileTypes
<1>2. \E state \in {"none", "applied", "failed", "previewed"} : preview' = [preview EXCEPT !.state = state]
  BY DEF AnswerApply, Crash
<1>3. preview' \in PreviewRows /\ preview'.plan = preview.plan BY <1>1, <1>2 DEF PreviewRows
<1>4. \E pc \in Over : Goto(pc) BY DEF AnswerApply, Crash, Over
<1> QED BY <1>1, <1>3, <1>4, OverMoves

(* Without a plan.                                                           *)
LEMMA LegacyGateMoves ==
    ASSUME FilesIInv, GateLegacy
    PROVE  FilesIInv'
<1>1. UNCHANGED quiet /\ preview' = preview /\ ticket \in TicketRows /\ policy \in [change : Changes, read : BOOLEAN]
  BY DEF GateLegacy, world, stores, quiet, FilesIInv, FileTypes
<1>2. call.pc = "gate legacy" /\ call.pc \in Before /\ call.pc \in Proposing
      /\ {"asking", "waiting", "act legacy"} \subseteq Proposing
  BY DEF GateLegacy, At, Before, Proposing
<1>3. row.status = "executing" BY <1>2, StillBefore
<1>4. \/ Uncertain /\ UNCHANGED <<policy, ticket>>
      \/ Goto("asking") /\ UNCHANGED <<row, ticket, policy>>
      \/ ticket' = [state |-> "pending", digest |-> <<>>] /\ SpendOnce /\ Goto("waiting") /\ row' = row
      \/ SpendOnce /\ Goto("act legacy") /\ UNCHANGED <<row, ticket>>
  BY DEF GateLegacy
<1>5. SpendOnce => policy' \in [change : Changes, read : BOOLEAN] BY <1>1 DEF SpendOnce, Changes
<1>6. CASE Uncertain /\ UNCHANGED <<policy, ticket>> BY <1>1, <1>3, <1>6, UncertainMoves DEF Executing
<1>7. CASE Goto("asking") /\ UNCHANGED <<row, ticket, policy>> BY <1>1, <1>2, <1>7, AskMoves
<1>8. CASE ticket' = [state |-> "pending", digest |-> <<>>] /\ SpendOnce /\ Goto("waiting") /\ row' = row
  <2>1. ticket' \in TicketRows BY <1>8 DEF TicketRows, Digests
  <2> QED BY <1>1, <1>2, <1>5, <1>8, <2>1, AskMoves
<1>9. CASE SpendOnce /\ Goto("act legacy") /\ UNCHANGED <<row, ticket>> BY <1>1, <1>2, <1>5, <1>9, AskMoves
<1> QED BY <1>4, <1>6, <1>7, <1>8, <1>9

LEMMA LegacyIsTyped ==
    ASSUME FilesIInv
    PROVE  LegacyEffect \in [Paths -> FileRows] /\ \A p \in Paths : LegacyEffect[p].at < Moment
<1>1. /\ disk \in [Paths -> FileRows] /\ (\A p \in Paths : disk[p].at < Moment) /\ counts.edits \in Nat
      /\ op.kind \in Native \cup Opaque
  BY DEF FilesIInv, FileTypes, EffectIInv, FileOps
<1> DEFINE Good(d) == d \in [Paths -> FileRows] /\ \A p \in Paths : d[p].at < Moment
<1>2. Absent.at < Moment /\ Mine.at < Moment /\ Call < Moment BY <1>1, FileConstants DEF Moment
<1>3. Good(Written(disk))
  <2> DEFINE f == IF disk["target"] = Absent THEN Mine ELSE [disk["target"] EXCEPT !.data = "new", !.at = Call]
  <2>1. f \in FileRows /\ f.at < Moment
    <3>1. disk["target"] \in FileRows BY <1>1, FileConstants
    <3>2. CASE disk["target"] = Absent BY <1>2, <3>2, FileConstants
    <3>3. CASE disk["target"] # Absent
      <4>1. f = [disk["target"] EXCEPT !.data = "new", !.at = Call] BY <3>3
      <4> HIDE DEF f
      <4> QED BY <1>2, <3>1, <4>1, FileConstants DEF FileRows
    <3> QED BY <3>2, <3>3
  <2>2. Written(disk) = [disk EXCEPT !["target"] = f] BY <1>1, FileConstants DEF Written
  <2> HIDE DEF f
  <2> QED BY <1>1, <2>1, <2>2, FileConstants
<1>4. Good(disk) BY <1>1
<1>5. Good([disk EXCEPT !["target"] = Absent]) BY <1>1, <1>2, FileConstants
<1>6. Good([source |-> Absent, target |-> disk["source"]])
  <2> DEFINE moved == [source |-> Absent, target |-> disk["source"]]
  <2>1. moved = [p \in {"source", "target"} |-> IF p = "source" THEN Absent ELSE disk["source"]] OBVIOUS
  <2> HIDE DEF moved
  <2>2. moved = [p \in Paths |-> IF p = "source" THEN Absent ELSE disk["source"]] BY <2>1, FileConstants
  <2>3. Good(moved) BY <1>1, <1>2, <2>2, FileConstants
  <2> QED BY <2>3 DEF moved
<1> HIDE DEF Good
<1>7. LegacyEffect \in {Written(disk), disk, [disk EXCEPT !["target"] = Absent], [source |-> Absent, target |-> disk["source"]]}
  BY <1>1 DEF LegacyEffect, LegacyWrite, LegacyAppend, LegacyPatch, LegacyCopy, LegacyMove, LegacyRename, LegacyDelete,
              Native, Opaque
<1>8. Good(LegacyEffect) BY <1>3, <1>4, <1>5, <1>6, <1>7
<1> QED BY <1>8 DEF Good

LEMMA LegacyActMoves ==
    ASSUME FilesIInv, ActLegacy
    PROVE  FilesIInv'
<1>1. /\ UNCHANGED <<op, policy, counts, stage, ticket, preview, snap>> /\ call.pc = "act legacy"
      /\ policy \in [change : Changes, read : BOOLEAN] /\ seen \in SeenRows
  BY DEF ActLegacy, At, stable, stores, FilesIInv, FileTypes
<1>2. call.pc \in Before BY <1>1 DEF Before, Proposing
<1>3. /\ seen.landed = "no" /\ seen.lost = {} /\ ~row.verifiable /\ row.status = "executing" /\ snap.file = "none"
  BY <1>1, <1>2, StillBefore
<1>4. CASE Uncertain /\ UNCHANGED <<disk, seen>>
  BY <1>1, <1>3, <1>4, UncertainMoves DEF quiet, Executing
<1>5. CASE ~UNCHANGED <<disk, seen>>
  <2>1. disk' = LegacyEffect /\ seen' = [seen EXCEPT !.landed = "opaque"] BY <1>5 DEF ActLegacy
  <2>2. \E s \in {"returned", "uncertain"} : Settle(s) /\ Goto("answered") BY <1>5 DEF ActLegacy, Uncertain
  <2>3. /\ row' \in EffectRows /\ row'.status \in {"returned", "uncertain"} /\ row'.verifiable = row.verifiable
    BY <2>2, Settles DEF Statuses
  <2>4. "answered" \in FilePcs /\ "answered" \notin Before \cup Accepted \cup Effecting /\ "answered" \in Over
    BY DEF FilePcs, Over, Before, Proposing, Accepted, Effecting
  <2>5. call' \in HandlerRows /\ call'.pc = "answered" BY <2>2, <2>4, GoesTo
  <2>6. /\ seen' \in SeenRows /\ seen'.landed = "opaque" /\ seen'.lost = {} BY <1>1, <1>3, <2>1 DEF SeenRows
  <2>7. EffectIInv' BY <1>1, <1>3, <2>1, <2>3, <2>6, LegacyIsTyped DEF EffectIInv, RowsTellTheTruth, Moment
  <2>8. SnapshotIInv' BY <1>1, <1>3, <2>3 DEF FilesIInv, SnapshotIInv, SnapshotsOutliveRows, Executing
  <2>9. HandlerIInv' BY <2>4, <2>5 DEF HandlerIInv
  <2>10. FileTypes' BY <1>1, <2>1, <2>3, <2>5, <2>6, LegacyIsTyped DEF FilesIInv, FileTypes
  <2> QED BY <2>7, <2>8, <2>9, <2>10 DEF FilesIInv
<1>6. (Uncertain /\ UNCHANGED <<disk, seen>>) \/ ~UNCHANGED <<disk, seen>>
  <2>1. LegacyEffect # disk => disk' # disk BY DEF ActLegacy
  <2> QED BY <2>1 DEF ActLegacy
<1> QED BY <1>4, <1>5, <1>6

(* What the handler relies on stays while the handler does not move.         *)
LEMMA HandlerStays ==
    ASSUME HandlerIInv, call' = call, op' = op, stage' = stage,
           row'.status = row.status, row'.verifiable = row.verifiable,
           seen'.landed = seen.landed, seen'.lost = seen.lost, seen'.looked = seen.looked,
           snap'.plan = snap.plan, call.pc \in Before => snap'.file = snap.file,
           call.pc \in Before => \A p \in Paths : disk'[p].at # Call,
           PlanFits => PlanFits', PlanAgreed => PlanAgreed', NewFile' = NewFile, TargetIsFree' = TargetIsFree
    PROVE  HandlerIInv'
<1>1. /\ call'.pc \in Before =>
           /\ seen'.landed = "no" /\ seen'.lost = {} /\ ~row'.verifiable
           /\ \A p \in Paths : disk'[p].at # Call
           /\ call'.pc # "promote" => snap'.file = "none"
      /\ call'.pc \notin Over \cup {"idle", "claimed"} => row'.status = "executing"
      /\ call'.pc \in Effecting => row'.verifiable
  BY DEF HandlerIInv
<1>2. /\ call'.pc \in Before \ {"capture", "promote"} => stage' = Absent
      /\ call'.pc = "gate" => PlanFits'
      /\ call'.pc \in Accepted => PlanAgreed'
      /\ call'.pc = "stage" => NewFile'
      /\ call'.pc \in {"capture", "promote", "recheck"} => (stage' = Mine <=> NewFile')
  BY DEF HandlerIInv
<1>3. call'.pc = "promote" => snap'.file = "published" /\ snap'.plan = call'.plan
  <2>1. call.pc = "promote" => call.pc \in Before BY DEF Before, Accepted
  <2> QED BY <2>1 DEF HandlerIInv
<1>4. /\ call'.pc = "recheck" => seen'.landed = "no"
      /\ call'.pc = "publish" => stage' = Mine
      /\ call'.pc \in {"publish", "unlink stage"} => NewFile'
      /\ call'.pc \in {"look", "act", "rewrite"} => ~NewFile'
      /\ call'.pc = "rewrite" => op'.kind = "write"
  BY DEF HandlerIInv
<1>5. /\ call'.pc \in {"linked", "unlink source"} => op'.kind = "move" /\ TargetIsFree'
      /\ call'.pc \in {"act", "rewrite"} => seen'.looked["target"] = call'.plan["target"]
      /\ call'.pc = "unlink source" => seen'.looked["source"].node = seen'.looked["target"].node
  BY DEF HandlerIInv
<1> QED BY <1>1, <1>2, <1>3, <1>4, <1>5 DEF HandlerIInv

(* Snapshots are kept or swept.                                              *)
LEMMA SnapMoves ==
    ASSUME FilesIInv, UNCHANGED <<op, disk, stage, policy, call, preview, ticket, counts, seen>>,
           row' \in EffectRows, row'.verifiable = row.verifiable,
           row' = row \/ (row'.status = "deleted" /\ call.pc \in Over),
           snap' \in SnapRows, snap'.plan = snap.plan, SnapshotIInv',
           call.pc \in Before => snap'.file = snap.file
    PROVE  FilesIInv'
<1>1. call.pc \in Over => call.pc \notin Before \cup Accepted \cup Effecting
  BY DEF Over, Before, Proposing, Accepted, Effecting
<1>2. PlanFits' = PlanFits /\ PlanAgreed' = PlanAgreed /\ NewFile' = NewFile /\ TargetIsFree' = TargetIsFree
  BY DEF PlanFits, PlanAgreed, NewFile, TargetIsFree, Operands, Moment
<1>3. HandlerIInv'
  <2>1. CASE call.pc \in Over
    <3>1. call'.pc \in Over BY <2>1
    <3> QED BY <3>1 DEF HandlerIInv, Before, Proposing, Accepted, Effecting, Over
  <2>2. CASE row' = row
    <3>1. call.pc \in Before => \A p \in Paths : disk'[p].at # Call BY StillBefore
    <3> QED BY <1>2, <2>2, <3>1, HandlerStays DEF FilesIInv
  <2> QED BY <2>1, <2>2
<1>4. EffectIInv'
  <2>1. /\ \A p \in Paths : disk'[p].at < Moment'
        /\ row'.verifiable => PlanAgreed' /\ snap'.plan = call'.plan
    BY <1>2 DEF FilesIInv, EffectIInv, Moment
  <2>2. seen'.landed = "planned" => row'.verifiable /\ Touched'
    BY DEF FilesIInv, EffectIInv, Touched, Gone, MakesAName, Operands
  <2>3. seen'.landed = "opaque" => row'.status \notin {"executing", "failed"} BY DEF FilesIInv, EffectIInv
  <2>4. \A l \in seen'.lost : \/ l.file \in NeedsBeforeImage(snap'.plan)
                              \/ l.raced /\ ~(op'.kind = "delete" /\ op'.platform = "windows")
    BY DEF FilesIInv, EffectIInv
  <2>5. RowsTellTheTruth' BY DEF FilesIInv, EffectIInv, RowsTellTheTruth, MakesAName
  <2> QED BY <2>1, <2>2, <2>3, <2>4, <2>5 DEF EffectIInv, NeedsBeforeImage
<1>5. FileTypes' BY DEF FilesIInv, FileTypes
<1> QED BY <1>3, <1>4, <1>5 DEF FilesIInv

LEMMA SweepMoves ==
    ASSUME FilesIInv, DeleteConversation \/ ReclaimRefs \/ Age \/ ReadReferences \/ SweepOrphans
    PROVE  FilesIInv'
<1>1. /\ UNCHANGED <<op, disk, stage, policy, call, preview, ticket, counts, seen>>
      /\ snap \in SnapRows /\ row \in EffectRows
  BY DEF DeleteConversation, ReclaimRefs, Age, ReadReferences, SweepOrphans, stable, world, FilesIInv, FileTypes
<1>2. /\ SnapshotIInv
      /\ call.pc \in Before => ~row.verifiable /\ (snap.file = "none" \/ row.status = "executing")
  <2>1. call.pc = "promote" => call.pc \notin {"idle", "claimed"} OBVIOUS
  <2> QED BY <2>1, StillBefore DEF FilesIInv
<1>3. CASE DeleteConversation
  <2>1. /\ Settle("deleted") /\ snap' = [snap EXCEPT !.queued = row.verifiable]
        /\ call.pc \in Over /\ row.status \notin {"executing", "uncertain"}
    BY <1>3 DEF DeleteConversation, Over
  <2>2. row' \in EffectRows /\ row'.status = "deleted" /\ row'.verifiable = row.verifiable
    BY <2>1, Settles DEF Statuses
  <2>3. /\ snap' \in SnapRows /\ snap'.plan = snap.plan /\ snap'.file = snap.file /\ snap'.old = snap.old
        /\ snap'.sweep = snap.sweep /\ snap'.kept = snap.kept
    BY <1>1, <2>1 DEF SnapRows, EffectRows
  <2>4. SnapshotIInv' BY <1>2, <2>2, <2>3 DEF SnapshotIInv, SnapshotsOutliveRows, Unresolved, Executing
  <2> QED BY <1>1, <2>1, <2>2, <2>3, <2>4, SnapMoves
<1>4. CASE ReclaimRefs
  <2> DEFINE file == IF snap.file = "published" THEN "removed" ELSE snap.file
  <2>1. /\ row.status = "deleted" /\ row' = row /\ snap' = [snap EXCEPT !.queued = FALSE, !.file = file]
    BY <1>1, <1>4 DEF ReclaimRefs, SnapRows
  <2>2. file \in {"none", "published", "removed"} /\ (file = "none" => snap.file = "none")
    BY <1>1 DEF SnapRows
  <2>3. call.pc \in Before => file = snap.file BY <1>2, <2>1
  <2> HIDE DEF file
  <2>4. /\ snap' \in SnapRows /\ snap'.plan = snap.plan /\ snap'.file = file /\ snap'.old = snap.old
        /\ snap'.sweep = snap.sweep /\ snap'.kept = snap.kept
    BY <1>1, <2>1, <2>2 DEF SnapRows
  <2>5. SnapshotIInv' BY <1>2, <2>1, <2>2, <2>4 DEF SnapshotIInv, SnapshotsOutliveRows, Unresolved, Executing
  <2> QED BY <1>1, <2>1, <2>3, <2>4, <2>5, SnapMoves
<1>5. CASE Age
  <2>1. /\ snap.file = "published" /\ snap.sweep = "idle" /\ (row.verifiable \/ ~Executing)
        /\ snap' = [snap EXCEPT !.old = TRUE] /\ row' = row
    BY <1>5 DEF Age
  <2>2. /\ snap' \in SnapRows /\ snap'.plan = snap.plan /\ snap'.file = snap.file /\ snap'.sweep = snap.sweep
    BY <1>1, <2>1 DEF SnapRows
  <2>3. SnapshotIInv' BY <1>2, <2>1, <2>2 DEF SnapshotIInv, SnapshotsOutliveRows, Unresolved, Executing
  <2> QED BY <1>1, <2>1, <2>2, <2>3, SnapMoves
<1>6. CASE ReadReferences
  <2>1. PICK open \in BOOLEAN : snap' = [snap EXCEPT !.sweep = "read", !.kept = row.verifiable /\ (open \/ Unresolved)]
    BY <1>6 DEF ReadReferences
  <2> DEFINE kept == row.verifiable /\ (open \/ Unresolved)
  <2>2. kept \in BOOLEAN /\ (row.verifiable /\ Unresolved => kept) BY <1>1 DEF EffectRows
  <2>3. snap' = [snap EXCEPT !.sweep = "read", !.kept = kept] /\ row' = row /\ snap.file = "published"
    BY <1>6, <2>1 DEF ReadReferences
  <2> HIDE DEF kept
  <2>4. /\ snap' \in SnapRows /\ snap'.plan = snap.plan /\ snap'.file = snap.file /\ snap'.old = snap.old
        /\ snap'.kept = kept
    BY <1>1, <2>2, <2>3 DEF SnapRows
  <2>5. SnapshotIInv' BY <1>2, <2>2, <2>3, <2>4 DEF SnapshotIInv, SnapshotsOutliveRows, Unresolved, Executing
  <2> QED BY <1>1, <2>3, <2>4, <2>5, SnapMoves
<1>7. CASE SweepOrphans
  <2> DEFINE file == IF snap.old /\ ~snap.kept THEN "removed" ELSE snap.file
  <2>1. /\ snap.sweep = "read" /\ row' = row /\ snap' = [snap EXCEPT !.sweep = "idle", !.file = file]
    BY <1>1, <1>7 DEF SweepOrphans, SnapRows
  <2>2. /\ file \in {"none", "published", "removed"} /\ (file = "none" => snap.file = "none")
        /\ (row.verifiable /\ Unresolved => file = snap.file)
    BY <1>1, <1>2, <2>1 DEF SnapRows, SnapshotIInv
  <2>3. call.pc \in Before => file = snap.file BY <1>2, <2>1 DEF SnapshotIInv, Executing
  <2> HIDE DEF file
  <2>4. /\ snap' \in SnapRows /\ snap'.plan = snap.plan /\ snap'.file = file /\ snap'.old = snap.old
        /\ snap'.sweep = "idle"
    BY <1>1, <2>1, <2>2 DEF SnapRows
  <2>5. SnapshotIInv' BY <1>2, <2>1, <2>2, <2>4 DEF SnapshotIInv, SnapshotsOutliveRows, Unresolved, Executing
  <2> QED BY <1>1, <2>1, <2>3, <2>4, <2>5, SnapMoves
<1> QED BY <1>3, <1>4, <1>5, <1>6, <1>7

(* Other programs edit the files: what they leave is new.                    *)
LEMMA EditIsNew ==
    ASSUME FilesIInv, NEW file, Edit(file), file \in [Paths -> FileRows],
           \A p \in Paths : file[p] = disk[p] \/ file[p] = Absent \/ file[p].at = Moment
    PROVE  FilesIInv'
<1>1. /\ UNCHANGED <<op, policy, stage, call, ticket, preview, snap, row>> /\ disk' = file
      /\ counts' = [counts EXCEPT !.edits = @ + 1] /\ seen' = [seen EXCEPT !.edited = TRUE]
  BY DEF Edit, stores
<1>2. counts \in [edits : Nat, changes : Nat] /\ seen \in SeenRows BY DEF FilesIInv, FileTypes
<1>3. counts' \in [edits : Nat, changes : Nat] /\ Moment' = Moment + 1 /\ Moment \in Nat /\ Moment > Call
  BY <1>1, <1>2, FileConstants DEF Moment
<1>4. /\ seen' \in SeenRows /\ seen'.landed = seen.landed /\ seen'.lost = seen.lost /\ seen'.edited
      /\ seen'.looked = seen.looked
  BY <1>1, <1>2 DEF SeenRows
<1>5. (PlanFits => PlanFits') /\ (PlanAgreed => PlanAgreed') /\ NewFile' = NewFile /\ TargetIsFree' = TargetIsFree
  <2>1. Operands' = Operands BY <1>1 DEF Operands
  <2>2. \A x \in Nat : x < Moment => x < Moment' BY <1>3
  <2>3. PlanFits => PlanFits'
    <3> SUFFICES ASSUME PlanFits PROVE PlanFits' OBVIOUS
    <3>1. \A p \in Operands : call.plan[p].at \in Nat BY DEF PlanFits, FileRows
    <3> QED BY <1>1, <2>1, <2>2, <3>1 DEF PlanFits, TargetIsFree
  <2> QED BY <1>1, <2>3 DEF PlanAgreed, NewFile, TargetIsFree
<1>6. HandlerIInv'
  <2>1. call.pc \in Before => \A p \in Paths : disk'[p].at # Call
    BY <1>1, <1>3, StillBefore, FileConstants
  <2> QED BY <1>1, <1>4, <1>5, <2>1, HandlerStays DEF FilesIInv
<1>7. EffectIInv'
  <2>1. \A p \in Paths : disk'[p].at < Moment'
    <3>1. \A p \in Paths : disk[p].at \in Nat /\ disk[p].at < Moment
      BY DEF FilesIInv, FileTypes, FileRows, EffectIInv
    <3> QED BY <1>1, <1>3, <3>1, FileConstants
  <2>2. row'.verifiable => PlanAgreed' /\ snap'.plan = call'.plan BY <1>1, <1>5 DEF FilesIInv, EffectIInv
  <2>3. seen'.landed = "planned" => row'.verifiable /\ Touched'
    <3> SUFFICES ASSUME seen.landed = "planned" PROVE row.verifiable /\ Touched' BY <1>1, <1>4
    <3>1. row.verifiable /\ Touched /\ PlanFits BY DEF FilesIInv, EffectIInv, PlanAgreed
    <3>2. Operands' = Operands /\ Operands \subseteq Paths BY <1>1, PlanIsTyped DEF Operands
    <3>3. CASE \E p \in Operands : call.plan[p] # Absent /\ Gone(p)
      <4>1. PICK p \in Operands : call.plan[p] # Absent /\ Gone(p) BY <3>3
      <4>2. call.plan[p].at \in Nat /\ call.plan[p].at < Moment BY <3>1 DEF PlanFits, FileRows
      <4>3. disk'[p] = disk[p] \/ disk'[p] = Absent \/ disk'[p].at = Moment BY <1>1, <3>2
      <4>4. Gone(p)' BY <1>1, <1>3, <4>1, <4>2, <4>3 DEF Gone
      <4> QED BY <1>1, <3>1, <3>2, <4>1, <4>4 DEF Touched
    <3>4. CASE MakesAName BY <1>1, <1>4, <3>1, <3>4 DEF Touched, MakesAName
    <3> QED BY <3>1, <3>3, <3>4 DEF Touched
  <2>4. seen'.landed = "opaque" => row'.status \notin {"executing", "failed"} BY <1>1, <1>4 DEF FilesIInv, EffectIInv
  <2>5. \A l \in seen'.lost : \/ l.file \in NeedsBeforeImage(snap'.plan)
                              \/ l.raced /\ ~(op'.kind = "delete" /\ op'.platform = "windows")
    BY <1>1, <1>4 DEF FilesIInv, EffectIInv
  <2>6. RowsTellTheTruth' BY <1>1, <1>4 DEF FilesIInv, EffectIInv, RowsTellTheTruth, MakesAName
  <2> QED BY <2>1, <2>2, <2>3, <2>4, <2>5, <2>6 DEF EffectIInv, NeedsBeforeImage
<1>8. SnapshotIInv' BY <1>1 DEF FilesIInv, SnapshotIInv, SnapshotsOutliveRows, Unresolved, Executing
<1>9. FileTypes' BY <1>1, <1>3, <1>4 DEF FilesIInv, FileTypes
<1> QED BY <1>6, <1>7, <1>8, <1>9 DEF FilesIInv

LEMMA EditMoves ==
    ASSUME FilesIInv, EditInPlace \/ ReplaceFile \/ RemoveFile
    PROVE  FilesIInv'
<1>1. disk \in [Paths -> FileRows] /\ counts.edits \in Nat /\ Moment \in Nat
  BY DEF FilesIInv, FileTypes, Moment
<1>2. Operands \subseteq Paths BY PlanIsTyped
<1>3. CASE EditInPlace
  <2>1. PICK p \in Operands, d \in {"edit", "new"} :
           Edit([q \in Paths |-> IF Node(q) = Node(p) THEN [disk[q] EXCEPT !.at = Moment, !.data = d] ELSE disk[q]])
    BY <1>3 DEF EditInPlace
  <2> DEFINE file == [q \in Paths |-> IF Node(q) = Node(p) THEN [disk[q] EXCEPT !.at = Moment, !.data = d] ELSE disk[q]]
  <2>2. \A f \in FileRows : [f EXCEPT !.at = Moment, !.data = d] \in FileRows
                            /\ [f EXCEPT !.at = Moment, !.data = d].at = Moment
    BY <1>1 DEF FileRows
  <2>3. file \in [Paths -> FileRows] /\ \A q \in Paths : file[q] = disk[q] \/ file[q].at = Moment
    BY <1>1, <2>2
  <2> HIDE DEF file
  <2>4. Edit(file) BY <2>1 DEF file
  <2> QED BY <2>3, <2>4, EditIsNew
<1>4. CASE ReplaceFile
  <2>1. PICK p \in Operands, d \in {"edit", "new"} : Edit([disk EXCEPT ![p] = [node |-> Moment, at |-> Moment, data |-> d]])
    BY <1>4 DEF ReplaceFile
  <2> DEFINE f == [node |-> Moment, at |-> Moment, data |-> d]
  <2>2. f \in FileRows /\ f.at = Moment BY <1>1 DEF FileRows
  <2> HIDE DEF f
  <2> DEFINE file == [disk EXCEPT ![p] = f]
  <2>3. file \in [Paths -> FileRows] /\ \A q \in Paths : file[q] = disk[q] \/ file[q].at = Moment
    BY <1>1, <1>2, <2>2
  <2>4. Edit(file) BY <2>1 DEF f
  <2> HIDE DEF file
  <2> QED BY <2>3, <2>4, EditIsNew
<1>5. CASE RemoveFile
  <2>1. PICK p \in Operands : Edit([disk EXCEPT ![p] = Absent]) BY <1>5 DEF RemoveFile
  <2> DEFINE file == [disk EXCEPT ![p] = Absent]
  <2>2. file \in [Paths -> FileRows] /\ \A q \in Paths : file[q] = disk[q] \/ file[q] = Absent
    BY <1>1, <1>2, FileConstants
  <2> HIDE DEF file
  <2> QED BY <2>1, <2>2, EditIsNew DEF file
<1> QED BY <1>3, <1>4, <1>5

(* The policy, the ticket or the fence changes.                              *)
LEMMA PermissionsChange ==
    ASSUME FilesIInv, PolicyChanges \/ TicketCloses \/ FenceCloses
    PROVE  FilesIInv'
<1>1. /\ UNCHANGED <<op, disk, stage, seen, call, preview, row, snap>> /\ counts' = [counts EXCEPT !.changes = @ + 1]
      /\ counts \in [edits : Nat, changes : Nat] /\ ticket \in TicketRows
      /\ policy \in [change : Changes, read : BOOLEAN]
  BY DEF PolicyChanges, TicketCloses, FenceCloses, Disturb, world, FilesIInv, FileTypes
<1>2. counts' \in [edits : Nat, changes : Nat] /\ counts'.edits = counts.edits BY <1>1
<1>3. ticket' = ticket \/ ticket' = [ticket EXCEPT !.state = "closed"]
  BY DEF PolicyChanges, TicketCloses, FenceCloses
<1>4. ticket' \in TicketRows /\ ticket'.digest = ticket.digest BY <1>1, <1>3 DEF TicketRows
<1>5. policy' \in [change : Changes, read : BOOLEAN]
  BY <1>1 DEF PolicyChanges, TicketCloses, FenceCloses, Changes
<1>6. (PlanFits => PlanFits') /\ (PlanAgreed => PlanAgreed') /\ NewFile' = NewFile /\ TargetIsFree' = TargetIsFree
  BY <1>1, <1>2, <1>4, PlanStays
<1>7. EffectIInv' /\ SnapshotIInv' BY <1>1, <1>2, <1>4, FileRests
<1>8. HandlerIInv'
  <2>1. call.pc \in Before => \A p \in Paths : disk'[p].at # Call BY <1>1, StillBefore
  <2> QED BY <1>1, <1>6, <2>1, HandlerStays DEF FilesIInv
<1>9. FileTypes' BY <1>1, <1>2, <1>4, <1>5 DEF FilesIInv, FileTypes
<1> QED BY <1>7, <1>8, <1>9 DEF FilesIInv

LEMMA FilesBegin == FilesInit => FilesIInv
<1> SUFFICES ASSUME FilesInit PROVE FilesIInv OBVIOUS
<1>1. /\ op \in FileOps /\ (op.by = "preview" => op.kind = "write") /\ stage = Absent /\ call = Idle
      /\ ticket = NoTicket /\ row = [status |-> "absent", verifiable |-> FALSE] /\ seen = NoSeen
      /\ snap = [file |-> "none", plan |-> NoPlan, old |-> FALSE, queued |-> FALSE, kept |-> FALSE, sweep |-> "idle"]
      /\ preview = [state |-> "none", plan |-> NoPlan, fresh |-> FALSE, change |-> "allowed"]
      /\ counts = [edits |-> 0, changes |-> 0]
      /\ disk \in [Paths -> {Absent, Old(2, "old"), Old(3, "old"), Old(3, "new")}]
  BY DEF FilesInit, FileOps
<1>2. Old(2, "old") \in FileRows /\ Old(3, "old") \in FileRows /\ Old(3, "new") \in FileRows
      /\ Old(2, "old").at = 0 /\ Old(3, "old").at = 0 /\ Old(3, "new").at = 0
  BY DEF Old, FileRows
<1>3. disk \in [Paths -> FileRows] /\ \A p \in Paths : disk[p].at = 0 BY <1>1, <1>2, FileConstants
<1>4. NoPlan \in FilePlans BY DEF FilePlans
<1>5. "idle" \in FilePcs /\ "idle" \in Before /\ "idle" \notin Accepted \cup Effecting \cup Over
  BY DEF FilePcs, Before, Accepted, Effecting, Over
<1>6. call \in HandlerRows /\ call.pc = "idle"
  <2> DEFINE at == "idle"
  <2>1. call = [pc |-> at, plan |-> NoPlan, spelling |-> "given", replay |-> FALSE] BY <1>1 DEF Idle
  <2>2. at \in FilePcs BY <1>5
  <2> HIDE DEF at
  <2>3. call \in HandlerRows /\ call.pc = at BY <1>4, <2>1, <2>2 DEF HandlerRows
  <2> QED BY <2>3 DEF at
<1>7. ticket \in TicketRows BY <1>1 DEF NoTicket, TicketRows, Digests
<1>8. row \in EffectRows BY <1>1 DEF EffectRows, Statuses
<1>9. snap \in SnapRows BY <1>1, <1>4 DEF SnapRows
<1>10. preview \in PreviewRows BY <1>1, <1>4 DEF PreviewRows, Changes
<1>11. seen \in SeenRows /\ seen.landed = "no" /\ seen.lost = {}
  BY <1>1, FileConstants DEF NoSeen, SeenRows
<1>12. policy \in [change : Changes, read : BOOLEAN] BY DEF FilesInit, Changes
<1>13. FileTypes BY <1>1, <1>3, <1>6, <1>7, <1>8, <1>9, <1>10, <1>11, <1>12 DEF FileTypes
<1>14. HandlerIInv BY <1>1, <1>3, <1>5, <1>6, <1>11, FileConstants DEF HandlerIInv
<1>15. EffectIInv BY <1>1, <1>3, <1>11 DEF EffectIInv, RowsTellTheTruth, Moment
<1>16. SnapshotIInv BY <1>1 DEF SnapshotIInv, SnapshotsOutliveRows, Executing
<1> QED BY <1>13, <1>14, <1>15, <1>16 DEF FilesIInv

LEMMA FilesStutter == ASSUME FilesIInv, UNCHANGED filesVars PROVE FilesIInv'
<1>1. UNCHANGED <<op, disk, stage, policy, fence, call, ticket, preview, row, snap, counts, seen>> BY DEF filesVars
<1>2. HandlerIInv'
  <2>1. call.pc \in Before => \A p \in Paths : disk'[p].at # Call BY <1>1, StillBefore
  <2>2. (PlanFits => PlanFits') /\ (PlanAgreed => PlanAgreed') /\ NewFile' = NewFile /\ TargetIsFree' = TargetIsFree
    BY <1>1, PlanStays
  <2> QED BY <1>1, <2>1, <2>2, HandlerStays DEF FilesIInv
<1>3. EffectIInv' /\ SnapshotIInv' BY <1>1, FileRests
<1>4. FileTypes' BY <1>1 DEF FilesIInv, FileTypes
<1> QED BY <1>2, <1>3, <1>4 DEF FilesIInv

LEMMA FilesKeep == ASSUME FilesIInv, FilesNext PROVE FilesIInv'
<1>1. CASE Api
  BY <1>1, PreviewMoves, BeginMoves, FileAnswers, EndMoves DEF Api
<1>2. CASE Planning
  BY <1>2, BeginMoves, AdmitMoves, GrantMoves, PlanMoves, GateMoves, FileAnswers DEF Planning
<1>3. CASE Landing
  BY <1>3, ReadyMoves, CaptureMoves, PromoteMoves, RecheckMoves, PublishMoves, LookMoves, TruncateMoves, RewriteMoves,
     DeleteMoves, MoveMoves, UnlinkMoves, JudgeMoves, LegacyGateMoves, LegacyActMoves
  DEF Landing
<1>4. CASE Around BY <1>4, EndMoves, JudgeMoves, SweepMoves, EditMoves, PermissionsChange DEF Around
<1> QED BY <1>1, <1>2, <1>3, <1>4 DEF FilesNext

(* However often other programs edit the files and the policy, the ticket or *)
(* the fence changes: a change with a plan lands as it was approved, what it *)
(* destroys can be put back, the verdict on its row is what the disk says,   *)
(* and no sweep takes the snapshot of an open row.                           *)
THEOREM FileChangesStaySafe == FilesSpec => []FileChangesAreSafe
<1>1. FilesIInv /\ [FilesNext]_filesVars => FilesIInv' BY FilesKeep, FilesStutter
<1> QED BY <1>1, FilesBegin, FilesFollow, PTL DEF FilesSpec
==============================================================================
