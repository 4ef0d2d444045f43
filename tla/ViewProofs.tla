------------------------------ MODULE ViewProofs ------------------------------
(* Theorems about what a viewer sees of work that outlives its view of it:    *)
(* the follower of a detached job (JobFeed) and the window of a turn          *)
(* (TurnStream).                                                              *)
EXTENDS TurnStream, JobFeed, FiniteSetTheorems, SequenceTheorems, WellFoundedInduction, TLAPS

Kinds   == {"step"} \cup Ends
Entries == [seq : Nat, kind : Kinds]

JobRows  == [task : {"none", "created", "running", "over"},
             status : {"running", "paused"} \cup Terminal, log : Seq(Entries), seq : Nat, dropped : Nat]
FeedRows == [pc : {"off", "replaying", "live"}, replay : Seq(Entries), queue : Seq(Entries),
             got : Nat, seen : SUBSET Nat]

Numbers(entries) == {entries[i].seq : i \in 1 .. Len(entries)}

\* Entries in the order of their numbers, which lie after lo and up to hi.
Ascending(entries, lo, hi) ==
    /\ \A i \in 1 .. Len(entries) : lo < entries[i].seq /\ entries[i].seq <= hi
    /\ \A i, k \in 1 .. Len(entries) : i < k => entries[i].seq < entries[k].seq

\* A log is the end of what was numbered.
LogIsTheEnd(log, n) ==
    /\ Len(log) <= MaxLog /\ Len(log) <= n
    /\ \A i \in 1 .. Len(log) : log[i].seq = n - Len(log) + i

\* A response that is read, and the events it still has to bring.
Registered(f) == f.pc \in {"replaying", "live"}
Ahead(f)      == f.replay \o f.queue

\* What is under way is in order, after what was seen; a response that is off has
\* nothing under way, and one that is live has replayed all.
FeedInOrder(f, n) ==
    /\ f.got \in {0} \cup f.seen /\ f.got <= n
    /\ \A m \in f.seen : 1 <= m /\ m <= f.got
    /\ Len(f.queue) <= MaxQueue
    /\ f.pc # "replaying" => f.replay = <<>>
    /\ ~Registered(f) => f.queue = <<>>
    /\ Ascending(Ahead(f), f.got, n)

\* The numbers that have passed the follower by: those before the last it has, and
\* those after it that an open response will not bring.
Missed(f, n) ==
    {m \in 1 .. n : m \notin f.seen /\ (m <= f.got \/ (Registered(f) /\ m \notin Numbers(Ahead(f))))}

\* They were counted as dropped, or the log has let go of them.
Accounted(f, n, dropped, gone) ==
    \E D \in SUBSET Nat :
        /\ IsFiniteSet(D) /\ Cardinality(D) <= dropped
        /\ \A m \in Missed(f, n) : m \in D \/ m <= gone

FeedSound(j, f) ==
    /\ j \in JobRows /\ f \in FeedRows
    /\ LogIsTheEnd(j.log, j.seq) /\ FeedInOrder(f, j.seq)
    /\ Accounted(f, j.seq, j.dropped, j.seq - Len(j.log))

JobIInv == FeedSound(job, feed)

-----------------------------------------------------------------------------
(* Entries. *)

LEMMA EntryFacts ==
    ASSUME NEW q \in Seq(Entries)
    PROVE  Len(q) \in Nat /\ DOMAIN q = 1 .. Len(q) /\ \A i \in 1 .. Len(q) : q[i] \in Entries /\ q[i].seq \in Nat
<1>1. Len(q) \in Nat /\ DOMAIN q = 1 .. Len(q) BY LenProperties
<1>2. ASSUME NEW i \in 1 .. Len(q) PROVE q[i] \in Entries BY ElementOfSeq
<1>3. \A e \in Entries : e.seq \in Nat BY DEF Entries
<1> QED BY <1>1, <1>2, <1>3

LEMMA AppendAscends ==
    ASSUME NEW q \in Seq(Entries), NEW lo \in Nat, NEW hi \in Nat, Ascending(q, lo, hi), lo <= hi,
           NEW e \in Entries, e.seq = hi + 1
    PROVE  /\ Ascending(Append(q, e), lo, hi + 1)
           /\ Numbers(Append(q, e)) = Numbers(q) \cup {hi + 1}
<1> DEFINE r == Append(q, e)
<1>1. /\ Len(q) \in Nat /\ Len(r) = Len(q) + 1 /\ r[Len(q) + 1] = e
      /\ \A i \in 1 .. Len(q) : r[i] = q[i] /\ q[i].seq \in Nat
  BY AppendProperties, EntryFacts
<1> HIDE DEF r
<1>2. \A i \in 1 .. Len(r) : (i \in 1 .. Len(q) /\ r[i] = q[i]) \/ (i = Len(q) + 1 /\ r[i].seq = hi + 1)
  BY <1>1
<1>3. \A i \in 1 .. Len(r) : lo < r[i].seq /\ r[i].seq <= hi + 1
  BY <1>1, <1>2 DEF Ascending
<1>4. ASSUME NEW i \in 1 .. Len(r), NEW k \in 1 .. Len(r), i < k PROVE r[i].seq < r[k].seq
  <2>1. i \in 1 .. Len(q) /\ r[i] = q[i] BY <1>1, <1>2, <1>4
  <2>2. CASE k \in 1 .. Len(q) /\ r[k] = q[k] BY <2>1, <2>2, <1>4 DEF Ascending
  <2>3. CASE r[k].seq = hi + 1
    <3>1. q[i].seq <= hi /\ q[i].seq \in Nat BY <2>1, <1>1 DEF Ascending
    <3> QED BY <2>1, <2>3, <3>1
  <2> QED BY <2>2, <2>3, <1>2
<1>5. Numbers(r) = Numbers(q) \cup {hi + 1}
  <2>1. Numbers(r) \subseteq Numbers(q) \cup {hi + 1} BY <1>2 DEF Numbers
  <2>2. \A i \in 1 .. Len(q) : i \in 1 .. Len(r) /\ r[i].seq = q[i].seq BY <1>1
  <2>3. Numbers(q) \subseteq Numbers(r) BY <2>2 DEF Numbers
  <2>4. Len(q) + 1 \in 1 .. Len(r) /\ r[Len(q) + 1].seq = hi + 1 BY <1>1
  <2>5. hi + 1 \in Numbers(r) BY <2>4 DEF Numbers
  <2> QED BY <2>1, <2>3, <2>5
<1>6. Ascending(r, lo, hi + 1) BY <1>3, <1>4 DEF Ascending
<1> QED BY <1>5, <1>6 DEF r

LEMMA TailAscends ==
    ASSUME NEW q \in Seq(Entries), q # <<>>, NEW lo \in Nat, NEW hi \in Nat, Ascending(q, lo, hi)
    PROVE  /\ Head(q) \in Entries /\ Head(q).seq \in Nat /\ lo < Head(q).seq /\ Head(q).seq <= hi
           /\ Ascending(Tail(q), Head(q).seq, hi)
           /\ Numbers(q) = Numbers(Tail(q)) \cup {Head(q).seq}
<1> DEFINE r == Tail(q)
<1>1. /\ Len(q) \in Nat \ {0} /\ Len(r) = Len(q) - 1
      /\ \A i \in 1 .. Len(r) : r[i] = q[i + 1]
      /\ \A i \in 1 .. Len(q) : q[i].seq \in Nat
  BY EmptySeq, HeadTailProperties, EntryFacts
<1>2. Head(q) = q[1] /\ Head(q) \in Entries BY HeadTailProperties
<1> HIDE DEF r
<1>3. 1 \in 1 .. Len(q) /\ \A i \in 1 .. Len(r) : i + 1 \in 1 .. Len(q) /\ 1 < i + 1 BY <1>1
<1>4. Head(q).seq \in Nat /\ lo < Head(q).seq /\ Head(q).seq <= hi BY <1>1, <1>2, <1>3 DEF Ascending
<1>5. \A i \in 1 .. Len(r) : Head(q).seq < r[i].seq /\ r[i].seq <= hi BY <1>1, <1>2, <1>3 DEF Ascending
<1>6. ASSUME NEW i \in 1 .. Len(r), NEW k \in 1 .. Len(r), i < k PROVE r[i].seq < r[k].seq
  <2>1. i + 1 \in 1 .. Len(q) /\ k + 1 \in 1 .. Len(q) /\ i + 1 < k + 1 BY <1>1, <1>3, <1>6
  <2>2. q[i + 1].seq < q[k + 1].seq BY <2>1 DEF Ascending
  <2> QED BY <2>2, <1>1
<1>7. Ascending(r, Head(q).seq, hi) BY <1>5, <1>6 DEF Ascending
<1>8. Numbers(q) = Numbers(r) \cup {Head(q).seq}
  <2>1. \A i \in 1 .. Len(q) : i = 1 \/ (i - 1 \in 1 .. Len(r) /\ r[i - 1] = q[i])
    BY <1>1
  <2>2. ASSUME NEW i \in 1 .. Len(q) PROVE q[i].seq \in Numbers(r) \cup {Head(q).seq}
    <3>1. CASE i = 1 BY <3>1, <1>2
    <3>2. CASE i - 1 \in 1 .. Len(r) /\ r[i - 1] = q[i] BY <3>2 DEF Numbers
    <3> QED BY <2>1, <3>1, <3>2
  <2>3. Numbers(r) \subseteq Numbers(q) BY <1>1, <1>3 DEF Numbers
  <2>4. Head(q).seq \in Numbers(q) BY <1>2, <1>3 DEF Numbers
  <2>5. Numbers(q) \subseteq Numbers(r) \cup {Head(q).seq} BY <2>2 DEF Numbers
  <2> QED BY <2>3, <2>4, <2>5
<1> QED BY <1>2, <1>4, <1>7, <1>8 DEF r

\* Nothing is under way.
LEMMA NothingAscends ==
    ASSUME NEW lo, NEW hi
    PROVE  Ascending(<<>>, lo, hi) /\ Numbers(<<>>) = {} /\ Len(<<>>) = 0
<1>1. 1 .. Len(<<>>) = {} /\ Len(<<>>) = 0 OBVIOUS
<1> QED BY <1>1 DEF Ascending, Numbers

\* A bound that grows.
LEMMA AscendsFurther ==
    ASSUME NEW q \in Seq(Entries), NEW lo \in Nat, NEW hi \in Nat, Ascending(q, lo, hi)
    PROVE  Ascending(q, lo, hi + 1)
<1>1. \A i \in 1 .. Len(q) : q[i].seq \in Nat BY EntryFacts
<1> QED BY <1>1 DEF Ascending

LEMMA ConcatAppend ==
    ASSUME NEW S, NEW a \in Seq(S), NEW b \in Seq(S), NEW e \in S
    PROVE  a \o Append(b, e) = Append(a \o b, e)
<1>1. PICK c : c = Append(b, e) OBVIOUS
<1>2. /\ c \in Seq(S) /\ Len(c) = Len(b) + 1 /\ c[Len(b) + 1] = e
      /\ \A i \in 1 .. Len(b) : c[i] = b[i]
  BY <1>1, AppendProperties
<1>3. Len(a) \in Nat /\ Len(b) \in Nat BY LenProperties
<1>4. PICK ab : ab = a \o b OBVIOUS
<1>5. /\ ab \in Seq(S) /\ Len(ab) = Len(a) + Len(b)
      /\ \A i \in 1 .. Len(a) + Len(b) : ab[i] = IF i <= Len(a) THEN a[i] ELSE b[i - Len(a)]
  BY <1>4, ConcatProperties
<1>6. PICK l : l = a \o c OBVIOUS
<1>7. /\ l \in Seq(S) /\ Len(l) = Len(a) + Len(c)
      /\ \A i \in 1 .. Len(a) + Len(c) : l[i] = IF i <= Len(a) THEN a[i] ELSE c[i - Len(a)]
  <2>1. c \in Seq(S) BY <1>2
  <2> QED BY <2>1, <1>6, ConcatProperties
<1>8. PICK r : r = Append(ab, e) OBVIOUS
<1>9. /\ r \in Seq(S) /\ Len(r) = Len(ab) + 1 /\ r[Len(ab) + 1] = e
      /\ \A i \in 1 .. Len(ab) : r[i] = ab[i]
  <2>1. ab \in Seq(S) BY <1>5
  <2> QED BY <2>1, <1>8, AppendProperties
<1>10. Len(l) = Len(r) /\ Len(l) = Len(a) + Len(b) + 1 BY <1>2, <1>3, <1>5, <1>7, <1>9
<1>11. ASSUME NEW i \in 1 .. Len(l) PROVE l[i] = r[i]
  <2>1. CASE i <= Len(a)
    <3>1. i \in 1 .. Len(a) + Len(c) /\ i \in 1 .. Len(a) + Len(b) /\ i \in 1 .. Len(ab)
      BY <2>1, <1>2, <1>3, <1>5, <1>10
    <3> QED BY <2>1, <3>1, <1>5, <1>7, <1>9
  <2>2. CASE ~(i <= Len(a)) /\ i <= Len(a) + Len(b)
    <3>1. /\ i \in 1 .. Len(a) + Len(c) /\ i \in 1 .. Len(a) + Len(b) /\ i \in 1 .. Len(ab)
          /\ i - Len(a) \in 1 .. Len(b)
      BY <2>2, <1>2, <1>3, <1>5, <1>10
    <3>2. l[i] = c[i - Len(a)] BY <2>2, <3>1, <1>7
    <3>3. r[i] = b[i - Len(a)] BY <2>2, <3>1, <1>5, <1>9
    <3> QED BY <3>1, <3>2, <3>3, <1>2
  <2>3. CASE i = Len(a) + Len(b) + 1
    <3>1. /\ i \in 1 .. Len(a) + Len(c) /\ ~(i <= Len(a)) /\ i - Len(a) = Len(b) + 1 /\ i = Len(ab) + 1
      BY <2>3, <1>2, <1>3, <1>5
    <3> QED BY <3>1, <1>2, <1>7, <1>9
  <2> QED BY <2>1, <2>2, <2>3, <1>3, <1>10
<1>12. l = r BY <1>7, <1>9, <1>10, <1>11, SeqEqual
<1> QED BY <1>1, <1>4, <1>6, <1>8, <1>12

LEMMA HeadTailOfConcat ==
    ASSUME NEW S, NEW a \in Seq(S), a # <<>>, NEW b \in Seq(S)
    PROVE  a \o b # <<>> /\ Head(a \o b) = Head(a) /\ Tail(a \o b) = Tail(a) \o b
<1>1. PICK ab : ab = a \o b OBVIOUS
<1>2. /\ Len(a) \in Nat \ {0} /\ Len(b) \in Nat /\ ab \in Seq(S) /\ Len(ab) = Len(a) + Len(b)
      /\ \A i \in 1 .. Len(a) + Len(b) : ab[i] = IF i <= Len(a) THEN a[i] ELSE b[i - Len(a)]
  BY <1>1, EmptySeq, LenProperties, ConcatProperties
<1>3. Len(<<>>) = 0 OBVIOUS
<1>4. ab # <<>> BY <1>2, <1>3
<1>5. 1 \in 1 .. Len(a) + Len(b) /\ 1 <= Len(a) BY <1>2
<1>6. Head(a) = a[1] /\ Head(ab) = ab[1] OBVIOUS
<1>7. Head(ab) = Head(a) BY <1>2, <1>5, <1>6
<1>8. PICK t : t = Tail(a) OBVIOUS
<1>9. t \in Seq(S) /\ Len(t) = Len(a) - 1 /\ \A i \in 1 .. Len(t) : t[i] = a[i + 1]
  BY <1>8, HeadTailProperties
<1>10. PICK r : r = Tail(ab) OBVIOUS
<1>11. r \in Seq(S) /\ Len(r) = Len(ab) - 1 /\ \A i \in 1 .. Len(r) : r[i] = ab[i + 1]
  <2>1. ab \in Seq(S) BY <1>2
  <2> QED BY <2>1, <1>4, <1>10, HeadTailProperties
<1>12. PICK l : l = t \o b OBVIOUS
<1>13. /\ l \in Seq(S) /\ Len(l) = Len(t) + Len(b)
       /\ \A i \in 1 .. Len(t) + Len(b) : l[i] = IF i <= Len(t) THEN t[i] ELSE b[i - Len(t)]
  <2>1. t \in Seq(S) BY <1>9
  <2> QED BY <2>1, <1>12, ConcatProperties
<1>14. Len(l) = Len(r) /\ Len(r) = Len(a) + Len(b) - 1 BY <1>2, <1>9, <1>11, <1>13
<1>15. ASSUME NEW i \in 1 .. Len(l) PROVE l[i] = r[i]
  <2>1. /\ i + 1 \in 1 .. Len(a) + Len(b) /\ i \in 1 .. Len(t) + Len(b) /\ i \in 1 .. Len(r)
        /\ i <= Len(t) <=> i + 1 <= Len(a)
    BY <1>2, <1>9, <1>13, <1>14
  <2>2. r[i] = IF i + 1 <= Len(a) THEN a[i + 1] ELSE b[(i + 1) - Len(a)] BY <2>1, <1>2, <1>11
  <2>3. l[i] = IF i <= Len(t) THEN t[i] ELSE b[i - Len(t)] BY <2>1, <1>13
  <2>4. (i + 1) - Len(a) = i - Len(t) BY <1>2, <1>9
  <2>5. i <= Len(t) => t[i] = a[i + 1] BY <1>9, <1>2
  <2> QED BY <2>1, <2>2, <2>3, <2>4, <2>5
<1>16. l = r BY <1>11, <1>13, <1>14, <1>15, SeqEqual
<1> QED BY <1>1, <1>4, <1>7, <1>8, <1>10, <1>12, <1>16

LEMMA AheadFacts ==
    ASSUME NEW f \in FeedRows
    PROVE  /\ Ahead(f) \in Seq(Entries)
           /\ f.replay = <<>> => Ahead(f) = f.queue
           /\ f.queue = <<>> => Ahead(f) = f.replay
<1>1. f.replay \in Seq(Entries) /\ f.queue \in Seq(Entries) BY DEF FeedRows
<1> QED BY <1>1, ConcatProperties, ConcatEmptySeq DEF Ahead

-----------------------------------------------------------------------------
(* An event is appended. *)

LEMMA LogAppended ==
    ASSUME NEW log \in Seq(Entries), NEW n \in Nat, LogIsTheEnd(log, n), NEW e \in Entries, e.seq = n + 1,
           NEW new, new = IF Len(Append(log, e)) > MaxLog THEN Tail(Append(log, e)) ELSE Append(log, e)
    PROVE  new \in Seq(Entries) /\ LogIsTheEnd(new, n + 1) /\ n - Len(log) <= (n + 1) - Len(new)
<1> DEFINE all == Append(log, e)
<1>1. /\ Len(log) \in Nat /\ all \in Seq(Entries) /\ all # <<>> /\ Len(all) = Len(log) + 1 /\ all[Len(log) + 1] = e
      /\ \A i \in 1 .. Len(log) : all[i] = log[i] /\ log[i].seq \in Nat
  BY AppendProperties, EntryFacts
<1> HIDE DEF all
<1>2. \A i \in 1 .. Len(all) : all[i].seq = n - Len(log) + i
  <2>1. \A i \in 1 .. Len(all) : i \in 1 .. Len(log) \/ i = Len(log) + 1 BY <1>1
  <2>2. \A i \in 1 .. Len(log) : all[i].seq = n - Len(log) + i BY <1>1 DEF LogIsTheEnd
  <2>3. all[Len(log) + 1].seq = n - Len(log) + (Len(log) + 1) BY <1>1
  <2> QED BY <2>1, <2>2, <2>3
<1>3. MaxLog \in Nat /\ MaxLog > 0 BY JobAssumption
<1>4. CASE Len(all) > MaxLog
  <2>1. new = Tail(all) BY <1>4 DEF all
  <2>2. /\ new \in Seq(Entries) /\ Len(new) = Len(log)
        /\ \A i \in 1 .. Len(new) : new[i] = all[i + 1]
    <3>1. /\ Tail(all) \in Seq(Entries) /\ Len(Tail(all)) = Len(all) - 1
          /\ \A i \in 1 .. Len(Tail(all)) : Tail(all)[i] = all[i + 1]
      BY <1>1, HeadTailProperties
    <3>2. Len(all) - 1 = Len(log) BY <1>1
    <3> QED BY <2>1, <3>1, <3>2
  <2>3. ASSUME NEW i \in 1 .. Len(new) PROVE new[i].seq = (n + 1) - Len(new) + i
    <3>1. i + 1 \in 1 .. Len(all) /\ new[i] = all[i + 1] BY <1>1, <2>2
    <3>2. new[i].seq = n - Len(log) + (i + 1) BY <3>1, <1>2
    <3>3. PICK l \in Nat : l = Len(log) BY <1>1
    <3>4. n - l + (i + 1) = (n + 1) - l + i OBVIOUS
    <3> QED BY <3>2, <3>3, <3>4, <2>2
  <2>4. Len(new) <= MaxLog /\ Len(new) <= n + 1 /\ n - Len(log) <= (n + 1) - Len(new)
    <3>1. PICK l \in Nat : l = Len(log) BY <1>1
    <3>2. Len(new) = l BY <2>2, <3>1
    <3>3. l <= MaxLog /\ l <= n BY <3>1 DEF LogIsTheEnd
    <3>4. l <= n + 1 /\ n - l <= (n + 1) - l BY <3>3
    <3> QED BY <3>1, <3>2, <3>3, <3>4
  <2> QED BY <2>2, <2>3, <2>4 DEF LogIsTheEnd
<1>5. CASE ~(Len(all) > MaxLog)
  <2>1. new = all BY <1>5 DEF all
  <2>2. ASSUME NEW i \in 1 .. Len(new) PROVE new[i].seq = (n + 1) - Len(new) + i
    <3>1. new[i].seq = n - Len(log) + i BY <1>2, <2>1
    <3>2. PICK l \in Nat : l = Len(log) BY <1>1
    <3>3. n - l + i = (n + 1) - (l + 1) + i OBVIOUS
    <3> QED BY <3>1, <3>2, <3>3, <2>1, <1>1
  <2>3. Len(new) <= MaxLog /\ Len(new) <= n + 1 /\ n - Len(log) <= (n + 1) - Len(new)
    BY <2>1, <1>1, <1>3, <1>5 DEF LogIsTheEnd
  <2> QED BY <2>1, <2>2, <2>3, <1>1 DEF LogIsTheEnd
<1> QED BY <1>4, <1>5

LEMMA FeedAppended ==
    ASSUME NEW f \in FeedRows, NEW n \in Nat, FeedInOrder(f, n), Registered(f), ~(Len(f.queue) >= MaxQueue),
           NEW e \in Entries, e.seq = n + 1,
           NEW g, g = [f EXCEPT !.queue = Append(@, e)]
    PROVE  /\ g \in FeedRows /\ FeedInOrder(g, n + 1)
           /\ g.got = f.got /\ g.seen = f.seen /\ g.pc = f.pc
           /\ Numbers(Ahead(g)) = Numbers(Ahead(f)) \cup {n + 1}
<1>1. /\ f.queue \in Seq(Entries) /\ f.replay \in Seq(Entries) /\ f.got \in Nat /\ f.seen \in SUBSET Nat
  BY DEF FeedRows
<1>2. Append(f.queue, e) \in Seq(Entries) /\ Len(Append(f.queue, e)) = Len(f.queue) + 1 /\ Len(f.queue) \in Nat
  BY <1>1, AppendProperties, EntryFacts
<1>3. /\ g.queue = Append(f.queue, e) /\ g.replay = f.replay
      /\ g.got = f.got /\ g.seen = f.seen /\ g.pc = f.pc /\ g \in FeedRows
  BY <1>1, <1>2 DEF FeedRows
<1>4. Ahead(g) = Append(Ahead(f), e)
  <2>1. Ahead(g) = f.replay \o Append(f.queue, e) BY <1>3 DEF Ahead
  <2>2. PICK a \in Seq(Entries), b \in Seq(Entries) : a = f.replay /\ b = f.queue BY <1>1
  <2>3. a \o Append(b, e) = Append(a \o b, e) BY ConcatAppend
  <2> QED BY <2>1, <2>2, <2>3 DEF Ahead
<1>5. f.got <= n /\ Ascending(Ahead(f), f.got, n) BY DEF FeedInOrder
<1>6. /\ Ascending(Ahead(g), f.got, n + 1)
      /\ Numbers(Ahead(g)) = Numbers(Ahead(f)) \cup {n + 1}
  <2>1. Ahead(f) \in Seq(Entries) BY AheadFacts
  <2>2. f.got \in Nat BY <1>1
  <2>3. /\ Ascending(Append(Ahead(f), e), f.got, n + 1)
        /\ Numbers(Append(Ahead(f), e)) = Numbers(Ahead(f)) \cup {n + 1}
    BY <1>5, <2>1, <2>2, AppendAscends
  <2> QED BY <1>4, <2>3
<1>7. Len(g.queue) <= MaxQueue BY <1>2, <1>3, JobAssumption
<1>8. FeedInOrder(g, n + 1) BY <1>1, <1>3, <1>6, <1>7 DEF FeedInOrder, Registered
<1> QED BY <1>3, <1>6, <1>8

\* What the follower of a registered response gets of an event, and what is counted.
Offered(f, e)       == IF Registered(f) /\ ~(Len(f.queue) >= MaxQueue) THEN [f EXCEPT !.queue = Append(@, e)] ELSE f
Counted(f, dropped) == IF Registered(f) /\ Len(f.queue) >= MaxQueue THEN dropped + 1 ELSE dropped

\* A new number is missed only by a full queue, which counts it.
LEMMA NumberAppended ==
    ASSUME NEW f \in FeedRows, NEW n \in Nat, FeedInOrder(f, n), NEW e \in Entries, e.seq = n + 1,
           NEW dropped \in Nat, NEW gone \in Int, NEW later \in Int, gone <= later,
           Accounted(f, n, dropped, gone)
    PROVE  /\ Offered(f, e) \in FeedRows /\ FeedInOrder(Offered(f, e), n + 1)
           /\ Accounted(Offered(f, e), n + 1, Counted(f, dropped), later)
<1>a. PICK g : g = Offered(f, e) OBVIOUS
<1>b. PICK counted : counted = Counted(f, dropped) OBVIOUS
<1> DEFINE full == Len(f.queue) >= MaxQueue
<1>1. PICK D \in SUBSET Nat :
        /\ IsFiniteSet(D) /\ Cardinality(D) <= dropped
        /\ \A m \in Missed(f, n) : m \in D \/ m <= gone
  BY DEF Accounted
<1>2. Cardinality(D) \in Nat BY <1>1, FS_CardinalityType
<1>3. f.got \in Nat /\ f.got <= n BY DEF FeedRows, FeedInOrder
<1>4. ASSUME g.got = f.got, g.seen = f.seen, g.pc = f.pc,
             Registered(f) /\ ~full => n + 1 \in Numbers(Ahead(g)),
             Numbers(Ahead(f)) \subseteq Numbers(Ahead(g))
      PROVE  Accounted(g, n + 1, counted, later)
  <2>1. ASSUME NEW m \in Missed(g, n + 1)
        PROVE  (m = n + 1 /\ Registered(f) /\ full) \/ m \in Missed(f, n)
    <3>1. m \in 1 .. n + 1 /\ m \notin f.seen /\ (m <= f.got \/ (Registered(f) /\ m \notin Numbers(Ahead(g))))
      BY <1>4 DEF Missed, Registered
    <3>2. CASE m = n + 1 BY <3>1, <3>2, <1>3, <1>4
    <3>3. CASE m # n + 1
      <4>1. m \in 1 .. n BY <3>1, <3>3
      <4> QED BY <3>1, <4>1, <1>4 DEF Missed
    <3> QED BY <3>2, <3>3
  <2>2. CASE Registered(f) /\ full
    <3>1. D \cup {n + 1} \in SUBSET Nat OBVIOUS
    <3>2. /\ IsFiniteSet(D \cup {n + 1}) /\ Cardinality(D \cup {n + 1}) \in Nat
          /\ Cardinality(D \cup {n + 1}) = IF n + 1 \in D THEN Cardinality(D) ELSE Cardinality(D) + 1
      BY <1>1, FS_AddElement, FS_CardinalityType
    <3>3. Cardinality(D \cup {n + 1}) <= dropped + 1 BY <1>1, <1>2, <3>2
    <3>4. ASSUME NEW m \in Missed(g, n + 1) PROVE m \in D \cup {n + 1} \/ m <= later
      <4>1. CASE m = n + 1 BY <4>1
      <4>2. CASE m \in Missed(f, n)
        <5>1. m \in Int /\ (m \in D \/ m <= gone) BY <4>2, <1>1 DEF Missed
        <5> QED BY <5>1
      <4> QED BY <4>1, <4>2, <2>1
    <3>5. counted = dropped + 1 BY <1>b, <2>2 DEF Counted
    <3> QED BY <3>1, <3>2, <3>3, <3>4, <3>5 DEF Accounted
  <2>3. CASE ~(Registered(f) /\ full)
    <3>1. ASSUME NEW m \in Missed(g, n + 1) PROVE m \in D \/ m <= later
      <4>1. m \in Missed(f, n) BY <2>1, <2>3
      <4>2. m \in Int /\ (m \in D \/ m <= gone) BY <4>1, <1>1 DEF Missed
      <4> QED BY <4>2
    <3>2. counted = dropped BY <1>b, <2>3 DEF Counted
    <3> QED BY <3>1, <3>2, <1>1 DEF Accounted
  <2> QED BY <2>2, <2>3
<1>5. CASE Registered(f) /\ ~full
  <2>1. g = [f EXCEPT !.queue = Append(@, e)] BY <1>a, <1>5 DEF Offered
  <2>2. ~(Len(f.queue) >= MaxQueue) BY <1>5
  <2>3. /\ g \in FeedRows /\ FeedInOrder(g, n + 1)
        /\ g.got = f.got /\ g.seen = f.seen /\ g.pc = f.pc
        /\ Numbers(Ahead(g)) = Numbers(Ahead(f)) \cup {n + 1}
    BY <1>5, <2>1, <2>2, FeedAppended
  <2> QED BY <2>3, <1>4, <1>a, <1>b
<1>6. CASE ~(Registered(f) /\ ~full)
  <2>1. g = f BY <1>a, <1>6 DEF Offered
  <2>2. Ascending(Ahead(f), f.got, n + 1) BY <1>3, AheadFacts, AscendsFurther DEF FeedInOrder
  <2>3. FeedInOrder(f, n + 1) BY <2>2, <1>3 DEF FeedInOrder
  <2> QED BY <2>1, <2>3, <1>4, <1>6, <1>a, <1>b
<1> QED BY <1>5, <1>6

\* The task moves on.
LEMMA TaskKeeps ==
    ASSUME NEW j, NEW f, FeedSound(j, f), NEW task \in {"none", "created", "running", "over"},
           NEW k, k = [j EXCEPT !.task = task]
    PROVE  FeedSound(k, f)
<1>1. j \in JobRows BY DEF FeedSound
<1>2. k \in JobRows /\ k.log = j.log /\ k.seq = j.seq /\ k.dropped = j.dropped BY <1>1 DEF JobRows
<1> QED BY <1>2 DEF FeedSound

LEMMA TransitionKeeps ==
    ASSUME NEW j, NEW f, FeedSound(j, f), NEW status \in {"running", "paused"} \cup Terminal
    PROVE  FeedSound(Transition(j, status), f)
<1>1. j \in JobRows BY DEF FeedSound
<1>2. PICK k : k = [j EXCEPT !.status = status] OBVIOUS
<1>3. k \in JobRows /\ k.log = j.log /\ k.seq = j.seq /\ k.dropped = j.dropped BY <1>1, <1>2 DEF JobRows
<1>4. FeedSound(k, f) BY <1>3 DEF FeedSound
<1> QED BY <1>2, <1>4 DEF Transition

LEMMA AppendKeeps ==
    ASSUME NEW s, FeedSound(s.job, s.feed), NEW kind \in Kinds
    PROVE  FeedSound(Appended(s, kind).job, Appended(s, kind).feed)
<1> DEFINE j == s.job
           f == s.feed
<1>1. /\ j \in JobRows /\ f \in FeedRows
      /\ LogIsTheEnd(j.log, j.seq) /\ FeedInOrder(f, j.seq)
      /\ Accounted(f, j.seq, j.dropped, j.seq - Len(j.log))
  BY DEF FeedSound
<1>2. PICK e \in Entries : e = [seq |-> j.seq + 1, kind |-> kind]
  <2>1. j.seq \in Nat BY <1>1 DEF JobRows
  <2>2. [seq |-> j.seq + 1, kind |-> kind] \in Entries BY <2>1 DEF Entries
  <2> QED BY <2>2
<1>4. PICK g : g = Offered(f, e) OBVIOUS
<1>5. PICK log : log = IF Len(Append(j.log, e)) > MaxLog THEN Tail(Append(j.log, e)) ELSE Append(j.log, e) OBVIOUS
<1>6. PICK dropped \in Nat : dropped = Counted(f, j.dropped) BY <1>1 DEF JobRows, Counted
<1>7. PICK k : k = [j EXCEPT !.seq = j.seq + 1, !.dropped = dropped, !.log = log] OBVIOUS
<1> HIDE DEF j, f
<1>8. j.log \in Seq(Entries) /\ j.seq \in Nat /\ j.dropped \in Nat /\ e.seq = j.seq + 1
  BY <1>1, <1>2 DEF JobRows
<1>9. log \in Seq(Entries) /\ LogIsTheEnd(log, j.seq + 1) /\ j.seq - Len(j.log) <= (j.seq + 1) - Len(log)
  BY <1>1, <1>5, <1>8, LogAppended, Zenon
<1>10. k \in JobRows /\ k.seq = j.seq + 1 /\ k.log = log /\ k.dropped = dropped
  <2>1. j.seq + 1 \in Nat /\ log \in Seq(Entries) BY <1>8, <1>9
  <2> QED BY <1>1, <1>7, <2>1 DEF JobRows
<1>11. j.seq - Len(j.log) \in Int /\ (j.seq + 1) - Len(log) \in Int BY <1>8, <1>9, EntryFacts
<1>12. /\ g \in FeedRows /\ FeedInOrder(g, j.seq + 1)
       /\ Accounted(g, j.seq + 1, dropped, (j.seq + 1) - Len(log))
  <2>1. Accounted(f, j.seq, j.dropped, j.seq - Len(j.log)) BY <1>1
  <2>2. PICK gone \in Int, later \in Int : gone = j.seq - Len(j.log) /\ later = (j.seq + 1) - Len(log)
    BY <1>11
  <2>3. gone <= later /\ Accounted(f, j.seq, j.dropped, gone) BY <1>9, <2>1, <2>2
  <2>4. f \in FeedRows /\ FeedInOrder(f, j.seq) BY <1>1
  <2>5. g \in FeedRows /\ FeedInOrder(g, j.seq + 1) /\ Accounted(g, j.seq + 1, dropped, later)
    BY <1>4, <1>6, <1>8, <2>3, <2>4, NumberAppended
  <2> QED BY <2>2, <2>5
<1>13. FeedSound(k, g)
  BY <1>6, <1>9, <1>10, <1>12, Zenon DEF FeedSound
<1>14. CASE kind \in Ends
  <2>1. PICK status \in {"running", "paused"} \cup Terminal : status = StatusAfter(kind)
    BY <1>14 DEF StatusAfter, Ends, Terminal
  <2>2. FeedSound(Transition(k, status), g) BY <1>13, TransitionKeeps
  <2>3. Appended(s, kind).job = Transition(k, status) /\ Appended(s, kind).feed = g
    BY <1>14, <2>1, <1>2, <1>4, <1>5, <1>6, <1>7 DEF Appended, Offered, Counted, Registered, j, f
  <2> QED BY <2>2, <2>3
<1>15. CASE kind \notin Ends
  <2>1. Appended(s, kind).job = k /\ Appended(s, kind).feed = g
    BY <1>15, <1>2, <1>4, <1>5, <1>6, <1>7 DEF Appended, Offered, Counted, Registered, j, f
  <2> QED BY <1>13, <2>1
<1> QED BY <1>14, <1>15

-----------------------------------------------------------------------------
(* The steps of the follower. *)

\* What is under way moves to the follower, or is given up.
LEMMA NothingMore ==
    ASSUME NEW j, NEW f, FeedSound(j, f), NEW g \in FeedRows, g.got = f.got, g.seen = f.seen,
           g.pc = "off", g.replay = <<>>, g.queue = <<>>
    PROVE  FeedSound(j, g)
<1>1. /\ j \in JobRows /\ f \in FeedRows
      /\ LogIsTheEnd(j.log, j.seq) /\ FeedInOrder(f, j.seq)
      /\ Accounted(f, j.seq, j.dropped, j.seq - Len(j.log))
  BY DEF FeedSound
<1>2. Ahead(g) = <<>> /\ Ascending(Ahead(g), g.got, j.seq) BY AheadFacts, NothingAscends
<1>3. MaxQueue \in Nat /\ Len(g.queue) = 0 BY JobAssumption, NothingAscends
<1>4. FeedInOrder(g, j.seq) BY <1>1, <1>2, <1>3 DEF FeedInOrder
<1>5. Missed(g, j.seq) \subseteq Missed(f, j.seq) BY DEF Missed, Registered
<1>6. Accounted(g, j.seq, j.dropped, j.seq - Len(j.log)) BY <1>1, <1>5 DEF Accounted
<1> QED BY <1>1, <1>4, <1>6 DEF FeedSound

\* The next of what is under way has come.
LEMMA EntryTaken ==
    ASSUME NEW j, NEW f, FeedSound(j, f), Registered(f), NEW e \in Entries,
           NEW g \in FeedRows, Ahead(f) # <<>>, e = Head(Ahead(f)), Ahead(g) = Tail(Ahead(f)),
           g.got = e.seq, g.seen = f.seen \cup {e.seq}, g.pc = f.pc,
           Len(g.queue) <= MaxQueue, g.pc # "replaying" => g.replay = <<>>
    PROVE  FeedSound(j, g)
<1>1. /\ j \in JobRows /\ f \in FeedRows
      /\ LogIsTheEnd(j.log, j.seq) /\ FeedInOrder(f, j.seq)
      /\ Accounted(f, j.seq, j.dropped, j.seq - Len(j.log))
  BY DEF FeedSound
<1>2. f.got \in Nat /\ f.seen \in SUBSET Nat /\ j.seq \in Nat BY <1>1 DEF FeedRows, JobRows
<1>3. Ahead(f) \in Seq(Entries) /\ Ascending(Ahead(f), f.got, j.seq) BY <1>1, AheadFacts DEF FeedInOrder
<1>4. /\ e.seq \in Nat /\ f.got < e.seq /\ e.seq <= j.seq
      /\ Ascending(Ahead(g), e.seq, j.seq)
      /\ Numbers(Ahead(f)) = Numbers(Ahead(g)) \cup {e.seq}
  BY <1>2, <1>3, TailAscends
<1>5. \A m \in g.seen : 1 <= m /\ m <= g.got
  <2>1. \A m \in f.seen : m \in Nat /\ 1 <= m /\ m <= f.got BY <1>1, <1>2 DEF FeedInOrder
  <2> QED BY <2>1, <1>2, <1>4
<1>6. FeedInOrder(g, j.seq)
  <2>1. Registered(g) BY DEF Registered
  <2> QED BY <2>1, <1>4, <1>5 DEF FeedInOrder
<1>7. ASSUME NEW m \in Missed(g, j.seq) PROVE m \in Missed(f, j.seq)
  <2>1. /\ m \in 1 .. j.seq /\ m \notin f.seen /\ m # e.seq
        /\ m <= e.seq \/ m \notin Numbers(Ahead(g))
    BY DEF Missed
  <2>2. m \notin Numbers(Ahead(g))
    <3>1. CASE m <= e.seq
      <4>1. \A i \in 1 .. Len(Ahead(g)) : e.seq < Ahead(g)[i].seq BY <1>4 DEF Ascending
      <4>2. Ahead(g) \in Seq(Entries) BY AheadFacts
      <4>3. \A i \in 1 .. Len(Ahead(g)) : Ahead(g)[i].seq \in Nat BY <4>2, EntryFacts
      <4>4. \A i \in 1 .. Len(Ahead(g)) : Ahead(g)[i].seq # m BY <3>1, <4>1, <4>3, <1>4, <2>1
      <4> QED BY <4>4 DEF Numbers
    <3> QED BY <3>1, <2>1
  <2> QED BY <2>1, <2>2, <1>4 DEF Missed
<1>8. Accounted(g, j.seq, j.dropped, j.seq - Len(j.log)) BY <1>1, <1>7 DEF Accounted
<1> QED BY <1>1, <1>6, <1>8 DEF FeedSound

\* The response opens: what the log has let go of is all that it will not bring.
LEMMA LogFrom ==
    ASSUME NEW log \in Seq(Entries), NEW n \in Nat, LogIsTheEnd(log, n), NEW got \in Nat
    PROVE  /\ From(log, got) \in Seq(Entries) /\ Ascending(From(log, got), got, n)
           /\ \A m \in 1 .. n : m > got /\ m > n - Len(log) => m \in Numbers(From(log, got))
<1> DEFINE later == {i \in DOMAIN log : log[i].seq > got}
<1>1. /\ Len(log) \in Nat /\ DOMAIN log = 1 .. Len(log) /\ Len(log) <= n
      /\ \A i \in 1 .. Len(log) : log[i] \in Entries /\ log[i].seq = n - Len(log) + i
  BY EntryFacts DEF LogIsTheEnd
<1>2. PICK gone \in Nat : gone = n - Len(log) BY <1>1
<1>3. \A m \in 1 .. n : m > gone => m - gone \in 1 .. Len(log) /\ log[m - gone].seq = m
  <2>1. ASSUME NEW m \in 1 .. n, m > gone PROVE m - gone \in 1 .. Len(log) BY <2>1, <1>1, <1>2
  <2>2. ASSUME NEW m \in 1 .. n, m > gone PROVE log[m - gone].seq = m
    <3>1. log[m - gone].seq = gone + (m - gone) BY <2>1, <2>2, <1>1, <1>2
    <3> QED BY <3>1
  <2> QED BY <2>1, <2>2
<1>4. CASE later = {}
  <2>1. From(log, got) = <<>> BY <1>4 DEF From
  <2>2. \A m \in 1 .. n : ~(m > got /\ m > gone)
    <3> SUFFICES ASSUME NEW m \in 1 .. n, m > got, m > gone PROVE FALSE OBVIOUS
    <3>1. m - gone \in DOMAIN log /\ log[m - gone].seq > got BY <1>1, <1>3
    <3>2. m - gone \in later BY <3>1
    <3> QED BY <3>2, <1>4
  <2>3. <<>> \in Seq(Entries) OBVIOUS
  <2> QED BY <1>2, <2>1, <2>2, <2>3, NothingAscends
<1>5. CASE later # {}
  <2>0. (IF gone >= got THEN 1 ELSE got - gone + 1) \in Nat OBVIOUS
  <2>1. PICK first \in Nat : first = IF gone >= got THEN 1 ELSE got - gone + 1 BY <2>0
  <2>2. first \in later /\ \A i \in later : first <= i
    <3>1. \A i \in 1 .. Len(log) : log[i].seq > got <=> gone + i > got BY <1>1, <1>2
    <3>2. PICK i \in 1 .. Len(log) : gone + i > got BY <1>1, <1>5, <3>1
    <3>3. first \in 1 .. Len(log) /\ gone + first > got BY <2>1, <3>2, <1>1, <1>2
    <3>4. \A k \in 1 .. Len(log) : gone + k > got => first <= k BY <2>1, <1>1, <1>2
    <3> QED BY <1>1, <3>1, <3>3, <3>4
  <2> HIDE DEF later
  <2>3. Min(later) \in later /\ \A i \in later : Min(later) <= i BY <2>2 DEF Min
  <2>4. PICK a \in later : a = Min(later) BY <2>3
  <2>5. a \in 1 .. Len(log) /\ log[a].seq > got /\ \A i \in later : a <= i
    BY <1>1, <2>3, <2>4 DEF later
  <2>6. PICK q : q = SubSeq(log, a, Len(log)) OBVIOUS
  <2>7. From(log, got) = q BY <1>5, <2>4, <2>6 DEF From, later
  <2>8. /\ q \in Seq(Entries) /\ Len(q) = Len(log) - a + 1
        /\ \A i \in 1 .. Len(q) : q[i] = log[a + i - 1]
    <3>1. \A i \in a .. Len(log) : log[i] \in Entries BY <1>1, <2>5
    <3>2. a \in Int /\ Len(log) \in Int /\ a <= Len(log) BY <1>1, <2>5
    <3> QED BY <2>6, <3>1, <3>2, SubSeqProperties
  <2>9. \A i \in 1 .. Len(q) : a + i - 1 \in 1 .. Len(log) /\ a <= a + i - 1 BY <1>1, <2>5, <2>8
  <2>10. ASSUME NEW i \in 1 .. Len(q) PROVE q[i].seq = gone + (a + i - 1) /\ q[i].seq \in Nat
    <3>1. a + i - 1 \in 1 .. Len(log) BY <2>9
    <3>2. log[a + i - 1].seq = n - Len(log) + (a + i - 1) BY <3>1, <1>1
    <3> QED BY <3>1, <3>2, <1>1, <1>2, <2>8
  <2>11. log[a].seq = gone + a /\ gone + a > got BY <1>1, <1>2, <2>5
  <2>12. \A i \in 1 .. Len(q) : got < q[i].seq /\ q[i].seq <= n
    <3> SUFFICES ASSUME NEW i \in 1 .. Len(q) PROVE got < q[i].seq /\ q[i].seq <= n OBVIOUS
    <3>1. q[i].seq = gone + (a + i - 1) /\ a + i - 1 \in 1 .. Len(log) /\ a <= a + i - 1 BY <2>9, <2>10
    <3>2. PICK x \in 1 .. Len(log) : x = a + i - 1 BY <3>1
    <3>3. a <= x /\ q[i].seq = gone + x BY <3>1, <3>2
    <3>4. got < gone + x BY <2>5, <2>11, <3>3, <1>1, <1>2
    <3>5. gone + x <= n BY <1>1, <1>2
    <3> QED BY <3>3, <3>4, <3>5
  <2>13. \A i, k \in 1 .. Len(q) : i < k => q[i].seq < q[k].seq
    <3> SUFFICES ASSUME NEW i \in 1 .. Len(q), NEW k \in 1 .. Len(q), i < k PROVE q[i].seq < q[k].seq OBVIOUS
    <3>1. q[i].seq = gone + (a + i - 1) /\ q[k].seq = gone + (a + k - 1) BY <2>10
    <3> QED BY <3>1, <2>5, <1>2, <2>8, <1>1
  <2>14. Ascending(q, got, n) BY <2>12, <2>13 DEF Ascending
  <2>15. ASSUME NEW m \in 1 .. n, m > got, m > gone PROVE m \in Numbers(q)
    <3>1. m - gone \in 1 .. Len(log) /\ log[m - gone].seq > got BY <1>1, <1>3, <2>15
    <3>2. a <= m - gone BY <3>1, <1>1, <2>5 DEF later
    <3>3. PICK i \in 1 .. Len(q) : i = m - gone - a + 1 BY <3>1, <3>2, <1>1, <2>5, <2>8
    <3>4. q[i].seq = gone + (a + i - 1) BY <2>10
    <3>5. gone + (a + i - 1) = m BY <3>3, <1>2, <2>5
    <3> QED BY <3>4, <3>5 DEF Numbers
  <2> QED BY <1>2, <2>7, <2>8, <2>14, <2>15
<1> QED BY <1>4, <1>5

LEMMA ResponseOpened ==
    ASSUME NEW j, NEW f, FeedSound(j, f), f.pc = "off", NEW g,
           g = [f EXCEPT !.pc = "replaying", !.queue = <<>>, !.replay = From(j.log, f.got)]
    PROVE  FeedSound(j, g)
<1>1. /\ j \in JobRows /\ f \in FeedRows
      /\ LogIsTheEnd(j.log, j.seq) /\ FeedInOrder(f, j.seq)
      /\ Accounted(f, j.seq, j.dropped, j.seq - Len(j.log))
  BY DEF FeedSound
<1>2. j.log \in Seq(Entries) /\ j.seq \in Nat /\ f.got \in Nat BY <1>1 DEF JobRows, FeedRows
<1>3. PICK replay : replay = From(j.log, f.got) OBVIOUS
<1>4. /\ replay \in Seq(Entries) /\ Ascending(replay, f.got, j.seq)
      /\ \A m \in 1 .. j.seq : m > f.got /\ m > j.seq - Len(j.log) => m \in Numbers(replay)
  BY <1>1, <1>2, <1>3, LogFrom
<1>5. /\ g \in FeedRows /\ g.pc = "replaying" /\ g.queue = <<>> /\ g.replay = replay
      /\ g.got = f.got /\ g.seen = f.seen
  <2>1. <<>> \in Seq(Entries) OBVIOUS
  <2> QED BY <1>1, <1>3, <1>4, <2>1 DEF FeedRows
<1>6. Ahead(g) = replay BY <1>5, AheadFacts
<1>7. Len(g.queue) <= MaxQueue BY <1>5, JobAssumption, NothingAscends
<1>8. FeedInOrder(g, j.seq) BY <1>1, <1>4, <1>5, <1>6, <1>7 DEF FeedInOrder, Registered
<1>9. PICK D \in SUBSET Nat :
        /\ IsFiniteSet(D) /\ Cardinality(D) <= j.dropped
        /\ \A m \in Missed(f, j.seq) : m \in D \/ m <= j.seq - Len(j.log)
  BY <1>1 DEF Accounted
<1>10. PICK gone \in Int : gone = j.seq - Len(j.log) BY <1>2, EntryFacts
<1>11. ASSUME NEW m \in Missed(g, j.seq) PROVE m \in D \/ m <= gone
  <2>1. m \in 1 .. j.seq /\ m \notin f.seen /\ (m <= f.got \/ m \notin Numbers(replay)) BY <1>5, <1>6 DEF Missed
  <2>2. CASE m <= f.got
    <3>1. m \in Missed(f, j.seq) BY <2>1, <2>2 DEF Missed
    <3> QED BY <3>1, <1>9, <1>10
  <2>3. CASE ~(m <= f.got)
    <3>1. m > f.got BY <2>1, <2>3, <1>2
    <3>2. ~(m > gone) BY <2>1, <2>3, <3>1, <1>4, <1>10
    <3> QED BY <3>2, <2>1, <1>10
  <2> QED BY <2>2, <2>3
<1>12. Accounted(g, j.seq, j.dropped, j.seq - Len(j.log)) BY <1>9, <1>10, <1>11 DEF Accounted
<1> QED BY <1>1, <1>5, <1>8, <1>12 DEF FeedSound

LEMMA ReplayTaken ==
    ASSUME NEW j, NEW f, FeedSound(j, f), f.pc = "replaying", f.replay # <<>>, NEW g,
           g = [Took(f, Head(f.replay)) EXCEPT !.replay = Tail(@)]
    PROVE  FeedSound(j, g)
<1>1. f \in FeedRows /\ Len(f.queue) <= MaxQueue BY DEF FeedSound, FeedInOrder
<1>2. /\ f.replay \in Seq(Entries) /\ f.queue \in Seq(Entries) /\ f.got \in Nat /\ f.seen \in SUBSET Nat
  BY <1>1 DEF FeedRows
<1>3. PICK e \in Entries, rest \in Seq(Entries) : e = Head(f.replay) /\ rest = Tail(f.replay)
  BY <1>2, HeadTailProperties
<1>4. e.seq \in Nat BY DEF Entries
<1>5. /\ g \in FeedRows /\ g.got = e.seq /\ g.seen = f.seen \cup {e.seq} /\ g.pc = f.pc
      /\ g.replay = rest /\ g.queue = f.queue
  BY <1>1, <1>2, <1>3, <1>4 DEF Took, FeedRows
<1>6. Ahead(f) # <<>> /\ e = Head(Ahead(f)) /\ Ahead(g) = Tail(Ahead(f))
  <2>1. PICK q \in Seq(Entries), r \in Seq(Entries) : q = f.replay /\ r = f.queue BY <1>2
  <2>2. q # <<>> /\ e = Head(q) /\ rest = Tail(q) BY <2>1, <1>3
  <2>3. q \o r # <<>> /\ Head(q \o r) = Head(q) /\ Tail(q \o r) = Tail(q) \o r BY <2>2, HeadTailOfConcat
  <2> QED BY <2>1, <2>2, <2>3, <1>5 DEF Ahead
<1> QED BY <1>1, <1>5, <1>6, EntryTaken, ZenonT(30) DEF Registered

LEMMA QueueTaken ==
    ASSUME NEW j, NEW f, FeedSound(j, f), f.pc = "live", f.queue # <<>>, NEW g,
           g = [Took(f, Head(f.queue)) EXCEPT !.queue = Tail(@)]
    PROVE  FeedSound(j, g) /\ g.pc = "live" /\ g.replay = <<>>
<1>1. f \in FeedRows /\ Len(f.queue) <= MaxQueue /\ f.replay = <<>> BY DEF FeedSound, FeedInOrder
<1>2. f.queue \in Seq(Entries) /\ f.got \in Nat /\ f.seen \in SUBSET Nat BY <1>1 DEF FeedRows
<1>3. PICK e \in Entries, rest \in Seq(Entries) :
        e = Head(f.queue) /\ rest = Tail(f.queue) /\ Len(rest) = Len(f.queue) - 1
  BY <1>2, HeadTailProperties
<1>4. e.seq \in Nat BY DEF Entries
<1>5. /\ g \in FeedRows /\ g.got = e.seq /\ g.seen = f.seen \cup {e.seq} /\ g.pc = f.pc
      /\ g.queue = rest /\ g.replay = <<>>
  BY <1>1, <1>2, <1>3, <1>4 DEF Took, FeedRows
<1>6. Ahead(f) = f.queue /\ Ahead(g) = rest BY <1>1, <1>5, AheadFacts
<1>7. Len(g.queue) <= MaxQueue
  <2>1. Len(f.queue) \in Nat BY <1>2, EntryFacts
  <2>2. PICK l \in Nat : l = Len(f.queue) BY <2>1
  <2>3. Len(g.queue) = l - 1 /\ l <= MaxQueue /\ MaxQueue \in Nat BY <2>2, <1>1, <1>3, <1>5, JobAssumption
  <2> QED BY <2>3
<1>8. FeedSound(j, g)
  <2>1. Ahead(f) # <<>> /\ e = Head(Ahead(f)) /\ Ahead(g) = Tail(Ahead(f)) BY <1>3, <1>6
  <2> QED BY <2>1, <1>1, <1>5, <1>7, EntryTaken DEF Registered
<1> QED BY <1>5, <1>8

\* After the replay the response goes on or ends.
LEMMA ReplayEnded ==
    ASSUME NEW j, NEW f, FeedSound(j, f), f.pc = "replaying", f.replay = <<>>, NEW g,
           g = [f EXCEPT !.pc = "live"]
    PROVE  FeedSound(j, g)
<1>1. /\ j \in JobRows /\ f \in FeedRows
      /\ LogIsTheEnd(j.log, j.seq) /\ FeedInOrder(f, j.seq)
      /\ Accounted(f, j.seq, j.dropped, j.seq - Len(j.log))
  BY DEF FeedSound
<1>2. /\ g \in FeedRows /\ g.pc = "live" /\ g.replay = <<>> /\ g.queue = f.queue
      /\ g.got = f.got /\ g.seen = f.seen /\ g.replay = f.replay
  BY <1>1 DEF FeedRows
<1>3. Ahead(g) = Ahead(f) BY <1>2 DEF Ahead
<1>4. FeedInOrder(g, j.seq) BY <1>1, <1>2, <1>3 DEF FeedInOrder, Registered
<1>5. Missed(g, j.seq) = Missed(f, j.seq) BY <1>2, <1>3 DEF Missed, Registered
<1> QED BY <1>1, <1>2, <1>4, <1>5 DEF FeedSound, Accounted

LEMMA ResponseOver ==
    ASSUME NEW j, NEW f, FeedSound(j, f), NEW g, g = [f EXCEPT !.pc = "off", !.replay = <<>>, !.queue = <<>>]
    PROVE  FeedSound(j, g)
<1>1. f \in FeedRows /\ <<>> \in Seq(Entries) BY DEF FeedSound
<1>2. /\ g \in FeedRows /\ g.got = f.got /\ g.seen = f.seen
      /\ g.pc = "off" /\ g.replay = <<>> /\ g.queue = <<>>
  BY <1>1 DEF FeedRows
<1> QED BY <1>2, NothingMore

-----------------------------------------------------------------------------
(* The theorems. *)

LEMMA JobInitSound == JobInit => JobIInv
<1> SUFFICES ASSUME JobInit PROVE FeedSound(job, feed) BY DEF JobIInv
<1>1. /\ job.task = "none" /\ job.status = "running" /\ job.log = <<>> /\ job.seq = 0 /\ job.dropped = 0
      /\ feed.pc = "off" /\ feed.replay = <<>> /\ feed.queue = <<>> /\ feed.got = 0 /\ feed.seen = {}
  BY DEF JobInit
<1>2. job \in JobRows /\ feed \in FeedRows
  <2>0. <<>> \in Seq(Entries) OBVIOUS
  <2>1. PICK none \in Seq(Entries) : none = <<>> BY <2>0
  <2> QED BY <2>1 DEF JobInit, JobRows, FeedRows
<1>3. LogIsTheEnd(job.log, job.seq) BY <1>1, NothingAscends, JobAssumption DEF LogIsTheEnd
<1>4. Ahead(feed) = <<>> /\ Len(feed.queue) = 0 /\ Ascending(Ahead(feed), feed.got, job.seq)
  BY <1>1, <1>2, AheadFacts, NothingAscends
<1>5. FeedInOrder(feed, job.seq) BY <1>1, <1>4, JobAssumption DEF FeedInOrder
<1>6. Missed(feed, job.seq) = {} BY <1>1 DEF Missed
<1>7. Accounted(feed, job.seq, job.dropped, job.seq - Len(job.log))
  <2>1. IsFiniteSet({}) /\ Cardinality({}) = 0 BY FS_EmptySet
  <2> QED BY <1>1, <1>6, <2>1 DEF Accounted
<1> QED BY <1>2, <1>3, <1>5, <1>7 DEF FeedSound

LEMMA JobStepSound == JobIInv /\ [JobNext]_jobVars => JobIInv'
<1> SUFFICES ASSUME FeedSound(job, feed), [JobNext]_jobVars PROVE FeedSound(job', feed') BY DEF JobIInv
<1>1. CASE UNCHANGED jobVars BY <1>1 DEF jobVars
<1>2. CASE RunJob BY <1>2, TaskKeeps DEF RunJob
<1>3. CASE Drive BY <1>3, TaskKeeps DEF Drive
<1>4. CASE CancelUnstarted BY <1>4, TaskKeeps DEF CancelUnstarted
<1>5. ASSUME NEW kind \in {"step"} \cup Ends, Emit(kind) PROVE FeedSound(job', feed')
  <2>1. PICK s : s = Appended(State, kind) OBVIOUS
  <2>2. FeedSound(s.job, s.feed)
    <3>1. FeedSound(State.job, State.feed) BY DEF State
    <3> QED BY <2>1, <3>1, <1>5, AppendKeeps DEF Kinds
  <2>3. s.job.task \in {"none", "created", "running", "over"} BY <2>2 DEF FeedSound, JobRows
  <2>4. PICK task \in {"none", "created", "running", "over"} :
          task = IF kind \in {"done", "paused_done"} THEN "over" ELSE s.job.task
    BY <2>3
  <2>5. job' = [s.job EXCEPT !.task = task] /\ feed' = s.feed
    BY <1>5, <2>1, <2>4 DEF Emit, Become
  <2> QED BY <2>2, <2>5, TaskKeeps
<1>6. ASSUME NEW status \in {"cancelled", "error"}, EndWith(status) PROVE FeedSound(job', feed')
  <2>1. PICK s : s = [State EXCEPT !.job = Transition(job, status)] OBVIOUS
  <2>2. s.job = Transition(job, status) /\ s.feed = feed BY <2>1 DEF State
  <2>3. FeedSound(s.job, s.feed) BY <2>2, TransitionKeeps DEF Terminal
  <2>4. PICK t : t = Appended(s, "error") OBVIOUS
  <2>5. FeedSound(t.job, t.feed) BY <2>3, <2>4, AppendKeeps DEF Kinds, Ends
  <2>6. PICK u : u = Appended(t, "done") OBVIOUS
  <2>7. FeedSound(u.job, u.feed) BY <2>5, <2>6, AppendKeeps DEF Kinds, Ends
  <2>8. job' = [u.job EXCEPT !.task = "over"] /\ feed' = u.feed
    BY <1>6, <2>1, <2>4, <2>6 DEF EndWith, Become
  <2> QED BY <2>7, <2>8, TaskKeeps
<1>7. CASE Subscribe BY <1>7, ResponseOpened DEF Subscribe
<1>8. CASE ReplayNext BY <1>8, ReplayTaken DEF ReplayNext
<1>9. CASE ReplayEnds
  <2>1. CASE job.status = "running" BY <1>9, <2>1, ReplayEnded DEF ReplayEnds
  <2>2. CASE job.status # "running"
    <3>1. feed' = [feed EXCEPT !.pc = "off", !.replay = <<>>, !.queue = <<>>] /\ job' = job
      <4>1. feed \in FeedRows /\ feed.replay = <<>> BY <1>9 DEF ReplayEnds, FeedSound
      <4> QED BY <1>9, <2>2, <4>1 DEF ReplayEnds, FeedRows
    <3> QED BY <3>1, ResponseOver
  <2> QED BY <2>1, <2>2
<1>10. CASE Live
  <2>1. PICK f : f = [Took(feed, Head(feed.queue)) EXCEPT !.queue = Tail(@)] OBVIOUS
  <2>2. FeedSound(job, f) /\ f.pc = "live" /\ f.replay = <<>> BY <1>10, <2>1, QueueTaken DEF Live
  <2>3. feed' = f \/ feed' = [f EXCEPT !.pc = "off", !.queue = <<>>] BY <1>10, <2>1 DEF Live
  <2>4. CASE feed' = [f EXCEPT !.pc = "off", !.queue = <<>>]
    <3>1. feed' = [f EXCEPT !.pc = "off", !.replay = <<>>, !.queue = <<>>]
      <4>1. f \in FeedRows BY <2>2 DEF FeedSound
      <4> QED BY <2>2, <2>4, <4>1 DEF FeedRows
    <3> QED BY <2>2, <3>1, <1>10, ResponseOver DEF Live
  <2> QED BY <2>2, <2>3, <2>4, <1>10 DEF Live
<1>11. CASE Disconnect BY <1>11, ResponseOver DEF Disconnect
<1> QED BY <1>1, <1>2, <1>3, <1>4, <1>5, <1>6, <1>7, <1>8, <1>9, <1>10, <1>11 DEF JobNext

\* What the invariant says of the misses: those before the last event it has were
\* counted as dropped or lie before the log.
LEMMA MissesCounted == JobIInv => MissesAreCounted
<1> SUFFICES ASSUME FeedSound(job, feed) PROVE MissesAreCounted BY DEF JobIInv
<1>1. /\ job \in JobRows /\ feed \in FeedRows
      /\ LogIsTheEnd(job.log, job.seq) /\ FeedInOrder(feed, job.seq)
      /\ Accounted(feed, job.seq, job.dropped, job.seq - Len(job.log))
  BY DEF FeedSound
<1>2. /\ job.log \in Seq(Entries) /\ job.seq \in Nat /\ job.dropped \in Nat /\ feed.got \in Nat
      /\ feed.seen \in SUBSET Nat /\ Ahead(feed) \in Seq(Entries)
  BY <1>1, AheadFacts DEF JobRows, FeedRows
<1>3. PICK gone \in Nat : gone = job.seq - Len(job.log) BY <1>1, <1>2, EntryFacts DEF LogIsTheEnd
<1>4. PICK D \in SUBSET Nat :
        /\ IsFiniteSet(D) /\ Cardinality(D) <= job.dropped
        /\ \A m \in Missed(feed, job.seq) : m \in D \/ m <= gone
  BY <1>1, <1>3 DEF Accounted
<1>5. (1 .. feed.got) \ feed.seen \subseteq D \cup 1 .. gone
  <2> SUFFICES ASSUME NEW m \in (1 .. feed.got) \ feed.seen PROVE m \in D \cup 1 .. gone OBVIOUS
  <2>1. m \in 1 .. job.seq /\ m <= feed.got /\ m \notin feed.seen BY <1>1, <1>2 DEF FeedInOrder
  <2>2. m \in Missed(feed, job.seq) BY <2>1 DEF Missed
  <2> QED BY <1>3, <1>4, <2>1, <2>2
<1>6. IsFiniteSet(1 .. gone) /\ Cardinality(1 .. gone) = gone BY FS_Interval
<1>7. /\ IsFiniteSet(D \cup 1 .. gone)
      /\ Cardinality(D \cup 1 .. gone) <= Cardinality(D) + gone
  <2>1. /\ IsFiniteSet(D \cup 1 .. gone)
        /\ Cardinality(D \cup 1 .. gone) = Cardinality(D) + Cardinality(1 .. gone) - Cardinality(D \cap 1 .. gone)
    BY <1>4, <1>6, FS_Union
  <2>2. Cardinality(D \cap 1 .. gone) \in Nat BY <1>4, FS_Intersection, FS_CardinalityType
  <2>3. Cardinality(D) \in Nat BY <1>4, FS_CardinalityType
  <2> QED BY <2>1, <2>2, <2>3, <1>6
<1>8. Cardinality((1 .. feed.got) \ feed.seen) <= job.dropped + gone
  <2>1. /\ Cardinality((1 .. feed.got) \ feed.seen) <= Cardinality(D \cup 1 .. gone)
        /\ Cardinality((1 .. feed.got) \ feed.seen) \in Nat
        /\ Cardinality(D \cup 1 .. gone) \in Nat /\ Cardinality(D) \in Nat
    BY <1>4, <1>5, <1>7, FS_Subset, FS_CardinalityType
  <2> QED BY <2>1, <1>2, <1>4, <1>7
<1>9. /\ feed.got \in {0} \cup feed.seen /\ feed.seen \subseteq 1 .. job.seq
  BY <1>1, <1>2 DEF FeedInOrder
<1>10. /\ \A i \in DOMAIN job.log : job.log[i].seq = job.seq - Len(job.log) + i
       /\ Len(job.log) <= MaxLog /\ Len(feed.queue) <= MaxQueue
  BY <1>1, <1>2, EntryFacts DEF LogIsTheEnd, FeedInOrder
<1>11. /\ \A i, k \in DOMAIN Ahead(feed) : i < k => Ahead(feed)[i].seq < Ahead(feed)[k].seq
       /\ \A i \in DOMAIN Ahead(feed) : feed.got < Ahead(feed)[i].seq
  BY <1>1, <1>2, EntryFacts DEF Ascending, FeedInOrder
<1> QED BY <1>3, <1>8, <1>9, <1>10, <1>11 DEF MissesAreCounted, Ahead

\* A follower of a detached job sees its events once and in order, and what escapes
\* it the job has counted or its log has let go of (JobState.append_event, subscribe).
THEOREM FollowersMissOnlyWhatIsCounted == JobSpec => []MissesAreCounted
<1>1. JobSpec => JobInit /\ [][JobNext]_jobVars BY PTL DEF JobSpec
<1> QED BY <1>1, JobInitSound, JobStepSound, MissesCounted, PTL

-----------------------------------------------------------------------------
(* A turn and its viewer (TurnStream). *)

Events == [kind : EventKinds, msg : Messages \cup {"none"}]
Chunks == [kind : EventKinds \cup {"progress", "lagging", "None"}, msg : Messages \cup {"none"}, lo : Nat, hi : Nat]

TurnRows   == [pc : {"working", "closing", "saving", "saved", "over"}, work : Nat, outbox : Seq(Events),
               stopping : BOOLEAN, saved : SUBSET Messages, saveFailed : BOOLEAN]
InboxRows  == [messages : Seq(Messages), applied : SUBSET Messages, closed : BOOLEAN, registered : BOOLEAN]
StreamRows == [n : Nat, entries : Seq(Chunks), dropped : BOOLEAN, closed : BOOLEAN]
ConnRows   == [open : BOOLEAN, subscribed : BOOLEAN, queue : Seq(Chunks)]
ViewRows   == [pc : {"streaming", "ended", "away", "returning", "opening", "next"}, target : Nat,
               pending : SUBSET Messages, applied : SUBSET (Messages \cup {"none"}), queue : SUBSET Messages,
               elsewhere : SUBSET Messages, kept : SUBSET Messages, left : SUBSET Messages,
               stop : BOOLEAN, returns : Nat, seen : SUBSET Nat, notice : BOOLEAN]
RequestRows == [at : {"unsent", "sent", "queued", "refused", "settled"}, view : Nat]

TurnTypes ==
    /\ turn \in TurnRows /\ inbox \in InboxRows /\ stream \in StreamRows
    /\ conn \in ConnRows /\ view \in ViewRows /\ request \in [Messages -> RequestRows]

\* The entries of a replay cover the events of the stream from the first they keep,
\* which is the one after turn_started unless some were dropped.
EntriesSound(q, n, dropped) ==
    /\ \A i \in 1 .. Len(q) : q[i].kind \in EventKinds /\ 2 <= q[i].lo /\ q[i].lo <= q[i].hi /\ q[i].hi <= n
    /\ \A i, k \in 1 .. Len(q) : i < k => q[i].hi < q[k].lo
    /\ q # <<>> => /\ q[Len(q)].hi = n
                   /\ \A x \in q[1].lo .. n : \E i \in 1 .. Len(q) : x \in Ranges(q[i])
                   /\ dropped \/ q[1].lo = 2
    /\ q = <<>> => n <= 1

\* turn_started is the first event and no other.
OutboxSound ==
    /\ turn.stopping \/ turn.pc = "over" => turn.outbox = <<>>
    /\ stream.n = 0 /\ turn.outbox # <<>> => turn.outbox[1].kind = "turn_started"
    /\ stream.n = 0 => turn.outbox # <<>> \/ turn.stopping
    /\ \A i \in 1 .. Len(turn.outbox) : i > 1 \/ stream.n > 0 => turn.outbox[i].kind # "turn_started"

InQueue(q) == {x \in Nat : \E i \in 1 .. Len(q) : x \in Ranges(q[i])}
Told(q, notice) == notice \/ \E i \in 1 .. Len(q) : q[i].kind = "progress"

\* What a view has seen and what waits for it: in order, and together turn_started and
\* the newest events, all from the second on unless the view is told.
NoGap(q, seen, notice, n) ==
    \E lo \in Nat :
        /\ 2 <= lo /\ (lo = 2 \/ (lo <= n /\ Told(q, notice)))
        /\ \A x \in seen \cup InQueue(q) : x = 1 \/ lo <= x
        /\ \A x \in lo .. n : x \in seen \cup InQueue(q)

Unbroken(q, seen, notice, n) ==
    /\ \A i, k \in 1 .. Len(q) : i < k => \A x \in Ranges(q[i]), y \in Ranges(q[k]) : x < y
    /\ \A x \in seen, y \in InQueue(q) : x < y
    /\ \A x \in seen \cup InQueue(q) : 1 <= x /\ x <= n
    /\ n > 0 => 1 \in seen \cup InQueue(q)
    /\ NoGap(q, seen, notice, n)
    /\ \A i \in 1 .. Len(q) : q[i].kind = "progress" =>
          seen \subseteq {1} /\ \A k \in 1 .. i : Ranges(q[k]) \subseteq {1}

\* A view that fell behind keeps what it saw.
CutOff(q, seen, notice, n) ==
    /\ q = <<Notice("lagging"), Notice("None")>>
    /\ \A x \in seen : 1 <= x /\ x <= n
    /\ \A x, z \in seen \ {1} : x .. z \subseteq seen
    /\ seen \ {1} # {} => 2 \in seen \/ notice

ViewSound ==
    /\ conn.subscribed => conn.open
    /\ conn.open =>
          /\ view.pc = "streaming"
          /\ \/ conn.subscribed /\ Unbroken(conn.queue, view.seen, view.notice, stream.n)
             \/ turn.pc = "over" /\ Unbroken(conn.queue, view.seen, view.notice, stream.n)
             \/ ~conn.subscribed /\ CutOff(conn.queue, view.seen, view.notice, stream.n)
    /\ view.pc \in {"away", "returning", "opening"} => view.seen = {}

TurnIInv ==
    /\ TurnTypes /\ EntriesSound(stream.entries, stream.n, stream.dropped)
    /\ OutboxSound /\ ViewSound

-----------------------------------------------------------------------------
(* Chunks. *)

LEMMA SmallestOf ==
    ASSUME NEW S \in SUBSET Nat, S # {}
    PROVE  \E x \in S : \A y \in S : x <= y
<1> DEFINE Lower == {p \in Nat \X Nat : p[1] < p[2]}
<1>1. OpToRel(<, Nat) = Lower BY DEF OpToRel
<1>2. IsWellFoundedOn(Lower, Nat) BY <1>1, NatLessThanWellFounded, Zenon
<1>3. PICK x \in S : \A y \in S : ~(<<y, x>> \in Lower)
  <2> HIDE DEF Lower
  <2> QED BY <1>2, WFMin
<1>4. \A y \in S : ~(y < x) BY <1>3
<1> QED BY <1>4

LEMMA MinIsIn ==
    ASSUME NEW S \in SUBSET Nat, S # {}
    PROVE  Min(S) \in S /\ \A y \in S : Min(S) <= y
BY SmallestOf DEF Min

LEMMA ChunkFacts ==
    ASSUME NEW q \in Seq(Chunks)
    PROVE  /\ Len(q) \in Nat /\ DOMAIN q = 1 .. Len(q)
           /\ \A i \in 1 .. Len(q) : q[i] \in Chunks /\ q[i].lo \in Nat /\ q[i].hi \in Nat
<1>1. Len(q) \in Nat /\ DOMAIN q = 1 .. Len(q) BY LenProperties
<1>2. ASSUME NEW i \in 1 .. Len(q) PROVE q[i] \in Chunks BY ElementOfSeq
<1>3. \A c \in Chunks : c.lo \in Nat /\ c.hi \in Nat BY DEF Chunks
<1> QED BY <1>1, <1>2, <1>3

LEMMA RangeFacts ==
    ASSUME NEW c \in Chunks
    PROVE  \A x : x \in Ranges(c) <=> x \in Nat /\ c.lo <= x /\ x <= c.hi
BY DEF Chunks, Ranges

LEMMA NewChunk ==
    ASSUME NEW e \in Events, NEW n \in Nat
    PROVE  /\ Chunk(e, n, n) \in Chunks /\ Chunk(e, n, n).lo = n /\ Chunk(e, n, n).hi = n
           /\ Chunk(e, n, n).kind = e.kind /\ e.kind \in EventKinds
BY DEF Chunk, Chunks, Events

\* A delta joins the entry before it; any other event is an entry of its own.
LEMMA JoinedSound ==
    ASSUME NEW q \in Seq(Chunks), NEW n \in Nat \ {0}, NEW dropped \in BOOLEAN, EntriesSound(q, n, dropped),
           NEW e \in Events, NEW r, r = Joined(q, e, n + 1)
    PROVE  r \in Seq(Chunks) /\ r # <<>> /\ EntriesSound(r, n + 1, dropped)
<1>0. /\ Len(q) \in Nat
      /\ \A i \in 1 .. Len(q) : q[i] \in Chunks /\ q[i].lo \in Nat /\ q[i].hi \in Nat
  BY ChunkFacts
<1>1. CASE e.kind \in Mergeable /\ q # <<>> /\ q[Len(q)].kind = e.kind
  <2>1. Len(q) \in 1 .. Len(q) BY <1>0, <1>1, EmptySeq
  <2>2. PICK last \in 1 .. Len(q) : last = Len(q) BY <2>1
  <2>3. PICK c : c = [q[last] EXCEPT !.hi = n + 1] OBVIOUS
  <2>4. /\ c \in Chunks /\ c.hi = n + 1 /\ c.lo = q[last].lo /\ c.kind = q[last].kind
    <3>1. PICK d \in Chunks : d = q[last] BY <1>0
    <3>2. c = [d EXCEPT !.hi = n + 1] /\ n + 1 \in Nat BY <2>3, <3>1
    <3>3. c \in Chunks /\ c.hi = n + 1 /\ c.lo = d.lo /\ c.kind = d.kind BY <3>2 DEF Chunks
    <3> QED BY <3>1, <3>3
  <2>5. r = [q EXCEPT ![last] = c] BY <1>1, <2>2, <2>3 DEF Joined
  <2>6. /\ r \in Seq(Chunks) /\ Len(r) = Len(q)
        /\ \A i \in 1 .. Len(r) : r[i] = IF i = last THEN c ELSE q[i]
    <3>1. \A i \in 1 .. Len(q) : [q EXCEPT ![last] = c][i] = IF i = last THEN c ELSE q[i] BY <2>4, ExceptSeq
    <3>2. [q EXCEPT ![last] = c] \in Seq(Chunks) /\ Len([q EXCEPT ![last] = c]) = Len(q) BY <2>4, ExceptSeq
    <3> QED BY <2>5, <3>1, <3>2
  <2>7. r # <<>> /\ q # <<>> BY <1>1, <2>1, <2>6, <1>0
  <2>8. \A i \in 1 .. Len(r) : r[i].kind = q[i].kind /\ r[i].lo = q[i].lo
        /\ (i # last => r[i].hi = q[i].hi) /\ (i = last => r[i].hi = n + 1)
    BY <2>4, <2>6
  <2>9. \A i \in 1 .. Len(r) : r[i].kind \in EventKinds /\ 2 <= r[i].lo /\ r[i].lo <= r[i].hi /\ r[i].hi <= n + 1
    <3> TAKE i \in 1 .. Len(r)
    <3>1. /\ i \in 1 .. Len(q) /\ q[i].lo \in Nat /\ q[i].hi \in Nat
          /\ q[i].kind \in EventKinds /\ 2 <= q[i].lo /\ q[i].lo <= q[i].hi /\ q[i].hi <= n
      BY <1>0, <2>6 DEF EntriesSound
    <3>2. r[i].kind = q[i].kind /\ r[i].lo = q[i].lo /\ (r[i].hi = q[i].hi \/ r[i].hi = n + 1) BY <2>8
    <3>3. q[i].hi <= n + 1 /\ q[i].lo <= n + 1 BY <3>1
    <3> QED BY <3>1, <3>2, <3>3
  <2>10. ASSUME NEW i \in 1 .. Len(r), NEW k \in 1 .. Len(r), i < k PROVE r[i].hi < r[k].lo
    <3>1. i # last BY <2>2, <2>6, <2>10, <1>0
    <3> QED BY <3>1, <2>6, <2>8, <2>10 DEF EntriesSound
  <2>11. q[Len(q)].hi = n /\ (dropped \/ q[1].lo = 2) /\ \A x \in q[1].lo .. n : \E i \in 1 .. Len(q) : x \in Ranges(q[i])
    BY <2>7 DEF EntriesSound
  <2>12. ASSUME NEW x \in r[1].lo .. n + 1 PROVE \E i \in 1 .. Len(r) : x \in Ranges(r[i])
    <3>1. 1 \in 1 .. Len(r) /\ r[1].lo = q[1].lo /\ q[1].lo \in Nat BY <1>0, <2>1, <2>6, <2>8
    <3>2. CASE x <= n
      <4>1. PICK i \in 1 .. Len(q) : x \in Ranges(q[i]) BY <2>11, <3>1, <3>2
      <4>2. x \in Nat /\ q[i].lo <= x /\ x <= q[i].hi BY <4>1, <1>0, RangeFacts
      <4>3. r[i].lo <= x /\ x <= r[i].hi BY <4>2, <3>2, <2>6, <2>8
      <4>4. i \in 1 .. Len(r) /\ r[i] \in Chunks BY <2>6, ChunkFacts
      <4> QED BY <4>2, <4>3, <4>4, RangeFacts
    <3>3. CASE x = n + 1
      <4>1. last \in 1 .. Len(r) /\ r[last] \in Chunks /\ r[last].hi = n + 1 /\ r[last].lo <= n + 1
        BY <2>2, <2>6, <2>8, <2>9, ChunkFacts
      <4>2. x \in Ranges(r[last]) BY <3>3, <4>1, RangeFacts
      <4> QED BY <4>1, <4>2
    <3> QED BY <3>1, <3>2, <3>3
  <2>13. r[Len(r)].hi = n + 1 /\ (dropped \/ r[1].lo = 2)
    <3>1. 1 \in 1 .. Len(r) /\ Len(r) = last BY <2>2, <2>6, <1>0
    <3> QED BY <3>1, <2>8, <2>11, <2>6
  <2> QED BY <2>6, <2>7, <2>9, <2>10, <2>12, <2>13 DEF EntriesSound
<1>2. CASE ~(e.kind \in Mergeable /\ q # <<>> /\ q[Len(q)].kind = e.kind)
  <2>1. PICK c : c = Chunk(e, n + 1, n + 1) OBVIOUS
  <2>2. c \in Chunks /\ c.lo = n + 1 /\ c.hi = n + 1 /\ c.kind \in EventKinds
    <3>1. n + 1 \in Nat OBVIOUS
    <3> QED BY <2>1, <3>1, NewChunk
  <2>3. r = Append(q, c) BY <1>2, <2>1 DEF Joined
  <2>4. /\ r \in Seq(Chunks) /\ r # <<>> /\ Len(r) = Len(q) + 1
        /\ \A i \in 1 .. Len(q) : r[i] = q[i]
        /\ r[Len(q) + 1] = c
    BY <2>2, <2>3, AppendProperties
  <2>5. \A i \in 1 .. Len(r) : i \in 1 .. Len(q) \/ i = Len(q) + 1 BY <2>4, <1>0
  <2>6. ASSUME NEW i \in 1 .. Len(r)
        PROVE  r[i].kind \in EventKinds /\ 2 <= r[i].lo /\ r[i].lo <= r[i].hi /\ r[i].hi <= n + 1
    <3>1. CASE i \in 1 .. Len(q) BY <3>1, <2>4, <1>0 DEF EntriesSound
    <3>2. CASE i = Len(q) + 1 BY <3>2, <2>2, <2>4
    <3> QED BY <2>5, <3>1, <3>2
  <2>7. ASSUME NEW i \in 1 .. Len(r), NEW k \in 1 .. Len(r), i < k PROVE r[i].hi < r[k].lo
    <3>1. i \in 1 .. Len(q) BY <2>4, <2>5, <2>7, <1>0
    <3>2. CASE k \in 1 .. Len(q) BY <2>4, <2>7, <3>1, <3>2 DEF EntriesSound
    <3>3. CASE k = Len(q) + 1
      <4>1. q[i].hi <= n /\ q[i].hi \in Nat BY <3>1, <1>0 DEF EntriesSound
      <4> QED BY <2>2, <2>4, <3>1, <3>3, <4>1
    <3> QED BY <2>5, <3>2, <3>3
  <2>8. r[Len(r)].hi = n + 1 BY <2>2, <2>4
  <2>9. (dropped \/ r[1].lo = 2) /\ \A x \in r[1].lo .. n + 1 : \E i \in 1 .. Len(r) : x \in Ranges(r[i])
    <3>1. Len(q) + 1 \in 1 .. Len(r) /\ n + 1 \in Ranges(r[Len(q) + 1]) BY <2>2, <2>4, <1>0, RangeFacts
    <3>2. CASE q = <<>>
      <4>1. n = 1 /\ Len(q) = 0 BY <3>2, <1>0 DEF EntriesSound
      <4>2. r[1].lo = 2 BY <4>1, <2>2, <2>4
      <4>3. \A x \in 2 .. n + 1 : x = n + 1 BY <4>1
      <4> QED BY <4>2, <4>3, <3>1
    <3>3. CASE q # <<>>
      <4>1. /\ (dropped \/ q[1].lo = 2)
            /\ \A x \in q[1].lo .. n : \E i \in 1 .. Len(q) : x \in Ranges(q[i])
        BY <3>3 DEF EntriesSound
      <4>2. 1 \in 1 .. Len(q) /\ r[1] = q[1] /\ q[1].lo \in Nat BY <3>3, <1>0, <2>4, EmptySeq
      <4>3. ASSUME NEW x \in q[1].lo .. n + 1 PROVE \E i \in 1 .. Len(r) : x \in Ranges(r[i])
        <5>1. CASE x = n + 1 BY <5>1, <3>1
        <5>2. CASE x # n + 1
          <6>1. x \in q[1].lo .. n BY <5>2, <4>2
          <6>2. PICK i \in 1 .. Len(q) : x \in Ranges(q[i]) BY <4>1, <6>1
          <6>3. i \in 1 .. Len(r) /\ r[i] = q[i] BY <2>4, <1>0
          <6> QED BY <6>2, <6>3
        <5> QED BY <5>1, <5>2
      <4> QED BY <4>1, <4>2, <4>3
    <3> QED BY <3>2, <3>3
  <2> QED BY <2>4, <2>6, <2>7, <2>8, <2>9 DEF EntriesSound
<1> QED BY <1>1, <1>2

\* The oldest entries go, and then some are known to be dropped.
LEMMA TrimmedSound ==
    ASSUME NEW r \in Seq(Chunks), r # <<>>, NEW n \in Nat, NEW dropped \in BOOLEAN, EntriesSound(r, n, dropped),
           NEW t, t = Trimmed(r)
    PROVE  t \in Seq(Chunks) /\ EntriesSound(t, n, dropped \/ Len(t) < Len(r))
<1>0. /\ Len(r) \in Nat
      /\ \A i \in 1 .. Len(r) : r[i] \in Chunks /\ r[i].lo \in Nat /\ r[i].hi \in Nat
  BY ChunkFacts
<1>1. PICK last \in 1 .. Len(r) : last = Len(r) BY <1>0, EmptySeq
<1>2. PICK a \in 1 .. last : t = SubSeq(r, a, last)
  <2> DEFINE fits == {i \in 1 .. last : r[last].hi + 1 - r[i].lo <= MaxReplay}
  <2>1. t = SubSeq(r, Min(fits \cup {last}), last) BY <1>1 DEF Trimmed
  <2>2. fits \cup {last} \subseteq 1 .. last /\ fits \cup {last} # {} BY <1>0, <1>1
  <2> HIDE DEF fits
  <2>3. PICK some : some = fits \cup {last} OBVIOUS
  <2>4. some \in SUBSET Nat /\ some # {} BY <2>2, <2>3
  <2>5. Min(some) \in some BY <2>4, MinIsIn
  <2> QED BY <2>1, <2>2, <2>3, <2>5
<1>3. /\ t \in Seq(Chunks) /\ Len(t) = last - a + 1
      /\ \A i \in 1 .. Len(t) : t[i] = r[a + i - 1]
  <2>1. \A i \in a .. last : r[i] \in Chunks BY <1>0, <1>1
  <2>2. a \in Int /\ last \in Int /\ a <= last OBVIOUS
  <2> QED BY <1>2, <2>1, <2>2, SubSeqProperties
<1>4. \A i \in 1 .. Len(t) : a + i - 1 \in 1 .. Len(r) BY <1>0, <1>1, <1>3
<1>5. 1 \in 1 .. Len(t) /\ Len(t) \in 1 .. Len(t) /\ t # <<>> /\ r # <<>> BY <1>3, <1>0, EmptySeq
<1>6. \A i \in 1 .. Len(t) : t[i].kind \in EventKinds /\ 2 <= t[i].lo /\ t[i].lo <= t[i].hi /\ t[i].hi <= n
  BY <1>3, <1>4 DEF EntriesSound
<1>7. ASSUME NEW i \in 1 .. Len(t), NEW k \in 1 .. Len(t), i < k PROVE t[i].hi < t[k].lo
  <2>1. a + i - 1 < a + k - 1 BY <1>7, <1>3
  <2> QED BY <2>1, <1>3, <1>4 DEF EntriesSound
<1>8. t[1] = r[a] /\ t[Len(t)] = r[last] BY <1>3, <1>5
<1>9. r[last].hi = n /\ (dropped \/ r[1].lo = 2) /\ \A x \in r[1].lo .. n : \E i \in 1 .. Len(r) : x \in Ranges(r[i])
  BY <1>1 DEF EntriesSound
<1>10. (dropped \/ Len(t) < Len(r)) \/ t[1].lo = 2
  <2>1. CASE a = 1 BY <2>1, <1>8, <1>9
  <2>2. CASE a # 1 BY <2>2, <1>1, <1>3
  <2> QED BY <2>1, <2>2
<1>11. ASSUME NEW x \in t[1].lo .. n PROVE \E i \in 1 .. Len(t) : x \in Ranges(t[i])
  <2>1. /\ a \in 1 .. Len(r) /\ 1 \in 1 .. Len(r)
        /\ r[a].lo \in Nat /\ r[1].lo \in Nat /\ r[1].hi \in Nat
    BY <1>0, <1>1
  <2>2. r[1].lo <= r[a].lo
    <3>1. CASE a = 1 BY <3>1, <2>1
    <3>2. CASE a # 1
      <4>1. 1 < a BY <3>2
      <4>2. r[1].lo <= r[1].hi /\ r[1].hi < r[a].lo BY <2>1, <4>1 DEF EntriesSound
      <4> QED BY <4>2, <2>1
    <3> QED BY <3>1, <3>2
  <2>3. x \in r[1].lo .. n BY <1>8, <2>1, <2>2
  <2>4. PICK i \in 1 .. Len(r) : x \in Ranges(r[i]) BY <1>9, <2>3
  <2>5. x \in Nat /\ x <= r[i].hi BY <2>4, <1>0, RangeFacts
  <2>6. a <= i
    <3> SUFFICES ASSUME i < a PROVE FALSE BY <1>0
    <3>1. r[i].hi < r[a].lo BY <2>1 DEF EntriesSound
    <3>2. r[a].lo <= x BY <1>8, <2>1
    <3> QED BY <3>1, <3>2, <2>1, <2>5, <1>0
  <2>7. PICK k \in 1 .. Len(t) : k = i - a + 1 BY <2>6, <1>0, <1>1, <1>3
  <2>8. t[k] = r[i]
    <3>1. a + k - 1 = i BY <2>7, <1>0
    <3> QED BY <3>1, <1>3
  <2> QED BY <2>4, <2>8
<1>12. t[Len(t)].hi = n BY <1>8, <1>9
<1> QED BY <1>3, <1>5, <1>6, <1>7, <1>10, <1>11, <1>12 DEF EntriesSound

LEMMA RememberSound ==
    ASSUME NEW s \in StreamRows, EntriesSound(s.entries, s.n, s.dropped), NEW e \in Events,
           s.n = 0 <=> e.kind = "turn_started", NEW t, t = Remember(s, e)
    PROVE  t \in StreamRows /\ t.n = s.n + 1 /\ EntriesSound(t.entries, t.n, t.dropped)
<1>1. s.n \in Nat /\ s.entries \in Seq(Chunks) /\ s.dropped \in BOOLEAN BY DEF StreamRows
<1>2. CASE e.kind = "turn_started"
  <2>1. t = [s EXCEPT !.n = s.n + 1] BY <1>2 DEF Remember
  <2>2. t \in StreamRows /\ t.n = s.n + 1 /\ t.entries = s.entries /\ t.dropped = s.dropped
    BY <1>1, <2>1 DEF StreamRows
  <2>3. s.n = 0 BY <1>2
  <2>4. s.entries = <<>>
    <3> SUFFICES ASSUME s.entries # <<>> PROVE FALSE OBVIOUS
    <3>1. 1 \in 1 .. Len(s.entries) BY <1>1, EmptySeq
    <3>2. s.entries[1].lo \in Nat /\ s.entries[1].hi \in Nat BY <1>1, <3>1, ChunkFacts
    <3>3. 2 <= s.entries[1].lo /\ s.entries[1].lo <= s.entries[1].hi /\ s.entries[1].hi <= s.n
      BY <3>1 DEF EntriesSound
    <3> QED BY <2>3, <3>2, <3>3
  <2>5. EntriesSound(<<>>, 1, s.dropped)
    <3>1. 1 .. Len(<<>>) = {} OBVIOUS
    <3> QED BY <3>1 DEF EntriesSound
  <2> QED BY <2>2, <2>3, <2>4, <2>5
<1>3. CASE e.kind # "turn_started"
  <2>1. s.n \in Nat \ {0} BY <1>1, <1>3
  <2>2. PICK r : r = Joined(s.entries, e, s.n + 1) OBVIOUS
  <2>3. r \in Seq(Chunks) /\ r # <<>> /\ EntriesSound(r, s.n + 1, s.dropped) BY <1>1, <2>1, <2>2, JoinedSound
  <2>4. PICK k : k = Trimmed(r) OBVIOUS
  <2>5. k \in Seq(Chunks) /\ EntriesSound(k, s.n + 1, s.dropped \/ Len(k) < Len(r))
    <3>1. s.n + 1 \in Nat BY <1>1
    <3> QED BY <1>1, <2>3, <2>4, <3>1, TrimmedSound
  <2>6. PICK dropped \in BOOLEAN : dropped <=> s.dropped \/ Len(k) < Len(r)
    <3>1. (s.dropped \/ Len(k) < Len(r)) \in BOOLEAN OBVIOUS
    <3> QED BY <3>1
  <2>7. t = [s EXCEPT !.n = s.n + 1, !.entries = k, !.dropped = dropped]
    <3>1. (s.dropped \/ Len(k) < Len(r)) = dropped BY <2>6
    <3> QED BY <1>3, <2>2, <2>4, <3>1 DEF Remember
  <2>8. t \in StreamRows /\ t.n = s.n + 1 /\ t.entries = k /\ t.dropped = dropped
    <3>1. PICK n \in Nat : n = s.n + 1 BY <1>1
    <3>2. PICK q \in Seq(Chunks) : q = k BY <2>5
    <3>3. t = [s EXCEPT !.n = n, !.entries = q, !.dropped = dropped] BY <2>7, <3>1, <3>2
    <3>4. t \in StreamRows /\ t.n = n /\ t.entries = q /\ t.dropped = dropped BY <3>3 DEF StreamRows
    <3> QED BY <3>1, <3>2, <3>4
  <2>9. EntriesSound(k, s.n + 1, dropped) BY <2>5, <2>6 DEF EntriesSound
  <2> QED BY <2>8, <2>9
<1> QED BY <1>2, <1>3

-----------------------------------------------------------------------------
(* The queue of a view. *)

\* An event that fits.
LEMMA PublishedSound ==
    ASSUME NEW q \in Seq(Chunks), NEW seen \in SUBSET Nat, NEW notice \in BOOLEAN, NEW n \in Nat,
           Unbroken(q, seen, notice, n), NEW c \in Chunks, c.lo = n + 1, c.hi = n + 1, c.kind \in EventKinds
    PROVE  Append(q, c) \in Seq(Chunks) /\ Unbroken(Append(q, c), seen, notice, n + 1)
<1>1. PICK r : r = Append(q, c) OBVIOUS
<1>2. /\ r \in Seq(Chunks) /\ Len(r) = Len(q) + 1 /\ Len(q) \in Nat
      /\ \A i \in 1 .. Len(q) : r[i] = q[i]
      /\ r[Len(q) + 1] = c
  BY <1>1, AppendProperties, ChunkFacts
<1>3. /\ \A i \in 1 .. Len(r) : i \in 1 .. Len(q) \/ i = Len(q) + 1
      /\ Len(q) + 1 \in 1 .. Len(r) /\ \A i \in 1 .. Len(q) : i \in 1 .. Len(r)
  BY <1>2
<1>4. \A x : x \in Ranges(c) <=> x = n + 1 BY RangeFacts
<1>5. InQueue(r) = InQueue(q) \cup {n + 1}
  <2>1. InQueue(r) \subseteq InQueue(q) \cup {n + 1} BY <1>2, <1>3, <1>4 DEF InQueue
  <2>2. InQueue(q) \subseteq InQueue(r) BY <1>2, <1>3 DEF InQueue
  <2>3. n + 1 \in InQueue(r) BY <1>2, <1>3, <1>4 DEF InQueue
  <2> QED BY <2>1, <2>2, <2>3
<1>6. InQueue(q) \subseteq Nat BY DEF InQueue
<1>7. \A x \in seen \cup InQueue(q) : x \in Nat /\ 1 <= x /\ x <= n BY <1>6 DEF Unbroken
<1>8. c.kind # "progress" BY DEF EventKinds
<1>9. ASSUME NEW i \in 1 .. Len(r), NEW k \in 1 .. Len(r), i < k, NEW x \in Ranges(r[i]), NEW y \in Ranges(r[k])
      PROVE  x < y
  <2>1. i \in 1 .. Len(q) /\ r[i] = q[i] BY <1>2, <1>3, <1>9
  <2>2. CASE k \in 1 .. Len(q) BY <2>1, <2>2, <1>2, <1>9 DEF Unbroken
  <2>3. CASE k = Len(q) + 1
    <3>1. y = n + 1 BY <2>3, <1>2, <1>4, <1>9
    <3>2. q[i] \in Chunks BY <2>1, ChunkFacts
    <3>3. x \in Nat BY <3>2, <2>1, <1>9, RangeFacts
    <3>4. x \in InQueue(q) BY <2>1, <3>3, <1>9 DEF InQueue
    <3> QED BY <3>1, <3>4, <1>7
  <2> QED BY <1>3, <2>2, <2>3
<1>10. \A x \in seen, y \in InQueue(r) : x < y BY <1>5, <1>7 DEF Unbroken
<1>11. \A x \in seen \cup InQueue(r) : 1 <= x /\ x <= n + 1 BY <1>5, <1>7
<1>12. 1 \in seen \cup InQueue(r)
  <2>1. CASE n > 0 BY <2>1, <1>5 DEF Unbroken
  <2>2. CASE ~(n > 0) BY <2>2, <1>5
  <2> QED BY <2>1, <2>2
<1>13. NoGap(r, seen, notice, n + 1)
  <2>1. PICK lo \in Nat :
          /\ 2 <= lo /\ (lo = 2 \/ (lo <= n /\ Told(q, notice)))
          /\ \A x \in seen \cup InQueue(q) : x = 1 \/ lo <= x
          /\ \A x \in lo .. n : x \in seen \cup InQueue(q)
    BY DEF Unbroken, NoGap
  <2>2. Told(q, notice) => Told(r, notice) BY <1>2, <1>3 DEF Told
  <2>3. lo = 2 \/ (lo <= n + 1 /\ Told(r, notice)) BY <2>1, <2>2
  <2>4. \A x \in seen \cup InQueue(r) : x = 1 \/ lo <= x
    <3>1. n + 1 = 1 \/ lo <= n + 1 BY <2>1
    <3> QED BY <3>1, <2>1, <1>5
  <2>5. \A x \in lo .. n + 1 : x \in seen \cup InQueue(r)
    <3>1. \A x \in lo .. n + 1 : x = n + 1 \/ x \in lo .. n OBVIOUS
    <3> QED BY <3>1, <2>1, <1>5
  <2> QED BY <2>1, <2>3, <2>4, <2>5 DEF NoGap
<1>14. ASSUME NEW i \in 1 .. Len(r), r[i].kind = "progress"
       PROVE  seen \subseteq {1} /\ \A k \in 1 .. i : Ranges(r[k]) \subseteq {1}
  <2>1. i \in 1 .. Len(q) /\ r[i] = q[i] BY <1>2, <1>3, <1>8, <1>14
  <2>2. seen \subseteq {1} /\ \A k \in 1 .. i : Ranges(q[k]) \subseteq {1} BY <2>1, <1>14 DEF Unbroken
  <2>3. \A k \in 1 .. i : r[k] = q[k] BY <2>1, <1>2
  <2> QED BY <2>2, <2>3
<1>15. Unbroken(r, seen, notice, n + 1) BY <1>9, <1>10, <1>11, <1>12, <1>13, <1>14 DEF Unbroken
<1> QED BY <1>1, <1>2, <1>15

\* A chunk with no event in it, other than the notice.
LEMMA NoticeAppended ==
    ASSUME NEW q \in Seq(Chunks), NEW seen \in SUBSET Nat, NEW notice \in BOOLEAN, NEW n \in Nat,
           Unbroken(q, seen, notice, n)
    PROVE  Append(q, Notice("None")) \in Seq(Chunks) /\ Unbroken(Append(q, Notice("None")), seen, notice, n)
<1>1. PICK c : c = Notice("None") OBVIOUS
<1>2. c \in Chunks /\ c.kind = "None" /\ \A x : ~(x \in Ranges(c))
  <2>1. c \in Chunks /\ c.lo = 1 /\ c.hi = 0 /\ c.kind = "None" BY <1>1 DEF Notice, Chunk, Plain, Event, Chunks
  <2> QED BY <2>1, RangeFacts
<1>3. PICK r : r = Append(q, c) OBVIOUS
<1>4. /\ r \in Seq(Chunks) /\ Len(r) = Len(q) + 1 /\ Len(q) \in Nat
      /\ \A i \in 1 .. Len(q) : r[i] = q[i]
      /\ r[Len(q) + 1] = c
  BY <1>2, <1>3, AppendProperties, ChunkFacts
<1>5. /\ \A i \in 1 .. Len(r) : i \in 1 .. Len(q) \/ i = Len(q) + 1
      /\ \A i \in 1 .. Len(q) : i \in 1 .. Len(r)
  BY <1>4
<1>6. InQueue(r) = InQueue(q) BY <1>2, <1>4, <1>5 DEF InQueue
<1>7. Told(q, notice) => Told(r, notice) BY <1>4, <1>5 DEF Told
<1>8. NoGap(r, seen, notice, n) BY <1>6, <1>7 DEF Unbroken, NoGap
<1>9. ASSUME NEW i \in 1 .. Len(r), NEW k \in 1 .. Len(r), i < k, NEW x \in Ranges(r[i]), NEW y \in Ranges(r[k])
      PROVE  x < y
  <2>1. i \in 1 .. Len(q) /\ k \in 1 .. Len(q) BY <1>2, <1>4, <1>5, <1>9
  <2> QED BY <2>1, <1>4, <1>9 DEF Unbroken
<1>10. ASSUME NEW i \in 1 .. Len(r), r[i].kind = "progress"
       PROVE  seen \subseteq {1} /\ \A k \in 1 .. i : Ranges(r[k]) \subseteq {1}
  <2>1. i \in 1 .. Len(q) /\ r[i] = q[i] BY <1>2, <1>4, <1>5, <1>10
  <2>2. seen \subseteq {1} /\ \A k \in 1 .. i : Ranges(q[k]) \subseteq {1} BY <2>1, <1>10 DEF Unbroken
  <2>3. \A k \in 1 .. i : r[k] = q[k] BY <2>1, <1>4
  <2> QED BY <2>2, <2>3
<1>11. Unbroken(r, seen, notice, n)
  <2>1. /\ \A x \in seen, y \in InQueue(r) : x < y
        /\ \A x \in seen \cup InQueue(r) : 1 <= x /\ x <= n
        /\ n > 0 => 1 \in seen \cup InQueue(r)
    BY <1>6 DEF Unbroken
  <2> QED BY <2>1, <1>8, <1>9, <1>10 DEF Unbroken
<1> QED BY <1>1, <1>3, <1>4, <1>11

\* What a view has seen has no hole by itself.
LEMMA SeenIsWhole ==
    ASSUME NEW q, NEW seen \in SUBSET Nat, NEW notice \in BOOLEAN, NEW n \in Nat, Unbroken(q, seen, notice, n)
    PROVE  /\ \A x \in seen : 1 <= x /\ x <= n
           /\ \A x, z \in seen \ {1} : x .. z \subseteq seen
           /\ seen \ {1} # {} => 2 \in seen \/ notice
<1>1. PICK lo \in Nat :
        /\ 2 <= lo /\ (lo = 2 \/ (lo <= n /\ Told(q, notice)))
        /\ \A x \in seen \cup InQueue(q) : x = 1 \/ lo <= x
        /\ \A x \in lo .. n : x \in seen \cup InQueue(q)
  BY DEF Unbroken, NoGap
<1>2. \A x \in seen : x \in Nat /\ 1 <= x /\ x <= n BY DEF Unbroken
<1>3. \A x \in seen, y \in InQueue(q) : x < y BY DEF Unbroken
<1>4. ASSUME NEW z \in seen \ {1}, NEW y \in lo .. z PROVE y \in seen
  <2>1. y \in lo .. n /\ y <= z /\ z \in Nat BY <1>1, <1>2
  <2>2. y \notin InQueue(q) BY <2>1, <1>3
  <2> QED BY <2>1, <2>2, <1>1
<1>5. ASSUME NEW x \in seen \ {1}, NEW z \in seen \ {1} PROVE x .. z \subseteq seen
  <2>1. lo <= x /\ x \in Nat /\ z \in Nat BY <1>1, <1>2
  <2>2. \A y \in x .. z : y \in lo .. z BY <2>1
  <2> QED BY <2>2, <1>4
<1>6. ASSUME NEW z \in seen \ {1} PROVE 2 \in seen \/ notice
  <2>1. CASE lo = 2
    <3>1. 2 \in lo .. z BY <2>1, <1>1, <1>2
    <3> QED BY <3>1, <1>4
  <2>2. CASE Told(q, notice)
    <3>1. ~(seen \subseteq {1}) OBVIOUS
    <3>2. \A i \in 1 .. Len(q) : q[i].kind # "progress" BY <3>1 DEF Unbroken
    <3> QED BY <2>2, <3>2 DEF Told
  <2> QED BY <2>1, <2>2, <1>1
<1> QED BY <1>2, <1>5, <1>6

\* The view takes the next chunk.
LEMMA ReceivedSound ==
    ASSUME NEW q \in Seq(Chunks), q # <<>>, NEW seen \in SUBSET Nat, NEW notice \in BOOLEAN, NEW n \in Nat,
           Unbroken(q, seen, notice, n), NEW after \in SUBSET Nat, after = seen \cup Ranges(Head(q)),
           NEW known \in BOOLEAN, notice \/ Head(q).kind = "progress" => known
    PROVE  Tail(q) \in Seq(Chunks) /\ Unbroken(Tail(q), after, known, n)
<1>1. PICK r, c : r = Tail(q) /\ c = Head(q) OBVIOUS
<1>2. /\ r \in Seq(Chunks) /\ Len(q) \in Nat \ {0} /\ Len(r) = Len(q) - 1
      /\ \A i \in 1 .. Len(r) : r[i] = q[i + 1]
  BY <1>1, EmptySeq, HeadTailProperties
<1>3. c = q[1] /\ c \in Chunks /\ after = seen \cup Ranges(c) BY <1>1, HeadTailProperties
<1>4. /\ \A i \in 1 .. Len(q) : i = 1 \/ (i - 1 \in 1 .. Len(r) /\ r[i - 1] = q[i])
      /\ \A i \in 1 .. Len(r) : i + 1 \in 1 .. Len(q) /\ 1 < i + 1
      /\ 1 \in 1 .. Len(q)
  BY <1>2
<1>5. \A x \in Ranges(c) : x \in Nat BY <1>3, RangeFacts
<1>6. \A i \in 1 .. Len(r) : \A y \in Ranges(r[i]) : y \in Nat
  <2>1. \A i \in 1 .. Len(r) : r[i] \in Chunks BY <1>2, ChunkFacts
  <2> QED BY <2>1, RangeFacts
<1>7. InQueue(q) = Ranges(c) \cup InQueue(r)
  <2>1. InQueue(q) \subseteq Ranges(c) \cup InQueue(r)
    <3> SUFFICES ASSUME NEW x \in InQueue(q), x \notin Ranges(c) PROVE x \in InQueue(r) OBVIOUS
    <3>1. x \in Nat /\ \E i \in 1 .. Len(q) : x \in Ranges(q[i]) BY DEF InQueue
    <3>2. PICK i \in 1 .. Len(q) : x \in Ranges(q[i]) BY <3>1
    <3>3. i - 1 \in 1 .. Len(r) /\ r[i - 1] = q[i] BY <3>2, <1>3, <1>4
    <3> QED BY <3>1, <3>2, <3>3 DEF InQueue
  <2>2. Ranges(c) \subseteq InQueue(q) BY <1>3, <1>4, <1>5 DEF InQueue
  <2>3. InQueue(r) \subseteq InQueue(q) BY <1>2, <1>4 DEF InQueue
  <2> QED BY <2>1, <2>2, <2>3
<1>8. after \cup InQueue(r) = seen \cup InQueue(q) BY <1>3, <1>7
<1>9. ASSUME NEW i \in 1 .. Len(r), NEW k \in 1 .. Len(r), i < k, NEW x \in Ranges(r[i]), NEW y \in Ranges(r[k])
      PROVE  x < y
  <2>1. i + 1 \in 1 .. Len(q) /\ k + 1 \in 1 .. Len(q) /\ i + 1 < k + 1 BY <1>2, <1>4, <1>9
  <2>2. x \in Ranges(q[i + 1]) /\ y \in Ranges(q[k + 1]) BY <1>2, <1>9
  <2> QED BY <2>1, <2>2 DEF Unbroken
<1>10. ASSUME NEW x \in after, NEW y \in InQueue(r) PROVE x < y
  <2>1. CASE x \in seen BY <2>1, <1>7, <1>10 DEF Unbroken
  <2>2. CASE x \in Ranges(c)
    <3>1. PICK i \in 1 .. Len(r) : y \in Ranges(r[i]) BY <1>10 DEF InQueue
    <3>2. 1 \in 1 .. Len(q) /\ i + 1 \in 1 .. Len(q) /\ 1 < i + 1 /\ x \in Ranges(q[1]) /\ y \in Ranges(q[i + 1])
      BY <2>2, <3>1, <1>2, <1>3, <1>4
    <3> QED BY <3>2 DEF Unbroken
  <2> QED BY <1>3, <1>10, <2>1, <2>2
<1>11. NoGap(r, after, known, n)
  <2>1. PICK lo \in Nat :
          /\ 2 <= lo /\ (lo = 2 \/ (lo <= n /\ Told(q, notice)))
          /\ \A x \in seen \cup InQueue(q) : x = 1 \/ lo <= x
          /\ \A x \in lo .. n : x \in seen \cup InQueue(q)
    BY DEF Unbroken, NoGap
  <2>2. Told(q, notice) => Told(r, known)
    <3>1. CASE notice BY <3>1 DEF Told
    <3>2. ASSUME NEW i \in 1 .. Len(q), q[i].kind = "progress" PROVE Told(r, known)
      <4>1. CASE i = 1 BY <3>2, <4>1, <1>1, <1>3 DEF Told
      <4>2. CASE i # 1
        <5>1. i - 1 \in 1 .. Len(r) /\ r[i - 1] = q[i] BY <4>2, <1>4
        <5> QED BY <5>1, <3>2 DEF Told
      <4> QED BY <4>1, <4>2
    <3> QED BY <3>1, <3>2 DEF Told
  <2> QED BY <2>1, <2>2, <1>8 DEF NoGap
<1>12. ASSUME NEW i \in 1 .. Len(r), r[i].kind = "progress"
       PROVE  after \subseteq {1} /\ \A k \in 1 .. i : Ranges(r[k]) \subseteq {1}
  <2>1. i + 1 \in 1 .. Len(q) /\ q[i + 1].kind = "progress" BY <1>2, <1>4, <1>12
  <2>2. seen \subseteq {1} /\ \A k \in 1 .. i + 1 : Ranges(q[k]) \subseteq {1} BY <2>1 DEF Unbroken
  <2>3. 1 \in 1 .. i + 1 /\ \A k \in 1 .. i : k + 1 \in 1 .. i + 1 /\ r[k] = q[k + 1] BY <1>2
  <2> QED BY <2>2, <2>3, <1>3
<1>13. /\ \A x \in after \cup InQueue(r) : 1 <= x /\ x <= n
       /\ n > 0 => 1 \in after \cup InQueue(r)
  BY <1>8 DEF Unbroken
<1>14. Unbroken(r, after, known, n) BY <1>9, <1>10, <1>11, <1>12, <1>13 DEF Unbroken
<1> QED BY <1>1, <1>2, <1>14

\* What a subscription puts before the entries: turn_started, and that some were dropped.
Opening(s) ==
    (IF s.n > 0 THEN <<Chunk(Plain("turn_started"), 1, 1)>> ELSE <<>>)
    \o (IF s.dropped THEN <<Notice("progress")>> ELSE <<>>)

LEMMA OpeningFacts ==
    ASSUME NEW s \in StreamRows, NEW o, o = Opening(s)
    PROVE  /\ o \in Seq(Chunks) /\ \A i \in 1 .. Len(o) : \A x \in Ranges(o[i]) : x = 1 /\ i = 1
           /\ s.n > 0 => \E i \in 1 .. Len(o) : 1 \in Ranges(o[i])
           /\ s.n = 0 => \A i \in 1 .. Len(o) : Ranges(o[i]) = {}
           /\ s.dropped => \E i \in 1 .. Len(o) : o[i].kind = "progress"
<1>1. PICK c : c = Chunk(Plain("turn_started"), 1, 1) OBVIOUS
<1>2. c \in Chunks /\ c.lo = 1 /\ c.hi = 1 BY <1>1 DEF Chunk, Plain, Event, Chunks, EventKinds
<1>3. PICK d : d = Notice("progress") OBVIOUS
<1>4. d \in Chunks /\ d.lo = 1 /\ d.hi = 0 /\ d.kind = "progress" BY <1>3 DEF Notice, Chunk, Plain, Event, Chunks
<1>5. \A x : (x \in Ranges(c) <=> x = 1) /\ ~(x \in Ranges(d)) BY <1>2, <1>4, RangeFacts
<1>6. s.n \in Nat /\ s.dropped \in BOOLEAN BY DEF StreamRows
<1>7. CASE s.n > 0 /\ s.dropped
  <2>0. o = <<c>> \o <<d>> BY <1>1, <1>3, <1>7 DEF Opening
  <2>1. PICK a \in Seq(Chunks) : a = <<c>> /\ Len(a) = 1 /\ a[1] = c
    <3>1. c \in Chunks BY <1>2
    <3>2. <<c>> \in Seq(Chunks) /\ Len(<<c>>) = 1 /\ <<c>>[1] = c BY <3>1
    <3> QED BY <3>2
  <2>3. PICK b \in Seq(Chunks) : b = <<d>> /\ Len(b) = 1 /\ b[1] = d
    <3>1. d \in Chunks BY <1>4
    <3>2. <<d>> \in Seq(Chunks) /\ Len(<<d>>) = 1 /\ <<d>>[1] = d BY <3>1
    <3> QED BY <3>2
  <2>4. /\ a \o b \in Seq(Chunks) /\ Len(a \o b) = Len(a) + Len(b)
         /\ \A i \in 1 .. Len(a) + Len(b) : (a \o b)[i] = IF i <= Len(a) THEN a[i] ELSE b[i - Len(a)]
    BY ConcatProperties
  <2>2. Len(o) = 2 /\ o[1] = c /\ o[2] = d /\ o \in Seq(Chunks)
    <3>1. 1 \in 1 .. Len(a) + Len(b) /\ 2 \in 1 .. Len(a) + Len(b) BY <2>1, <2>3
    <3> QED BY <3>1, <2>0, <2>1, <2>3, <2>4
  <2> QED BY <2>2, <1>4, <1>5, <1>6, <1>7
<1>8. CASE s.n > 0 /\ ~s.dropped
  <2>0. o = <<c>> \o <<>> BY <1>1, <1>8 DEF Opening
  <2>1. o = <<c>>
    <3>1. <<c>> \in Seq(Chunks) BY <1>2
    <3> QED BY <2>0, <3>1, ConcatEmptySeq
  <2>2. Len(o) = 1 /\ o[1] = c /\ o \in Seq(Chunks) BY <2>1, <1>2
  <2> QED BY <2>2, <1>5, <1>6, <1>8
<1>9. CASE ~(s.n > 0) /\ s.dropped
  <2>0. o = <<>> \o <<d>> BY <1>3, <1>9 DEF Opening
  <2>1. o = <<d>>
    <3>1. <<d>> \in Seq(Chunks) BY <1>4
    <3> QED BY <2>0, <3>1, ConcatEmptySeq
  <2>2. Len(o) = 1 /\ o[1] = d /\ o \in Seq(Chunks) BY <2>1, <1>4
  <2> QED BY <2>2, <1>4, <1>5, <1>6, <1>9
<1>10. CASE ~(s.n > 0) /\ ~s.dropped
  <2>1. o = <<>> BY <1>10 DEF Opening
  <2>2. Len(o) = 0 /\ o \in Seq(Chunks) BY <2>1
  <2> QED BY <2>2, <1>6, <1>10
<1> QED BY <1>7, <1>8, <1>9, <1>10

\* A view that opens is given all of the replay.
LEMMA ReplaySound ==
    ASSUME NEW s \in StreamRows, EntriesSound(s.entries, s.n, s.dropped), NEW notice \in BOOLEAN
    PROVE  Replay(s) \in Seq(Chunks) /\ Unbroken(Replay(s), {}, notice, s.n)
<1>1. PICK n \in Nat : n = s.n BY DEF StreamRows
<1>2. PICK q \in Seq(Chunks) : q = s.entries BY DEF StreamRows
<1>3. PICK o : o = Opening(s) OBVIOUS
<1>4. /\ o \in Seq(Chunks) /\ \A i \in 1 .. Len(o) : \A x \in Ranges(o[i]) : x = 1 /\ i = 1
      /\ n > 0 => \E i \in 1 .. Len(o) : 1 \in Ranges(o[i])
      /\ n = 0 => \A i \in 1 .. Len(o) : Ranges(o[i]) = {}
      /\ s.dropped => \E i \in 1 .. Len(o) : o[i].kind = "progress"
  BY <1>1, <1>3, OpeningFacts
<1>5. PICK r : r = o \o q OBVIOUS
<1>6. r = Replay(s) BY <1>2, <1>3, <1>5 DEF Opening, Replay
<1>7. /\ r \in Seq(Chunks) /\ Len(r) = Len(o) + Len(q) /\ Len(o) \in Nat /\ Len(q) \in Nat
      /\ \A i \in 1 .. Len(o) + Len(q) : r[i] = IF i <= Len(o) THEN o[i] ELSE q[i - Len(o)]
  <2>1. o \in Seq(Chunks) BY <1>4
  <2> QED BY <2>1, <1>5, ConcatProperties, ChunkFacts
<1>8. /\ \A i \in 1 .. Len(r) : (i \in 1 .. Len(o) /\ r[i] = o[i]) \/ (i - Len(o) \in 1 .. Len(q) /\ r[i] = q[i - Len(o)])
      /\ \A i \in 1 .. Len(o) : i \in 1 .. Len(r) /\ r[i] = o[i]
      /\ \A i \in 1 .. Len(q) : i + Len(o) \in 1 .. Len(r) /\ r[i + Len(o)] = q[i]
  <2>1. \A i \in 1 .. Len(r) : (i \in 1 .. Len(o) /\ r[i] = o[i]) \/ (i - Len(o) \in 1 .. Len(q) /\ r[i] = q[i - Len(o)])
    BY <1>7
  <2>2. \A i \in 1 .. Len(o) : i \in 1 .. Len(r) /\ r[i] = o[i] BY <1>7
  <2>3. ASSUME NEW i \in 1 .. Len(q) PROVE i + Len(o) \in 1 .. Len(r) /\ r[i + Len(o)] = q[i]
    <3>1. i + Len(o) \in 1 .. Len(o) + Len(q) /\ ~(i + Len(o) <= Len(o)) /\ (i + Len(o)) - Len(o) = i BY <1>7
    <3> QED BY <3>1, <1>7
  <2> QED BY <2>1, <2>2, <2>3
<1>9. /\ \A i \in 1 .. Len(q) : q[i] \in Chunks /\ q[i].lo \in Nat /\ q[i].hi \in Nat
      /\ \A i \in 1 .. Len(q) : q[i].kind \in EventKinds /\ 2 <= q[i].lo /\ q[i].lo <= q[i].hi /\ q[i].hi <= n
      /\ \A i, k \in 1 .. Len(q) : i < k => q[i].hi < q[k].lo
  BY <1>1, <1>2, ChunkFacts DEF EntriesSound
<1>10. \A i \in 1 .. Len(q) : \A x : x \in Ranges(q[i]) <=> x \in Nat /\ q[i].lo <= x /\ x <= q[i].hi
  BY <1>9, RangeFacts
<1>11. ASSUME NEW i \in 1 .. Len(r), NEW k \in 1 .. Len(r), i < k, NEW x \in Ranges(r[i]), NEW y \in Ranges(r[k])
       PROVE  x < y
  <2>1. CASE k \in 1 .. Len(o) /\ r[k] = o[k]
    <3>1. k = 1 BY <2>1, <1>4, <1>11
    <3> QED BY <3>1, <1>7, <1>11
  <2>2. CASE k - Len(o) \in 1 .. Len(q) /\ r[k] = q[k - Len(o)]
    <3>1. y \in Nat /\ q[k - Len(o)].lo <= y BY <2>2, <1>10, <1>11
    <3>2. CASE i \in 1 .. Len(o) /\ r[i] = o[i]
      <4>1. x = 1 BY <3>2, <1>4, <1>11
      <4>2. 2 <= q[k - Len(o)].lo /\ q[k - Len(o)].lo \in Nat BY <2>2, <1>9
      <4> QED BY <4>1, <4>2, <3>1
    <3>3. CASE i - Len(o) \in 1 .. Len(q) /\ r[i] = q[i - Len(o)]
      <4>1. x \in Nat /\ x <= q[i - Len(o)].hi BY <3>3, <1>10, <1>11
      <4>2. i - Len(o) < k - Len(o) BY <1>7, <1>11
      <4>3. q[i - Len(o)].hi < q[k - Len(o)].lo BY <2>2, <3>3, <4>2, <1>9
      <4>4. q[i - Len(o)].hi \in Nat /\ q[k - Len(o)].lo \in Nat BY <2>2, <3>3, <1>9
      <4>5. PICK u \in Nat, v \in Nat : u = q[i - Len(o)].hi /\ v = q[k - Len(o)].lo BY <4>4
      <4>6. x <= u /\ u < v /\ v <= y BY <3>1, <4>1, <4>3, <4>5
      <4> QED BY <3>1, <4>1, <4>6
    <3> QED BY <1>8, <3>2, <3>3
  <2> QED BY <1>8, <2>1, <2>2
<1>12. \A x \in InQueue(r) : x \in Nat /\ (x = 1 \/ \E i \in 1 .. Len(q) : x \in Ranges(q[i]))
  BY <1>4, <1>8 DEF InQueue
<1>13. ASSUME NEW i \in 1 .. Len(q), NEW x \in Ranges(q[i]) PROVE x \in InQueue(r)
  BY <1>8, <1>10, <1>13 DEF InQueue
<1>14. ASSUME NEW x \in InQueue(r) PROVE 1 <= x /\ x <= n
  <2>1. CASE \E i \in 1 .. Len(q) : x \in Ranges(q[i])
    <3>1. PICK i \in 1 .. Len(q) : x \in Ranges(q[i]) BY <2>1
    <3>2. x \in Nat /\ q[i].lo <= x /\ x <= q[i].hi BY <3>1, <1>10
    <3>3. 2 <= q[i].lo /\ q[i].hi <= n /\ q[i].lo \in Nat /\ q[i].hi \in Nat BY <3>1, <1>9
    <3> QED BY <3>2, <3>3
  <2>2. CASE ~(\E i \in 1 .. Len(q) : x \in Ranges(q[i]))
    <3>1. x = 1 BY <2>2, <1>12, <1>14
    <3>2. PICK i \in 1 .. Len(r) : x \in Ranges(r[i]) BY <1>14 DEF InQueue
    <3>3. i \in 1 .. Len(o) /\ r[i] = o[i] BY <2>2, <3>2, <1>8
    <3>4. n # 0 BY <3>2, <3>3, <1>4
    <3> QED BY <3>1, <3>4
  <2> QED BY <2>1, <2>2
<1>15. n > 0 => 1 \in InQueue(r)
  <2> SUFFICES ASSUME n > 0 PROVE 1 \in InQueue(r) OBVIOUS
  <2>1. PICK i \in 1 .. Len(o) : 1 \in Ranges(o[i]) BY <1>4
  <2>2. i \in 1 .. Len(r) /\ 1 \in Ranges(r[i]) BY <2>1, <1>8
  <2> QED BY <2>2 DEF InQueue
<1>16. NoGap(r, {}, notice, n)
  <2>1. CASE q = <<>>
    <3>1. n <= 1 /\ 1 .. Len(q) = {} BY <2>1, <1>1, <1>2 DEF EntriesSound
    <3>2. \A x \in InQueue(r) : x = 1 BY <3>1, <1>12
    <3>3. \A x \in 2 .. n : FALSE BY <3>1
    <3>4. /\ 2 \in Nat /\ 2 <= 2
          /\ \A x \in {} \cup InQueue(r) : x = 1 \/ 2 <= x
          /\ \A x \in 2 .. n : x \in {} \cup InQueue(r)
      BY <3>2, <3>3
    <3> QED BY <3>4 DEF NoGap
  <2>2. CASE q # <<>>
    <3>1. 1 \in 1 .. Len(q) /\ Len(q) \in 1 .. Len(q) BY <2>2, <1>7, EmptySeq
    <3>2. PICK lo \in Nat : lo = q[1].lo BY <3>1, <1>9
    <3>3. /\ \A x \in lo .. n : \E i \in 1 .. Len(q) : x \in Ranges(q[i])
          /\ s.dropped \/ lo = 2
      BY <2>2, <1>1, <1>2, <3>2 DEF EntriesSound
    <3>4. 2 <= lo /\ lo <= n BY <3>1, <3>2, <1>9
    <3>5. s.dropped => Told(r, notice) BY <1>4, <1>8 DEF Told
    <3>6. ASSUME NEW i \in 1 .. Len(q), NEW x \in Ranges(q[i]) PROVE lo <= x
      <4>1. x \in Nat /\ q[i].lo <= x /\ q[i].lo \in Nat BY <3>6, <1>9, <1>10
      <4>2. lo <= q[i].lo
        <5>1. CASE i = 1 BY <5>1, <3>2
        <5>2. CASE i # 1
          <6>1. 1 < i BY <5>2
          <6>2. q[1].hi < q[i].lo /\ q[1].lo <= q[1].hi /\ q[1].hi \in Nat BY <3>1, <6>1, <1>9
          <6> QED BY <6>2, <3>2, <4>1
        <5> QED BY <5>1, <5>2
      <4> QED BY <4>1, <4>2
    <3>7. \A x \in InQueue(r) : x = 1 \/ lo <= x BY <3>6, <1>12
    <3>8. \A x \in lo .. n : x \in InQueue(r) BY <3>3, <1>13
    <3> QED BY <3>3, <3>4, <3>5, <3>7, <3>8 DEF NoGap
  <2> QED BY <2>1, <2>2
<1>17. ASSUME NEW i \in 1 .. Len(r), r[i].kind = "progress"
       PROVE  \A k \in 1 .. i : Ranges(r[k]) \subseteq {1}
  <2>1. i \in 1 .. Len(o)
    <3>1. \A k \in 1 .. Len(q) : q[k].kind # "progress" BY <1>9 DEF EventKinds
    <3> QED BY <3>1, <1>8, <1>17
  <2>2. \A k \in 1 .. i : k \in 1 .. Len(o) /\ r[k] = o[k] BY <2>1, <1>7, <1>8
  <2> QED BY <2>2, <1>4
<1>18. Unbroken(r, {}, notice, n) BY <1>11, <1>14, <1>15, <1>16, <1>17 DEF Unbroken
<1> QED BY <1>1, <1>6, <1>7, <1>18

-----------------------------------------------------------------------------
(* The steps of the turn. *)

\* What is put in the outbox is not turn_started, and nothing after Stop.
Puttable(evs) == evs \in Seq(Events) /\ \A i \in 1 .. Len(evs) : evs[i].kind # "turn_started"

LEMMA PutSound ==
    ASSUME turn \in TurnRows, stream \in StreamRows, OutboxSound, turn.pc # "over", NEW evs, Puttable(evs), NEW o, o = Put(evs)
    PROVE  /\ o \in Seq(Events) /\ (turn.stopping => o = <<>>)
           /\ stream.n = 0 /\ o # <<>> => o[1].kind = "turn_started"
           /\ stream.n = 0 => o # <<>> \/ turn.stopping
           /\ \A i \in 1 .. Len(o) : i > 1 \/ stream.n > 0 => o[i].kind # "turn_started"
<1>1. PICK q \in Seq(Events) : q = turn.outbox BY DEF TurnRows
<1>2. /\ turn.stopping => q = <<>>
      /\ stream.n = 0 /\ q # <<>> => q[1].kind = "turn_started"
      /\ stream.n = 0 => q # <<>> \/ turn.stopping
      /\ \A i \in 1 .. Len(q) : i > 1 \/ stream.n > 0 => q[i].kind # "turn_started"
  BY <1>1 DEF OutboxSound
<1>3. CASE turn.stopping
  <2>1. o = q BY <1>1, <1>3 DEF Put
  <2> QED BY <2>1, <1>2
<1>4. CASE ~turn.stopping
  <2>1. o = q \o evs BY <1>1, <1>4 DEF Put
  <2>2. evs \in Seq(Events) /\ \A i \in 1 .. Len(evs) : evs[i].kind # "turn_started" BY DEF Puttable
  <2>3. Len(q) \in Nat /\ Len(evs) \in Nat BY <2>2, LenProperties
  <2>4. /\ o \in Seq(Events) /\ Len(o) = Len(q) + Len(evs)
        /\ \A i \in 1 .. Len(q) + Len(evs) : o[i] = IF i <= Len(q) THEN q[i] ELSE evs[i - Len(q)]
    BY <2>1, <2>2, ConcatProperties
  <2>5. stream.n \in Nat BY DEF StreamRows
  <2>6. ASSUME stream.n = 0 PROVE o # <<>> /\ o[1].kind = "turn_started"
    <3>1. q # <<>> BY <2>6, <1>2, <1>4
    <3>2. Len(q) # 0 BY <3>1, EmptySeq
    <3>3. 1 \in 1 .. Len(q) + Len(evs) /\ 1 <= Len(q) BY <3>2, <2>3
    <3>4. o[1] = q[1] BY <3>3, <2>4
    <3>5. Len(o) # 0 BY <3>3, <2>3, <2>4
    <3>6. o # <<>> BY <3>5
    <3> QED BY <3>1, <3>4, <3>6, <2>6, <1>2
  <2>7. ASSUME NEW i \in 1 .. Len(o), i > 1 \/ stream.n > 0 PROVE o[i].kind # "turn_started"
    <3>1. i \in 1 .. Len(q) + Len(evs) BY <2>4
    <3>2. CASE i <= Len(q)
      <4>1. i \in 1 .. Len(q) /\ o[i] = q[i] BY <3>1, <3>2, <2>3, <2>4
      <4> QED BY <4>1, <2>7, <1>2
    <3>3. CASE ~(i <= Len(q))
      <4>1. i - Len(q) \in 1 .. Len(evs) /\ o[i] = evs[i - Len(q)] BY <3>1, <3>3, <2>3, <2>4
      <4> QED BY <4>1, <2>2
    <3> QED BY <3>2, <3>3
  <2> QED BY <2>4, <2>6, <2>7, <1>4
<1> QED BY <1>3, <1>4

LEMMA PlainIsPuttable ==
    ASSUME NEW kind \in EventKinds \ {"turn_started"}
    PROVE  Puttable(<<Plain(kind)>>)
<1>1. Plain(kind) \in Events /\ Plain(kind).kind = kind BY DEF Plain, Event, Events
<1>2. PICK e \in Events : e = Plain(kind) BY <1>1
<1>3. <<e>> \in Seq(Events) /\ Len(<<e>>) = 1 /\ <<e>>[1] = e OBVIOUS
<1> QED BY <1>1, <1>2, <1>3 DEF Puttable

\* The turn works on, and what its viewers are given stays.
LEMMA Working ==
    ASSUME TurnIInv, turn' \in TurnRows, turn.pc # "over", turn'.pc # "over", turn'.stopping = turn.stopping,
           NEW evs, Puttable(evs), turn'.outbox = Put(evs), inbox' \in InboxRows,
           UNCHANGED <<stream, conn, view, request>>
    PROVE  TurnIInv'
<1>1. TurnTypes' BY DEF TurnIInv, TurnTypes
<1>2. EntriesSound(stream.entries, stream.n, stream.dropped)' BY DEF TurnIInv
<1>3. PICK o : o = Put(evs) OBVIOUS
<1>4. turn \in TurnRows /\ stream \in StreamRows /\ OutboxSound BY DEF TurnIInv, TurnTypes
<1>5. /\ (turn.stopping => o = <<>>)
      /\ stream.n = 0 /\ o # <<>> => o[1].kind = "turn_started"
      /\ stream.n = 0 => o # <<>> \/ turn.stopping
      /\ \A i \in 1 .. Len(o) : i > 1 \/ stream.n > 0 => o[i].kind # "turn_started"
  BY <1>3, <1>4, PutSound
<1>6. turn'.outbox = o /\ stream' = stream BY <1>3
<1>7. OutboxSound' BY <1>5, <1>6 DEF OutboxSound
<1>8. ViewSound' BY DEF TurnIInv, ViewSound
<1> QED BY <1>1, <1>2, <1>7, <1>8 DEF TurnIInv

LEMMA WorkKeeps ==
    ASSUME TurnIInv, NEW kind \in {"token", "step"}, Work(kind)
    PROVE  TurnIInv'
<1>1. turn \in TurnRows /\ inbox \in InboxRows BY DEF TurnIInv, TurnTypes
<1>2. kind \in EventKinds \ {"turn_started"} BY DEF EventKinds
<1>3. PICK evs : evs = <<Plain(kind)>> OBVIOUS
<1>4. Puttable(evs) BY <1>2, <1>3, PlainIsPuttable
<1>5. Put(evs) \in Seq(Events) BY <1>4, PutSound DEF TurnIInv, TurnTypes, Work
<1>6. turn' = [turn EXCEPT !.work = turn.work + 1, !.outbox = Put(evs)] BY <1>3 DEF Work
<1>7. PICK o \in Seq(Events) : o = Put(evs) BY <1>5
<1>10. PICK w \in Nat : w = turn.work + 1 BY <1>1 DEF TurnRows
<1>8. turn' = [turn EXCEPT !.work = w, !.outbox = o] BY <1>6, <1>7, <1>10
<1>9. turn' \in TurnRows /\ turn'.outbox = o /\ turn'.pc = turn.pc /\ turn'.stopping = turn.stopping
  BY <1>1, <1>8 DEF TurnRows
<1> QED BY <1>1, <1>4, <1>7, <1>9, Working DEF Work

LEMMA ReadSteeringKeeps ==
    ASSUME TurnIInv, ReadSteering
    PROVE  TurnIInv'
<1>1. turn \in TurnRows /\ inbox \in InboxRows BY DEF TurnIInv, TurnTypes
<1>2. PICK q \in Seq(Messages) : q = inbox.messages BY <1>1 DEF InboxRows
<1>3. Len(q) \in Nat /\ DOMAIN q = 1 .. Len(q) /\ \A i \in 1 .. Len(q) : q[i] \in Messages
  BY LenProperties, ElementOfSeq
<1> DEFINE waiting == {i \in DOMAIN q : q[i] \notin inbox.applied}
           first == Min(waiting)
           fresh == SubSeq(q, first, Len(q))
           told == [i \in DOMAIN fresh |-> Event("steering_applied", fresh[i])]
<1>4. waiting # {}
  <2>1. PICK m \in Range(q) : m \notin inbox.applied BY <1>2 DEF ReadSteering, Unread
  <2>2. PICK i \in DOMAIN q : q[i] = m BY <2>1 DEF Range
  <2> QED BY <2>1, <2>2
<1>5. waiting \in SUBSET Nat BY <1>3
<1>6. first \in 1 .. Len(q)
  <2> HIDE DEF waiting
  <2>1. first \in waiting BY <1>4, <1>5, MinIsIn
  <2> QED BY <2>1, <1>3 DEF waiting
<1>7. turn' = [turn EXCEPT !.outbox = Put(told)] BY <1>2 DEF ReadSteering
<1>8. inbox' = [inbox EXCEPT !.applied = Range(q)] BY <1>2 DEF ReadSteering
<1> HIDE DEF waiting, first
<1>9. PICK a \in 1 .. Len(q) : a = first BY <1>6
<1>10. PICK f : f = fresh OBVIOUS
<1>11. f \in Seq(Messages)
  <2>1. \A i \in a .. Len(q) : q[i] \in Messages BY <1>3
  <2>2. a \in Int /\ Len(q) \in Int BY <1>3
  <2>3. f = SubSeq(q, a, Len(q)) BY <1>9, <1>10
  <2> QED BY <2>1, <2>2, <2>3, SubSeqProperties
<1>12. Len(f) \in Nat /\ DOMAIN f = 1 .. Len(f) /\ \A i \in 1 .. Len(f) : f[i] \in Messages
  BY <1>11, LenProperties, ElementOfSeq
<1>13. PICK t : t = [i \in 1 .. Len(f) |-> Event("steering_applied", f[i])] OBVIOUS
<1>14. told = t BY <1>10, <1>12, <1>13
<1>15. \A i \in 1 .. Len(f) : t[i] \in Events /\ t[i].kind = "steering_applied"
  BY <1>12, <1>13 DEF Event, Events, EventKinds
<1>16. t \in Seq(Events) /\ Len(t) = Len(f)
  <2>1. t \in [1 .. Len(f) -> Events] BY <1>13, <1>15
  <2> QED BY <2>1, <1>12, SeqDef, LenProperties
<1>17. Puttable(t) BY <1>15, <1>16 DEF Puttable
<1> HIDE DEF told, fresh
<1>18. Put(t) \in Seq(Events) BY <1>17, PutSound DEF TurnIInv, TurnTypes, ReadSteering
<1>19. PICK o \in Seq(Events) : o = Put(t) BY <1>18
<1>20. turn' = [turn EXCEPT !.outbox = o] BY <1>7, <1>14, <1>19
<1>21. turn' \in TurnRows /\ turn'.outbox = o /\ turn'.pc = turn.pc /\ turn'.stopping = turn.stopping
  BY <1>1, <1>20 DEF TurnRows
<1>22. inbox' \in InboxRows
  <2>1. Range(q) \in SUBSET Messages BY <1>3 DEF Range
  <2> QED BY <2>1, <1>1, <1>8 DEF InboxRows
<1> QED BY <1>17, <1>19, <1>21, <1>22, Working DEF ReadSteering

\* A stage of the turn that puts what is given in the outbox, or nothing.
LEMMA StageKeeps ==
    ASSUME TurnIInv, turn.pc # "over", NEW stage \in {"closing", "saving", "saved"},
           NEW saved \in SUBSET Messages, NEW failed \in BOOLEAN, NEW evs, Puttable(evs),
           turn' = [turn EXCEPT !.pc = stage, !.saved = saved, !.saveFailed = failed, !.outbox = Put(evs)],
           inbox' \in InboxRows, UNCHANGED <<stream, conn, view, request>>
    PROVE  TurnIInv'
<1>1. turn \in TurnRows BY DEF TurnIInv, TurnTypes
<1>2. Put(evs) \in Seq(Events) BY PutSound DEF TurnIInv, TurnTypes
<1>3. PICK o \in Seq(Events) : o = Put(evs) BY <1>2
<1>4. turn' = [turn EXCEPT !.pc = stage, !.saved = saved, !.saveFailed = failed, !.outbox = o] BY <1>3
<1>5. turn' \in TurnRows /\ turn'.outbox = o /\ turn'.pc = stage /\ turn'.stopping = turn.stopping
  BY <1>1, <1>4 DEF TurnRows
<1> QED BY <1>3, <1>5, Working

LEMMA NothingPut ==
    ASSUME turn \in TurnRows
    PROVE  Puttable(<<>>) /\ Put(<<>>) = turn.outbox
<1>1. PICK q \in Seq(Events) : q = turn.outbox BY DEF TurnRows
<1>2. q \o <<>> = q BY ConcatEmptySeq
<1>3. <<>> \in Seq(Events) /\ 1 .. Len(<<>>) = {} OBVIOUS
<1> QED BY <1>1, <1>2, <1>3 DEF Put, Puttable

LEMMA EndOfTheLoopKeeps ==
    ASSUME TurnIInv, AcceptAnswer \/ GiveUp \/ CloseInbox \/ Save \/ SaveFails
    PROVE  TurnIInv'
<1>1. turn \in TurnRows /\ inbox \in InboxRows BY DEF TurnIInv, TurnTypes
<1>2. PICK saved \in SUBSET Messages : saved = turn.saved BY <1>1 DEF TurnRows
<1>3. PICK failed \in BOOLEAN : failed = turn.saveFailed BY <1>1 DEF TurnRows
<1>4. PICK read \in SUBSET Messages : read = inbox.applied BY <1>1 DEF InboxRows
<1>5. Puttable(<<>>) /\ Put(<<>>) = turn.outbox BY <1>1, NothingPut
<1>6. CASE AcceptAnswer
  <2>1. turn' = [turn EXCEPT !.pc = "closing", !.saved = saved, !.saveFailed = failed, !.outbox = turn.outbox]
    BY <1>1, <1>2, <1>3, <1>6 DEF AcceptAnswer, TurnRows
  <2>2. turn' = [turn EXCEPT !.pc = "closing", !.saved = saved, !.saveFailed = failed, !.outbox = Put(<<>>)]
    BY <2>1, <1>5
  <2>3. turn.pc # "over" /\ inbox' \in InboxRows /\ UNCHANGED <<stream, conn, view, request>>
    BY <1>1, <1>6 DEF AcceptAnswer
  <2> QED BY <2>2, <2>3, <1>5, StageKeeps
<1>7. CASE GiveUp
  <2>1. PICK evs : evs = <<Plain("error")>> OBVIOUS
  <2>2. Puttable(evs)
    <3>1. "error" \in EventKinds \ {"turn_started"} BY DEF EventKinds
    <3> QED BY <2>1, <3>1, PlainIsPuttable
  <2>3. turn' = [turn EXCEPT !.pc = "closing", !.outbox = Put(evs)] BY <2>1, <1>7 DEF GiveUp
  <2>4. turn' = [turn EXCEPT !.pc = "closing", !.saved = saved, !.saveFailed = failed, !.outbox = Put(evs)]
    BY <1>1, <1>2, <1>3, <2>3 DEF TurnRows
  <2>5. turn.pc # "over" /\ inbox' \in InboxRows /\ UNCHANGED <<stream, conn, view, request>>
    BY <1>1, <1>7 DEF GiveUp
  <2> QED BY <2>2, <2>4, <2>5, StageKeeps
<1>8. CASE CloseInbox
  <2>1. turn' = [turn EXCEPT !.pc = "saving", !.saved = saved, !.saveFailed = failed, !.outbox = turn.outbox]
    BY <1>1, <1>2, <1>3, <1>8 DEF CloseInbox, TurnRows
  <2>2. turn' = [turn EXCEPT !.pc = "saving", !.saved = saved, !.saveFailed = failed, !.outbox = Put(<<>>)]
    BY <2>1, <1>5
  <2>3. inbox' \in InboxRows
    <3>1. inbox' = [inbox EXCEPT !.closed = TRUE] BY <1>8 DEF CloseInbox
    <3> QED BY <1>1, <3>1 DEF InboxRows
  <2>4. turn.pc # "over" /\ UNCHANGED <<stream, conn, view, request>> BY <1>8 DEF CloseInbox
  <2> QED BY <2>2, <2>3, <2>4, <1>5, StageKeeps
<1>9. CASE Save
  <2>1. PICK evs : evs = <<Plain("done")>> OBVIOUS
  <2>2. Puttable(evs)
    <3>1. "done" \in EventKinds \ {"turn_started"} BY DEF EventKinds
    <3> QED BY <2>1, <3>1, PlainIsPuttable
  <2>3. turn' = [turn EXCEPT !.pc = "saved", !.saved = read, !.outbox = Put(evs)] BY <2>1, <1>4, <1>9 DEF Save
  <2>4. turn' = [turn EXCEPT !.pc = "saved", !.saved = read, !.saveFailed = failed, !.outbox = Put(evs)]
    BY <1>1, <1>3, <2>3 DEF TurnRows
  <2>5. turn.pc # "over" /\ inbox' \in InboxRows /\ UNCHANGED <<stream, conn, view, request>> BY <1>1, <1>9 DEF Save
  <2> QED BY <2>2, <2>4, <2>5, StageKeeps
<1>10. CASE SaveFails
  <2>1. PICK evs : evs = <<Plain("error"), Plain("done")>> OBVIOUS
  <2>2. Puttable(evs)
    <3>1. /\ Plain("error") \in Events /\ Plain("error").kind = "error"
          /\ Plain("done") \in Events /\ Plain("done").kind = "done"
      BY DEF Plain, Event, Events, EventKinds
    <3>2. PICK a \in Events : a = Plain("error") BY <3>1
    <3>3. PICK b \in Events : b = Plain("done") BY <3>1
    <3>4. <<a, b>> \in Seq(Events) /\ Len(<<a, b>>) = 2 /\ <<a, b>>[1] = a /\ <<a, b>>[2] = b OBVIOUS
    <3>5. \A i \in 1 .. 2 : i = 1 \/ i = 2 OBVIOUS
    <3>6. evs = <<a, b>> BY <2>1, <3>2, <3>3
    <3>7. a.kind # "turn_started" /\ b.kind # "turn_started" BY <3>1, <3>2, <3>3
    <3> QED BY <3>4, <3>5, <3>6, <3>7 DEF Puttable
  <2>3. turn' = [turn EXCEPT !.pc = "saved", !.saveFailed = TRUE, !.outbox = Put(evs)] BY <2>1, <1>10 DEF SaveFails
  <2>4. PICK yes \in BOOLEAN : yes = TRUE OBVIOUS
  <2>5. turn' = [turn EXCEPT !.pc = "saved", !.saved = saved, !.saveFailed = yes, !.outbox = Put(evs)]
    BY <1>1, <1>2, <2>3, <2>4 DEF TurnRows
  <2>6. turn.pc # "over" /\ inbox' \in InboxRows /\ UNCHANGED <<stream, conn, view, request>> BY <1>1, <1>10 DEF SaveFails
  <2> QED BY <2>2, <2>5, <2>6, StageKeeps
<1> QED BY <1>6, <1>7, <1>8, <1>9, <1>10

\* An event goes to the subscriber, or cuts it off.
LEMMA DeliveredSound ==
    ASSUME conn \in ConnRows, view \in ViewRows, stream \in StreamRows, ViewSound, turn.pc # "over",
           NEW e \in Events, NEW r, r = Delivered(conn, Chunk(e, stream.n + 1, stream.n + 1))
    PROVE  /\ r \in ConnRows /\ r.open = conn.open /\ (r.subscribed => conn.subscribed)
           /\ r.open => \/ r.subscribed /\ Unbroken(r.queue, view.seen, view.notice, stream.n + 1)
                        \/ ~r.subscribed /\ CutOff(r.queue, view.seen, view.notice, stream.n + 1)
<1>1. PICK n \in Nat : n = stream.n BY DEF StreamRows
<1>2. PICK seen \in SUBSET Nat : seen = view.seen BY DEF ViewRows
<1>3. PICK notice \in BOOLEAN : notice = view.notice BY DEF ViewRows
<1>4. PICK q \in Seq(Chunks) : q = conn.queue BY DEF ConnRows
<1>5. PICK c : c = Chunk(e, n + 1, n + 1) OBVIOUS
<1>6. c \in Chunks /\ c.lo = n + 1 /\ c.hi = n + 1 /\ c.kind \in EventKinds
  <2>1. n + 1 \in Nat OBVIOUS
  <2> QED BY <2>1, <1>5, NewChunk
<1>7. conn.subscribed \in BOOLEAN /\ conn.open \in BOOLEAN BY DEF ConnRows
<1>8. CASE ~conn.subscribed
  <2>1. r = conn BY <1>8 DEF Delivered
  <2>2. conn.open => CutOff(q, seen, notice, n) BY <1>1, <1>2, <1>3, <1>4, <1>8 DEF ViewSound
  <2>3. CutOff(q, seen, notice, n) => CutOff(q, seen, notice, n + 1)
    <3> SUFFICES ASSUME CutOff(q, seen, notice, n) PROVE CutOff(q, seen, notice, n + 1) OBVIOUS
    <3>1. \A x \in seen : 1 <= x /\ x <= n + 1 BY DEF CutOff
    <3> QED BY <3>1 DEF CutOff
  <2> QED BY <2>1, <2>2, <2>3, <1>1, <1>2, <1>3, <1>4, <1>8
<1>9. CASE conn.subscribed /\ TotalSize(Append(q, c)) > MaxBacklog
  <2>1. conn.open /\ Unbroken(q, seen, notice, n) BY <1>1, <1>2, <1>3, <1>4, <1>9 DEF ViewSound
  <2>2. r = [conn EXCEPT !.subscribed = FALSE, !.queue = <<Notice("lagging"), Notice("None")>>]
    BY <1>1, <1>4, <1>5, <1>9 DEF Delivered
  <2>3. <<Notice("lagging"), Notice("None")>> \in Seq(Chunks)
    <3>1. Notice("lagging") \in Chunks /\ Notice("None") \in Chunks BY DEF Notice, Chunk, Plain, Event, Chunks
    <3>2. PICK a \in Chunks : a = Notice("lagging") BY <3>1
    <3>3. PICK b \in Chunks : b = Notice("None") BY <3>1
    <3>4. <<a, b>> \in Seq(Chunks) OBVIOUS
    <3> QED BY <3>2, <3>3, <3>4
  <2>4. PICK s \in Seq(Chunks) : s = <<Notice("lagging"), Notice("None")>> BY <2>3
  <2>5. r = [conn EXCEPT !.subscribed = FALSE, !.queue = s] BY <2>2, <2>4
  <2>6. r \in ConnRows /\ r.open = conn.open /\ ~r.subscribed /\ r.queue = s BY <2>5 DEF ConnRows
  <2>7. CutOff(s, seen, notice, n + 1)
    <3>1. /\ \A x \in seen : 1 <= x /\ x <= n
          /\ \A x, z \in seen \ {1} : x .. z \subseteq seen
          /\ seen \ {1} # {} => 2 \in seen \/ notice
      BY <2>1, SeenIsWhole
    <3>2. \A x \in seen : 1 <= x /\ x <= n + 1 BY <3>1
    <3> QED BY <2>4, <3>1, <3>2 DEF CutOff
  <2> QED BY <2>6, <2>7, <1>1, <1>2, <1>3, <1>7
<1>10. CASE conn.subscribed /\ ~(TotalSize(Append(q, c)) > MaxBacklog)
  <2>1. conn.open /\ Unbroken(q, seen, notice, n) BY <1>1, <1>2, <1>3, <1>4, <1>10 DEF ViewSound
  <2>2. r = [conn EXCEPT !.queue = Append(q, c)] BY <1>1, <1>4, <1>5, <1>10 DEF Delivered
  <2>3. Append(q, c) \in Seq(Chunks) /\ Unbroken(Append(q, c), seen, notice, n + 1) BY <2>1, <1>6, PublishedSound
  <2>4. PICK s \in Seq(Chunks) : s = Append(q, c) BY <2>3
  <2>5. r = [conn EXCEPT !.queue = s] BY <2>2, <2>4
  <2>6. r \in ConnRows /\ r.open = conn.open /\ r.subscribed = conn.subscribed /\ r.queue = s BY <2>5 DEF ConnRows
  <2> QED BY <2>3, <2>4, <2>6, <1>1, <1>2, <1>3, <1>10
<1> QED BY <1>8, <1>9, <1>10

LEMMA PublishKeeps ==
    ASSUME TurnIInv, Publish
    PROVE  TurnIInv'
<1>1. /\ turn \in TurnRows /\ inbox \in InboxRows /\ stream \in StreamRows
      /\ conn \in ConnRows /\ view \in ViewRows /\ request \in [Messages -> RequestRows]
      /\ EntriesSound(stream.entries, stream.n, stream.dropped) /\ OutboxSound /\ ViewSound
  BY DEF TurnIInv, TurnTypes
<1>2. PICK q \in Seq(Events) : q = turn.outbox BY <1>1 DEF TurnRows
<1>3. q # <<>> BY <1>2 DEF Publish
<1>4. PICK e : e = Head(q) OBVIOUS
<1>5. PICK rest : rest = Tail(q) OBVIOUS
<1>6. /\ e \in Events /\ e = q[1] /\ rest \in Seq(Events) /\ Len(rest) = Len(q) - 1 /\ Len(q) \in Nat
      /\ \A i \in 1 .. Len(rest) : rest[i] = q[i + 1]
  BY <1>3, <1>4, <1>5, HeadTailProperties, LenProperties
<1>7. /\ turn' = [turn EXCEPT !.outbox = rest] /\ stream' = Remember(stream, e)
      /\ conn' = Delivered(conn, Chunk(e, stream.n + 1, stream.n + 1))
      /\ UNCHANGED <<inbox, view, request>>
  BY <1>2, <1>4, <1>5 DEF Publish
<1>8. turn' \in TurnRows /\ turn'.outbox = rest /\ turn'.pc = turn.pc /\ turn'.stopping = turn.stopping
  BY <1>1, <1>6, <1>7 DEF TurnRows
<1>9. turn.pc # "over" /\ ~turn.stopping BY <1>1, <1>2, <1>3 DEF OutboxSound
<1>10. Len(q) # 0 /\ 1 \in 1 .. Len(q) BY <1>3, <1>6, EmptySeq
<1>11. stream.n = 0 <=> e.kind = "turn_started"
  <2>1. stream.n \in Nat BY <1>1 DEF StreamRows
  <2> QED BY <2>1, <1>1, <1>2, <1>3, <1>6, <1>10 DEF OutboxSound
<1>12. stream' \in StreamRows /\ stream'.n = stream.n + 1 /\ EntriesSound(stream'.entries, stream'.n, stream'.dropped)
  BY <1>1, <1>6, <1>7, <1>11, RememberSound
<1>13. /\ conn' \in ConnRows /\ conn'.open = conn.open /\ (conn'.subscribed => conn.subscribed)
       /\ conn'.open => \/ conn'.subscribed /\ Unbroken(conn'.queue, view.seen, view.notice, stream.n + 1)
                        \/ ~conn'.subscribed /\ CutOff(conn'.queue, view.seen, view.notice, stream.n + 1)
  BY <1>1, <1>6, <1>7, <1>9, DeliveredSound
<1>14. OutboxSound'
  <2>1. stream'.n \in Nat \ {0} BY <1>1, <1>12 DEF StreamRows
  <2>2. ASSUME NEW i \in 1 .. Len(rest) PROVE rest[i].kind # "turn_started"
    <3>1. i + 1 \in 1 .. Len(q) /\ i + 1 > 1 BY <1>6
    <3> QED BY <3>1, <1>1, <1>2, <1>6 DEF OutboxSound
  <2>3. ~(turn'.stopping \/ turn'.pc = "over") BY <1>8, <1>9
  <2> QED BY <2>1, <2>2, <2>3, <1>8 DEF OutboxSound
<1>15. ViewSound'
  <2>1. conn.subscribed => conn.open BY <1>1 DEF ViewSound
  <2>2. conn.open => view.pc = "streaming" BY <1>1 DEF ViewSound
  <2>3. view.pc \in {"away", "returning", "opening"} => view.seen = {} BY <1>1 DEF ViewSound
  <2>4. view' = view BY <1>7
  <2> QED BY <2>1, <2>2, <2>3, <2>4, <1>12, <1>13 DEF ViewSound
<1> QED BY <1>1, <1>7, <1>8, <1>12, <1>13, <1>14, <1>15 DEF TurnIInv, TurnTypes

LEMMA EndTurnKeeps ==
    ASSUME TurnIInv, EndTurn
    PROVE  TurnIInv'
<1>1. /\ turn \in TurnRows /\ inbox \in InboxRows /\ stream \in StreamRows
      /\ conn \in ConnRows /\ view \in ViewRows /\ request \in [Messages -> RequestRows]
      /\ EntriesSound(stream.entries, stream.n, stream.dropped) /\ OutboxSound /\ ViewSound
  BY DEF TurnIInv, TurnTypes
<1>2. /\ turn.pc = "saved" /\ turn.outbox = <<>>
      /\ turn'   = [turn EXCEPT !.pc = "over"]
      /\ inbox'  = [inbox EXCEPT !.closed = TRUE, !.registered = FALSE]
      /\ stream' = [stream EXCEPT !.closed = TRUE]
      /\ UNCHANGED <<view, request>>
  BY DEF EndTurn
<1>3. /\ turn' \in TurnRows /\ turn'.outbox = turn.outbox /\ turn'.pc = "over" /\ turn'.stopping = turn.stopping
  BY <1>1, <1>2 DEF TurnRows
<1>4. inbox' \in InboxRows BY <1>1, <1>2 DEF InboxRows
<1>5. stream' \in StreamRows /\ stream'.n = stream.n /\ stream'.entries = stream.entries /\ stream'.dropped = stream.dropped
  BY <1>1, <1>2 DEF StreamRows
<1>6. PICK n \in Nat : n = stream.n BY <1>1 DEF StreamRows
<1>7. PICK seen \in SUBSET Nat : seen = view.seen BY <1>1 DEF ViewRows
<1>8. PICK notice \in BOOLEAN : notice = view.notice BY <1>1 DEF ViewRows
<1>9. PICK q \in Seq(Chunks) : q = conn.queue BY <1>1 DEF ConnRows
<1>10. conn.subscribed => conn.open /\ Unbroken(q, seen, notice, n)
  BY <1>1, <1>2, <1>6, <1>7, <1>8, <1>9 DEF ViewSound
<1>11. /\ conn' \in ConnRows /\ ~conn'.subscribed /\ conn'.open = conn.open
       /\ conn.subscribed => Unbroken(conn'.queue, seen, notice, n)
       /\ ~conn.subscribed => conn'.queue = q
  <2>1. CASE ~conn.subscribed
    <3>1. conn' = conn BY <2>1 DEF EndTurn
    <3> QED BY <1>1, <1>9, <2>1, <3>1
  <2>2. CASE conn.subscribed
    <3>1. Append(q, Notice("None")) \in Seq(Chunks) /\ Unbroken(Append(q, Notice("None")), seen, notice, n)
      BY <2>2, <1>10, NoticeAppended
    <3>2. PICK s \in Seq(Chunks) : s = Append(q, Notice("None")) BY <3>1
    <3>3. conn' = [conn EXCEPT !.subscribed = FALSE, !.queue = s] BY <2>2, <1>9, <3>2 DEF EndTurn
    <3>4. conn' \in ConnRows /\ ~conn'.subscribed /\ conn'.open = conn.open /\ conn'.queue = s BY <1>1, <3>3 DEF ConnRows
    <3> QED BY <2>2, <3>1, <3>2, <3>4
  <2> QED BY <2>1, <2>2
<1>12. OutboxSound'
  <2>1. turn'.outbox = <<>> BY <1>2, <1>3
  <2>2. stream.n = 0 => turn.stopping BY <1>1, <1>2 DEF OutboxSound
  <2>3. 1 .. Len(<<>>) = {} OBVIOUS
  <2> QED BY <2>1, <2>2, <2>3, <1>3, <1>5 DEF OutboxSound
<1>13. ViewSound'
  <2>1. conn'.open => \/ Unbroken(conn'.queue, seen, notice, n) \/ CutOff(conn'.queue, seen, notice, n)
    <3>1. CASE conn.subscribed BY <3>1, <1>11
    <3>2. CASE ~conn.subscribed
      <4>1. conn.open => CutOff(q, seen, notice, n)
        BY <1>1, <1>2, <1>6, <1>7, <1>8, <1>9, <3>2 DEF ViewSound
      <4> QED BY <4>1, <3>2, <1>11
    <3> QED BY <3>1, <3>2
  <2>2. conn.open => view.pc = "streaming" BY <1>1 DEF ViewSound
  <2>3. view.pc \in {"away", "returning", "opening"} => view.seen = {} BY <1>1 DEF ViewSound
  <2>4. view' = view /\ turn'.pc = "over" /\ ~conn'.subscribed /\ conn'.open = conn.open /\ stream'.n = n
    BY <1>2, <1>3, <1>5, <1>6, <1>11
  <2>5. conn'.open => \/ Unbroken(conn'.queue, view'.seen, view'.notice, stream'.n)
                      \/ CutOff(conn'.queue, view'.seen, view'.notice, stream'.n)
    BY <2>1, <2>4, <1>7, <1>8
  <2> QED BY <2>2, <2>3, <2>4, <2>5 DEF ViewSound
<1> QED BY <1>1, <1>2, <1>3, <1>4, <1>5, <1>11, <1>12, <1>13 DEF TurnIInv, TurnTypes

\* A turn that is told to stop publishes nothing more.
LEMMA StopKeeps ==
    ASSUME TurnIInv, StopArrives \/ StopElsewhere \/ StopIsLost
    PROVE  TurnIInv'
<1>1. /\ turn \in TurnRows /\ inbox \in InboxRows /\ stream \in StreamRows
      /\ conn \in ConnRows /\ view \in ViewRows /\ request \in [Messages -> RequestRows]
      /\ EntriesSound(stream.entries, stream.n, stream.dropped) /\ OutboxSound /\ ViewSound
  BY DEF TurnIInv, TurnTypes
<1>2. UNCHANGED <<inbox, stream, conn, request>> BY DEF StopArrives, StopElsewhere, StopIsLost
<1>3. /\ view' \in ViewRows /\ view'.pc = view.pc /\ view'.seen = view.seen /\ view'.notice = view.notice
  <2>1. view' = view \/ view' = [view EXCEPT !.stop = FALSE] BY DEF StopArrives, StopElsewhere, StopIsLost
  <2> QED BY <1>1, <2>1 DEF ViewRows
<1>4. turn' = turn \/ turn' = Stopped BY DEF StopArrives, StopElsewhere, StopIsLost
<1>5. CASE turn' = turn
  <2>1. ViewSound' BY <1>1, <1>2, <1>3, <1>5 DEF ViewSound
  <2>2. OutboxSound' BY <1>1, <1>2, <1>5 DEF OutboxSound
  <2> QED BY <2>1, <2>2, <1>1, <1>2, <1>3, <1>5 DEF TurnIInv, TurnTypes
<1>6. CASE turn' = Stopped /\ turn.pc # "over"
  <2>1. <<>> \in Seq(Events) OBVIOUS
  <2>2. PICK none \in Seq(Events) : none = <<>> BY <2>1
  <2>3. PICK pc \in {"closing", "saving", "saved"} : pc = IF turn.pc = "working" THEN "closing" ELSE turn.pc
    BY <1>1, <1>6 DEF TurnRows
  <2>4. turn' = [turn EXCEPT !.pc = pc, !.stopping = TRUE, !.outbox = none] BY <1>6, <2>2, <2>3 DEF Stopped
  <2>5. turn' \in TurnRows /\ turn'.pc = pc /\ turn'.stopping /\ turn'.outbox = none BY <1>1, <2>4 DEF TurnRows
  <2>6. OutboxSound'
    <3>1. turn'.outbox = <<>> /\ turn'.stopping BY <2>2, <2>5
    <3>2. 1 .. Len(<<>>) = {} OBVIOUS
    <3> QED BY <3>1, <3>2 DEF OutboxSound
  <2>7. ViewSound' BY <1>1, <1>2, <1>3, <1>6, <2>5 DEF ViewSound
  <2> QED BY <2>5, <2>6, <2>7, <1>1, <1>2, <1>3 DEF TurnIInv, TurnTypes
<1>7. CASE turn' = Stopped /\ turn.pc = "over" BY <1>5, <1>7 DEF Stopped
<1> QED BY <1>4, <1>5, <1>6, <1>7

-----------------------------------------------------------------------------
(* The steps of the window. *)

\* The view closes its response, or has none, and keeps what it saw only while it follows.
Apart(v, c) ==
    /\ v \in ViewRows /\ c \in ConnRows /\ ~c.open /\ ~c.subscribed
    /\ v.pc \in {"away", "returning", "opening"} => v.seen = {}

LEMMA NoConnIsApart ==
    NoConn \in ConnRows /\ ~NoConn.open /\ ~NoConn.subscribed
<1>1. <<>> \in Seq(Chunks) OBVIOUS
<1> QED BY <1>1 DEF NoConn, ConnRows

LEMMA ApartKeeps ==
    ASSUME TurnIInv, Apart(view', conn'), request' \in [Messages -> RequestRows], UNCHANGED <<turn, inbox, stream>>
    PROVE  TurnIInv'
<1>1. TurnTypes' BY DEF TurnIInv, TurnTypes, Apart
<1>2. EntriesSound(stream.entries, stream.n, stream.dropped)' /\ OutboxSound' BY DEF TurnIInv, OutboxSound
<1>3. ViewSound' BY DEF Apart, ViewSound
<1> QED BY <1>1, <1>2, <1>3 DEF TurnIInv

\* Only what the view does not show changes.
LEMMA AsideKeeps ==
    ASSUME TurnIInv, view' \in ViewRows, view'.pc = view.pc, view'.seen = view.seen, view'.notice = view.notice,
           request' \in [Messages -> RequestRows], inbox' \in InboxRows, UNCHANGED <<turn, stream, conn>>
    PROVE  TurnIInv'
<1>1. TurnTypes' BY DEF TurnIInv, TurnTypes
<1>2. EntriesSound(stream.entries, stream.n, stream.dropped)' /\ OutboxSound' BY DEF TurnIInv, OutboxSound
<1>3. ViewSound' BY DEF TurnIInv, ViewSound
<1> QED BY <1>1, <1>2, <1>3 DEF TurnIInv

\* Without a response a view that is not streaming stays so.
LEMMA NotStreaming ==
    ASSUME TurnIInv, view.pc # "streaming"
    PROVE  conn \in ConnRows /\ ~conn.open /\ ~conn.subscribed
BY DEF TurnIInv, TurnTypes, ViewSound

\* A chunk shown: the view goes on with what it covers, or ends.
LEMMA ShownFacts ==
    ASSUME view \in ViewRows, view.pc = "streaming", NEW c \in Chunks, NEW v, v = Shown(c)
    PROVE  /\ v \in ViewRows /\ v.pc \in {"streaming", "ended"} /\ v.seen = view.seen \cup Ranges(c)
           /\ v.notice <=> view.notice \/ c.kind = "progress"
           /\ v.pc = "streaming" => c.kind \in EventKinds \cup {"progress"}
<1>1. PICK seen \in SUBSET Nat : seen = view.seen \cup Ranges(c)
  <2>1. Ranges(c) \in SUBSET Nat BY RangeFacts
  <2>2. view.seen \in SUBSET Nat BY DEF ViewRows
  <2> QED BY <2>1, <2>2
<1>2. PICK w : w = [view EXCEPT !.seen = seen] OBVIOUS
<1>3. w \in ViewRows /\ w.seen = seen /\ w.pc = "streaming" /\ w.notice = view.notice /\ w.returns = view.returns
  BY <1>2 DEF ViewRows
<1>4. c.msg \in Messages \cup {"none"} /\ c.kind \in EventKinds \cup {"progress", "lagging", "None"} BY DEF Chunks
<1>5. CASE c.kind = "turn_started"
  <2>1. v = [w EXCEPT !.target = w.returns + 1] BY <1>1, <1>2, <1>5 DEF Shown
  <2>2. PICK t \in Nat : t = w.returns + 1 BY <1>3 DEF ViewRows
  <2>3. v = [w EXCEPT !.target = t] BY <2>1, <2>2
  <2>4. v \in ViewRows /\ v.seen = seen /\ v.pc = "streaming" /\ v.notice = w.notice BY <1>3, <2>3 DEF ViewRows
  <2> QED BY <2>4, <1>1, <1>3, <1>5 DEF EventKinds
<1>6. CASE c.kind = "progress"
  <2>1. v = [w EXCEPT !.notice = TRUE] BY <1>1, <1>2, <1>6 DEF Shown
  <2>2. v \in ViewRows /\ v.seen = seen /\ v.pc = "streaming" /\ v.notice BY <1>3, <2>1 DEF ViewRows
  <2> QED BY <2>2, <1>1, <1>6
<1>7. CASE c.kind = "steering_applied"
  <2>1. v = [w EXCEPT !.pending = w.pending \ {c.msg}, !.applied = w.applied \cup {c.msg}]
    BY <1>1, <1>2, <1>7 DEF Shown
  <2>2. PICK pending \in SUBSET Messages : pending = w.pending \ {c.msg} BY <1>3 DEF ViewRows
  <2>3. PICK applied \in SUBSET (Messages \cup {"none"}) : applied = w.applied \cup {c.msg} BY <1>3, <1>4 DEF ViewRows
  <2>4. v = [w EXCEPT !.pending = pending, !.applied = applied] BY <2>1, <2>2, <2>3
  <2>5. v \in ViewRows /\ v.seen = seen /\ v.pc = "streaming" /\ v.notice = w.notice BY <1>3, <2>4, ZenonT(30) DEF ViewRows
  <2> QED BY <2>5, <1>1, <1>3, <1>7 DEF EventKinds
<1>8. CASE c.kind \in {"token", "step"}
  <2>1. v = w BY <1>1, <1>2, <1>8 DEF Shown
  <2> QED BY <2>1, <1>1, <1>3, <1>8 DEF EventKinds
<1>9. CASE c.kind \in {"error", "done", "lagging", "None"}
  <2>1. v = Ended(w) BY <1>1, <1>2, <1>9 DEF Shown
  <2>2. PICK queue \in SUBSET Messages : queue = w.queue \cup w.pending BY <1>3 DEF ViewRows
  <2>3. v = [w EXCEPT !.pc = "ended", !.queue = queue, !.pending = {}] BY <2>1, <2>2 DEF Ended
  <2>4. v \in ViewRows /\ v.seen = seen /\ v.pc = "ended" /\ v.notice = w.notice BY <1>3, <2>3 DEF ViewRows
  <2> QED BY <2>4, <1>1, <1>3, <1>9
<1> QED BY <1>4, <1>5, <1>6, <1>7, <1>8, <1>9 DEF EventKinds

LEMMA ReceiveKeeps ==
    ASSUME TurnIInv, Receive
    PROVE  TurnIInv'
<1>1. /\ stream \in StreamRows /\ conn \in ConnRows /\ view \in ViewRows /\ request \in [Messages -> RequestRows]
      /\ ViewSound
  BY DEF TurnIInv, TurnTypes
<1>2. PICK n \in Nat : n = stream.n BY <1>1 DEF StreamRows
<1>3. PICK seen \in SUBSET Nat : seen = view.seen BY <1>1 DEF ViewRows
<1>4. PICK notice \in BOOLEAN : notice = view.notice BY <1>1 DEF ViewRows
<1>5. PICK q \in Seq(Chunks) : q = conn.queue BY <1>1 DEF ConnRows
<1>6. /\ view.pc = "streaming" /\ conn.open /\ q # <<>> /\ view' = Shown(Head(q))
      /\ conn' = IF view'.pc = "ended" THEN NoConn ELSE [conn EXCEPT !.queue = Tail(q)]
      /\ UNCHANGED <<turn, inbox, stream, request>>
  BY <1>5 DEF Receive
<1>7. PICK c \in Chunks : c = Head(q) BY <1>6, HeadTailProperties
<1>8. /\ view' \in ViewRows /\ view'.pc \in {"streaming", "ended"} /\ view'.seen = seen \cup Ranges(c)
      /\ view'.notice <=> notice \/ c.kind = "progress"
      /\ view'.pc = "streaming" => c.kind \in EventKinds \cup {"progress"}
  <2>1. view' = Shown(c) BY <1>6, <1>7
  <2> QED BY <2>1, <1>1, <1>3, <1>4, <1>6, ShownFacts
<1>9. CASE view'.pc = "ended"
  <2>1. Apart(view', conn') BY <1>6, <1>8, <1>9, NoConnIsApart DEF Apart
  <2> QED BY <2>1, <1>1, <1>6, ApartKeeps
<1>10. CASE view'.pc = "streaming"
  <2>1. ~CutOff(q, seen, notice, n)
    <3>1. c.kind # "lagging" BY <1>8, <1>10 DEF EventKinds
    <3>2. q = <<Notice("lagging"), Notice("None")>> => Head(q).kind = "lagging" BY DEF Notice, Chunk, Plain, Event
    <3> QED BY <3>1, <3>2, <1>7 DEF CutOff
  <2>2. Unbroken(q, seen, notice, n) BY <2>1, <1>1, <1>2, <1>3, <1>4, <1>5, <1>6 DEF ViewSound
  <2>3. PICK after \in SUBSET Nat : after = seen \cup Ranges(Head(q)) /\ after = view'.seen
    <3>1. view'.seen \in SUBSET Nat BY <1>8 DEF ViewRows
    <3> QED BY <3>1, <1>7, <1>8
  <2>4. PICK known \in BOOLEAN : known = view'.notice BY <1>8 DEF ViewRows
  <2>5. notice \/ Head(q).kind = "progress" => known BY <2>4, <1>7, <1>8
  <2>6. Tail(q) \in Seq(Chunks) /\ Unbroken(Tail(q), after, known, n) BY <1>6, <2>2, <2>3, <2>5, ReceivedSound
  <2>7. PICK s \in Seq(Chunks) : s = Tail(q) BY <2>6
  <2>8. conn' = [conn EXCEPT !.queue = s] BY <1>6, <1>10, <2>7
  <2>9. /\ conn' \in ConnRows /\ conn'.open = conn.open /\ conn'.subscribed = conn.subscribed
        /\ conn'.queue = s
    BY <1>1, <2>8 DEF ConnRows
  <2>10. conn.subscribed \/ turn.pc = "over"
    BY <2>1, <1>1, <1>2, <1>3, <1>4, <1>5, <1>6 DEF ViewSound
  <2>11. ViewSound'
    <3>1. Unbroken(conn'.queue, view'.seen, view'.notice, stream'.n) BY <2>3, <2>4, <2>6, <2>7, <2>9, <1>2, <1>6
    <3>2. conn'.subscribed => conn'.open BY <2>9, <1>6
    <3>3. (conn'.subscribed \/ turn'.pc = "over") BY <2>9, <2>10, <1>6
    <3> QED BY <3>1, <3>2, <3>3, <1>10 DEF ViewSound
  <2>12. TurnTypes' BY <1>6, <1>8, <2>9 DEF TurnIInv, TurnTypes
  <2>13. EntriesSound(stream.entries, stream.n, stream.dropped)' /\ OutboxSound' BY <1>6 DEF TurnIInv, OutboxSound
  <2> QED BY <2>11, <2>12, <2>13 DEF TurnIInv
<1> QED BY <1>8, <1>9, <1>10

LEMMA EndedFacts ==
    ASSUME view \in ViewRows
    PROVE  Ended(view) \in ViewRows /\ Ended(view).pc = "ended"
<1>1. PICK queue \in SUBSET Messages : queue = view.queue \cup view.pending BY DEF ViewRows
<1>2. Ended(view) = [view EXCEPT !.pc = "ended", !.queue = queue, !.pending = {}] BY <1>1 DEF Ended
<1> QED BY <1>2 DEF ViewRows

LEMMA LettingGoKeeps ==
    ASSUME TurnIInv, LoseConnection \/ StopStreaming \/ LeaveChat
    PROVE  TurnIInv'
<1>1. view \in ViewRows /\ request \in [Messages -> RequestRows] BY DEF TurnIInv, TurnTypes
<1>2. conn' = NoConn /\ UNCHANGED <<turn, inbox, stream, request>> BY DEF LoseConnection, StopStreaming, LeaveChat
<1>3. PICK w \in ViewRows : w = Ended(view) /\ w.pc = "ended" BY <1>1, EndedFacts
<1>4. CASE LoseConnection
  <2>1. view' = [w EXCEPT !.seen = {}] BY <1>3, <1>4 DEF LoseConnection
  <2>2. view' \in ViewRows /\ view'.seen = {} BY <2>1 DEF ViewRows
  <2>3. Apart(view', conn') BY <2>2, <1>2, NoConnIsApart DEF Apart
  <2> QED BY <2>3, <1>1, <1>2, ApartKeeps
<1>5. CASE StopStreaming
  <2>1. view' = [w EXCEPT !.stop = TRUE, !.target = 0, !.seen = {}] BY <1>3, <1>5 DEF StopStreaming
  <2>2. view' \in ViewRows /\ view'.seen = {} BY <2>1 DEF ViewRows
  <2>3. Apart(view', conn') BY <2>2, <1>2, NoConnIsApart DEF Apart
  <2> QED BY <2>3, <1>1, <1>2, ApartKeeps
<1>6. CASE LeaveChat
  <2>1. PICK left \in SUBSET Messages : left = view.left \cup view.pending BY <1>1 DEF ViewRows
  <2>2. view' = [view EXCEPT !.pc = "away", !.target = 0, !.left = left, !.pending = {},
                             !.applied = {}, !.seen = {}, !.notice = FALSE]
    BY <1>6, <2>1 DEF LeaveChat
  <2>3. view' \in ViewRows /\ view'.seen = {} BY <1>1, <2>2 DEF ViewRows
  <2>4. Apart(view', conn') BY <2>3, <1>2, NoConnIsApart DEF Apart
  <2> QED BY <2>4, <1>1, <1>2, ApartKeeps
<1> QED BY <1>4, <1>5, <1>6

LEMMA ReturningKeeps ==
    ASSUME TurnIInv, Reopen \/ ListRuns \/ NextTurn
    PROVE  TurnIInv'
<1>1. view \in ViewRows /\ request \in [Messages -> RequestRows] /\ ViewSound BY DEF TurnIInv, TurnTypes
<1>2. UNCHANGED <<turn, inbox, stream, conn, request>> /\ view.pc # "streaming"
  BY DEF Reopen, ListRuns, NextTurn
<1>3. conn \in ConnRows /\ ~conn.open /\ ~conn.subscribed BY <1>2, NotStreaming
<1>4. view' \in ViewRows /\ (view'.pc \in {"away", "returning", "opening"} => view'.seen = {})
  <2>1. CASE Reopen
    <3>1. PICK k \in Nat : k = view.returns + 1 BY <1>1 DEF ViewRows
    <3>2. view' = [view EXCEPT !.pc = "returning", !.returns = k] BY <2>1, <3>1 DEF Reopen
    <3>3. view.seen = {} BY <1>1, <2>1 DEF Reopen, ViewSound
    <3> QED BY <1>1, <3>2, <3>3 DEF ViewRows
  <2>2. CASE ListRuns
    <3>1. PICK pc \in {"opening", "ended"} : view' = [view EXCEPT !.pc = pc] BY <2>2 DEF ListRuns
    <3>2. view.seen = {} BY <1>1, <2>2 DEF ListRuns, ViewSound
    <3> QED BY <1>1, <3>1, <3>2 DEF ViewRows
  <2>3. CASE NextTurn
    <3>1. view' = [view EXCEPT !.pc = "next", !.target = 0, !.pending = {}, !.applied = {}] BY <2>3 DEF NextTurn
    <3>2. view' \in ViewRows /\ view'.pc = "next" BY <1>1, <3>1 DEF ViewRows
    <3> QED BY <3>2
  <2> QED BY <2>1, <2>2, <2>3
<1>5. Apart(view', conn') BY <1>2, <1>3, <1>4 DEF Apart
<1> QED BY <1>1, <1>2, <1>5, ApartKeeps

LEMMA FollowKeeps ==
    ASSUME TurnIInv, Follow
    PROVE  TurnIInv'
<1>1. /\ stream \in StreamRows /\ conn \in ConnRows /\ view \in ViewRows /\ request \in [Messages -> RequestRows]
      /\ ViewSound /\ EntriesSound(stream.entries, stream.n, stream.dropped)
  BY DEF TurnIInv, TurnTypes
<1>2. view.pc = "opening" /\ view.seen = {} /\ UNCHANGED <<turn, inbox, stream, request>> BY <1>1 DEF Follow, ViewSound
<1>3. CASE inbox.registered
  <2>1. view' = [view EXCEPT !.pc = "streaming"] /\ conn' = Subscribed(stream) BY <1>3 DEF Follow
  <2>2. view' \in ViewRows /\ view'.pc = "streaming" /\ view'.seen = {} /\ view'.notice = view.notice
    BY <1>1, <1>2, <2>1 DEF ViewRows
  <2>3. PICK notice \in BOOLEAN : notice = view.notice BY <1>1 DEF ViewRows
  <2>4. Replay(stream) \in Seq(Chunks) /\ Unbroken(Replay(stream), {}, notice, stream.n) BY <1>1, ReplaySound
  <2>5. PICK q \in Seq(Chunks) : q = Replay(stream) BY <2>4
  <2>6. conn' \in ConnRows /\ conn'.open /\ conn'.subscribed /\ conn'.queue = q
    <3>1. conn' = [open |-> TRUE, subscribed |-> TRUE, queue |-> q] BY <2>1, <2>5 DEF Subscribed
    <3> QED BY <3>1 DEF ConnRows
  <2>7. Unbroken(conn'.queue, view'.seen, view'.notice, stream'.n) BY <2>2, <2>3, <2>4, <2>5, <2>6, <1>2
  <2>8. ViewSound' BY <2>2, <2>6, <2>7 DEF ViewSound
  <2>9. TurnTypes' BY <2>2, <2>6, <1>2 DEF TurnIInv, TurnTypes
  <2>10. EntriesSound(stream.entries, stream.n, stream.dropped)' /\ OutboxSound' BY <1>2 DEF TurnIInv, OutboxSound
  <2> QED BY <2>8, <2>9, <2>10 DEF TurnIInv
<1>4. CASE ~inbox.registered
  <2>1. view' = [view EXCEPT !.pc = "ended"] /\ conn' = conn BY <1>4 DEF Follow
  <2>2. view' \in ViewRows /\ view'.pc = "ended" BY <1>1, <2>1 DEF ViewRows
  <2>3. conn \in ConnRows /\ ~conn.open /\ ~conn.subscribed BY <1>2, NotStreaming
  <2>4. Apart(view', conn') BY <2>1, <2>2, <2>3 DEF Apart
  <2> QED BY <2>4, <1>1, <1>2, ApartKeeps
<1> QED BY <1>3, <1>4

\* A steering message concerns the queue, the drafts and what is pending.
LEMMA QueuedFacts ==
    ASSUME view \in ViewRows, NEW m \in Messages, NEW v, v = Queued(view, m)
    PROVE  v \in ViewRows /\ v.pc = view.pc /\ v.seen = view.seen /\ v.notice = view.notice
<1>1. PICK s \in SUBSET Messages : s = view.elsewhere \cup {m} BY DEF ViewRows
<1>2. PICK t \in SUBSET Messages : t = view.queue \cup {m} BY DEF ViewRows
<1>3. v = [view EXCEPT !.elsewhere = s] \/ v = [view EXCEPT !.queue = t] BY <1>1, <1>2 DEF Queued
<1> QED BY <1>3 DEF ViewRows

LEMMA RequestMoves ==
    ASSUME request \in [Messages -> RequestRows], NEW m \in Messages,
           NEW at \in {"sent", "queued", "refused", "settled"}, NEW r, r = [request EXCEPT ![m].at = at]
    PROVE  r \in [Messages -> RequestRows]
<1>1. PICK row \in RequestRows : row = request[m] OBVIOUS
<1>2. [row EXCEPT !.at = at] \in RequestRows BY DEF RequestRows
<1>3. PICK new \in RequestRows : new = [request[m] EXCEPT !.at = at] BY <1>1, <1>2
<1>4. r = [request EXCEPT ![m] = new] BY <1>3
<1> QED BY <1>4

LEMMA SteerKeeps ==
    ASSUME TurnIInv, NEW m \in Messages, Steer(m)
    PROVE  TurnIInv'
<1>1. view \in ViewRows /\ inbox \in InboxRows /\ request \in [Messages -> RequestRows] BY DEF TurnIInv, TurnTypes
<1>2. UNCHANGED <<turn, inbox, stream, conn>> BY DEF Steer
<1>3. CASE view.target # 0
  <2>1. request' = [request EXCEPT ![m] = [at |-> "sent", view |-> view.target]] /\ view' = view
    BY <1>3 DEF Steer
  <2>2. [at |-> "sent", view |-> view.target] \in RequestRows BY <1>1 DEF RequestRows, ViewRows
  <2>3. PICK row \in RequestRows : row = [at |-> "sent", view |-> view.target] BY <2>2
  <2>4. request' \in [Messages -> RequestRows] BY <1>1, <2>1, <2>3
  <2> QED BY <2>1, <2>4, <1>1, <1>2, AsideKeeps
<1>4. CASE ~(view.target # 0)
  <2>1. request' = [request EXCEPT ![m].at = "settled"] /\ view' = Queued(view, m) BY <1>4 DEF Steer
  <2>2. request' \in [Messages -> RequestRows] BY <2>1, <1>1, RequestMoves
  <2>3. view' \in ViewRows /\ view'.pc = view.pc /\ view'.seen = view.seen /\ view'.notice = view.notice
    BY <2>1, <1>1, QueuedFacts
  <2> QED BY <2>2, <2>3, <1>1, <1>2, AsideKeeps
<1> QED BY <1>3, <1>4

LEMMA SteerArrivesKeeps ==
    ASSUME TurnIInv, NEW m \in Messages, SteerArrives(m)
    PROVE  TurnIInv'
<1>1. view \in ViewRows /\ inbox \in InboxRows /\ request \in [Messages -> RequestRows] BY DEF TurnIInv, TurnTypes
<1>2. UNCHANGED <<turn, stream, conn, view>> BY DEF SteerArrives
<1>3. PICK at \in {"queued", "refused"} : request' = [request EXCEPT ![m].at = at] BY DEF SteerArrives
<1>4. request' \in [Messages -> RequestRows] BY <1>1, <1>3, RequestMoves
<1>5. inbox' \in InboxRows
  <2>1. PICK q \in Seq(Messages) : q = Append(inbox.messages, m)
    <3>1. PICK p \in Seq(Messages) : p = inbox.messages BY <1>1 DEF InboxRows
    <3>2. Append(p, m) \in Seq(Messages) BY AppendProperties
    <3> QED BY <3>1, <3>2
  <2>2. inbox' = inbox \/ inbox' = [inbox EXCEPT !.messages = q] BY <2>1 DEF SteerArrives
  <2> QED BY <2>2, <1>1 DEF InboxRows
<1> QED BY <1>1, <1>2, <1>4, <1>5, AsideKeeps

LEMMA SteerEndsKeeps ==
    ASSUME TurnIInv, NEW m \in Messages, SteerFails(m) \/ SteerAnswered(m)
    PROVE  TurnIInv'
<1>1. view \in ViewRows /\ inbox \in InboxRows /\ request \in [Messages -> RequestRows] BY DEF TurnIInv, TurnTypes
<1>2. UNCHANGED <<turn, inbox, stream, conn>> /\ request' = [request EXCEPT ![m].at = "settled"]
  BY DEF SteerFails, SteerAnswered
<1>3. request' \in [Messages -> RequestRows] BY <1>1, <1>2, RequestMoves
<1>4. PICK kept \in SUBSET Messages : kept = view.kept \cup {m} BY <1>1 DEF ViewRows
<1>5. PICK pending \in SUBSET Messages : pending = view.pending \cup {m} BY <1>1 DEF ViewRows
<1>6. \/ view' = [view EXCEPT !.kept = kept] \/ view' = [view EXCEPT !.pending = pending]
      \/ view' = view \/ view' = Queued(view, m)
  <2>1. CASE SteerFails(m) BY <2>1, <1>4 DEF SteerFails
  <2>2. CASE SteerAnswered(m)
    <3>1. view' = Answered(view, m) BY <2>2 DEF SteerAnswered
    <3> QED BY <3>1, <1>4, <1>5 DEF Answered
  <2> QED BY <2>1, <2>2
<1>7. view' \in ViewRows /\ view'.pc = view.pc /\ view'.seen = view.seen /\ view'.notice = view.notice
  <2>1. CASE view' = Queued(view, m) BY <2>1, <1>1, QueuedFacts
  <2>2. CASE view' = [view EXCEPT !.kept = kept] BY <2>2, <1>1 DEF ViewRows
  <2>3. CASE view' = [view EXCEPT !.pending = pending] BY <2>3, <1>1 DEF ViewRows
  <2> QED BY <2>1, <2>2, <2>3, <1>1, <1>6
<1> QED BY <1>1, <1>2, <1>3, <1>7, AsideKeeps

-----------------------------------------------------------------------------
(* The theorem. *)

LEMMA TurnInit ==
    ASSUME StreamInit
    PROVE  TurnIInv
<1>1. turn \in TurnRows /\ turn.outbox = <<Plain("turn_started")>> /\ ~turn.stopping /\ turn.pc = "working"
  <2>1. Plain("turn_started") \in Events BY DEF Plain, Event, Events, EventKinds
  <2>2. PICK e \in Events : e = Plain("turn_started") BY <2>1
  <2>3. <<e>> \in Seq(Events) OBVIOUS
  <2>4. PICK o \in Seq(Events) : o = <<Plain("turn_started")>> BY <2>2, <2>3
  <2>5. turn = [pc |-> "working", work |-> 0, outbox |-> o, stopping |-> FALSE, saved |-> {}, saveFailed |-> FALSE]
    BY <2>4 DEF StreamInit, NewTurn
  <2> QED BY <2>4, <2>5 DEF TurnRows
<1>2. inbox \in InboxRows
  <2>1. <<>> \in Seq(Messages) OBVIOUS
  <2> QED BY <2>1 DEF StreamInit, InboxRows
<1>3. stream = NoStream /\ stream \in StreamRows /\ stream.n = 0 /\ stream.entries = <<>>
  <2>1. <<>> \in Seq(Chunks) OBVIOUS
  <2> QED BY <2>1 DEF StreamInit, NoStream, StreamRows
<1>4. EntriesSound(stream.entries, stream.n, stream.dropped)
  <2>1. 1 .. Len(<<>>) = {} OBVIOUS
  <2> QED BY <2>1, <1>3 DEF EntriesSound
<1>5. view \in ViewRows /\ view.pc = "streaming" /\ view.seen = {} /\ view.notice = FALSE
  BY DEF StreamInit, NewView, ViewRows
<1>6. request \in [Messages -> RequestRows] BY DEF StreamInit, RequestRows
<1>7. conn \in ConnRows /\ conn.open /\ conn.subscribed /\ conn.queue = Replay(stream)
      /\ Unbroken(conn.queue, {}, FALSE, stream.n)
  <2>1. PICK no \in BOOLEAN : no = FALSE OBVIOUS
  <2>2. Replay(stream) \in Seq(Chunks) /\ Unbroken(Replay(stream), {}, no, stream.n) BY <1>3, <1>4, ReplaySound
  <2>3. PICK q \in Seq(Chunks) : q = Replay(stream) BY <2>2
  <2>4. conn = [open |-> TRUE, subscribed |-> TRUE, queue |-> q] BY <1>3, <2>3 DEF StreamInit, Subscribed
  <2>5. conn \in ConnRows /\ conn.open /\ conn.subscribed /\ conn.queue = q BY <2>4 DEF ConnRows
  <2> QED BY <2>1, <2>2, <2>3, <2>5
<1>8. OutboxSound
  <2>1. Plain("turn_started").kind = "turn_started" BY DEF Plain, Event
  <2>2. PICK e : e = Plain("turn_started") OBVIOUS
  <2>3. Len(<<e>>) = 1 /\ <<e>>[1] = e /\ <<e>> # <<>> OBVIOUS
  <2>4. \A i \in 1 .. 1 : i = 1 OBVIOUS
  <2> QED BY <2>1, <2>2, <2>3, <2>4, <1>1, <1>3 DEF OutboxSound
<1>9. ViewSound BY <1>5, <1>7 DEF ViewSound
<1> QED BY <1>1, <1>2, <1>3, <1>4, <1>5, <1>6, <1>7, <1>8, <1>9 DEF TurnIInv, TurnTypes

LEMMA TurnSteps ==
    ASSUME TurnIInv, [StreamNext]_vars
    PROVE  TurnIInv'
<1>1. CASE UNCHANGED vars
  BY <1>1 DEF vars, TurnIInv, TurnTypes, OutboxSound, ViewSound
<1>2. CASE TurnNext
  <2>1. CASE \E kind \in {"token", "step"} : Work(kind) BY <2>1, WorkKeeps
  <2>2. CASE ReadSteering BY <2>2, ReadSteeringKeeps
  <2>3. CASE AcceptAnswer \/ GiveUp \/ CloseInbox \/ Save \/ SaveFails BY <2>3, EndOfTheLoopKeeps
  <2>4. CASE Publish BY <2>4, PublishKeeps
  <2>5. CASE EndTurn BY <2>5, EndTurnKeeps
  <2>6. CASE StopArrives \/ StopElsewhere \/ StopIsLost BY <2>6, StopKeeps
  <2> QED BY <1>2, <2>1, <2>2, <2>3, <2>4, <2>5, <2>6 DEF TurnNext
<1>3. CASE WindowNext
  <2>1. CASE Receive BY <2>1, ReceiveKeeps
  <2>2. CASE LoseConnection \/ StopStreaming \/ LeaveChat BY <2>2, LettingGoKeeps
  <2>3. CASE Reopen \/ ListRuns \/ NextTurn BY <2>3, ReturningKeeps
  <2>4. CASE Follow BY <2>4, FollowKeeps
  <2>5. ASSUME NEW m \in Messages, Steer(m) \/ SteerArrives(m) \/ SteerFails(m) \/ SteerAnswered(m) PROVE TurnIInv'
    BY <2>5, SteerKeeps, SteerArrivesKeeps, SteerEndsKeeps
  <2> QED BY <1>3, <2>1, <2>2, <2>3, <2>4, <2>5 DEF WindowNext
<1> QED BY <1>1, <1>2, <1>3 DEF StreamNext

LEMMA TurnSoundMeansSeen ==
    ASSUME TurnIInv
    PROVE  ViewersSeeTheTurn
<1> SUFFICES ASSUME conn.open PROVE ViewersSeeTheTurn BY DEF ViewersSeeTheTurn
<1>1. stream \in StreamRows /\ conn \in ConnRows /\ view \in ViewRows /\ ViewSound BY DEF TurnIInv, TurnTypes
<1>2. PICK n \in Nat : n = stream.n BY <1>1 DEF StreamRows
<1>3. PICK seen \in SUBSET Nat : seen = view.seen BY <1>1 DEF ViewRows
<1>4. PICK notice \in BOOLEAN : notice = view.notice BY <1>1 DEF ViewRows
<1>5. PICK q \in Seq(Chunks) : q = conn.queue BY <1>1 DEF ConnRows
<1>6. Len(q) \in Nat /\ DOMAIN q = 1 .. Len(q) /\ \A i \in 1 .. Len(q) : q[i] \in Chunks BY ChunkFacts
<1>7. \A i \in 1 .. Len(q) : \A x \in Ranges(q[i]) : x \in Nat BY <1>6, RangeFacts
<1>8. PICK waiting : waiting = UNION {Ranges(c) : c \in Range(q)} OBVIOUS
<1>9. waiting = InQueue(q) BY <1>6, <1>7, <1>8 DEF InQueue, Range
<1>10. (\E c \in Range(q) : c.kind = "progress") <=> (\E i \in 1 .. Len(q) : q[i].kind = "progress")
  BY <1>6 DEF Range
<1>11. CASE Unbroken(q, seen, notice, n)
  <2>1. \A i, j \in 1 .. Len(q) : i < j => \A x \in Ranges(q[i]), y \in Ranges(q[j]) : x < y
    BY <1>11 DEF Unbroken
  <2>2. \A x \in seen, y \in waiting : x < y BY <1>9, <1>11 DEF Unbroken
  <2>3. PICK lo \in Nat :
          /\ 2 <= lo /\ (lo = 2 \/ (lo <= n /\ Told(q, notice)))
          /\ \A x \in seen \cup waiting : x = 1 \/ lo <= x
          /\ \A x \in lo .. n : x \in seen \cup waiting
    BY <1>9, <1>11 DEF Unbroken, NoGap
  <2>4. \A x \in seen \cup waiting : x \in Nat /\ 1 <= x /\ x <= n BY <1>9, <1>11 DEF Unbroken, InQueue
  <2>5. ASSUME NEW x \in (seen \cup waiting) \ {1}, NEW z \in (seen \cup waiting) \ {1}
        PROVE  x .. z \subseteq seen \cup waiting
    <3>1. lo <= x /\ x \in Nat /\ z \in Nat /\ z <= n BY <2>3, <2>4
    <3>2. \A y \in x .. z : y \in lo .. n BY <3>1
    <3> QED BY <3>2, <2>3
  <2>6. (seen \cup waiting) \ {1} # {} => 2 \in seen \cup waiting \/ notice \/ \E c \in Range(q) : c.kind = "progress"
    <3> SUFFICES ASSUME NEW z \in (seen \cup waiting) \ {1}, lo = 2
                 PROVE  2 \in seen \cup waiting
      BY <2>3, <1>10 DEF Told
    <3>1. 2 \in lo .. n BY <2>3, <2>4
    <3> QED BY <3>1, <2>3
  <2>7. (1 .. n) \cap {1, n} \subseteq seen \cup waiting
    <3> SUFFICES ASSUME NEW x \in 1 .. n, x = 1 \/ x = n PROVE x \in seen \cup waiting OBVIOUS
    <3>1. 1 \in seen \cup waiting BY <1>9, <1>11 DEF Unbroken
    <3>2. CASE x = 1 BY <3>1, <3>2
    <3>3. CASE x = n /\ x # 1
      <4>1. n \in lo .. n BY <2>3, <3>3
      <4> QED BY <4>1, <2>3, <3>3
    <3> QED BY <3>2, <3>3
  <2> QED BY <2>1, <2>2, <2>5, <2>6, <2>7, <1>2, <1>3, <1>4, <1>5, <1>6, <1>8 DEF ViewersSeeTheTurn
<1>12. CASE CutOff(q, seen, notice, n)
  <2>1. PICK a \in Chunks : a = Notice("lagging") /\ a.kind = "lagging" /\ a.lo = 1 /\ a.hi = 0
    <3>1. PICK a : a = Notice("lagging") OBVIOUS
    <3>2. a \in Chunks /\ a.kind = "lagging" /\ a.lo = 1 /\ a.hi = 0 BY <3>1 DEF Notice, Chunk, Plain, Event, Chunks
    <3> QED BY <3>1, <3>2
  <2>2. PICK b \in Chunks : b = Notice("None") /\ b.lo = 1 /\ b.hi = 0
    <3>1. PICK b : b = Notice("None") OBVIOUS
    <3>2. b \in Chunks /\ b.lo = 1 /\ b.hi = 0 BY <3>1 DEF Notice, Chunk, Plain, Event, Chunks
    <3> QED BY <3>1, <3>2
  <2>3. Ranges(a) = {} /\ Ranges(b) = {} BY <2>1, <2>2, RangeFacts
  <2>4. Len(q) = 2 /\ q[1] = a /\ q[2] = b BY <1>12, <2>1, <2>2 DEF CutOff
  <2>5. \A i \in 1 .. Len(q) : Ranges(q[i]) = {} BY <2>3, <2>4
  <2>6. waiting = {} BY <2>5, <1>6, <1>8 DEF Range
  <2>7. \E c \in Range(q) : c.kind = "lagging" BY <2>1, <2>4, <1>6 DEF Range
  <2>8. \A i, j \in 1 .. Len(q) : i < j => \A x \in Ranges(q[i]), y \in Ranges(q[j]) : x < y BY <2>5
  <2>9. /\ \A x, z \in seen \ {1} : x .. z \subseteq seen
        /\ seen \ {1} # {} => 2 \in seen \/ notice
    BY <1>12 DEF CutOff
  <2> QED BY <2>6, <2>7, <2>8, <2>9, <1>3, <1>4, <1>5, <1>6, <1>8 DEF ViewersSeeTheTurn
<1> QED BY <1>1, <1>2, <1>3, <1>4, <1>5, <1>11, <1>12 DEF ViewSound

\* Whatever the turn does and however often its window falls behind, loses its
\* connection or leaves and comes back, the events it has and those that wait for it
\* are in order and without a gap, from turn_started and the second on or with the
\* notice that the earliest are gone (RunStream.subscribe, publish and _remember).
THEOREM ViewsHaveNoGap == StreamSpec => []ViewersSeeTheTurn
<1>1. StreamInit => TurnIInv BY TurnInit
<1>2. TurnIInv /\ [StreamNext]_vars => TurnIInv' BY TurnSteps
<1>3. TurnIInv => ViewersSeeTheTurn BY TurnSoundMeansSeen
<1>4. StreamSpec => StreamInit /\ [][StreamNext]_vars BY PTL DEF StreamSpec
<1> QED BY <1>1, <1>2, <1>3, <1>4, PTL

-----------------------------------------------------------------------------
(* Steering a turn that is watched (TurnStream). *)

\* A reading of m is announced in q; and before every end of the turn in q.
Announces(q, m) == \E i \in 1 .. Len(q) : q[i].kind = "steering_applied" /\ q[i].msg = m
EndKinds        == {"error", "done"}
EndsAfter(q, m) ==
    \A j \in 1 .. Len(q) : q[j].kind \in EndKinds =>
        \E i \in 1 .. Len(q) : i < j /\ q[i].kind = "steering_applied" /\ q[i].msg = m
NoEnd(q)        == \A j \in 1 .. Len(q) : q[j].kind \notin EndKinds

\* A turn that works has not been stopped, and no end of it is under way.
WorksOn == turn.pc = "working" => ~turn.stopping /\ NoEnd(turn.outbox) /\ NoEnd(conn.queue) /\ NoEnd(stream.entries)

\* A steer request is of the view that sent it, and a message is in the inbox only
\* once its request arrived.
RequestsFit ==
    /\ view.target \in {0, view.returns + 1}
    /\ view.pc \in {"away", "returning", "opening", "next"} => view.target = 0
    /\ view.pc # "streaming" => view.pending = {}
    /\ inbox.applied \subseteq Range(inbox.messages)
    /\ \A m \in Messages :
          /\ request[m].view <= view.returns + 1
          /\ view.pc \in {"returning", "opening"} \/ (view.pc = "streaming" /\ view.target = 0)
                => request[m].view <= view.returns
          /\ request[m].at \in {"unsent", "sent"} => m \notin Range(inbox.messages)
          /\ request[m].at = "unsent" => request[m].view = 0
          /\ request[m].at \in {"sent", "queued", "refused"} => request[m].view # 0

\* The view would put m back in its queue if the turn ended now: it is pending, or
\* will be once the answer to its request is handled.
Waits(v, requests, m) ==
    \/ m \in v.pending
    \/ requests[m].at = "queued" /\ requests[m].view = v.target /\ m \notin v.applied

\* What is on its way to the view tells of the reading of m before it tells of an end.
Heard(c, t, m) ==
    /\ EndsAfter(c.queue, m)
    /\ c.subscribed => Announces(c.queue, m) \/ EndsAfter(t.outbox, m)
    /\ c.subscribed /\ t.pc \in {"working", "closing", "saving"} /\ ~t.stopping
          => Announces(c.queue, m) \/ Announces(t.outbox, m)

Awaited == conn.open => \A m \in inbox.applied : Waits(view, request, m) => Heard(conn, turn, m)

SteeringIInv == WorksOn /\ RequestsFit /\ Awaited

-----------------------------------------------------------------------------
(* What is announced on the way to the view. *)

LEMMA NothingAnnounced ==
    ASSUME NEW m
    PROVE  NoEnd(<<>>) /\ EndsAfter(<<>>, m) /\ ~Announces(<<>>, m)
<1>1. 1 .. Len(<<>>) = {} OBVIOUS
<1> QED BY <1>1 DEF NoEnd, EndsAfter, Announces

LEMMA NoEndIsAfter ==
    ASSUME NEW q, NEW m, NoEnd(q)
    PROVE  EndsAfter(q, m)
BY DEF NoEnd, EndsAfter

LEMMA OneMore ==
    ASSUME NEW S, NEW q \in Seq(S), NEW c \in S, NEW m
    PROVE  /\ Announces(Append(q, c), m) <=> Announces(q, m) \/ (c.kind = "steering_applied" /\ c.msg = m)
           /\ EndsAfter(q, m) /\ (c.kind \in EndKinds => Announces(q, m)) => EndsAfter(Append(q, c), m)
           /\ NoEnd(q) /\ c.kind \notin EndKinds => NoEnd(Append(q, c))
<1>1. PICK r : r = Append(q, c) OBVIOUS
<1>2. /\ Len(q) \in Nat /\ Len(r) = Len(q) + 1 /\ r[Len(q) + 1] = c
      /\ \A i \in 1 .. Len(q) : r[i] = q[i]
  BY <1>1, AppendProperties, LenProperties
<1>3. \A i \in 1 .. Len(r) : i \in 1 .. Len(q) \/ i = Len(q) + 1 BY <1>2
<1>4. (\A i \in 1 .. Len(q) : i \in 1 .. Len(r) /\ i < Len(q) + 1) /\ Len(q) + 1 \in 1 .. Len(r) BY <1>2
<1>5. Announces(r, m) <=> Announces(q, m) \/ (c.kind = "steering_applied" /\ c.msg = m)
  BY <1>2, <1>3, <1>4 DEF Announces
<1>6. ASSUME EndsAfter(q, m), c.kind \in EndKinds => Announces(q, m) PROVE EndsAfter(r, m)
  <2> SUFFICES ASSUME NEW j \in 1 .. Len(r), r[j].kind \in EndKinds
               PROVE  \E i \in 1 .. Len(r) : i < j /\ r[i].kind = "steering_applied" /\ r[i].msg = m
    BY DEF EndsAfter
  <2>1. CASE j \in 1 .. Len(q)
    <3>1. PICK i \in 1 .. Len(q) : i < j /\ q[i].kind = "steering_applied" /\ q[i].msg = m
      BY <2>1, <1>2, <1>6 DEF EndsAfter
    <3> QED BY <3>1, <1>2, <1>4
  <2>2. CASE j = Len(q) + 1
    <3>1. PICK i \in 1 .. Len(q) : q[i].kind = "steering_applied" /\ q[i].msg = m
      BY <2>2, <1>2, <1>6 DEF Announces
    <3> QED BY <2>2, <3>1, <1>2, <1>4
  <2> QED BY <2>1, <2>2, <1>3
<1>7. ASSUME NoEnd(q), c.kind \notin EndKinds PROVE NoEnd(r) BY <1>2, <1>3, <1>7 DEF NoEnd
<1> QED BY <1>1, <1>5, <1>6, <1>7

\* The first is taken; if it tells of the reading of m, nothing is said of the rest.
LEMMA FirstTaken ==
    ASSUME NEW S, NEW q \in Seq(S), q # <<>>, NEW m
    PROVE  /\ EndsAfter(q, m) => Head(q).kind \notin EndKinds
           /\ NoEnd(q) => Head(q).kind \notin EndKinds /\ NoEnd(Tail(q))
           /\ ~(Head(q).kind = "steering_applied" /\ Head(q).msg = m) =>
                 /\ EndsAfter(q, m) => EndsAfter(Tail(q), m)
                 /\ Announces(q, m) => Announces(Tail(q), m)
<1>1. PICK r : r = Tail(q) OBVIOUS
<1>2. PICK h : h = Head(q) OBVIOUS
<1>3. /\ Len(q) \in Nat \ {0} /\ h = q[1] /\ Len(r) = Len(q) - 1
      /\ \A i \in 1 .. Len(r) : r[i] = q[i + 1]
  BY <1>1, <1>2, EmptySeq, HeadTailProperties, LenProperties
<1>4. 1 \in 1 .. Len(q) /\ \A i \in 1 .. Len(r) : i + 1 \in 1 .. Len(q) BY <1>3
<1>5. \A i \in 1 .. Len(q) : i = 1 \/ (i - 1 \in 1 .. Len(r) /\ r[i - 1] = q[i])
  <2> TAKE i \in 1 .. Len(q)
  <2>1. CASE i # 1
    <3>1. i - 1 \in 1 .. Len(r) /\ (i - 1) + 1 = i BY <2>1, <1>3
    <3> QED BY <3>1, <1>3
  <2> QED BY <2>1
<1>6. ASSUME EndsAfter(q, m) PROVE h.kind \notin EndKinds
  <2> SUFFICES ASSUME h.kind \in EndKinds PROVE FALSE OBVIOUS
  <2>1. PICK i \in 1 .. Len(q) : i < 1 BY <1>3, <1>4, <1>6 DEF EndsAfter
  <2> QED BY <2>1
<1>7. ASSUME NoEnd(q) PROVE h.kind \notin EndKinds /\ NoEnd(r) BY <1>3, <1>4, <1>7 DEF NoEnd
<1>8. ASSUME ~(h.kind = "steering_applied" /\ h.msg = m), EndsAfter(q, m) PROVE EndsAfter(r, m)
  <2> SUFFICES ASSUME NEW j \in 1 .. Len(r), r[j].kind \in EndKinds
               PROVE  \E i \in 1 .. Len(r) : i < j /\ r[i].kind = "steering_applied" /\ r[i].msg = m
    BY DEF EndsAfter
  <2>1. j + 1 \in 1 .. Len(q) /\ q[j + 1].kind \in EndKinds BY <1>3, <1>4
  <2>2. PICK i \in 1 .. Len(q) : i < j + 1 /\ q[i].kind = "steering_applied" /\ q[i].msg = m
    BY <2>1, <1>8 DEF EndsAfter
  <2>3. i - 1 \in 1 .. Len(r) /\ r[i - 1] = q[i] BY <2>2, <1>3, <1>5, <1>8
  <2>4. i - 1 < j BY <2>2
  <2> QED BY <2>2, <2>3, <2>4
<1>9. ASSUME ~(h.kind = "steering_applied" /\ h.msg = m), Announces(q, m) PROVE Announces(r, m)
  <2>1. PICK i \in 1 .. Len(q) : q[i].kind = "steering_applied" /\ q[i].msg = m BY <1>9 DEF Announces
  <2>2. i - 1 \in 1 .. Len(r) /\ r[i - 1] = q[i] BY <2>1, <1>3, <1>5, <1>9
  <2> QED BY <2>1, <2>2 DEF Announces
<1> QED BY <1>1, <1>2, <1>6, <1>7, <1>8, <1>9

LEMMA MoreOfThem ==
    ASSUME NEW S, NEW q \in Seq(S), NEW e \in Seq(S), NEW m
    PROVE  /\ Announces(q \o e, m) <=> Announces(q, m) \/ Announces(e, m)
           /\ EndsAfter(q, m) /\ (Announces(q, m) \/ NoEnd(e)) => EndsAfter(q \o e, m)
           /\ NoEnd(q) /\ NoEnd(e) => NoEnd(q \o e)
<1>1. PICK r : r = q \o e OBVIOUS
<1>2. /\ Len(q) \in Nat /\ Len(e) \in Nat /\ Len(r) = Len(q) + Len(e)
      /\ \A i \in 1 .. Len(q) + Len(e) : r[i] = IF i <= Len(q) THEN q[i] ELSE e[i - Len(q)]
  BY <1>1, ConcatProperties, LenProperties
<1>3. \A i \in 1 .. Len(q) : i \in 1 .. Len(r) /\ r[i] = q[i] BY <1>2
<1>4. ASSUME NEW i \in 1 .. Len(e) PROVE Len(q) + i \in 1 .. Len(r) /\ r[Len(q) + i] = e[i]
  <2>1. Len(q) + i \in 1 .. Len(q) + Len(e) /\ ~(Len(q) + i <= Len(q)) /\ (Len(q) + i) - Len(q) = i BY <1>2
  <2> QED BY <2>1, <1>2
<1>5. ASSUME NEW i \in 1 .. Len(r)
      PROVE  (i \in 1 .. Len(q) /\ r[i] = q[i]) \/ (i - Len(q) \in 1 .. Len(e) /\ r[i] = e[i - Len(q)])
  <2>1. CASE i <= Len(q)
    <3>1. i \in 1 .. Len(q) BY <2>1, <1>2
    <3> QED BY <3>1, <1>3
  <2>2. CASE ~(i <= Len(q))
    <3>1. i - Len(q) \in 1 .. Len(e) /\ i \in 1 .. Len(q) + Len(e) BY <2>2, <1>2
    <3> QED BY <2>2, <3>1, <1>2
  <2> QED BY <2>1, <2>2
<1>6. Announces(r, m) <=> Announces(q, m) \/ Announces(e, m)
  <2>1. Announces(r, m) => Announces(q, m) \/ Announces(e, m) BY <1>5 DEF Announces
  <2>2. Announces(q, m) => Announces(r, m) BY <1>3 DEF Announces
  <2>3. Announces(e, m) => Announces(r, m) BY <1>4 DEF Announces
  <2> QED BY <2>1, <2>2, <2>3
<1>7. ASSUME EndsAfter(q, m), Announces(q, m) \/ NoEnd(e) PROVE EndsAfter(r, m)
  <2> SUFFICES ASSUME NEW j \in 1 .. Len(r), r[j].kind \in EndKinds
               PROVE  \E i \in 1 .. Len(r) : i < j /\ r[i].kind = "steering_applied" /\ r[i].msg = m
    BY DEF EndsAfter
  <2>1. CASE j \in 1 .. Len(q) /\ r[j] = q[j]
    <3>1. PICK i \in 1 .. Len(q) : i < j /\ q[i].kind = "steering_applied" /\ q[i].msg = m
      BY <2>1, <1>7 DEF EndsAfter
    <3> QED BY <3>1, <1>3
  <2>2. CASE j - Len(q) \in 1 .. Len(e) /\ r[j] = e[j - Len(q)]
    <3>1. ~NoEnd(e) BY <2>2 DEF NoEnd
    <3>2. PICK i \in 1 .. Len(q) : q[i].kind = "steering_applied" /\ q[i].msg = m
      BY <3>1, <1>7 DEF Announces
    <3>3. i < j BY <2>2, <1>2
    <3> QED BY <3>2, <3>3, <1>3
  <2> QED BY <2>1, <2>2, <1>5
<1>8. ASSUME NoEnd(q), NoEnd(e) PROVE NoEnd(r) BY <1>5, <1>8 DEF NoEnd
<1> QED BY <1>1, <1>6, <1>7, <1>8

-----------------------------------------------------------------------------
(* No end of a turn that works. *)

LEMMA OneThatGoesOn ==
    ASSUME NEW c, c.kind \notin EndKinds
    PROVE  NoEnd(<<c>>)
<1>1. Len(<<c>>) = 1 /\ <<c>>[1] = c OBVIOUS
<1>2. \A i \in 1 .. 1 : i = 1 OBVIOUS
<1> QED BY <1>1, <1>2 DEF NoEnd

LEMMA ReplayGoesOn ==
    ASSUME NEW s \in StreamRows, NoEnd(s.entries)
    PROVE  NoEnd(Replay(s))
<1>1. PICK q \in Seq(Chunks) : q = s.entries BY DEF StreamRows
<1>2. PICK a \in Seq(Chunks) : a = (IF s.n > 0 THEN <<Chunk(Plain("turn_started"), 1, 1)>> ELSE <<>>) /\ NoEnd(a)
  <2>1. PICK c : c = Chunk(Plain("turn_started"), 1, 1) OBVIOUS
  <2>2. c \in Chunks /\ c.kind = "turn_started" BY <2>1 DEF Chunk, Plain, Event, Chunks, EventKinds
  <2>3. c.kind \notin EndKinds BY <2>2 DEF EndKinds
  <2>4. <<c>> \in Seq(Chunks) /\ <<>> \in Seq(Chunks) BY <2>2
  <2> QED BY <2>1, <2>3, <2>4, OneThatGoesOn, NothingAnnounced
<1>3. PICK b \in Seq(Chunks) : b = (IF s.dropped THEN <<Notice("progress")>> ELSE <<>>) /\ NoEnd(b)
  <2>1. PICK c : c = Notice("progress") OBVIOUS
  <2>2. c \in Chunks /\ c.kind = "progress" BY <2>1 DEF Notice, Chunk, Plain, Event, Chunks
  <2>3. c.kind \notin EndKinds BY <2>2 DEF EndKinds
  <2>4. <<c>> \in Seq(Chunks) /\ <<>> \in Seq(Chunks) BY <2>2
  <2> QED BY <2>1, <2>3, <2>4, OneThatGoesOn, NothingAnnounced
<1>4. PICK ab \in Seq(Chunks) : ab = a \o b BY ConcatProperties
<1>5. NoEnd(ab) BY <1>2, <1>3, <1>4, MoreOfThem
<1>6. NoEnd(ab \o q) BY <1>1, <1>5, MoreOfThem
<1> QED BY <1>1, <1>2, <1>3, <1>4, <1>6 DEF Replay

LEMMA JoinedGoesOn ==
    ASSUME NEW q \in Seq(Chunks), NoEnd(q), NEW e \in Events, e.kind \notin EndKinds, NEW n \in Nat
    PROVE  NoEnd(Joined(q, e, n))
<1>1. CASE e.kind \in Mergeable /\ q # <<>> /\ q[Len(q)].kind = e.kind
  <2>1. PICK r : r = [q EXCEPT ![Len(q)].hi = n] OBVIOUS
  <2>2. Len(r) = Len(q) /\ Len(q) \in Nat /\ \A i \in 1 .. Len(q) : r[i].kind = q[i].kind
    <3>1. PICK last \in 1 .. Len(q) : last = Len(q) BY <1>1, ChunkFacts, EmptySeq
    <3>2. PICK d \in Chunks : d = q[last] BY ChunkFacts
    <3>3. PICK c : c = [d EXCEPT !.hi = n] OBVIOUS
    <3>4. c \in Chunks /\ c.kind = d.kind BY <3>3 DEF Chunks
    <3>5. r = [q EXCEPT ![last] = c] BY <2>1, <3>1, <3>2, <3>3
    <3>6. Len([q EXCEPT ![last] = c]) = Len(q) BY <3>4, ExceptSeq
    <3>7. \A i \in 1 .. Len(q) : [q EXCEPT ![last] = c][i] = IF i = last THEN c ELSE q[i] BY <3>4, ExceptSeq
    <3> QED BY <3>2, <3>4, <3>5, <3>6, <3>7, ChunkFacts
  <2>3. NoEnd(r) BY <2>2 DEF NoEnd
  <2> QED BY <1>1, <2>1, <2>3 DEF Joined
<1>2. CASE ~(e.kind \in Mergeable /\ q # <<>> /\ q[Len(q)].kind = e.kind)
  <2>1. PICK c : c = Chunk(e, n, n) OBVIOUS
  <2>2. c \in Chunks /\ c.kind = e.kind BY <2>1, NewChunk
  <2>3. NoEnd(Append(q, c)) BY <2>2, OneMore
  <2> QED BY <1>2, <2>1, <2>3 DEF Joined
<1> QED BY <1>1, <1>2

LEMMA TrimmedGoesOn ==
    ASSUME NEW r \in Seq(Chunks), r # <<>>, NoEnd(r)
    PROVE  NoEnd(Trimmed(r))
<1>1. PICK last \in 1 .. Len(r) : last = Len(r) BY ChunkFacts, EmptySeq
<1>2. PICK a \in 1 .. last : Trimmed(r) = SubSeq(r, a, last)
  <2> DEFINE fits == {i \in 1 .. last : r[last].hi + 1 - r[i].lo <= MaxReplay}
  <2>1. Trimmed(r) = SubSeq(r, Min(fits \cup {last}), last) BY <1>1 DEF Trimmed
  <2>2. fits \cup {last} \subseteq 1 .. last /\ fits \cup {last} # {} BY <1>1
  <2> HIDE DEF fits
  <2>3. PICK some : some = fits \cup {last} OBVIOUS
  <2>4. some \in SUBSET Nat /\ some # {} BY <2>2, <2>3
  <2>5. Min(some) \in some BY <2>4, MinIsIn
  <2> QED BY <2>1, <2>2, <2>3, <2>5
<1>3. PICK t : t = Trimmed(r) OBVIOUS
<1>4. /\ Len(t) = last - a + 1
      /\ \A i \in 1 .. Len(t) : t[i] = r[a + i - 1]
  <2>1. \A i \in a .. last : r[i] \in Chunks BY <1>1, ChunkFacts
  <2>2. a \in Int /\ last \in Int /\ a <= last OBVIOUS
  <2> QED BY <1>2, <1>3, <2>1, <2>2, SubSeqProperties
<1>5. \A i \in 1 .. Len(t) : a + i - 1 \in 1 .. Len(r) BY <1>1, <1>4
<1>6. NoEnd(t) BY <1>4, <1>5 DEF NoEnd
<1> QED BY <1>3, <1>6

LEMMA RememberGoesOn ==
    ASSUME NEW s \in StreamRows, EntriesSound(s.entries, s.n, s.dropped), NoEnd(s.entries),
           NEW e \in Events, e.kind \notin EndKinds, s.n = 0 <=> e.kind = "turn_started"
    PROVE  NoEnd(Remember(s, e).entries)
<1>1. PICK q \in Seq(Chunks) : q = s.entries BY DEF StreamRows
<1>2. PICK n \in Nat : n = s.n BY DEF StreamRows
<1>3. CASE e.kind = "turn_started"
  <2>1. Remember(s, e) = [s EXCEPT !.n = n + 1] BY <1>2, <1>3 DEF Remember
  <2>2. Remember(s, e).entries = q BY <1>1, <2>1 DEF StreamRows
  <2> QED BY <1>1, <2>2
<1>4. CASE e.kind # "turn_started"
  <2>1. PICK r : r = Joined(q, e, n + 1) OBVIOUS
  <2>2. n \in Nat \ {0} /\ s.dropped \in BOOLEAN BY <1>2, <1>4 DEF StreamRows
  <2>3. r \in Seq(Chunks) /\ r # <<>> BY <1>1, <1>2, <2>1, <2>2, JoinedSound
  <2>4. NoEnd(r)
    <3>1. n + 1 \in Nat OBVIOUS
    <3> QED BY <1>1, <2>1, <3>1, JoinedGoesOn
  <2>5. PICK k : k = Trimmed(r) OBVIOUS
  <2>6. NoEnd(k) BY <2>3, <2>4, <2>5, TrimmedGoesOn
  <2>7. Remember(s, e) = [s EXCEPT !.n = n + 1, !.entries = k, !.dropped = s.dropped \/ Len(k) < Len(r)]
    BY <1>1, <1>2, <1>4, <2>1, <2>5 DEF Remember
  <2>8. Remember(s, e).entries = k BY <2>7 DEF StreamRows
  <2> QED BY <2>6, <2>8
<1> QED BY <1>3, <1>4

-----------------------------------------------------------------------------
(* The turn goes on. *)

\* Whatever the turn puts in its outbox comes after what is there.
LEMMA PutIsHeard ==
    ASSUME NEW c, NEW t \in TurnRows, t.pc \in {"working", "closing", "saving"}, NEW m, Heard(c, t, m),
           NEW evs \in Seq(Events), NEW u, u.stopping = t.stopping,
           u.outbox = IF t.stopping THEN t.outbox ELSE t.outbox \o evs
    PROVE  Heard(c, u, m)
<1>1. PICK o \in Seq(Events) : o = t.outbox BY DEF TurnRows
<1>2. EndsAfter(c.queue, m) BY DEF Heard
<1>3. CASE t.stopping BY <1>3 DEF Heard
<1>4. CASE ~t.stopping
  <2> SUFFICES ASSUME c.subscribed, ~Announces(c.queue, m)
               PROVE  EndsAfter(o \o evs, m) /\ Announces(o \o evs, m)
    BY <1>1, <1>2, <1>4 DEF Heard
  <2>1. EndsAfter(o, m) /\ Announces(o, m) BY <1>1, <1>4 DEF Heard
  <2> QED BY <2>1, MoreOfThem
<1> QED BY <1>3, <1>4

LEMMA TurnAlone ==
    ASSUME TurnIInv, SteeringIInv, turn.pc \in {"working", "closing", "saving"},
           NEW evs \in Seq(Events), turn'.outbox = Put(evs), turn'.stopping = turn.stopping,
           turn'.pc = "working" => turn.pc = "working" /\ NoEnd(evs),
           inbox'.messages = inbox.messages, inbox'.applied = inbox.applied,
           UNCHANGED <<stream, conn, view, request>>
    PROVE  SteeringIInv'
<1>1. turn \in TurnRows BY DEF TurnIInv, TurnTypes
<1>2. PICK o \in Seq(Events) : o = turn.outbox BY <1>1 DEF TurnRows
<1>3. WorksOn'
  <2> SUFFICES ASSUME turn'.pc = "working"
               PROVE  ~turn.stopping /\ NoEnd(turn'.outbox) /\ NoEnd(conn.queue) /\ NoEnd(stream.entries)
    BY DEF WorksOn
  <2>1. ~turn.stopping /\ NoEnd(o) /\ NoEnd(conn.queue) /\ NoEnd(stream.entries) BY <1>2 DEF SteeringIInv, WorksOn
  <2>2. turn'.outbox = o \o evs BY <1>2, <2>1 DEF Put
  <2> QED BY <2>1, <2>2, MoreOfThem
<1>4. RequestsFit' BY DEF SteeringIInv, RequestsFit
<1>5. Awaited'
  <2> SUFFICES ASSUME conn.open, NEW m \in inbox.applied, Waits(view, request, m)
               PROVE  Heard(conn, turn', m)
    BY DEF Awaited
  <2>1. Heard(conn, turn, m) BY DEF SteeringIInv, Awaited
  <2>2. PICK u : u = turn' OBVIOUS
  <2>3. u.stopping = turn.stopping /\ u.outbox = IF turn.stopping THEN turn.outbox ELSE turn.outbox \o evs
    BY <2>2 DEF Put
  <2>4. Heard(conn, u, m) BY <1>1, <2>1, <2>3, PutIsHeard
  <2> QED BY <2>2, <2>4
<1> QED BY <1>3, <1>4, <1>5 DEF SteeringIInv

LEMMA LoopIsAwaited ==
    ASSUME TurnIInv, SteeringIInv,
           (\E kind \in {"token", "step"} : Work(kind)) \/ AcceptAnswer \/ GiveUp \/ CloseInbox \/ Save \/ SaveFails
    PROVE  SteeringIInv'
<1>1. turn \in TurnRows /\ inbox \in InboxRows BY DEF TurnIInv, TurnTypes
<1>2. PICK q \in Seq(Events) : q = turn.outbox BY <1>1 DEF TurnRows
<1>3. ASSUME NEW kind \in {"token", "step", "error", "done"}
      PROVE  /\ <<Plain(kind)>> \in Seq(Events)
             /\ kind \in {"token", "step"} => NoEnd(<<Plain(kind)>>)
  <2>1. Plain(kind) \in Events /\ Plain(kind).kind = kind BY DEF Plain, Event, Events, EventKinds
  <2>2. PICK e \in Events : e = Plain(kind) /\ e.kind = kind BY <2>1
  <2>3. <<e>> \in Seq(Events) OBVIOUS
  <2>4. kind \in {"token", "step"} => e.kind \notin EndKinds BY <2>2 DEF EndKinds
  <2> QED BY <2>2, <2>3, <2>4, OneThatGoesOn
<1>4. /\ <<>> \in Seq(Events) /\ NoEnd(<<>>) /\ Put(<<>>) = q
  BY <1>1, <1>2, NothingAnnounced, NothingPut
<1>5. CASE \E kind \in {"token", "step"} : Work(kind)
  <2>1. PICK kind \in {"token", "step"} : Work(kind) BY <1>5
  <2>2. PICK evs \in Seq(Events) : evs = <<Plain(kind)>> /\ NoEnd(evs) BY <1>3
  <2>3. PICK o : o = Put(evs) OBVIOUS
  <2>4. turn' = [turn EXCEPT !.work = @ + 1, !.outbox = o] BY <2>1, <2>2, <2>3 DEF Work
  <2>5. turn'.outbox = o /\ turn'.stopping = turn.stopping /\ turn'.pc = turn.pc BY <1>1, <2>4 DEF TurnRows
  <2>6. turn.pc = "working" /\ UNCHANGED <<inbox, stream, conn, view, request>> BY <2>1 DEF Work
  <2> QED BY <2>2, <2>3, <2>5, <2>6, TurnAlone
<1>6. CASE AcceptAnswer
  <2>1. turn' = [turn EXCEPT !.pc = "closing"] BY <1>6 DEF AcceptAnswer
  <2>2. turn'.outbox = q /\ turn'.stopping = turn.stopping /\ turn'.pc = "closing" BY <1>1, <1>2, <2>1 DEF TurnRows
  <2>3. turn.pc = "working" /\ UNCHANGED <<inbox, stream, conn, view, request>> BY <1>6 DEF AcceptAnswer
  <2> QED BY <1>4, <2>2, <2>3, TurnAlone
<1>7. CASE GiveUp
  <2>2. PICK evs \in Seq(Events) : evs = <<Plain("error")>> BY <1>3
  <2>3. PICK o : o = Put(evs) OBVIOUS
  <2>4. turn' = [turn EXCEPT !.pc = "closing", !.outbox = o] BY <1>7, <2>2, <2>3 DEF GiveUp
  <2>5. turn'.outbox = o /\ turn'.stopping = turn.stopping /\ turn'.pc = "closing" BY <1>1, <2>4 DEF TurnRows
  <2>6. turn.pc = "working" /\ UNCHANGED <<inbox, stream, conn, view, request>> BY <1>7 DEF GiveUp
  <2> QED BY <2>3, <2>5, <2>6, TurnAlone
<1>8. CASE CloseInbox
  <2>1. turn' = [turn EXCEPT !.pc = "saving"] /\ inbox' = [inbox EXCEPT !.closed = TRUE] BY <1>8 DEF CloseInbox
  <2>2. turn'.outbox = q /\ turn'.stopping = turn.stopping /\ turn'.pc = "saving" BY <1>1, <1>2, <2>1 DEF TurnRows
  <2>3. inbox'.messages = inbox.messages /\ inbox'.applied = inbox.applied BY <1>1, <2>1 DEF InboxRows
  <2>4. turn.pc = "closing" /\ UNCHANGED <<stream, conn, view, request>> BY <1>8 DEF CloseInbox
  <2> QED BY <1>4, <2>2, <2>3, <2>4, TurnAlone
<1>9. CASE Save
  <2>2. PICK evs \in Seq(Events) : evs = <<Plain("done")>> BY <1>3
  <2>3. PICK o : o = Put(evs) OBVIOUS
  <2>4. turn' = [turn EXCEPT !.pc = "saved", !.saved = inbox.applied, !.outbox = o] BY <1>9, <2>2, <2>3 DEF Save
  <2>5. turn'.outbox = o /\ turn'.stopping = turn.stopping /\ turn'.pc = "saved" BY <1>1, <2>4 DEF TurnRows
  <2>6. turn.pc = "saving" /\ UNCHANGED <<inbox, stream, conn, view, request>> BY <1>9 DEF Save
  <2> QED BY <2>3, <2>5, <2>6, TurnAlone
<1>10. CASE SaveFails
  <2>1. Plain("error") \in Events /\ Plain("done") \in Events BY DEF Plain, Event, Events, EventKinds
  <2>2. PICK evs \in Seq(Events) : evs = <<Plain("error"), Plain("done")>>
    <3>1. PICK a \in Events, b \in Events : a = Plain("error") /\ b = Plain("done") BY <2>1
    <3>2. <<a, b>> \in Seq(Events) OBVIOUS
    <3> QED BY <3>1, <3>2
  <2>3. PICK o : o = Put(evs) OBVIOUS
  <2>4. turn' = [turn EXCEPT !.pc = "saved", !.saveFailed = TRUE, !.outbox = o] BY <1>10, <2>2, <2>3 DEF SaveFails
  <2>5. turn'.outbox = o /\ turn'.stopping = turn.stopping /\ turn'.pc = "saved" BY <1>1, <2>4 DEF TurnRows
  <2>6. turn.pc = "saving" /\ UNCHANGED <<inbox, stream, conn, view, request>> BY <1>10 DEF SaveFails
  <2> QED BY <2>3, <2>5, <2>6, TurnAlone
<1> QED BY <1>5, <1>6, <1>7, <1>8, <1>9, <1>10

\* What is read is announced behind what is in the outbox, and no end is there yet.
LEMMA ReadingIsAnnounced ==
    ASSUME TurnIInv, SteeringIInv, ReadSteering
    PROVE  SteeringIInv'
<1>1. turn \in TurnRows /\ inbox \in InboxRows BY DEF TurnIInv, TurnTypes
<1>2. PICK q \in Seq(Messages) : q = inbox.messages BY <1>1 DEF InboxRows
<1>3. Len(q) \in Nat /\ DOMAIN q = 1 .. Len(q) /\ \A i \in 1 .. Len(q) : q[i] \in Messages
  BY LenProperties, ElementOfSeq
<1> DEFINE waiting == {i \in DOMAIN q : q[i] \notin inbox.applied}
           first == Min(waiting)
           fresh == SubSeq(q, first, Len(q))
           told == [i \in DOMAIN fresh |-> Event("steering_applied", fresh[i])]
<1>4. waiting # {}
  <2>1. PICK m \in Range(q) : m \notin inbox.applied BY <1>2 DEF ReadSteering, Unread
  <2>2. PICK i \in DOMAIN q : q[i] = m BY <2>1 DEF Range
  <2> QED BY <2>1, <2>2
<1>5. waiting \in SUBSET Nat BY <1>3
<1>6. first \in 1 .. Len(q) /\ \A i \in 1 .. Len(q) : q[i] \notin inbox.applied => first <= i
  <2>1. \A i \in 1 .. Len(q) : q[i] \notin inbox.applied => i \in waiting BY <1>3
  <2> HIDE DEF waiting
  <2>2. first \in waiting /\ \A i \in waiting : first <= i BY <1>4, <1>5, MinIsIn
  <2>3. first \in 1 .. Len(q) BY <2>2, <1>3 DEF waiting
  <2> QED BY <2>1, <2>2, <2>3
<1>7. turn' = [turn EXCEPT !.outbox = Put(told)] BY <1>2 DEF ReadSteering
<1>8. inbox' = [inbox EXCEPT !.applied = Range(q)] BY <1>2 DEF ReadSteering
<1> HIDE DEF waiting, first
<1>9. PICK a \in 1 .. Len(q) : a = first BY <1>6
<1>10. PICK f : f = fresh OBVIOUS
<1>11. f \in Seq(Messages) /\ Len(f) = Len(q) - a + 1 /\ \A i \in 1 .. Len(f) : f[i] = q[a + i - 1]
  <2>1. \A i \in a .. Len(q) : q[i] \in Messages BY <1>3
  <2>2. a \in Int /\ Len(q) \in Int /\ a <= Len(q) BY <1>3
  <2>3. f = SubSeq(q, a, Len(q)) BY <1>9, <1>10
  <2> QED BY <2>1, <2>2, <2>3, SubSeqProperties
<1>12. Len(f) \in Nat /\ DOMAIN f = 1 .. Len(f) /\ \A i \in 1 .. Len(f) : f[i] \in Messages
  BY <1>11, LenProperties, ElementOfSeq
<1>13. PICK t : t = [i \in 1 .. Len(f) |-> Event("steering_applied", f[i])] OBVIOUS
<1>14. told = t BY <1>10, <1>12, <1>13
<1>15. \A i \in 1 .. Len(f) : t[i] \in Events /\ t[i].kind = "steering_applied" /\ t[i].msg = f[i]
  BY <1>12, <1>13 DEF Event, Events, EventKinds
<1>16. t \in Seq(Events) /\ Len(t) = Len(f)
  <2>1. t \in [1 .. Len(f) -> Events] BY <1>13, <1>15
  <2> QED BY <2>1, <1>12, SeqDef, LenProperties
<1>17. NoEnd(t) BY <1>15, <1>16 DEF NoEnd, EndKinds
<1>18. ASSUME NEW m \in Range(q), m \notin inbox.applied PROVE Announces(t, m)
  <2>1. PICK i \in 1 .. Len(q) : q[i] = m BY <1>3, <1>18 DEF Range
  <2>2. a <= i BY <2>1, <1>6, <1>9, <1>18
  <2>3. i - a + 1 \in 1 .. Len(f) /\ a + (i - a + 1) - 1 = i BY <2>1, <2>2, <1>3, <1>11
  <2>4. PICK k \in 1 .. Len(f) : k = i - a + 1 /\ a + k - 1 = i BY <2>3
  <2>5. f[k] = m BY <2>1, <2>4, <1>11
  <2> QED BY <2>4, <2>5, <1>15, <1>16 DEF Announces
<1> HIDE DEF told, fresh
<1>19. PICK o : o = Put(t) OBVIOUS
<1>20. turn' = [turn EXCEPT !.outbox = o] BY <1>7, <1>14, <1>19
<1>21. turn'.outbox = o /\ turn'.pc = turn.pc /\ turn'.stopping = turn.stopping BY <1>1, <1>20 DEF TurnRows
<1>22. inbox'.messages = q /\ inbox'.applied = Range(q) BY <1>1, <1>2, <1>8 DEF InboxRows
<1>23. turn.pc = "working" /\ UNCHANGED <<stream, conn, view, request>> BY DEF ReadSteering
<1>24. PICK p \in Seq(Events) : p = turn.outbox BY <1>1 DEF TurnRows
<1>25. ~turn.stopping /\ NoEnd(p) /\ NoEnd(conn.queue) /\ NoEnd(stream.entries)
  BY <1>23, <1>24 DEF SteeringIInv, WorksOn
<1>26. o = p \o t BY <1>19, <1>24, <1>25 DEF Put
<1>27. NoEnd(o) BY <1>16, <1>17, <1>25, <1>26, MoreOfThem
<1>28. WorksOn' BY <1>21, <1>23, <1>25, <1>27 DEF WorksOn
<1>29. RequestsFit' BY <1>2, <1>22, <1>23 DEF SteeringIInv, RequestsFit
<1>30. Awaited'
  <2> SUFFICES ASSUME conn.open, NEW m \in Range(q), Waits(view, request, m)
               PROVE  Heard(conn, turn', m)
    BY <1>22, <1>23 DEF Awaited
  <2>1. CASE m \in inbox.applied
    <3>1. Heard(conn, turn, m) BY <2>1 DEF SteeringIInv, Awaited
    <3>2. PICK u : u = turn' OBVIOUS
    <3>3. u.stopping = turn.stopping /\ u.outbox = IF turn.stopping THEN turn.outbox ELSE turn.outbox \o t
      BY <3>2, <1>21, <1>24, <1>25, <1>26
    <3>4. Heard(conn, u, m) BY <1>1, <1>16, <1>23, <3>1, <3>3, PutIsHeard
    <3> QED BY <3>2, <3>4
  <2>2. CASE m \notin inbox.applied
    <3>1. Announces(t, m) BY <2>2, <1>18
    <3>2. Announces(o, m) BY <3>1, <1>16, <1>26, MoreOfThem
    <3>3. EndsAfter(conn.queue, m) /\ EndsAfter(o, m) BY <1>25, <1>27, NoEndIsAfter
    <3> QED BY <3>2, <3>3, <1>21 DEF Heard
  <2> QED BY <2>1, <2>2
<1> QED BY <1>28, <1>29, <1>30 DEF SteeringIInv

\* An event goes from the outbox to the end of the queue, or cuts the view off.
LEMMA PublishingIsHeard ==
    ASSUME TurnIInv, SteeringIInv, Publish
    PROVE  SteeringIInv'
<1>1. turn \in TurnRows /\ stream \in StreamRows /\ conn \in ConnRows /\ OutboxSound
      /\ EntriesSound(stream.entries, stream.n, stream.dropped)
  BY DEF TurnIInv, TurnTypes
<1>2. PICK p \in Seq(Events) : p = turn.outbox BY <1>1 DEF TurnRows
<1>3. p # <<>> BY <1>2 DEF Publish
<1>4. PICK e : e = Head(p) OBVIOUS
<1>5. PICK rest : rest = Tail(p) OBVIOUS
<1>6. e \in Events /\ e = p[1] /\ rest \in Seq(Events) /\ 1 \in 1 .. Len(p)
  BY <1>3, <1>4, <1>5, HeadTailProperties, LenProperties, EmptySeq
<1>7. PICK c : c = Chunk(e, stream.n + 1, stream.n + 1) OBVIOUS
<1>8. c \in Chunks /\ c.kind = e.kind /\ c.msg = e.msg
  <2>1. PICK n \in Nat : n = stream.n + 1 BY <1>1 DEF StreamRows
  <2>2. c = Chunk(e, n, n) BY <2>1, <1>7
  <2>3. c.msg = e.msg BY <2>2 DEF Chunk
  <2> QED BY <2>2, <2>3, <1>6, NewChunk
<1>9. /\ turn' = [turn EXCEPT !.outbox = rest] /\ stream' = Remember(stream, e)
      /\ conn' = Delivered(conn, c) /\ UNCHANGED <<inbox, view, request>>
  BY <1>2, <1>4, <1>5, <1>7 DEF Publish
<1>10. turn'.outbox = rest /\ turn'.pc = turn.pc /\ turn'.stopping = turn.stopping BY <1>1, <1>9 DEF TurnRows
<1>11. PICK q \in Seq(Chunks) : q = conn.queue BY <1>1 DEF ConnRows
<1>12. conn.subscribed \in BOOLEAN /\ conn.open \in BOOLEAN BY <1>1 DEF ConnRows
<1>13. stream.n = 0 <=> e.kind = "turn_started" BY <1>1, <1>2, <1>3, <1>6 DEF OutboxSound, StreamRows
<1>14. PICK cut : cut = <<Notice("lagging"), Notice("None")>> OBVIOUS
<1>15. NoEnd(cut)
  <2>1. PICK a : a = Notice("lagging") OBVIOUS
  <2>2. PICK b : b = Notice("None") OBVIOUS
  <2>3. a.kind = "lagging" /\ b.kind = "None" BY <2>1, <2>2 DEF Notice, Chunk, Plain, Event
  <2>4. Len(<<a, b>>) = 2 /\ <<a, b>>[1] = a /\ <<a, b>>[2] = b /\ cut = <<a, b>> BY <2>1, <2>2, <1>14
  <2>5. \A i \in 1 .. 2 : i = 1 \/ i = 2 OBVIOUS
  <2> QED BY <2>3, <2>4, <2>5 DEF NoEnd, EndKinds
<1>16. PICK more \in Seq(Chunks) : more = Append(q, c) BY <1>8, AppendProperties
<1>17. \/ ~conn.subscribed /\ conn' = conn
       \/ conn.subscribed /\ ~conn'.subscribed /\ conn'.open = conn.open /\ conn'.queue = cut
       \/ conn.subscribed /\ conn'.subscribed /\ conn'.open = conn.open /\ conn'.queue = more
  <2>1. CASE ~conn.subscribed BY <2>1, <1>9 DEF Delivered
  <2>2. CASE conn.subscribed /\ TotalSize(more) > MaxBacklog
    <3>1. conn' = [conn EXCEPT !.subscribed = FALSE, !.queue = cut] BY <2>2, <1>9, <1>11, <1>14, <1>16 DEF Delivered
    <3> QED BY <3>1, <2>2, <1>1 DEF ConnRows
  <2>3. CASE conn.subscribed /\ ~(TotalSize(more) > MaxBacklog)
    <3>1. conn' = [conn EXCEPT !.queue = more] BY <2>3, <1>9, <1>11, <1>16 DEF Delivered
    <3> QED BY <3>1, <2>3, <1>1 DEF ConnRows
  <2> QED BY <2>1, <2>2, <2>3, <1>12
<1>18. WorksOn'
  <2> SUFFICES ASSUME turn.pc = "working"
               PROVE  ~turn.stopping /\ NoEnd(rest) /\ NoEnd(conn'.queue) /\ NoEnd(stream'.entries)
    BY <1>10 DEF WorksOn
  <2>1. ~turn.stopping /\ NoEnd(p) /\ NoEnd(q) /\ NoEnd(stream.entries)
    BY <1>2, <1>11 DEF SteeringIInv, WorksOn
  <2>2. e.kind \notin EndKinds /\ NoEnd(rest) BY <2>1, <1>3, <1>4, <1>5, FirstTaken
  <2>3. NoEnd(more) BY <2>1, <2>2, <1>8, <1>16, OneMore
  <2>4. NoEnd(conn'.queue) BY <2>1, <2>3, <1>11, <1>15, <1>17
  <2>5. NoEnd(stream'.entries) BY <2>1, <2>2, <1>1, <1>6, <1>9, <1>13, RememberGoesOn
  <2> QED BY <2>1, <2>2, <2>4, <2>5
<1>19. RequestsFit' BY <1>9 DEF SteeringIInv, RequestsFit
<1>20. Awaited'
  <2> SUFFICES ASSUME conn'.open, NEW m \in inbox.applied, Waits(view, request, m)
               PROVE  Heard(conn', turn', m)
    BY <1>9 DEF Awaited
  <2>1. Heard(conn, turn, m) BY <1>17 DEF SteeringIInv, Awaited
  <2>2. EndsAfter(q, m) BY <2>1, <1>11 DEF Heard
  <2>3. CASE ~conn.subscribed /\ conn' = conn BY <2>2, <2>3, <1>11 DEF Heard
  <2>4. CASE ~conn'.subscribed /\ conn'.queue = cut BY <2>4, <1>15, NoEndIsAfter DEF Heard
  <2>5. CASE conn.subscribed /\ conn'.subscribed /\ conn'.queue = more
    <3>1. Announces(q, m) \/ EndsAfter(p, m) BY <2>1, <2>5, <1>2, <1>11 DEF Heard
    <3>2. turn.pc \in {"working", "closing", "saving"} /\ ~turn.stopping => Announces(q, m) \/ Announces(p, m)
      BY <2>1, <2>5, <1>2, <1>11 DEF Heard
    <3>3. EndsAfter(p, m) => c.kind \notin EndKinds BY <1>3, <1>4, <1>8, FirstTaken
    <3>4. EndsAfter(more, m) BY <3>1, <3>3, <2>2, <1>8, <1>16, OneMore
    <3>5. Announces(more, m) <=> Announces(q, m) \/ (e.kind = "steering_applied" /\ e.msg = m)
      BY <1>8, <1>16, OneMore
    <3>6. ~(e.kind = "steering_applied" /\ e.msg = m) =>
             /\ EndsAfter(p, m) => EndsAfter(rest, m)
             /\ Announces(p, m) => Announces(rest, m)
      BY <1>3, <1>4, <1>5, FirstTaken
    <3> QED BY <3>1, <3>2, <3>4, <3>5, <3>6, <2>5, <1>10 DEF Heard
  <2> QED BY <2>3, <2>4, <2>5, <1>17
<1> QED BY <1>18, <1>19, <1>20 DEF SteeringIInv

LEMMA EndOfTurnIsHeard ==
    ASSUME TurnIInv, SteeringIInv, EndTurn
    PROVE  SteeringIInv'
<1>1. turn \in TurnRows /\ inbox \in InboxRows /\ conn \in ConnRows BY DEF TurnIInv, TurnTypes
<1>2. PICK q \in Seq(Chunks) : q = conn.queue BY <1>1 DEF ConnRows
<1>3. PICK c : c = Notice("None") OBVIOUS
<1>4. c \in Chunks /\ c.kind \notin EndKinds
  <2>1. c \in Chunks /\ c.kind = "None" BY <1>3 DEF Notice, Chunk, Plain, Event, Chunks
  <2> QED BY <2>1 DEF EndKinds
<1>5. turn' = [turn EXCEPT !.pc = "over"] /\ inbox' = [inbox EXCEPT !.closed = TRUE, !.registered = FALSE]
      /\ UNCHANGED <<view, request>>
  BY DEF EndTurn
<1>6. turn'.pc = "over" BY <1>1, <1>5 DEF TurnRows
<1>7. inbox'.messages = inbox.messages /\ inbox'.applied = inbox.applied BY <1>1, <1>5 DEF InboxRows
<1>8. PICK more : more = Append(q, c) OBVIOUS
<1>9. conn'.open = conn.open /\ ~conn'.subscribed /\ conn'.queue \in {q, more}
  <2>1. CASE conn.subscribed
    <3>1. conn' = [conn EXCEPT !.subscribed = FALSE, !.queue = more] BY <2>1, <1>2, <1>3, <1>8 DEF EndTurn
    <3> QED BY <3>1, <1>1 DEF ConnRows
  <2>2. CASE ~conn.subscribed BY <2>2, <1>2 DEF EndTurn
  <2> QED BY <2>1, <2>2
<1>10. WorksOn' BY <1>6 DEF WorksOn
<1>11. RequestsFit' BY <1>5, <1>7 DEF SteeringIInv, RequestsFit
<1>12. Awaited'
  <2> SUFFICES ASSUME conn.open, NEW m \in inbox.applied, Waits(view, request, m)
               PROVE  Heard(conn', turn', m)
    BY <1>5, <1>7, <1>9 DEF Awaited
  <2>1. EndsAfter(q, m) BY <1>2 DEF SteeringIInv, Awaited, Heard
  <2>2. EndsAfter(more, m) BY <2>1, <1>4, <1>8, OneMore
  <2> QED BY <2>1, <2>2, <1>9 DEF Heard
<1> QED BY <1>10, <1>11, <1>12 DEF SteeringIInv

\* A turn that is stopped tells nothing more.
LEMMA StoppedIsHeard ==
    ASSUME TurnIInv, SteeringIInv, StopArrives \/ StopElsewhere \/ StopIsLost
    PROVE  SteeringIInv'
<1>1. turn \in TurnRows /\ view \in ViewRows BY DEF TurnIInv, TurnTypes
<1>2. UNCHANGED <<inbox, stream, conn, request>> BY DEF StopArrives, StopElsewhere, StopIsLost
<1>3. /\ view'.pc = view.pc /\ view'.target = view.target /\ view'.returns = view.returns
      /\ view'.pending = view.pending /\ view'.applied = view.applied
  <2>1. view' = view \/ view' = [view EXCEPT !.stop = FALSE] BY DEF StopArrives, StopElsewhere, StopIsLost
  <2> QED BY <1>1, <2>1 DEF ViewRows
<1>4. turn' = turn \/ (turn'.stopping /\ turn'.pc # "working" /\ turn'.outbox = <<>>)
  <2>1. turn' = turn \/ turn' = Stopped BY DEF StopArrives, StopElsewhere, StopIsLost
  <2>2. ASSUME turn' = Stopped, turn.pc # "over" PROVE turn'.stopping /\ turn'.pc # "working" /\ turn'.outbox = <<>>
    <3>1. turn' = [turn EXCEPT !.pc = IF turn.pc = "working" THEN "closing" ELSE turn.pc,
                               !.stopping = TRUE, !.outbox = <<>>]
      BY <2>2 DEF Stopped
    <3>2. PICK pc : pc = (IF turn.pc = "working" THEN "closing" ELSE turn.pc) /\ pc # "working" OBVIOUS
    <3>3. turn' = [turn EXCEPT !.pc = pc, !.stopping = TRUE, !.outbox = <<>>] BY <3>1, <3>2
    <3> QED BY <1>1, <3>2, <3>3 DEF TurnRows
  <2> QED BY <2>1, <2>2 DEF Stopped
<1>5. WorksOn' BY <1>2, <1>4 DEF SteeringIInv, WorksOn
<1>6. RequestsFit' BY <1>2, <1>3 DEF SteeringIInv, RequestsFit
<1>7. Awaited'
  <2> SUFFICES ASSUME conn.open, NEW m \in inbox.applied, Waits(view', request, m)
               PROVE  Heard(conn, turn', m)
    BY <1>2 DEF Awaited
  <2>1. Waits(view, request, m) BY <1>3 DEF Waits
  <2>2. Heard(conn, turn, m) BY <2>1 DEF SteeringIInv, Awaited
  <2> QED BY <2>2, <1>4, NothingAnnounced DEF Heard
<1> QED BY <1>5, <1>6, <1>7 DEF SteeringIInv

-----------------------------------------------------------------------------
(* The window goes on. *)

\* Without an open response there is nothing to hear.
LEMMA ApartIsHeard ==
    ASSUME SteeringIInv, RequestsFit', ~conn'.open, NoEnd(conn.queue) => NoEnd(conn'.queue), UNCHANGED <<turn, stream>>
    PROVE  SteeringIInv'
BY DEF SteeringIInv, WorksOn, Awaited

LEMMA NoConnGoesOn == ~NoConn.open /\ NoEnd(NoConn.queue)
<1>1. ~NoConn.open /\ NoConn.queue = <<>> BY DEF NoConn
<1> QED BY <1>1, NothingAnnounced

LEMMA ReceivingIsHeard ==
    ASSUME TurnIInv, SteeringIInv, Receive
    PROVE  SteeringIInv'
<1>1. conn \in ConnRows /\ view \in ViewRows /\ request \in [Messages -> RequestRows] BY DEF TurnIInv, TurnTypes
<1>2. PICK q \in Seq(Chunks) : q = conn.queue BY <1>1 DEF ConnRows
<1>3. /\ view.pc = "streaming" /\ conn.open /\ q # <<>> /\ view' = Shown(Head(q))
      /\ conn' = IF view'.pc = "ended" THEN NoConn ELSE [conn EXCEPT !.queue = Tail(q)]
      /\ UNCHANGED <<turn, inbox, stream, request>>
  BY <1>2 DEF Receive
<1>4. PICK c \in Chunks : c = Head(q) BY <1>3, HeadTailProperties
<1>5. PICK rest : rest = Tail(q) OBVIOUS
<1>6. PICK w : w = [view EXCEPT !.seen = view.seen \cup Ranges(c)] OBVIOUS
<1>7. /\ w.pc = "streaming" /\ w.target = view.target /\ w.returns = view.returns
      /\ w.pending = view.pending /\ w.applied = view.applied
  BY <1>1, <1>3, <1>6 DEF ViewRows
<1>8. w \in [DOMAIN view -> UNION {{w[x]} : x \in DOMAIN view}] /\ DOMAIN w = DOMAIN view BY <1>6
<1>9. DOMAIN view = {"pc", "target", "pending", "applied", "queue", "elsewhere", "kept", "left", "stop", "returns", "seen", "notice"}
  BY <1>1 DEF ViewRows
<1>10. view' = CASE c.kind = "turn_started"     -> [w EXCEPT !.target = w.returns + 1]
                 [] c.kind = "progress"         -> [w EXCEPT !.notice = TRUE]
                 [] c.kind = "steering_applied" -> [w EXCEPT !.pending = @ \ {c.msg}, !.applied = @ \cup {c.msg}]
                 [] c.kind \in {"token", "step"} -> w
                 [] OTHER                        -> Ended(w)
  BY <1>3, <1>4, <1>6 DEF Shown
<1>11. \/ /\ view'.pc = "ended" /\ view'.pending = {} /\ view'.target = view.target /\ view'.returns = view.returns
       \/ /\ c.kind = "steering_applied" /\ view'.pc = "streaming" /\ view'.target = view.target
          /\ view'.returns = view.returns /\ view'.pending = view.pending \ {c.msg}
          /\ view'.applied = view.applied \cup {c.msg}
       \/ /\ c.kind # "steering_applied" /\ view'.pc = "streaming"
          /\ view'.target \in {view.target, view.returns + 1} /\ view'.returns = view.returns
          /\ view'.pending = view.pending /\ view'.applied = view.applied
  <2>1. CASE c.kind = "turn_started"
    <3>1. view' = [w EXCEPT !.target = w.returns + 1] BY <1>10, <2>1
    <3> QED BY <3>1, <2>1, <1>7, <1>8, <1>9
  <2>2. CASE c.kind = "progress"
    <3>1. view' = [w EXCEPT !.notice = TRUE] BY <1>10, <2>2
    <3> QED BY <3>1, <2>2, <1>7, <1>8, <1>9
  <2>3. CASE c.kind = "steering_applied"
    <3>1. view' = [w EXCEPT !.pending = w.pending \ {c.msg}, !.applied = w.applied \cup {c.msg}] BY <1>10, <2>3
    <3> QED BY <3>1, <2>3, <1>7, <1>8, <1>9
  <2>4. CASE c.kind \in {"token", "step"}
    <3>1. view' = w BY <1>10, <2>4
    <3> QED BY <3>1, <2>4, <1>7
  <2>5. CASE c.kind \notin {"turn_started", "progress", "steering_applied", "token", "step"}
    <3>1. view' = [w EXCEPT !.pc = "ended", !.queue = @ \cup w.pending, !.pending = {}] BY <1>10, <2>5 DEF Ended
    <3> QED BY <3>1, <1>7, <1>8, <1>9
  <2> QED BY <2>1, <2>2, <2>3, <2>4, <2>5
<1>12. RequestsFit
  BY DEF SteeringIInv
<1>13. RequestsFit' BY <1>3, <1>11, <1>12 DEF RequestsFit
<1>14. CASE view'.pc = "ended"
  <2>1. conn' = NoConn BY <1>3, <1>14
  <2> QED BY <2>1, <1>3, <1>13, ApartIsHeard, NoConnGoesOn
<1>15. CASE view'.pc # "ended"
  <2>1. conn' = [conn EXCEPT !.queue = rest] BY <1>3, <1>5, <1>15
  <2>2. conn'.open = conn.open /\ conn'.subscribed = conn.subscribed /\ conn'.queue = rest BY <1>1, <2>1 DEF ConnRows
  <2>3. WorksOn'
    <3>1. NoEnd(q) => NoEnd(rest) BY <1>3, <1>5, FirstTaken
    <3> QED BY <3>1, <2>2, <1>2, <1>3 DEF SteeringIInv, WorksOn
  <2>4. Awaited'
    <3> SUFFICES ASSUME NEW m \in inbox.applied, Waits(view', request, m)
                 PROVE  Heard(conn', turn, m)
      BY <1>3 DEF Awaited
    <3>0. m \in Messages BY DEF TurnIInv, TurnTypes, InboxRows
    <3>1. Waits(view, request, m)
      <4>1. CASE m \in view'.pending BY <4>1, <1>11, <1>15 DEF Waits
      <4>2. CASE request[m].at = "queued" /\ request[m].view = view'.target /\ m \notin view'.applied
        <5>1. m \notin view.applied BY <4>2, <1>11, <1>15
        <5>2. view'.target = view.target
          <6>1. view.target \in {0, view.returns + 1} /\ request[m].view # 0 BY <3>0, <4>2, <1>12 DEF RequestsFit
          <6>2. view.target = 0 => request[m].view <= view.returns BY <3>0, <1>3, <1>12 DEF RequestsFit
          <6>3. view.returns \in Nat /\ request[m].view \in Nat BY <3>0, <1>1 DEF ViewRows, RequestRows
          <6> QED BY <4>2, <6>1, <6>2, <6>3, <1>11, <1>15
        <5> QED BY <4>2, <5>1, <5>2 DEF Waits
      <4> QED BY <4>1, <4>2 DEF Waits
    <3>2. Heard(conn, turn, m) BY <3>1, <1>3 DEF SteeringIInv, Awaited
    <3>3. ~(c.kind = "steering_applied" /\ c.msg = m)
      <4> SUFFICES ASSUME c.kind = "steering_applied", c.msg = m PROVE FALSE OBVIOUS
      <4>1. m \notin view'.pending /\ m \in view'.applied BY <1>11, <1>15
      <4> QED BY <4>1 DEF Waits
    <3>4. /\ EndsAfter(q, m) => EndsAfter(rest, m)
          /\ Announces(q, m) => Announces(rest, m)
      BY <3>3, <1>3, <1>4, <1>5, FirstTaken
    <3> QED BY <3>2, <3>4, <2>2, <1>2 DEF Heard
  <2> QED BY <2>3, <2>4, <1>13 DEF SteeringIInv
<1> QED BY <1>14, <1>15

LEMMA LettingGoIsHeard ==
    ASSUME TurnIInv, SteeringIInv, LoseConnection \/ StopStreaming \/ LeaveChat
    PROVE  SteeringIInv'
<1>1. view \in ViewRows BY DEF TurnIInv, TurnTypes
<1>2. conn' = NoConn /\ UNCHANGED <<turn, inbox, stream, request>> BY DEF LoseConnection, StopStreaming, LeaveChat
<1>3. PICK w : w = Ended(view) OBVIOUS
<1>4. w.pc = "ended" /\ w.pending = {} /\ w.target = view.target /\ w.returns = view.returns /\ w \in ViewRows
  <2>1. w = [view EXCEPT !.pc = "ended", !.queue = view.queue \cup view.pending, !.pending = {}] BY <1>3 DEF Ended
  <2> QED BY <1>1, <1>3, <2>1, EndedFacts DEF ViewRows
<1>5. /\ view'.pc \in {"ended", "away"} /\ view'.pending = {} /\ view'.returns = view.returns
      /\ view'.target \in {view.target, 0} /\ (view'.pc = "away" => view'.target = 0)
  <2>1. CASE LoseConnection
    <3>1. view' = [w EXCEPT !.seen = {}] BY <2>1, <1>3 DEF LoseConnection
    <3> QED BY <3>1, <1>4 DEF ViewRows
  <2>2. CASE StopStreaming
    <3>1. view' = [w EXCEPT !.stop = TRUE, !.target = 0, !.seen = {}] BY <2>2, <1>3 DEF StopStreaming
    <3> QED BY <3>1, <1>4 DEF ViewRows
  <2>3. CASE LeaveChat
    <3>1. view' = [view EXCEPT !.pc = "away", !.target = 0, !.left = view.left \cup view.pending, !.pending = {},
                               !.applied = {}, !.seen = {}, !.notice = FALSE]
      BY <2>3 DEF LeaveChat
    <3> QED BY <3>1, <1>1 DEF ViewRows
  <2> QED BY <2>1, <2>2, <2>3
<1>6. RequestsFit' BY <1>2, <1>5 DEF SteeringIInv, RequestsFit
<1> QED BY <1>2, <1>6, ApartIsHeard, NoConnGoesOn

LEMMA ReturningIsHeard ==
    ASSUME TurnIInv, SteeringIInv, Reopen \/ ListRuns \/ NextTurn
    PROVE  SteeringIInv'
<1>1. view \in ViewRows /\ request \in [Messages -> RequestRows] BY DEF TurnIInv, TurnTypes
<1>2. UNCHANGED <<turn, inbox, stream, conn, request>> /\ view.pc # "streaming" BY DEF Reopen, ListRuns, NextTurn
<1>3. ~conn.open BY <1>2, NotStreaming
<1>4. RequestsFit BY DEF SteeringIInv
<1>5. view.pending = {} BY <1>2, <1>4 DEF RequestsFit
<1>6. RequestsFit'
  <2>1. CASE Reopen
    <3>1. view' = [view EXCEPT !.pc = "returning", !.returns = view.returns + 1] /\ view.pc = "away" BY <2>1 DEF Reopen
    <3>2. view'.pc = "returning" /\ view'.returns = view.returns + 1 /\ view'.target = view.target /\ view'.pending = {}
      BY <3>1, <1>1, <1>5 DEF ViewRows
    <3>3. view.target = 0 BY <3>1, <1>4 DEF RequestsFit
    <3>4. \A m \in Messages : request[m].view <= view'.returns /\ request[m].view <= view'.returns + 1
      <4> TAKE m \in Messages
      <4>1. request[m].view \in Nat /\ view.returns \in Nat /\ request[m].view <= view.returns + 1
        BY <1>1, <1>4 DEF RequestsFit, RequestRows, ViewRows
      <4> QED BY <4>1, <3>2
    <3> QED BY <3>2, <3>3, <3>4, <1>2, <1>4 DEF RequestsFit
  <2>2. CASE ListRuns
    <3>1. PICK pc \in {"opening", "ended"} : view' = [view EXCEPT !.pc = pc] BY <2>2 DEF ListRuns
    <3>2. view.pc = "returning" BY <2>2 DEF ListRuns
    <3>3. view'.pc = pc /\ view'.returns = view.returns /\ view'.target = view.target /\ view'.pending = {}
      BY <3>1, <1>1, <1>5 DEF ViewRows
    <3> QED BY <3>2, <3>3, <1>2, <1>4 DEF RequestsFit
  <2>3. CASE NextTurn
    <3>1. view' = [view EXCEPT !.pc = "next", !.target = 0, !.pending = {}, !.applied = {}] BY <2>3 DEF NextTurn
    <3>2. view'.pc = "next" /\ view'.returns = view.returns /\ view'.target = 0 /\ view'.pending = {}
      BY <3>1, <1>1 DEF ViewRows
    <3> QED BY <3>2, <1>2, <1>4 DEF RequestsFit
  <2> QED BY <2>1, <2>2, <2>3
<1> QED BY <1>2, <1>3, <1>6, ApartIsHeard

\* A view that opens expects nothing: no message was sent from it yet.
LEMMA FollowingIsHeard ==
    ASSUME TurnIInv, SteeringIInv, Follow
    PROVE  SteeringIInv'
<1>1. view \in ViewRows /\ stream \in StreamRows /\ request \in [Messages -> RequestRows] /\ inbox \in InboxRows
  BY DEF TurnIInv, TurnTypes
<1>2. view.pc = "opening" /\ UNCHANGED <<turn, inbox, stream, request>> BY DEF Follow
<1>3. RequestsFit BY DEF SteeringIInv
<1>4. view.pending = {} /\ view.target = 0 BY <1>2, <1>3 DEF RequestsFit
<1>5. PICK pc \in {"streaming", "ended"} : pc = IF inbox.registered THEN "streaming" ELSE "ended" OBVIOUS
<1>6. view' = [view EXCEPT !.pc = pc] BY <1>5 DEF Follow
<1>7. view'.pc = pc /\ view'.returns = view.returns /\ view'.target = 0 /\ view'.pending = {}
  BY <1>1, <1>4, <1>6 DEF ViewRows
<1>8. RequestsFit' BY <1>2, <1>3, <1>7 DEF RequestsFit
<1>9. CASE ~inbox.registered
  <2>1. conn' = conn BY <1>9 DEF Follow
  <2>2. ~conn.open BY <1>2, NotStreaming
  <2> QED BY <2>1, <2>2, <1>2, <1>8, ApartIsHeard
<1>10. CASE inbox.registered
  <2>1. conn'.queue = Replay(stream) BY <1>10 DEF Follow, Subscribed
  <2>2. WorksOn' BY <2>1, <1>1, <1>2, ReplayGoesOn DEF SteeringIInv, WorksOn
  <2>3. ASSUME NEW m \in inbox.applied PROVE ~Waits(view', request, m)
    <3>1. m \in Messages BY <1>1 DEF InboxRows
    <3>2. request[m].at = "queued" => request[m].view # 0 BY <3>1, <1>3 DEF RequestsFit
    <3> QED BY <3>2, <1>7 DEF Waits
  <2>4. Awaited' BY <2>3, <1>2 DEF Awaited
  <2> QED BY <2>2, <2>4, <1>8 DEF SteeringIInv
<1> QED BY <1>9, <1>10

\* A step about one message, which expects no more than was expected.
LEMMA MessageIsHeard ==
    ASSUME TurnIInv, SteeringIInv, UNCHANGED <<turn, stream, conn>>, RequestsFit', inbox'.applied = inbox.applied,
           \A m \in inbox.applied : Waits(view', request', m) => Waits(view, request, m)
    PROVE  SteeringIInv'
BY DEF SteeringIInv, WorksOn, Awaited

\* What is queued or kept leaves what a view expects as it is.
LEMMA SetAsideFacts ==
    ASSUME view \in ViewRows, NEW m \in Messages, NEW v, v = Queued(view, m) \/ v = [view EXCEPT !.kept = @ \cup {m}]
    PROVE  v.pc = view.pc /\ v.target = view.target /\ v.returns = view.returns
           /\ v.pending = view.pending /\ v.applied = view.applied
<1>1. \/ v = [view EXCEPT !.elsewhere = view.elsewhere \cup {m}] \/ v = [view EXCEPT !.queue = view.queue \cup {m}]
      \/ v = [view EXCEPT !.kept = view.kept \cup {m}]
  BY DEF Queued
<1> QED BY <1>1 DEF ViewRows

LEMMA RequestFacts ==
    ASSUME request \in [Messages -> RequestRows], NEW m \in Messages, NEW at, NEW r, r = [request EXCEPT ![m].at = at]
    PROVE  /\ r[m].at = at /\ r[m].view = request[m].view
           /\ \A x \in Messages : x # m => r[x] = request[x]
<1>1. PICK row \in RequestRows : row = request[m] OBVIOUS
<1>2. PICK new : new = [row EXCEPT !.at = at] OBVIOUS
<1>3. new.at = at /\ new.view = row.view BY <1>2 DEF RequestRows
<1>4. r = [request EXCEPT ![m] = new] BY <1>1, <1>2
<1> QED BY <1>1, <1>3, <1>4

LEMMA SteeringIsHeard ==
    ASSUME TurnIInv, SteeringIInv, NEW m \in Messages, Steer(m)
    PROVE  SteeringIInv'
<1>1. view \in ViewRows /\ request \in [Messages -> RequestRows] /\ inbox \in InboxRows BY DEF TurnIInv, TurnTypes
<1>2. UNCHANGED <<turn, inbox, stream, conn>> /\ Watching /\ request[m].at = "unsent" BY DEF Steer
<1>3. RequestsFit BY DEF SteeringIInv
<1>4. \A x \in inbox.applied : x \in Messages BY <1>1 DEF InboxRows
<1>5. CASE view.target # 0
  <2>1. PICK row : row = [at |-> "sent", view |-> view.target] OBVIOUS
  <2>2. row.at = "sent" /\ row.view = view.target BY <2>1
  <2>3. request' = [request EXCEPT ![m] = row] /\ view' = view BY <1>5, <2>1 DEF Steer
  <2>4. request'[m] = row /\ \A x \in Messages : x # m => request'[x] = request[x] BY <1>1, <2>3
  <2>5. view.pc = "streaming" BY <1>2, <1>3, <1>5 DEF Watching, RequestsFit
  <2>6. view.target = view.returns + 1 /\ view.target <= view.returns + 1
    <3>1. view.target = view.returns + 1 /\ view.target \in Nat BY <1>1, <1>3, <1>5 DEF RequestsFit, ViewRows
    <3> QED BY <3>1
  <2>7. m \notin Range(inbox.messages) BY <1>2, <1>3 DEF RequestsFit
  <2>8. RequestsFit'
    <3>1. /\ view.target \in {0, view.returns + 1}
          /\ view.pc \in {"away", "returning", "opening", "next"} => view.target = 0
          /\ view.pc # "streaming" => view.pending = {}
          /\ inbox.applied \subseteq Range(inbox.messages)
      BY <1>3 DEF RequestsFit
    <3>2. ASSUME NEW x \in Messages
          PROVE  /\ request'[x].view <= view.returns + 1
                 /\ view.pc \in {"returning", "opening"} \/ (view.pc = "streaming" /\ view.target = 0)
                       => request'[x].view <= view.returns
                 /\ request'[x].at \in {"unsent", "sent"} => x \notin Range(inbox.messages)
                 /\ request'[x].at = "unsent" => request'[x].view = 0
                 /\ request'[x].at \in {"sent", "queued", "refused"} => request'[x].view # 0
      <4>1. CASE x = m BY <4>1, <2>2, <2>4, <2>5, <2>6, <2>7, <1>5
      <4>2. CASE x # m BY <4>2, <2>4, <1>3 DEF RequestsFit
      <4> QED BY <4>1, <4>2
    <3> QED BY <3>1, <3>2, <2>3, <1>2 DEF RequestsFit
  <2>9. ASSUME NEW x \in inbox.applied, Waits(view', request', x) PROVE Waits(view, request, x)
    <3>1. CASE x = m BY <3>1, <2>2, <2>3, <2>4, <2>9 DEF Waits
    <3>2. CASE x # m BY <3>2, <2>3, <2>4, <2>9, <1>4 DEF Waits
    <3> QED BY <3>1, <3>2
  <2> QED BY <2>8, <2>9, <1>2, MessageIsHeard
<1>6. CASE ~(view.target # 0)
  <2>1. request' = [request EXCEPT ![m].at = "settled"] /\ view' = Queued(view, m) BY <1>6 DEF Steer
  <2>2. /\ request'[m].at = "settled" /\ request'[m].view = request[m].view
        /\ \A x \in Messages : x # m => request'[x] = request[x]
    BY <2>1, <1>1, RequestFacts
  <2>3. view'.pc = view.pc /\ view'.target = view.target /\ view'.returns = view.returns
        /\ view'.pending = view.pending /\ view'.applied = view.applied
    BY <2>1, <1>1, SetAsideFacts
  <2>4. \A x \in Messages : request'[x].view = request[x].view /\ (request'[x].at = request[x].at \/ request'[x].at = "settled")
    BY <2>2
  <2>5. RequestsFit' BY <2>3, <2>4, <1>2, <1>3 DEF RequestsFit
  <2>6. ASSUME NEW x \in inbox.applied, Waits(view', request', x) PROVE Waits(view, request, x)
    BY <2>3, <2>4, <2>6, <1>4 DEF Waits
  <2> QED BY <2>5, <2>6, <1>2, MessageIsHeard
<1> QED BY <1>5, <1>6

LEMMA ArrivingIsHeard ==
    ASSUME TurnIInv, SteeringIInv, NEW m \in Messages, SteerArrives(m)
    PROVE  SteeringIInv'
<1>1. view \in ViewRows /\ request \in [Messages -> RequestRows] /\ inbox \in InboxRows BY DEF TurnIInv, TurnTypes
<1>2. UNCHANGED <<turn, stream, conn, view>> /\ request[m].at = "sent" BY DEF SteerArrives
<1>3. RequestsFit BY DEF SteeringIInv
<1>4. PICK at \in {"queued", "refused"} : request' = [request EXCEPT ![m].at = at] BY DEF SteerArrives
<1>5. /\ request'[m].at = at /\ request'[m].view = request[m].view
      /\ \A x \in Messages : x # m => request'[x] = request[x]
  BY <1>4, <1>1, RequestFacts
<1>6. PICK q \in Seq(Messages) : q = inbox.messages BY <1>1 DEF InboxRows
<1>7. inbox'.applied = inbox.applied /\ inbox'.messages \in {q, Append(q, m)}
  <2>1. inbox' = inbox \/ inbox' = [inbox EXCEPT !.messages = Append(q, m)] BY <1>6 DEF SteerArrives
  <2> QED BY <2>1, <1>1, <1>6 DEF InboxRows
<1>8. Range(q) \subseteq Range(inbox'.messages) /\ Range(inbox'.messages) \subseteq Range(q) \cup {m}
  <2>1. PICK r : r = Append(q, m) OBVIOUS
  <2>2. /\ Len(q) \in Nat /\ DOMAIN q = 1 .. Len(q) /\ DOMAIN r = 1 .. Len(q) + 1 /\ r[Len(q) + 1] = m
        /\ \A i \in 1 .. Len(q) : r[i] = q[i]
    BY <2>1, AppendProperties, LenProperties
  <2>3. \A i \in 1 .. Len(q) + 1 : i \in 1 .. Len(q) \/ i = Len(q) + 1 BY <2>2
  <2>4. \A i \in 1 .. Len(q) : i \in 1 .. Len(q) + 1 BY <2>2
  <2>5. Range(q) \subseteq Range(r) BY <2>2, <2>4 DEF Range
  <2>6. Range(r) \subseteq Range(q) \cup {m} BY <2>2, <2>3 DEF Range
  <2> QED BY <2>1, <2>5, <2>6, <1>7
<1>9. m \notin Range(q) /\ m \notin inbox.applied /\ request[m].view # 0 BY <1>2, <1>3, <1>6 DEF RequestsFit
<1>10. RequestsFit'
  <2>1. /\ view.target \in {0, view.returns + 1}
        /\ view.pc \in {"away", "returning", "opening", "next"} => view.target = 0
        /\ view.pc # "streaming" => view.pending = {}
        /\ inbox'.applied \subseteq Range(inbox'.messages)
    BY <1>3, <1>6, <1>7, <1>8 DEF RequestsFit
  <2>2. ASSUME NEW x \in Messages
        PROVE  /\ request'[x].view <= view.returns + 1
               /\ view.pc \in {"returning", "opening"} \/ (view.pc = "streaming" /\ view.target = 0)
                     => request'[x].view <= view.returns
               /\ request'[x].at \in {"unsent", "sent"} => x \notin Range(inbox'.messages)
               /\ request'[x].at = "unsent" => request'[x].view = 0
               /\ request'[x].at \in {"sent", "queued", "refused"} => request'[x].view # 0
    <3>1. CASE x = m BY <3>1, <1>3, <1>4, <1>5, <1>9 DEF RequestsFit
    <3>2. CASE x # m BY <3>2, <1>3, <1>5, <1>6, <1>8 DEF RequestsFit
    <3> QED BY <3>1, <3>2
  <2> QED BY <2>1, <2>2, <1>2 DEF RequestsFit
<1>11. ASSUME NEW x \in inbox.applied, Waits(view', request', x) PROVE Waits(view, request, x)
  <2>1. x # m /\ x \in Messages BY <1>1, <1>9 DEF InboxRows
  <2> QED BY <2>1, <1>2, <1>5, <1>11 DEF Waits
<1> QED BY <1>2, <1>7, <1>10, <1>11, MessageIsHeard

\* An answer makes pending what was expected to become so.
LEMMA AnsweringIsHeard ==
    ASSUME TurnIInv, SteeringIInv, NEW m \in Messages, SteerFails(m) \/ SteerAnswered(m)
    PROVE  SteeringIInv'
<1>1. view \in ViewRows /\ request \in [Messages -> RequestRows] /\ inbox \in InboxRows BY DEF TurnIInv, TurnTypes
<1>2. UNCHANGED <<turn, inbox, stream, conn>> /\ request' = [request EXCEPT ![m].at = "settled"]
  BY DEF SteerFails, SteerAnswered
<1>3. RequestsFit BY DEF SteeringIInv
<1>4. /\ request'[m].at = "settled" /\ request'[m].view = request[m].view
      /\ \A x \in Messages : x # m => request'[x] = request[x]
  BY <1>2, <1>1, RequestFacts
<1>5. \A x \in Messages : request'[x].view = request[x].view /\ (request'[x].at = request[x].at \/ request'[x].at = "settled")
  BY <1>4
<1>6. /\ view'.pc = view.pc /\ view'.target = view.target /\ view'.returns = view.returns /\ view'.applied = view.applied
      /\ \/ view'.pending = view.pending
         \/ /\ view'.pending = view.pending \cup {m} /\ m \notin view.applied /\ request[m].at = "queued"
            /\ view.pc \in {"opening", "streaming", "next"} /\ view.target = request[m].view
  <2>1. CASE SteerFails(m)
    <3>1. view' = [view EXCEPT !.kept = @ \cup {m}] BY <2>1 DEF SteerFails
    <3> QED BY <3>1, <1>1, SetAsideFacts
  <2>2. CASE SteerAnswered(m)
    <3>0. view' = Answered(view, m) /\ request[m].at \in {"queued", "refused"} BY <2>2 DEF SteerAnswered
    <3>1. CASE view' = Queued(view, m) \/ view' = [view EXCEPT !.kept = @ \cup {m}] \/ view' = view
      BY <3>1, <1>1, SetAsideFacts
    <3>2. CASE /\ view' = [view EXCEPT !.pending = @ \cup {m}] /\ m \notin view.applied /\ request[m].at = "queued"
               /\ view.pc \in {"opening", "streaming", "next"} /\ view.target = request[m].view
      BY <3>2, <1>1 DEF ViewRows
    <3> QED BY <3>0, <3>1, <3>2 DEF Answered
  <2> QED BY <2>1, <2>2
<1>7. view'.pc # "streaming" => view'.pending = {}
  <2> SUFFICES ASSUME view.pc # "streaming" PROVE view'.pending = {} BY <1>6
  <2>1. view.pending = {} BY <1>3 DEF RequestsFit
  <2>2. view.pc \in {"opening", "next"} => view.target = 0 BY <1>3 DEF RequestsFit
  <2>3. request[m].at = "queued" => request[m].view # 0 BY <1>3 DEF RequestsFit
  <2> QED BY <2>1, <2>2, <2>3, <1>6
<1>8. RequestsFit' BY <1>2, <1>3, <1>5, <1>6, <1>7 DEF RequestsFit
<1>9. ASSUME NEW x \in inbox.applied, Waits(view', request', x) PROVE Waits(view, request, x)
  <2>1. x \in Messages BY <1>1 DEF InboxRows
  <2> QED BY <2>1, <1>5, <1>6, <1>9 DEF Waits
<1> QED BY <1>2, <1>8, <1>9, MessageIsHeard

-----------------------------------------------------------------------------
(* The theorem about steering. *)

LEMMA SteeringBegins ==
    ASSUME StreamInit
    PROVE  SteeringIInv
<1>1. /\ turn = NewTurn /\ stream = NoStream /\ conn = Subscribed(NoStream) /\ view = NewView
      /\ inbox = [messages |-> <<>>, applied |-> {}, closed |-> FALSE, registered |-> TRUE]
      /\ request = [m \in Messages |-> [at |-> "unsent", view |-> 0]]
  BY DEF StreamInit
<1>2. inbox.messages = <<>> /\ inbox.applied = {} /\ Range(<<>>) = {} BY <1>1 DEF Range
<1>3. view.pc = "streaming" /\ view.target = 0 /\ view.returns = 0 /\ view.pending = {} BY <1>1 DEF NewView
<1>4. \A m \in Messages : request[m].at = "unsent" /\ request[m].view = 0 BY <1>1
<1>5. RequestsFit BY <1>2, <1>3, <1>4 DEF RequestsFit
<1>6. Awaited BY <1>2 DEF Awaited
<1>7. WorksOn
  <2>1. PICK e : e = Plain("turn_started") OBVIOUS
  <2>2. e.kind \notin EndKinds BY <2>1 DEF Plain, Event, EndKinds
  <2>3. turn.outbox = <<e>> /\ ~turn.stopping BY <1>1, <2>1 DEF NewTurn
  <2>4. stream \in StreamRows /\ NoEnd(stream.entries) BY StreamInit, TurnInit, <1>1, NothingAnnounced
    DEF TurnIInv, TurnTypes, NoStream
  <2>5. conn.queue = Replay(stream) BY <1>1 DEF Subscribed
  <2> QED BY <2>2, <2>3, <2>4, <2>5, OneThatGoesOn, ReplayGoesOn DEF WorksOn
<1> QED BY <1>5, <1>6, <1>7 DEF SteeringIInv

LEMMA SteeringGoesOn ==
    ASSUME TurnIInv, SteeringIInv, [StreamNext]_vars
    PROVE  SteeringIInv'
<1>1. CASE UNCHANGED vars
  BY <1>1 DEF vars, SteeringIInv, WorksOn, RequestsFit, Awaited
<1>2. CASE TurnNext
  BY <1>2, LoopIsAwaited, ReadingIsAnnounced, PublishingIsHeard, EndOfTurnIsHeard, StoppedIsHeard DEF TurnNext
<1>3. CASE WindowNext
  <2>1. ASSUME NEW m \in Messages, Steer(m) \/ SteerArrives(m) \/ SteerFails(m) \/ SteerAnswered(m) PROVE SteeringIInv'
    BY <2>1, SteeringIsHeard, ArrivingIsHeard, AnsweringIsHeard
  <2> QED BY <1>3, <2>1, ReceivingIsHeard, LettingGoIsHeard, ReturningIsHeard, FollowingIsHeard DEF WindowNext
<1> QED BY <1>1, <1>2, <1>3 DEF StreamNext

LEMMA EndsFindNothingRead ==
    ASSUME TurnIInv, SteeringIInv, Receive, Head(conn.queue).kind \in {"error", "done"}
    PROVE  (view'.queue \ view.queue) \cap inbox.applied = {}
<1>1. conn \in ConnRows /\ view \in ViewRows BY DEF TurnIInv, TurnTypes
<1>2. PICK q \in Seq(Chunks) : q = conn.queue BY <1>1 DEF ConnRows
<1>3. q # <<>> /\ conn.open /\ view' = Shown(Head(q)) BY <1>2 DEF Receive
<1>4. PICK c \in Chunks : c = Head(q) BY <1>3, HeadTailProperties
<1>5. PICK w : w = [view EXCEPT !.seen = view.seen \cup Ranges(c)] OBVIOUS
<1>6. view' = Ended(w) BY <1>2, <1>3, <1>4, <1>5 DEF Shown
<1>7. view'.queue = view.queue \cup view.pending
  <2>1. view' = [view EXCEPT !.seen = view.seen \cup Ranges(c), !.pc = "ended",
                             !.queue = view.queue \cup view.pending, !.pending = {}]
    BY <1>1, <1>5, <1>6 DEF Ended, ViewRows
  <2> QED BY <2>1, <1>1 DEF ViewRows
<1>8. ASSUME NEW m \in view.pending, m \in inbox.applied PROVE FALSE
  <2>1. EndsAfter(q, m) BY <1>2, <1>3, <1>8 DEF SteeringIInv, Awaited, Waits, Heard
  <2>2. Head(q).kind \notin EndKinds BY <2>1, <1>3, FirstTaken
  <2> QED BY <2>2, <1>2 DEF EndKinds
<1> QED BY <1>7, <1>8

\* However often a view falls behind, leaves and returns, and however late the answers
\* to its requests are: when the stream tells it that the turn ended, what it queues
\* to run next was not read by the turn (SteeringInbox, useChat.ts).
THEOREM TheUnreadRunNext == StreamSpec => ReadIsNotSentAgain
<1>1. StreamInit => TurnIInv /\ SteeringIInv BY TurnInit, SteeringBegins
<1>2. TurnIInv /\ SteeringIInv /\ [StreamNext]_vars => TurnIInv' /\ SteeringIInv' BY TurnSteps, SteeringGoesOn
<1>3. TurnIInv /\ SteeringIInv /\ [StreamNext]_vars =>
        [Receive /\ Head(conn.queue).kind \in {"error", "done"} =>
            (view'.queue \ view.queue) \cap inbox.applied = {}]_vars
  BY EndsFindNothingRead
<1>4. StreamSpec => StreamInit /\ [][StreamNext]_vars BY PTL DEF StreamSpec
<1> QED BY <1>1, <1>2, <1>3, <1>4, PTL DEF ReadIsNotSentAgain
===============================================================================
