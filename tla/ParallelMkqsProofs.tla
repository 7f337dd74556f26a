-------------------------- MODULE ParallelMkqsProofs --------------------------
(***************************************************************************)
(* Proofs about MkqsSequential and ParallelMkqs for every number of        *)
(* strings, threads and PartitionJobs, every block size and threshold.     *)
(*                                                                         *)
(* The inductive invariant of the sequential jobs is IInv.  Its heart is   *)
(* what the shape of a stack says of the area left to a thread: the levels *)
(* are nested, each in the part its predecessor started last, and the      *)
(* oldest level that was not given away ends at cache_finished (StackOK).  *)
(* Hence the work a thread has not started is one range, from its Cursor   *)
(* to cache_finished, and all below it is sorted (SortedBelow).  Sharing   *)
(* cuts that range at the start of the oldest level's next part, so that   *)
(* what is given away and what is kept never meet (OwnedOnce).             *)
(*                                                                         *)
(* The invariant of the whole sort has two halves.  As long as the         *)
(* ParallelJob is alive the invariant of the partition holds               *)
(* (MkqsPartitionProofs), and the rest of the state is untouched; after    *)
(* that the one of the sequential jobs.  What joins them is that the sizes *)
(* of the three queues are those of three ranges that follow one another   *)
(* (JobsMade), and that a step that repeats itself one key deeper has      *)
(* found all strings equal, which the bound on the depth excludes at last  *)
(* (AgainStep).                                                            *)
(***************************************************************************)
EXTENDS ParallelMkqs, FiniteSetTheorems, TLAPS

---------------------------------------------------------------------------
(* The sequential jobs *)

Bound == 0 .. N

LevelType ==
  [a : Bound \X Bound \X Bound \X Bound, depth : 0 .. MaxDepth, idx : 0 .. 3, recurse : BOOLEAN]

BusyType ==
  [busy : {TRUE}, lo : Bound, stack : Seq(LevelType), front : Nat, finished : Bound]

\* The parts of a level follow one another and the equal part is nonempty.
LevelOK(l) ==
  /\ l.a[1] <= l.a[2] /\ l.a[2] < l.a[3] /\ l.a[3] <= l.a[4]
  /\ l.recurse => l.depth < MaxDepth

\* Where the parts of a level begin that were not started.
NextLo(l) == l.a[l.idx + 1]

StateOK ==
  /\ jobs \subseteq JobType
  /\ thr \in [Thread -> BusyType \cup {Idle}]
  /\ sorted \subseteq Position
  /\ copied \in [Position -> Nat]

\* The shape of the stack of a busy thread.
StackOK(r) ==
  /\ r.lo <= r.finished /\ r.front <= Len(r.stack)
  /\ \A n \in 1 .. Len(r.stack) : LevelOK(r.stack[n]) /\ r.lo <= r.stack[n].a[1]
  /\ \A m, n \in 1 .. Len(r.stack) : m < n =>
       r.stack[m].idx >= 1 /\ r.stack[n].a[4] <= NextLo(r.stack[m])
  /\ \A n \in 1 .. Len(r.stack) : n > 1 => r.stack[n].a[4] = NextLo(r.stack[n - 1])
  /\ Len(r.stack) > r.front => r.stack[r.front + 1].a[4] = r.finished

\* Where the work begins that a busy thread has not started.
Cursor(r) == IF Len(r.stack) > r.front THEN NextLo(Last(r.stack)) ELSE r.finished

StacksOK == \A t \in Thread : thr[t].busy => StackOK(thr[t])
SortedBelow == \A t \in Thread : thr[t].busy => Cells(thr[t].lo, Cursor(thr[t])) \subseteq sorted

JobsFilled == \A j \in jobs : j.lo < j.hi

Queues(i, j) == j \in jobs /\ i \in Cells(j.lo, j.hi)
Holds(i, t) == thr[t].busy /\ i \in Cells(thr[t].lo, thr[t].finished)

\* No string is queued or held twice, and it is copied once it is neither.
OwnedOnce ==
  \A i \in Position :
    /\ \A j, k \in jobs : Queues(i, j) /\ Queues(i, k) => j = k
    /\ \A t, u \in Thread : Holds(i, t) /\ Holds(i, u) => t = u
    /\ \A j \in jobs, t \in Thread : ~(Queues(i, j) /\ Holds(i, t))
    /\ copied[i] = IF (\E j \in jobs : Queues(i, j)) \/ (\E t \in Thread : Holds(i, t)) THEN 0 ELSE 1

IInv ==
  /\ StateOK
  /\ StacksOK
  /\ SortedBelow
  /\ JobsFilled
  /\ OwnedOnce
  /\ CopiedAreSorted

---------------------------------------------------------------------------
\* A level that an MKQSStep makes of a range has the range's ends and no part
\* of it started.
LEMMA LevelFacts ==
  ASSUME NEW lo \in Bound, NEW hi \in Bound, NEW d \in 0 .. MaxDepth,
         NEW l \in Levels(lo, hi, d)
  PROVE  /\ l \in LevelType /\ LevelOK(l)
         /\ l.idx = 0 /\ l.a[1] = lo /\ l.a[4] = hi
<1>1. PICK x \in lo .. hi - 1, y \in lo + 1 .. hi, r \in {d < MaxDepth, FALSE} :
        l = [a |-> <<lo, x, y, hi>>, depth |-> d, idx |-> 0, recurse |-> r] /\ x < y
  BY DEF Levels, Splits
<1>2. x \in Bound /\ y \in Bound
  BY SequentialAssumption DEF Bound
<1>3. r \in BOOLEAN /\ (r => d < MaxDepth)
  <2>1. r = (d < MaxDepth) \/ r = FALSE
    BY Zenon
  <2>2. CASE r = (d < MaxDepth)
    <3>1. (d < MaxDepth) \in BOOLEAN
      OBVIOUS
    <3>2. r \in BOOLEAN
      BY <2>2, <3>1, Zenon
    <3>3. r => d < MaxDepth
      BY <2>2, Zenon
    <3> QED BY <3>2, <3>3
  <2>3. CASE r = FALSE
    BY Zenon, <2>3
  <2> QED BY <2>1, <2>2, <2>3
<1> QED BY <1>1, <1>2, <1>3, SequentialAssumption DEF LevelType, LevelOK, Bound

\* The parts of a level lie inside its range, and a part that is recursed on
\* is a job of its own.
LEMMA PartFacts ==
  ASSUME NEW l \in LevelType, LevelOK(l), NEW k \in 0 .. 2
  PROVE  /\ PartLo(l, k) \in Bound /\ PartHi(l, k) \in Bound
         /\ l.a[1] <= PartLo(l, k) /\ PartLo(l, k) <= PartHi(l, k) /\ PartHi(l, k) <= l.a[4]
         /\ ~NoRecurse(l, k) => PartDepth(l, k) \in 0 .. MaxDepth /\ PartJob(l, k) \in JobType
         /\ \A i \in 0 .. 2 : i < k => PartHi(l, i) <= PartLo(l, k)
<1>1. CASE k = 0
  BY <1>1, SequentialAssumption DEF LevelType, LevelOK, PartLo, PartHi, PartDepth, PartJob, NoRecurse, JobType, Bound
<1>2. CASE k = 1
  BY <1>2, SequentialAssumption DEF LevelType, LevelOK, PartLo, PartHi, PartDepth, PartJob, NoRecurse, JobType, Bound
<1>3. CASE k = 2
  BY <1>3, SequentialAssumption DEF LevelType, LevelOK, PartLo, PartHi, PartDepth, PartJob, NoRecurse, JobType, Bound
<1> QED BY <1>1, <1>2, <1>3

\* Where the unstarted parts begin is a position inside the level.
LEMMA NextFacts ==
  ASSUME NEW l \in LevelType, LevelOK(l)
  PROVE  /\ NextLo(l) \in Bound /\ l.a[1] <= NextLo(l) /\ NextLo(l) <= l.a[4]
         /\ l.idx = 3 => NextLo(l) = l.a[4]
         /\ l.idx < 3 => l.idx \in 0 .. 2 /\ NextLo(l) = PartLo(l, l.idx)
<1>1. l.idx \in {0, 1, 2, 3}
  BY DEF LevelType
<1> QED BY <1>1, SequentialAssumption DEF LevelType, LevelOK, NextLo, PartLo, Bound

\* A busy thread has a record of its job, an idle one has none.
LEMMA BusyFacts ==
  ASSUME StateOK, NEW t \in Thread
  PROVE  /\ thr[t].busy => thr[t] \in BusyType
         /\ ~thr[t].busy => thr[t] = Idle
<1>1. thr[t] \in BusyType \cup {Idle}
  BY DEF StateOK
<1>2. \A r \in BusyType : r.busy
  BY Zenon DEF BusyType
<1>3. ~Idle.busy
  BY DEF Idle
<1> QED BY <1>1, <1>2, <1>3

\* The area of a busy thread is a range of positions, and its cursor is in it.
LEMMA AreaFacts ==
  ASSUME NEW r \in BusyType, StackOK(r)
  PROVE  /\ r.lo \in Bound /\ r.finished \in Bound /\ r.lo <= r.finished
         /\ r.front \in Nat /\ Len(r.stack) \in Nat
         /\ Cells(r.lo, r.finished) \subseteq Position
<1>1. r.lo \in Bound /\ r.finished \in Bound /\ r.front \in Nat /\ Len(r.stack) \in Nat
  BY DEF BusyType
<1> QED BY <1>1, SequentialAssumption DEF StackOK, Cells, Position, Bound

\* A level that was not given away lies inside the area.
LEMMA LevelInArea ==
  ASSUME NEW r \in BusyType, StackOK(r), NEW n \in r.front + 1 .. Len(r.stack)
  PROVE  /\ n \in 1 .. Len(r.stack)
         /\ r.stack[n] \in LevelType /\ LevelOK(r.stack[n])
         /\ r.lo <= r.stack[n].a[1] /\ r.stack[n].a[4] <= r.finished
<1>1. n \in 1 .. Len(r.stack) /\ r.stack \in Seq(LevelType) /\ r.front \in Nat
  BY DEF BusyType
<1>2. r.stack[n] \in LevelType /\ LevelOK(r.stack[n]) /\ r.lo <= r.stack[n].a[1]
  BY <1>1 DEF StackOK
<1>3. r.stack[n].a[4] <= r.finished
  <2>1. r.front + 1 \in 1 .. Len(r.stack) /\ r.stack[r.front + 1] \in LevelType
    BY <1>1
  <2>2. LevelOK(r.stack[r.front + 1]) /\ r.stack[r.front + 1].a[4] = r.finished
    <3>1. Len(r.stack) > r.front
      BY <1>1
    <3> QED BY <2>1, <3>1 DEF StackOK
  <2>3. CASE r.front + 1 = n
    <3>1. r.stack[n].a[4] = r.finished
      BY <2>2, <2>3, Zenon
    <3> QED BY <3>1, SequentialAssumption DEF BusyType, Bound
  <2>4. CASE r.front + 1 < n
    <3>1. r.stack[n].a[4] <= NextLo(r.stack[r.front + 1])
      BY <1>1, <2>1, <2>4 DEF StackOK
    <3>2. NextLo(r.stack[r.front + 1]) <= r.finished /\ NextLo(r.stack[r.front + 1]) \in Bound
      BY <2>1, <2>2, NextFacts
    <3>3. r.stack[n].a[4] \in Bound /\ r.finished \in Bound
      BY <1>2 DEF LevelType, BusyType
    <3> QED BY <3>1, <3>2, <3>3, SequentialAssumption DEF Bound
  <2> QED BY <1>1, <2>1, <2>3, <2>4
<1> QED BY <1>1, <1>2, <1>3

\* The level on top of the stack.
LEMMA TopFacts ==
  ASSUME NEW r \in BusyType, StackOK(r), Len(r.stack) > r.front
  PROVE  /\ Len(r.stack) \in 1 .. Len(r.stack) /\ Last(r.stack) = r.stack[Len(r.stack)]
         /\ Last(r.stack) \in LevelType /\ LevelOK(Last(r.stack))
         /\ r.lo <= Last(r.stack).a[1] /\ Last(r.stack).a[4] <= r.finished
         /\ Cursor(r) = NextLo(Last(r.stack))
<1>1. Len(r.stack) \in r.front + 1 .. Len(r.stack) /\ Len(r.stack) \in 1 .. Len(r.stack)
  BY DEF BusyType
<1>2. Last(r.stack) = r.stack[Len(r.stack)]
  BY DEF Last
<1> QED BY <1>1, <1>2, LevelInArea DEF Cursor

---------------------------------------------------------------------------
\* What the steps make of a busy thread's record.
Moved(r) == [r EXCEPT !.stack[Len(r.stack)].idx = Last(r.stack).idx + 1]
Pushed(r, m) == [Moved(r) EXCEPT !.stack = Append(@, m)]
Popped(r) == [r EXCEPT !.stack = Front(@)]
Shared(r) ==
  LET l == r.stack[r.front + 1]
  IN  [r EXCEPT !.front = @ + 1, !.finished = IF l.idx < 3 THEN PartLo(l, l.idx) ELSE @]

\* Starting the next part of the level on top keeps the shape of the stack.
LEMMA MovedFacts ==
  ASSUME NEW r \in BusyType, StackOK(r), Len(r.stack) > r.front, Last(r.stack).idx < 3
  PROVE  /\ Moved(r) \in BusyType /\ StackOK(Moved(r))
         /\ Moved(r).lo = r.lo /\ Moved(r).finished = r.finished /\ Moved(r).front = r.front
         /\ Len(Moved(r).stack) = Len(r.stack)
         /\ Moved(r).stack[Len(r.stack)].idx >= 1
         /\ NextLo(Moved(r).stack[Len(r.stack)]) = PartHi(Last(r.stack), Last(r.stack).idx)
         /\ Cursor(Moved(r)) = PartHi(Last(r.stack), Last(r.stack).idx)
<1> DEFINE n == Len(r.stack)
           l == r.stack[n]
           m == [l EXCEPT !.idx = l.idx + 1]
           s == [r.stack EXCEPT ![n] = m]
<1>1. n \in 1 .. n /\ Last(r.stack) = l /\ l \in LevelType /\ LevelOK(l) /\ l.idx < 3
  BY TopFacts
<1>2. r.stack \in Seq(LevelType) /\ r.front \in Nat
  BY DEF BusyType
<1>3. Moved(r) = [r EXCEPT !.stack = s]
  BY <1>1 DEF Moved
<1>4. m \in LevelType /\ LevelOK(m) /\ m.a = l.a /\ m.idx = l.idx + 1
  BY <1>1 DEF LevelType, LevelOK
<1>5. s \in Seq(LevelType) /\ Len(s) = n
  BY <1>1, <1>2, <1>4
<1>6. /\ \A i \in 1 .. n : i # n => s[i] = r.stack[i]
      /\ s[n] = m
  BY <1>1, <1>2
<1> HIDE DEF s, m, l, n
<1>7. Moved(r) \in BusyType /\ Moved(r).stack = s /\ Moved(r).lo = r.lo
      /\ Moved(r).finished = r.finished /\ Moved(r).front = r.front
  BY <1>3, <1>5 DEF BusyType
<1>8. NextLo(m) = PartHi(l, l.idx)
  BY <1>1, <1>4 DEF NextLo, PartHi, LevelType
<1>9. Len(s) = n /\ n = Len(r.stack)
  BY <1>5 DEF n
<1>10. StackOK(Moved(r))
  <2> DEFINE R == Moved(r)
  <2> HIDE DEF R
  <2>0. R.stack = s /\ R.lo = r.lo /\ R.finished = r.finished /\ R.front = r.front
    BY <1>7 DEF R
  <2>1. R.lo <= R.finished /\ R.front <= Len(R.stack)
    BY <2>0, <1>9 DEF StackOK
  <2>2. \A i \in 1 .. n : s[i].a = r.stack[i].a
    BY <1>4, <1>6 DEF l
  <2>3. ASSUME NEW i \in 1 .. Len(R.stack)
        PROVE  LevelOK(R.stack[i]) /\ R.lo <= R.stack[i].a[1]
    <3>1. r.lo <= r.stack[i].a[1] /\ LevelOK(r.stack[i])
      BY <2>0, <1>9 DEF StackOK
    <3>2. LevelOK(s[i])
      BY <3>1, <1>4, <1>6, <2>0, <1>9
    <3> QED BY <3>1, <3>2, <2>2, <2>0, <1>9
  <2>4. ASSUME NEW i \in 1 .. Len(R.stack), NEW j \in 1 .. Len(R.stack), i < j
        PROVE  R.stack[i].idx >= 1 /\ R.stack[j].a[4] <= NextLo(R.stack[i])
    <3>1. i # n /\ i \in 1 .. n /\ j \in 1 .. n
      BY <2>0, <2>4, <1>9, <1>1
    <3>2. s[i] = r.stack[i]
      BY <3>1, <1>6
    <3>3. r.stack[i].idx >= 1 /\ r.stack[j].a[4] <= NextLo(r.stack[i])
      BY <3>1, <1>9, <2>4 DEF StackOK
    <3> QED BY <3>1, <3>2, <3>3, <2>0, <2>2
  <2>5. ASSUME NEW i \in 1 .. Len(R.stack), i > 1
        PROVE  R.stack[i].a[4] = NextLo(R.stack[i - 1])
    <3>1. i - 1 # n /\ i - 1 \in 1 .. n /\ i \in 1 .. n
      BY <2>0, <2>5, <1>9, <1>1
    <3>2. s[i - 1] = r.stack[i - 1]
      BY <3>1, <1>6
    <3>3. r.stack[i].a[4] = NextLo(r.stack[i - 1])
      BY <3>1, <1>9, <2>5 DEF StackOK
    <3> QED BY <3>1, <3>2, <3>3, <2>0, <2>2
  <2>6. R.stack[R.front + 1].a[4] = R.finished
    <3>1. r.front + 1 \in 1 .. n
      BY <1>2, <1>9
    <3>2. r.stack[r.front + 1].a[4] = r.finished
      BY DEF StackOK
    <3> QED BY <3>1, <3>2, <2>0, <2>2
  <2>7. StackOK(R)
    BY <2>1, <2>3, <2>4, <2>5, <2>6 DEF StackOK
  <2> QED BY <2>7 DEF R
<1>11. Cursor(Moved(r)) = NextLo(m)
  <2>1. Len(Moved(r).stack) > Moved(r).front
    BY <1>7, <1>9
  <2>2. Last(Moved(r).stack) = m
    BY <1>6, <1>7, <1>9 DEF Last
  <2> QED BY <2>1, <2>2 DEF Cursor
<1>12. m.idx >= 1
  BY <1>1, <1>4 DEF LevelType
<1> QED BY <1>1, <1>6, <1>7, <1>8, <1>9, <1>10, <1>11, <1>12

\* A level is pushed for the part just started: it ends where the next part
\* begins.
LEMMA PushedFacts ==
  ASSUME NEW r \in BusyType, StackOK(r), Len(r.stack) > r.front, Last(r.stack).idx < 3,
         NEW m \in LevelType, LevelOK(m), m.idx = 0,
         m.a[1] = PartLo(Last(r.stack), Last(r.stack).idx),
         m.a[4] = PartHi(Last(r.stack), Last(r.stack).idx)
  PROVE  /\ Pushed(r, m) \in BusyType /\ StackOK(Pushed(r, m))
         /\ Pushed(r, m).lo = r.lo /\ Pushed(r, m).finished = r.finished
         /\ Cursor(Pushed(r, m)) = PartLo(Last(r.stack), Last(r.stack).idx)
<1> DEFINE n == Len(r.stack)
           l == Last(r.stack)
<1>1. PICK q : q = Moved(r)
  OBVIOUS
<1>2. /\ q \in BusyType /\ StackOK(q) /\ q.lo = r.lo /\ q.finished = r.finished
      /\ q.front = r.front /\ Len(q.stack) = n
      /\ q.stack[n].idx >= 1 /\ NextLo(q.stack[n]) = PartHi(l, l.idx)
  BY <1>1, MovedFacts
<1>3. n \in 1 .. n /\ l \in LevelType /\ LevelOK(l) /\ r.lo <= l.a[1] /\ l.idx \in 0 .. 2
  BY TopFacts, NextFacts
<1>4. r.lo <= m.a[1]
  <2>1. PartLo(l, l.idx) \in Bound /\ l.a[1] <= PartLo(l, l.idx)
    BY <1>3, PartFacts
  <2>2. r.lo \in Bound /\ l.a[1] \in Bound
    BY <1>3 DEF BusyType, LevelType
  <2> QED BY <1>3, <2>1, <2>2, SequentialAssumption DEF Bound
<1> HIDE DEF n, l
<1> DEFINE s == Append(q.stack, m)
           R == Pushed(r, m)
<1>5. s \in Seq(LevelType) /\ Len(s) = n + 1 /\ s[n + 1] = m /\ n \in Nat
      /\ \A i \in 1 .. n : s[i] = q.stack[i]
  BY <1>2, <1>3 DEF BusyType
<1>6. R = [q EXCEPT !.stack = s]
  BY <1>1 DEF Pushed
<1> HIDE DEF s
<1>7. R \in BusyType /\ R.stack = s /\ R.lo = r.lo /\ R.finished = r.finished /\ R.front = r.front
  BY <1>2, <1>5, <1>6 DEF BusyType
<1> HIDE DEF R
<1>8. StackOK(R)
  <2>1. R.lo <= R.finished /\ R.front <= Len(R.stack)
    BY <1>2, <1>5, <1>7 DEF StackOK, BusyType
  <2>2. ASSUME NEW i \in 1 .. Len(R.stack)
        PROVE  LevelOK(R.stack[i]) /\ R.lo <= R.stack[i].a[1]
    <3>1. CASE i \in 1 .. n
      BY <3>1, <1>2, <1>5, <1>7 DEF StackOK
    <3>2. CASE i = n + 1
      BY <3>2, <1>4, <1>5, <1>7
    <3> QED BY <3>1, <3>2, <1>5, <1>7
  <2>3. ASSUME NEW i \in 1 .. Len(R.stack), NEW j \in 1 .. Len(R.stack), i < j
        PROVE  R.stack[i].idx >= 1 /\ R.stack[j].a[4] <= NextLo(R.stack[i])
    <3>1. i \in 1 .. n /\ R.stack[i] = q.stack[i]
      BY <2>3, <1>5, <1>7
    <3>2. CASE j \in 1 .. n
      BY <3>1, <3>2, <2>3, <1>2, <1>5, <1>7 DEF StackOK
    <3>3. CASE j = n + 1
      <4>1. R.stack[j].a[4] = NextLo(q.stack[n])
        BY <3>3, <1>2, <1>5, <1>7 DEF l
      <4>2. CASE i = n
        <5>1. NextLo(q.stack[n]) \in Bound
          BY <1>2, <1>3, NextFacts DEF BusyType, StackOK
        <5> QED BY <3>1, <4>1, <4>2, <5>1, <1>2, SequentialAssumption DEF Bound
      <4>3. CASE i < n
        <5>1. q.stack[n] \in LevelType /\ q.stack[i] \in LevelType
          BY <1>2, <1>3, <3>1 DEF BusyType
        <5>2. LevelOK(q.stack[n]) /\ LevelOK(q.stack[i])
          BY <1>2, <1>3, <3>1 DEF StackOK
        <5>3. q.stack[i].idx >= 1 /\ q.stack[n].a[4] <= NextLo(q.stack[i])
          BY <1>2, <1>3, <3>1, <4>3 DEF StackOK
        <5>4. NextLo(q.stack[n]) <= q.stack[n].a[4] /\ NextLo(q.stack[n]) \in Bound
              /\ NextLo(q.stack[i]) \in Bound /\ q.stack[n].a[4] \in Bound
          BY <5>1, <5>2, NextFacts DEF LevelType
        <5> QED BY <3>1, <4>1, <5>3, <5>4, SequentialAssumption DEF Bound
      <4> QED BY <4>2, <4>3, <3>1, <1>5
    <3> QED BY <3>2, <3>3, <1>5, <1>7
  <2>4. ASSUME NEW i \in 1 .. Len(R.stack), i > 1
        PROVE  R.stack[i].a[4] = NextLo(R.stack[i - 1])
    <3>1. i - 1 \in 1 .. n
      BY <2>4, <1>5, <1>7
    <3>2. CASE i \in 1 .. n
      BY <3>1, <3>2, <2>4, <1>2, <1>5, <1>7 DEF StackOK
    <3>3. CASE i = n + 1
      BY <3>3, <3>1, <1>2, <1>5, <1>7 DEF l
    <3> QED BY <3>2, <3>3, <1>5, <1>7
  <2>5. R.stack[R.front + 1].a[4] = R.finished
    <3>1. r.front + 1 \in 1 .. n
      BY <1>5 DEF BusyType, n
    <3>2. Len(q.stack) > q.front
      BY <1>2 DEF n
    <3>3. q.stack[q.front + 1].a[4] = q.finished
      BY <3>2 , <1>2 DEF StackOK
    <3>4. q.stack[r.front + 1].a[4] = r.finished
      BY <3>3, <1>2
    <3> QED BY <3>1, <3>4, <1>5, <1>7
  <2> QED BY <2>1, <2>2, <2>3, <2>4, <2>5 DEF StackOK
<1>9. Cursor(R) = m.a[1]
  <2>1. Len(R.stack) > R.front
    BY <1>5, <1>7 DEF BusyType, n
  <2>2. Last(R.stack) = m
    BY <1>5, <1>7 DEF Last
  <2> QED BY <2>1, <2>2 DEF Cursor, NextLo
<1> QED BY <1>7, <1>8, <1>9 DEF R, l

\* A level all of whose parts were started is popped: its end is where the
\* work of the level below, or nothing, begins.
LEMMA PoppedFacts ==
  ASSUME NEW r \in BusyType, StackOK(r), Len(r.stack) > r.front, Last(r.stack).idx = 3
  PROVE  /\ Popped(r) \in BusyType /\ StackOK(Popped(r))
         /\ Popped(r).lo = r.lo /\ Popped(r).finished = r.finished
         /\ Cursor(Popped(r)) = Cursor(r)
<1> DEFINE n == Len(r.stack)
           s == Front(r.stack)
           R == Popped(r)
<1>1. n \in 1 .. n /\ Last(r.stack) = r.stack[n] /\ Last(r.stack) \in LevelType
      /\ LevelOK(Last(r.stack)) /\ Cursor(r) = NextLo(r.stack[n])
  BY TopFacts
<1>2. r.stack \in Seq(LevelType) /\ r.front \in Nat
  BY DEF BusyType
<1>3. s \in Seq(LevelType) /\ Len(s) = n - 1 /\ \A i \in 1 .. n - 1 : s[i] = r.stack[i]
  BY <1>1, <1>2 DEF Front
<1>4. R = [r EXCEPT !.stack = s]
  BY DEF Popped
<1> HIDE DEF s
<1>5. R \in BusyType /\ R.stack = s /\ R.lo = r.lo /\ R.finished = r.finished /\ R.front = r.front
  BY <1>3, <1>4 DEF BusyType
<1> HIDE DEF R
<1>6. StackOK(R)
  <2>1. R.lo <= R.finished /\ R.front <= Len(R.stack)
    BY <1>1, <1>2, <1>3, <1>5 DEF StackOK
  <2>2. ASSUME NEW i \in 1 .. Len(R.stack)
        PROVE  LevelOK(R.stack[i]) /\ R.lo <= R.stack[i].a[1]
    <3>1. i \in 1 .. n /\ R.stack[i] = r.stack[i]
      BY <1>1, <1>3, <1>5
    <3> QED BY <3>1, <1>5 DEF StackOK
  <2>3. ASSUME NEW i \in 1 .. Len(R.stack), NEW j \in 1 .. Len(R.stack), i < j
        PROVE  R.stack[i].idx >= 1 /\ R.stack[j].a[4] <= NextLo(R.stack[i])
    <3>1. i \in 1 .. n /\ j \in 1 .. n /\ R.stack[i] = r.stack[i] /\ R.stack[j] = r.stack[j]
      BY <1>1, <1>3, <1>5
    <3> QED BY <3>1, <2>3 DEF StackOK
  <2>4. ASSUME NEW i \in 1 .. Len(R.stack), i > 1
        PROVE  R.stack[i].a[4] = NextLo(R.stack[i - 1])
    <3>1. i \in 1 .. n /\ R.stack[i] = r.stack[i] /\ R.stack[i - 1] = r.stack[i - 1]
      BY <2>4, <1>1, <1>3, <1>5
    <3> QED BY <3>1, <2>4 DEF StackOK
  <2>5. Len(R.stack) > R.front => R.stack[R.front + 1].a[4] = R.finished
    <3>1. HAVE Len(R.stack) > R.front
    <3>2. r.front + 1 \in 1 .. n - 1
      BY <3>1, <1>1, <1>2, <1>3, <1>5
    <3>3. r.stack[r.front + 1].a[4] = r.finished
      BY DEF StackOK
    <3> QED BY <3>2, <3>3, <1>3, <1>5
  <2> QED BY <2>1, <2>2, <2>3, <2>4, <2>5 DEF StackOK
<1>7. Cursor(R) = r.stack[n].a[4]
  <2>1. CASE n - 1 > r.front
    <3>1. Last(R.stack) = r.stack[n - 1] /\ n > 1
      BY <2>1, <1>2, <1>3, <1>5 DEF Last
    <3>2. r.stack[n].a[4] = NextLo(r.stack[n - 1])
      BY <3>1, <1>1 DEF StackOK
    <3> QED BY <2>1, <3>1, <3>2, <1>3, <1>5 DEF Cursor
  <2>2. CASE ~(n - 1 > r.front)
    <3>1. r.front + 1 = n
      BY <2>2, <1>1, <1>2
    <3>2. r.stack[n].a[4] = r.finished
      BY <3>1, Zenon DEF StackOK
    <3> QED BY <2>2, <3>2, <1>3, <1>5 DEF Cursor
  <2> QED BY <2>1, <2>2
<1>8. Cursor(r) = r.stack[n].a[4]
  BY <1>1, NextFacts
<1> QED BY <1>5, <1>6, <1>7, <1>8 DEF R

\* Giving the oldest level away moves cache_finished down to the first part
\* of it that was not started, where the work of the next level ends.
LEMMA SharedFacts ==
  ASSUME NEW r \in BusyType, StackOK(r), Len(r.stack) > r.front
  PROVE  /\ r.stack[r.front + 1] \in LevelType /\ LevelOK(r.stack[r.front + 1])
         /\ r.stack[r.front + 1].a[4] = r.finished
         /\ r.lo <= r.stack[r.front + 1].a[1]
         /\ Shared(r) \in BusyType /\ StackOK(Shared(r))
         /\ Shared(r).lo = r.lo /\ Shared(r).finished = NextLo(r.stack[r.front + 1])
         /\ Cursor(Shared(r)) = Cursor(r)
<1> DEFINE n == Len(r.stack)
           f == r.front + 1
           l == r.stack[f]
           R == Shared(r)
<1>1. n \in Nat /\ f \in 1 .. n /\ l \in LevelType /\ r.stack \in Seq(LevelType)
  BY DEF BusyType
<1>2. LevelOK(l) /\ r.lo <= l.a[1] /\ l.a[4] = r.finished
  BY <1>1 DEF StackOK
<1>3. NextLo(l) \in Bound /\ l.a[1] <= NextLo(l) /\ NextLo(l) <= l.a[4]
      /\ (l.idx < 3 => NextLo(l) = PartLo(l, l.idx)) /\ (l.idx = 3 => NextLo(l) = l.a[4])
  BY <1>1, <1>2, NextFacts
<1>4. l.idx \in 0 .. 3
  BY <1>1 DEF LevelType
<1>5. R = [r EXCEPT !.front = f, !.finished = NextLo(l)]
  <2>1. CASE l.idx < 3
    BY <2>1, <1>3 DEF Shared
  <2>2. CASE l.idx = 3
    BY <2>2, <1>2, <1>3 DEF Shared
  <2> QED BY <2>1, <2>2, <1>4
<1>6. PICK g \in Nat, e \in Bound : g = f /\ e = NextLo(l)
  BY <1>1, <1>3
<1>7. R \in BusyType /\ R.stack = r.stack /\ R.lo = r.lo /\ R.finished = NextLo(l) /\ R.front = f
  <2>1. R = [r EXCEPT !.front = g, !.finished = e]
    BY <1>5, <1>6, Zenon
  <2>2. R \in BusyType /\ R.stack = r.stack /\ R.lo = r.lo /\ R.finished = e /\ R.front = g
    BY <2>1 DEF BusyType
  <2> QED BY <2>2, <1>6, Zenon
<1> HIDE DEF R
<1>8. StackOK(R)
  <2>1. R.lo <= R.finished /\ R.front <= Len(R.stack)
    <3>1. r.lo \in Bound /\ l.a[1] \in Bound
      BY <1>1 DEF BusyType, LevelType
    <3> QED BY <3>1, <1>1, <1>2, <1>3, <1>7, SequentialAssumption DEF Bound
  <2>2. /\ \A i \in 1 .. Len(R.stack) : LevelOK(R.stack[i]) /\ R.lo <= R.stack[i].a[1]
        /\ \A i, j \in 1 .. Len(R.stack) : i < j =>
             R.stack[i].idx >= 1 /\ R.stack[j].a[4] <= NextLo(R.stack[i])
        /\ \A i \in 1 .. Len(R.stack) : i > 1 => R.stack[i].a[4] = NextLo(R.stack[i - 1])
    BY <1>7 DEF StackOK
  <2>3. Len(R.stack) > R.front => R.stack[R.front + 1].a[4] = R.finished
    <3>1. HAVE Len(R.stack) > R.front
    <3>2. f + 1 \in 1 .. n /\ f + 1 > 1 /\ (f + 1) - 1 = f
      BY <3>1, <1>1, <1>7
    <3>3. r.stack[f + 1].a[4] = NextLo(r.stack[(f + 1) - 1])
      BY <3>2 DEF StackOK
    <3>4. r.stack[f + 1].a[4] = NextLo(r.stack[f])
      BY <3>2, <3>3
    <3> QED BY <3>4, <1>7
  <2> QED BY <2>1, <2>2, <2>3 DEF StackOK
<1>9. Cursor(R) = Cursor(r)
  <2>1. CASE Len(R.stack) > R.front
    BY <2>1, <1>7 DEF Cursor
  <2>2. CASE ~(Len(R.stack) > R.front)
    <3>1. f = n
      BY <2>2, <1>1, <1>7
    <3>2. Last(r.stack) = l
      BY <3>1, Zenon DEF Last
    <3> QED BY <2>2, <3>2, <1>7 DEF Cursor
  <2> QED BY <2>1, <2>2
<1> QED BY <1>1, <1>2, <1>7, <1>8, <1>9 DEF R

---------------------------------------------------------------------------
\* One thread's record is replaced by one with a stack in shape.
LEMMA ThreadStep ==
  ASSUME StateOK, StacksOK, SortedBelow, NEW t \in Thread, NEW R \in BusyType, StackOK(R),
         thr' = [thr EXCEPT ![t] = R],
         sorted \subseteq sorted', Cells(R.lo, Cursor(R)) \subseteq sorted'
  PROVE  /\ thr' \in [Thread -> BusyType \cup {Idle}]
         /\ StacksOK' /\ SortedBelow'
         /\ thr'[t] = R /\ \A u \in Thread : u # t => thr'[u] = thr[u]
<1>1. thr' \in [Thread -> BusyType \cup {Idle}] /\ thr'[t] = R
      /\ \A u \in Thread : u # t => thr'[u] = thr[u]
  BY DEF StateOK
<1>2. ASSUME NEW u \in Thread, thr'[u].busy
      PROVE  StackOK(thr'[u]) /\ Cells(thr'[u].lo, Cursor(thr'[u])) \subseteq sorted'
  <2>1. CASE u = t
    BY <2>1, <1>1
  <2>2. CASE u # t
    <3>1. thr'[u] = thr[u] /\ thr[u].busy
      BY <1>1, <1>2, <2>2
    <3> QED BY <3>1 DEF StacksOK, SortedBelow
  <2> QED BY <2>1, <2>2
<1> QED BY <1>1, <1>2 DEF StacksOK, SortedBelow

\* A busy thread goes on inside its area: no string changes hands.
LEMMA AreaKept ==
  ASSUME IInv, NEW t \in Thread, thr[t].busy, NEW R \in BusyType, StackOK(R),
         R.lo = thr[t].lo, R.finished = thr[t].finished,
         thr' = [thr EXCEPT ![t] = R],
         sorted \subseteq sorted', sorted' \subseteq Position,
         Cells(R.lo, Cursor(R)) \subseteq sorted',
         UNCHANGED <<jobs, copied>>
  PROVE  IInv'
<1>1. thr' \in [Thread -> BusyType \cup {Idle}] /\ StacksOK' /\ SortedBelow'
      /\ thr'[t] = R /\ \A u \in Thread : u # t => thr'[u] = thr[u]
  BY ThreadStep DEF IInv
<1>2. R.busy
  BY Zenon DEF BusyType
<1>3. \A i \in Position, u \in Thread : Holds(i, u)' <=> Holds(i, u)
  BY <1>1, <1>2 DEF Holds
<1>4. \A i \in Position, j \in jobs : Queues(i, j)' <=> Queues(i, j)
  BY DEF Queues
<1>5. OwnedOnce'
  BY <1>3, <1>4 DEF IInv, OwnedOnce
<1>6. CopiedAreSorted'
  BY DEF IInv, CopiedAreSorted
<1>7. StateOK' /\ JobsFilled'
  BY <1>1 DEF IInv, StateOK, JobsFilled
<1> QED BY <1>1, <1>5, <1>6, <1>7 DEF IInv

---------------------------------------------------------------------------
\* run(): what was the job's is the thread's, or is copied.
LEMMA StartJobStep ==
  ASSUME IInv, NEW t \in Thread, StartJob(t)
  PROVE  IInv'
<1>1. PICK j \in jobs : StartJob(t)!2!(j)
  BY DEF StartJob
<1>2. j \in JobType /\ j.lo < j.hi /\ jobs' = jobs \ {j} /\ thr[t] = Idle /\ ~thr[t].busy
  BY <1>1 DEF IInv, StateOK, JobsFilled, StartJob, Idle
<1>3. j.lo \in Bound /\ j.hi \in Bound /\ j.depth \in 0 .. MaxDepth
      /\ Cells(j.lo, j.hi) \subseteq Position
  BY <1>2, SequentialAssumption DEF JobType, Bound, Cells, Position
<1>4. \A i \in Position, k \in jobs' : (Queues(i, k)' <=> Queues(i, k)) /\ k \in jobs /\ k # j
  BY <1>2 DEF Queues
<1>5. JobsFilled' /\ jobs' \subseteq JobType
  BY <1>2 DEF IInv, StateOK, JobsFilled
<1>6. CASE j.hi - j.lo < InsThreshold
  <2>1. /\ sorted' = sorted \cup Cells(j.lo, j.hi)
        /\ copied' = [i \in Position |-> IF i \in Cells(j.lo, j.hi) THEN copied[i] + 1 ELSE copied[i]]
        /\ thr' = thr
    BY <1>1, <1>6 DEF Copy
  <2>2. StateOK' /\ StacksOK' /\ SortedBelow'
    BY <2>1, <1>3, <1>5 DEF IInv, StateOK, StacksOK, SortedBelow
  <2>3. \A i \in Position, u \in Thread : Holds(i, u)' <=> Holds(i, u)
    BY <2>1 DEF Holds
  <2>4. \A i \in Position : i \in Cells(j.lo, j.hi) <=> Queues(i, j)
    BY DEF Queues
  <2>5. OwnedOnce'
    <3> SUFFICES ASSUME NEW i \in Position
        PROVE  /\ \A k, m \in jobs' : Queues(i, k)' /\ Queues(i, m)' => k = m
               /\ \A v, u \in Thread : Holds(i, v)' /\ Holds(i, u)' => v = u
               /\ \A k \in jobs', v \in Thread : ~(Queues(i, k)' /\ Holds(i, v)')
               /\ copied'[i] = IF (\E k \in jobs' : Queues(i, k)') \/ (\E v \in Thread : Holds(i, v)')
                               THEN 0 ELSE 1
      BY DEF OwnedOnce
    <3>1. /\ \A k, m \in jobs : Queues(i, k) /\ Queues(i, m) => k = m
          /\ \A v, u \in Thread : Holds(i, v) /\ Holds(i, u) => v = u
          /\ \A k \in jobs, v \in Thread : ~(Queues(i, k) /\ Holds(i, v))
          /\ copied[i] = IF (\E k \in jobs : Queues(i, k)) \/ (\E v \in Thread : Holds(i, v))
                         THEN 0 ELSE 1
      BY DEF IInv, OwnedOnce
    <3>2. copied'[i] = IF Queues(i, j) THEN copied[i] + 1 ELSE copied[i]
      BY <2>1, <2>4
    <3>3. CASE Queues(i, j)
      BY <3>1, <3>2, <3>3, <2>3, <1>2, <1>4
    <3>4. CASE ~Queues(i, j)
      BY <3>1, <3>2, <3>4, <2>3, <1>2, <1>4
    <3> QED BY <3>3, <3>4
  <2>6. CopiedAreSorted'
    BY <2>1 DEF IInv, StateOK, CopiedAreSorted
  <2> QED BY <2>2, <2>5, <2>6, <1>5 DEF IInv
<1>7. CASE ~(j.hi - j.lo < InsThreshold)
  <2>1. PICK l \in Levels(j.lo, j.hi, j.depth) :
          thr' = [thr EXCEPT ![t] = [busy |-> TRUE, lo |-> j.lo, stack |-> <<l>>,
                                     front |-> 0, finished |-> j.hi]]
    BY <1>1, <1>7
  <2>2. sorted' = sorted /\ copied' = copied
    BY <1>1, <1>7
  <2>3. l \in LevelType /\ LevelOK(l) /\ l.idx = 0 /\ l.a[1] = j.lo /\ l.a[4] = j.hi
    BY <1>3, LevelFacts
  <2>4. PICK s : s = <<l>>
    OBVIOUS
  <2>5. s \in Seq(LevelType) /\ Len(s) = 1 /\ s[1] = l
    BY <2>3, <2>4
  <2>6. PICK R : R = [busy |-> TRUE, lo |-> j.lo, stack |-> s, front |-> 0, finished |-> j.hi]
    OBVIOUS
  <2>7. R \in BusyType /\ R.busy /\ R.lo = j.lo /\ R.stack = s /\ R.front = 0 /\ R.finished = j.hi
    BY <2>5, <2>6, <1>3 DEF BusyType
  <2>8. StackOK(R)
    <3>1. Len(R.stack) = 1 /\ R.stack[1] = l /\ \A n \in 1 .. Len(R.stack) : n = 1
      <4>1. R.stack = s
        BY <2>7
      <4>2. \A n \in 1 .. Len(s) : n = 1
        BY <2>5
      <4> QED BY <4>1, <4>2, <2>5, Zenon
    <3>2. R.lo <= R.finished /\ R.front <= Len(R.stack) /\ R.front + 1 = 1 /\ R.lo <= l.a[1]
      BY <2>3, <2>7, <3>1, <1>2, <1>3, SequentialAssumption DEF Bound
    <3>3. R.stack[R.front + 1].a[4] = R.finished
      BY <2>3, <2>7, <3>1, <3>2
    <3> QED BY <2>3, <3>1, <3>2, <3>3 DEF StackOK
  <2>9. Cursor(R) = j.lo
    <3>1. Len(R.stack) > R.front /\ Last(R.stack) = l
      <4>1. R.stack = s /\ R.front = 0
        BY <2>7
      <4>2. Len(s) > 0 /\ Last(s) = l
        BY <2>5 DEF Last
      <4> QED BY <4>1, <4>2, Zenon
    <3>2. NextLo(l) = j.lo
      BY <2>3 DEF NextLo
    <3> QED BY <3>1, <3>2 DEF Cursor
  <2>10. Cells(R.lo, Cursor(R)) = {}
    BY <2>7, <2>9, <1>3, SequentialAssumption DEF Cells, Bound
  <2>11. thr' = [thr EXCEPT ![t] = R]
    BY <2>1, <2>4, <2>6
  <2>12. thr' \in [Thread -> BusyType \cup {Idle}] /\ StacksOK' /\ SortedBelow'
         /\ thr'[t] = R /\ \A u \in Thread : u # t => thr'[u] = thr[u]
    BY <2>2, <2>7, <2>8, <2>10, <2>11, ThreadStep DEF IInv
  <2>13. StateOK' /\ CopiedAreSorted'
    BY <2>2, <2>12, <1>5 DEF IInv, StateOK, CopiedAreSorted
  <2>14. \A i \in Position : /\ \A u \in Thread : u # t => (Holds(i, u)' <=> Holds(i, u))
                             /\ Holds(i, t)' <=> Queues(i, j)
                             /\ ~Holds(i, t)
    BY <2>7, <2>12, <1>2 DEF Holds, Queues
  <2>15. OwnedOnce'
    BY <2>2, <2>14, <1>2, <1>4 DEF IInv, OwnedOnce
  <2> QED BY <2>12, <2>13, <2>15, <1>5 DEF IInv
<1> QED BY <1>6, <1>7

\* The loop works on the level on top: its part is sorted, or pushed.
LEMMA SortPartStep ==
  ASSUME IInv, NEW t \in Thread, SortPart(t)
  PROVE  IInv'
<1>1. PICK r : r = thr[t]
  OBVIOUS
<1>2. thr[t].busy /\ r \in BusyType /\ StackOK(r) /\ Len(r.stack) > r.front
  BY <1>1, BusyFacts DEF IInv, StacksOK, SortPart, InLoop
<1> DEFINE l == Last(r.stack)
           k == l.idx
           moved == [thr EXCEPT ![t].stack[Len(thr[t].stack)].idx = k + 1]
<1>3. l \in LevelType /\ LevelOK(l) /\ k \in 0 .. 2 /\ k < 3
  BY <1>1, <1>2, TopFacts, NextFacts DEF SortPart
<1>4. thr \in [Thread -> BusyType \cup {Idle}] /\ sorted \subseteq Position
  BY DEF IInv, StateOK
<1>5. moved = [thr EXCEPT ![t] = Moved(r)]
  BY <1>1, <1>4 DEF Moved
<1>6. /\ Moved(r) \in BusyType /\ StackOK(Moved(r))
      /\ Moved(r).lo = r.lo /\ Moved(r).finished = r.finished
      /\ Cursor(Moved(r)) = PartHi(l, k)
  BY <1>2, <1>3, MovedFacts
<1>7. /\ Cells(r.lo, PartLo(l, k)) \subseteq sorted
      /\ PartLo(l, k) \in Bound /\ PartHi(l, k) \in Bound /\ PartLo(l, k) <= PartHi(l, k)
      /\ PartCells(l, k) \subseteq Position
      /\ Cells(r.lo, PartHi(l, k)) \subseteq sorted \cup PartCells(l, k)
  <2>1. Cursor(r) = PartLo(l, k)
    BY <1>2, <1>3, TopFacts, NextFacts
  <2>2. Cells(r.lo, Cursor(r)) \subseteq sorted
    BY <1>1, <1>2 DEF IInv, SortedBelow
  <2>3. PartLo(l, k) \in Bound /\ PartHi(l, k) \in Bound /\ PartLo(l, k) <= PartHi(l, k)
    BY <1>3, PartFacts
  <2>4. r.lo \in Bound
    BY <1>2, AreaFacts
  <2>5. PartCells(l, k) = Cells(PartLo(l, k), PartHi(l, k))
    BY DEF PartCells
  <2> QED BY <2>1, <2>2, <2>3, <2>4, <2>5, SequentialAssumption DEF Cells, Bound, Position
<1>8. UNCHANGED <<jobs, copied>>
  BY DEF SortPart
<1>9. \/ PartSize(l, k) = 0 /\ thr' = moved /\ sorted' = sorted
      \/ thr' = moved /\ sorted' = sorted \cup PartCells(l, k)
      \/ /\ ~NoRecurse(l, k)
         /\ \E m \in Levels(PartLo(l, k), PartHi(l, k), PartDepth(l, k)) :
              thr' = [moved EXCEPT ![t].stack = Append(@, m)]
         /\ sorted' = sorted
  <2>1. PartSize(l, k) = PartHi(l, k) - PartLo(l, k)
    BY DEF PartSize
  <2>2. PartSize(l, k) = 0 \/ PartSize(l, k) > 0
    BY <1>7, <2>1, SequentialAssumption DEF Bound
  <2> QED BY <1>1, <2>2 DEF SortPart
<1>10. CASE PartSize(l, k) = 0 /\ thr' = moved /\ sorted' = sorted
  <2>1. PartHi(l, k) = PartLo(l, k)
    BY <1>10, <1>7, SequentialAssumption DEF PartSize, Bound
  <2>2. Cells(Moved(r).lo, Cursor(Moved(r))) \subseteq sorted'
    BY <1>10, <1>6, <1>7, <2>1
  <2> QED BY <1>1, <1>2, <1>4, <1>5, <1>6, <1>8, <1>10, <2>2, AreaKept
<1>11. CASE thr' = moved /\ sorted' = sorted \cup PartCells(l, k)
  <2>1. Cells(Moved(r).lo, Cursor(Moved(r))) \subseteq sorted'
    BY <1>6, <1>7, <1>11
  <2>2. sorted \subseteq sorted' /\ sorted' \subseteq Position
    BY <1>4, <1>7, <1>11
  <2> QED BY <1>1, <1>2, <1>5, <1>6, <1>8, <1>11, <2>1, <2>2, AreaKept
<1>12. ASSUME ~NoRecurse(l, k), sorted' = sorted,
              NEW m \in Levels(PartLo(l, k), PartHi(l, k), PartDepth(l, k)),
              thr' = [moved EXCEPT ![t].stack = Append(@, m)]
       PROVE  IInv'
  <2>1. PartDepth(l, k) \in 0 .. MaxDepth
    BY <1>3, <1>12, PartFacts
  <2>2. /\ m \in LevelType /\ LevelOK(m) /\ m.idx = 0
        /\ m.a[1] = PartLo(l, k) /\ m.a[4] = PartHi(l, k)
    BY <1>7, <2>1, LevelFacts
  <2>3. /\ Pushed(r, m) \in BusyType /\ StackOK(Pushed(r, m))
        /\ Pushed(r, m).lo = r.lo /\ Pushed(r, m).finished = r.finished
        /\ Cursor(Pushed(r, m)) = PartLo(l, k)
    BY <1>2, <1>3, <2>2, PushedFacts
  <2>4. thr' = [thr EXCEPT ![t] = Pushed(r, m)]
    <3>1. PICK q, M : q = Moved(r) /\ M = moved
      OBVIOUS
    <3>2. M = [thr EXCEPT ![t] = q] /\ thr' = [M EXCEPT ![t].stack = Append(@, m)]
          /\ Pushed(r, m) = [q EXCEPT !.stack = Append(@, m)]
      BY <3>1, <1>5, <1>12 DEF Pushed
    <3> QED BY <3>2, <1>4
  <2>5. Cells(Pushed(r, m).lo, Cursor(Pushed(r, m))) \subseteq sorted'
    BY <1>7, <1>12, <2>3
  <2> QED BY <1>1, <1>2, <1>4, <1>8, <1>12, <2>3, <2>4, <2>5, AreaKept
<1> QED BY <1>9, <1>10, <1>11, <1>12

\* A finished level leaves the stack.
LEMMA PopLevelStep ==
  ASSUME IInv, NEW t \in Thread, PopLevel(t)
  PROVE  IInv'
<1>1. PICK r : r = thr[t]
  OBVIOUS
<1>2. thr[t].busy /\ r \in BusyType /\ StackOK(r) /\ Len(r.stack) > r.front
      /\ Last(r.stack).idx = 3
  BY <1>1, BusyFacts DEF IInv, StacksOK, PopLevel, InLoop
<1>3. /\ Popped(r) \in BusyType /\ StackOK(Popped(r))
      /\ Popped(r).lo = r.lo /\ Popped(r).finished = r.finished
      /\ Cursor(Popped(r)) = Cursor(r)
  BY <1>2, PoppedFacts
<1>4. thr' = [thr EXCEPT ![t] = Popped(r)]
  BY <1>1 DEF PopLevel, Popped, IInv, StateOK
<1>5. UNCHANGED <<jobs, sorted, copied>> /\ sorted \subseteq Position
  BY DEF PopLevel, IInv, StateOK
<1>6. Cells(r.lo, Cursor(r)) \subseteq sorted
  BY <1>1, <1>2 DEF IInv, SortedBelow
<1> QED BY <1>1, <1>2, <1>3, <1>4, <1>5, <1>6, AreaKept

\* The unstarted parts of a level tile the range from its next part to its
\* end.
LEMMA UnstartedTiles ==
  ASSUME NEW l \in LevelType, LevelOK(l), NEW i \in Int
  PROVE  /\ NextLo(l) <= i /\ i < l.a[4] <=> \E k \in Unstarted(l) : i \in PartCells(l, k)
         /\ \A k, m \in Unstarted(l) : i \in PartCells(l, k) /\ i \in PartCells(l, m) => k = m
<1> DEFINE a == l.a
<1>1. a[1] \in Bound /\ a[2] \in Bound /\ a[3] \in Bound /\ a[4] \in Bound /\ l.idx \in {0, 1, 2, 3}
  BY DEF LevelType
<1>2. a[1] <= a[2] /\ a[2] < a[3] /\ a[3] <= a[4]
  BY DEF LevelOK
<1>3. \A k \in 0 .. 2 : k \in {0, 1, 2}
  OBVIOUS
<1>4. \A k : k \in Unstarted(l) <=> k \in {0, 1, 2} /\ k >= l.idx /\ a[k + 1] < a[k + 2]
  BY <1>1, <1>2, SequentialAssumption DEF Unstarted, PartSize, PartLo, PartHi, Bound
<1>5. \A k \in {0, 1, 2} : i \in PartCells(l, k) <=> a[k + 1] <= i /\ i < a[k + 2]
  BY <1>1, SequentialAssumption DEF PartCells, Cells, PartLo, PartHi, Bound
<1>6. /\ 0 \in Unstarted(l) /\ i \in PartCells(l, 0) <=> l.idx = 0 /\ a[1] <= i /\ i < a[2]
      /\ 1 \in Unstarted(l) /\ i \in PartCells(l, 1) <=> l.idx <= 1 /\ a[2] <= i /\ i < a[3]
      /\ 2 \in Unstarted(l) /\ i \in PartCells(l, 2) <=> l.idx <= 2 /\ a[3] <= i /\ i < a[4]
  BY <1>1, <1>2, <1>4, <1>5, SequentialAssumption DEF Bound
<1>7. (\E k \in Unstarted(l) : i \in PartCells(l, k)) <=>
        \/ 0 \in Unstarted(l) /\ i \in PartCells(l, 0)
        \/ 1 \in Unstarted(l) /\ i \in PartCells(l, 1)
        \/ 2 \in Unstarted(l) /\ i \in PartCells(l, 2)
  BY <1>4
<1>8. NextLo(l) = a[l.idx + 1]
  BY DEF NextLo
<1>9. NextLo(l) <= i /\ i < a[4] <=> \E k \in Unstarted(l) : i \in PartCells(l, k)
  BY <1>1, <1>2, <1>6, <1>7, <1>8, SequentialAssumption DEF Bound
<1>10. \A k, m \in Unstarted(l) : i \in PartCells(l, k) /\ i \in PartCells(l, m) => k = m
  <2> SUFFICES ASSUME NEW k \in Unstarted(l), NEW m \in Unstarted(l),
                      i \in PartCells(l, k), i \in PartCells(l, m)
      PROVE  k = m
    OBVIOUS
  <2>1. k \in {0, 1, 2} /\ m \in {0, 1, 2}
    BY <1>4
  <2> QED BY <2>1, <1>1, <1>2, <1>5, SequentialAssumption DEF Bound
<1> QED BY <1>9, <1>10

\* The oldest level is given away: each string of its unstarted parts goes
\* from the thread to a job or to the output.
LEMMA ShareStep ==
  ASSUME IInv, NEW t \in Thread, Share(t)
  PROVE  IInv'
<1>1. PICK r : r = thr[t]
  OBVIOUS
<1>2. thr[t].busy /\ r \in BusyType /\ StackOK(r) /\ Len(r.stack) > r.front
  BY <1>1, BusyFacts DEF IInv, StacksOK, Share, InLoop
<1>3. PICK l : l = r.stack[r.front + 1]
  OBVIOUS
<1>4. /\ l \in LevelType /\ LevelOK(l) /\ l.a[4] = r.finished /\ r.lo <= l.a[1]
      /\ Shared(r) \in BusyType /\ StackOK(Shared(r))
      /\ Shared(r).lo = r.lo /\ Shared(r).finished = NextLo(l)
      /\ Cursor(Shared(r)) = Cursor(r)
  BY <1>2, <1>3, SharedFacts
<1> DEFINE Given == {k \in Unstarted(l) : ~NoRecurse(l, k)}
           Ended == {k \in Unstarted(l) : NoRecurse(l, k)}
           ended == UNION {PartCells(l, k) : k \in Ended}
<1>5. l = Oldest(t)
  BY <1>1, <1>3 DEF Oldest
<1>6. /\ jobs' = jobs \cup {PartJob(l, k) : k \in Given}
      /\ copied' = [i \in Position |-> IF i \in ended THEN copied[i] + 1 ELSE copied[i]]
      /\ sorted' = sorted \cup ended
  BY <1>5 DEF Share, Copy
<1>7. thr' = [thr EXCEPT ![t] = Shared(r)]
  <2>1. thr' = [thr EXCEPT ![t].front = @ + 1,
                           ![t].finished = IF l.idx < 3 THEN PartLo(l, l.idx) ELSE @]
    BY <1>5 DEF Share
  <2>2. Shared(r) = [r EXCEPT !.front = @ + 1,
                              !.finished = IF l.idx < 3 THEN PartLo(l, l.idx) ELSE @]
    BY <1>3 DEF Shared
  <2> QED BY <2>1, <2>2, <1>1 DEF IInv, StateOK
<1>8. \A k \in Unstarted(l) :
        /\ k \in 0 .. 2 /\ PartLo(l, k) < PartHi(l, k)
        /\ PartCells(l, k) \subseteq Position
        /\ ~NoRecurse(l, k) => PartJob(l, k) \in JobType
  <2> SUFFICES ASSUME NEW k \in Unstarted(l)
      PROVE  /\ k \in 0 .. 2 /\ PartLo(l, k) < PartHi(l, k)
             /\ PartCells(l, k) \subseteq Position
             /\ ~NoRecurse(l, k) => PartJob(l, k) \in JobType
    OBVIOUS
  <2>1. k \in 0 .. 2 /\ PartHi(l, k) - PartLo(l, k) > 0
    BY DEF Unstarted, PartSize
  <2>2. PartLo(l, k) \in Bound /\ PartHi(l, k) \in Bound
        /\ (~NoRecurse(l, k) => PartJob(l, k) \in JobType)
    BY <2>1, <1>4, PartFacts
  <2> QED BY <2>1, <2>2, SequentialAssumption DEF PartCells, Cells, Position, Bound
<1>9. ended \subseteq Position
  BY <1>8
<1>10. jobs' \subseteq JobType /\ JobsFilled'
  <2>1. \A k \in Given : PartJob(l, k) \in JobType /\ PartJob(l, k).lo < PartJob(l, k).hi
    BY <1>8 DEF PartJob
  <2> QED BY <2>1, <1>6 DEF IInv, StateOK, JobsFilled
<1>11. /\ thr' \in [Thread -> BusyType \cup {Idle}] /\ StacksOK' /\ SortedBelow'
       /\ thr'[t] = Shared(r) /\ \A u \in Thread : u # t => thr'[u] = thr[u]
  <2>1. Cells(Shared(r).lo, Cursor(Shared(r))) \subseteq sorted'
    BY <1>1, <1>2, <1>4, <1>6 DEF IInv, SortedBelow
  <2> QED BY <2>1, <1>4, <1>6, <1>7, ThreadStep DEF IInv
<1>12. StateOK' /\ CopiedAreSorted'
  BY <1>6, <1>9, <1>10, <1>11 DEF IInv, StateOK, CopiedAreSorted
<1>13. OwnedOnce'
  <2> SUFFICES ASSUME NEW i \in Position
      PROVE  /\ \A j, k \in jobs' : Queues(i, j)' /\ Queues(i, k)' => j = k
             /\ \A v, u \in Thread : Holds(i, v)' /\ Holds(i, u)' => v = u
             /\ \A j \in jobs', v \in Thread : ~(Queues(i, j)' /\ Holds(i, v)')
             /\ copied'[i] = IF (\E j \in jobs' : Queues(i, j)') \/ (\E v \in Thread : Holds(i, v)')
                             THEN 0 ELSE 1
    BY DEF OwnedOnce
  <2>1. /\ \A j, k \in jobs : Queues(i, j) /\ Queues(i, k) => j = k
        /\ \A v, u \in Thread : Holds(i, v) /\ Holds(i, u) => v = u
        /\ \A j \in jobs, v \in Thread : ~(Queues(i, j) /\ Holds(i, v))
        /\ copied[i] = IF (\E j \in jobs : Queues(i, j)) \/ (\E v \in Thread : Holds(i, v))
                       THEN 0 ELSE 1
    BY DEF IInv, OwnedOnce
  <2> DEFINE part(k) == k \in Unstarted(l) /\ i \in PartCells(l, k)
  <2>2. i \in Int
    BY DEF Position
  <2>3. /\ NextLo(l) <= i /\ i < r.finished <=> \E k \in Unstarted(l) : part(k)
        /\ \A k, m \in Unstarted(l) : part(k) /\ part(m) => k = m
    BY <1>4, <2>2, UnstartedTiles
  <2>4. /\ \A u \in Thread : u # t => (Holds(i, u)' <=> Holds(i, u))
        /\ Holds(i, t) <=> r.lo <= i /\ i < r.finished
        /\ Holds(i, t)' <=> r.lo <= i /\ i < NextLo(l)
    <3>1. r.lo \in Bound /\ r.finished \in Bound /\ NextLo(l) \in Bound
      BY <1>2, <1>4, AreaFacts, NextFacts
    <3>2. Shared(r).busy
      BY <1>4, Zenon DEF BusyType
    <3>3. \A a, b \in Bound : i \in Cells(a, b) <=> a <= i /\ i < b
      BY <2>2, SequentialAssumption DEF Cells, Bound
    <3> QED BY <1>1, <1>2, <1>4, <1>11, <3>1, <3>2, <3>3 DEF Holds
  <2>5. r.lo <= NextLo(l) /\ NextLo(l) <= r.finished /\ r.lo \in Int /\ NextLo(l) \in Int /\ r.finished \in Int
    <3>1. l.a[1] <= NextLo(l) /\ NextLo(l) <= l.a[4] /\ NextLo(l) \in Bound
      BY <1>4, NextFacts
    <3>2. l.a[1] \in Bound /\ r.lo \in Bound /\ r.finished \in Bound
      BY <1>2, <1>4, AreaFacts DEF LevelType
    <3> QED BY <1>4, <3>1, <3>2, SequentialAssumption DEF Bound
  <2>6. /\ \A j \in jobs : Queues(i, j)' <=> Queues(i, j)
        /\ \A k \in Given : Queues(i, PartJob(l, k))' <=> part(k)
        /\ \A j \in jobs' : j \in jobs \/ \E k \in Given : j = PartJob(l, k)
        /\ \A k \in Given : PartJob(l, k) \in jobs'
        /\ jobs \subseteq jobs'
    BY <1>6 DEF Queues, PartJob, PartCells
  <2>7. i \in ended <=> \E k \in Ended : part(k)
    OBVIOUS
  <2>8. copied'[i] = IF i \in ended THEN copied[i] + 1 ELSE copied[i]
    BY <1>6
  <2>9. Unstarted(l) = Given \cup Ended /\ Given \cap Ended = {}
    OBVIOUS
  <2> HIDE DEF part, Given, Ended, ended
  <2>10. CASE \E k \in Given : part(k)
    <3>1. PICK k \in Given : part(k)
      BY <2>10
    <3>2. Holds(i, t) /\ ~Holds(i, t)'
      BY <3>1, <2>3, <2>4, <2>5, <2>2, <2>9
    <3>3. i \notin ended /\ \A m \in Given : part(m) => m = k
      BY <3>1, <2>3, <2>7, <2>9
    <3>4. \A j \in jobs' : Queues(i, j)' <=> j = PartJob(l, k)
      BY <3>1, <3>2, <3>3, <2>1, <2>6
    <3>5. PartJob(l, k) \in jobs'
      BY <3>1, <2>6
    <3>6. copied'[i] = 0
      BY <3>2, <3>3, <2>1, <2>8
    <3>7. \A u \in Thread : ~Holds(i, u)'
      BY <3>2, <2>1, <2>4
    <3> QED BY <3>4, <3>5, <3>6, <3>7
  <2>11. CASE \E k \in Ended : part(k)
    <3>1. PICK k \in Ended : part(k)
      BY <2>11
    <3>2. Holds(i, t) /\ ~Holds(i, t)'
      BY <3>1, <2>3, <2>4, <2>5, <2>2, <2>9
    <3>3. i \in ended /\ \A m \in Given : ~part(m)
      BY <3>1, <2>3, <2>7, <2>9
    <3>4. \A j \in jobs' : ~Queues(i, j)'
      BY <3>2, <3>3, <2>1, <2>6
    <3>5. copied'[i] = 1
      BY <3>2, <3>3, <2>1, <2>8
    <3>6. \A u \in Thread : ~Holds(i, u)'
      BY <3>2, <2>1, <2>4
    <3> QED BY <3>4, <3>5, <3>6
  <2>12. CASE ~\E k \in Unstarted(l) : part(k)
    <3>1. i \notin ended /\ \A k \in Given : ~part(k)
      BY <2>12, <2>7, <2>9
    <3>2. \A u \in Thread : Holds(i, u)' <=> Holds(i, u)
      BY <2>12, <2>2, <2>3, <2>4, <2>5
    <3>3. \A j \in jobs' : Queues(i, j)' => j \in jobs /\ Queues(i, j)
      BY <3>1, <2>6
    <3> QED BY <3>1, <3>2, <3>3, <2>1, <2>6, <2>8
  <2> QED BY <2>9, <2>10, <2>11, <2>12
<1> QED BY <1>10, <1>11, <1>12, <1>13 DEF IInv

\* What is left to the thread is all sorted when its loop ends; it is copied.
LEMMA EndJobStep ==
  ASSUME IInv, NEW t \in Thread, EndJob(t)
  PROVE  IInv'
<1>1. PICK r : r = thr[t]
  OBVIOUS
<1>2. thr[t].busy /\ r \in BusyType /\ StackOK(r) /\ ~(Len(r.stack) > r.front)
  BY <1>1, BusyFacts DEF IInv, StacksOK, EndJob, InLoop
<1>3. Cells(r.lo, r.finished) \subseteq sorted
  BY <1>1, <1>2 DEF IInv, SortedBelow, Cursor
<1>4. /\ thr' = [thr EXCEPT ![t] = Idle] /\ jobs' = jobs /\ sorted' = sorted
      /\ copied' = [i \in Position |-> IF i \in Cells(r.lo, r.finished) THEN copied[i] + 1 ELSE copied[i]]
  BY <1>1 DEF EndJob, Copy
<1>5. StateOK'
  BY <1>4 DEF IInv, StateOK
<1>6. ~thr'[t].busy /\ \A u \in Thread : u # t => thr'[u] = thr[u]
  BY <1>4 DEF IInv, StateOK, Idle
<1>7. StacksOK' /\ SortedBelow' /\ JobsFilled'
  BY <1>4, <1>6 DEF IInv, StacksOK, SortedBelow, JobsFilled
<1>8. CopiedAreSorted'
  BY <1>3, <1>4 DEF IInv, StateOK, CopiedAreSorted
<1>9. OwnedOnce'
  <2>1. \A i \in Position : /\ \A u \in Thread : u # t => (Holds(i, u)' <=> Holds(i, u))
                            /\ ~Holds(i, t)'
                            /\ \A j \in jobs : Queues(i, j)' <=> Queues(i, j)
                            /\ copied'[i] = IF Holds(i, t) THEN copied[i] + 1 ELSE copied[i]
    BY <1>1, <1>2, <1>4, <1>6 DEF Holds, Queues
  <2> QED BY <2>1, <1>4 DEF IInv, OwnedOnce
<1> QED BY <1>5, <1>7, <1>8, <1>9 DEF IInv

---------------------------------------------------------------------------
\* One job holds all strings at the start.
LEMMA InitIInv == Init => IInv
<1> SUFFICES ASSUME Init PROVE IInv
  OBVIOUS
<1> DEFINE j == [lo |-> 0, hi |-> N, depth |-> 0]
<1>1. jobs = {j} /\ j \in JobType /\ j.lo < j.hi /\ Cells(j.lo, j.hi) = Position
  BY SequentialAssumption DEF Init, JobType, Cells, Position
<1>2. \A t \in Thread : thr[t] = Idle /\ ~thr[t].busy
  BY DEF Init, Idle
<1>3. StateOK
  BY <1>1, <1>2 DEF Init, StateOK
<1>4. StacksOK /\ SortedBelow
  BY <1>2 DEF StacksOK, SortedBelow
<1>5. JobsFilled
  BY <1>1 DEF JobsFilled
<1>6. OwnedOnce
  BY <1>1, <1>2 DEF Init, OwnedOnce, Queues, Holds
<1>7. CopiedAreSorted
  BY DEF Init, CopiedAreSorted
<1> QED BY <1>3, <1>4, <1>5, <1>6, <1>7 DEF IInv

\* Every step keeps the invariant.
LEMMA NextIInv == IInv /\ [Next]_vars => IInv'
<1> SUFFICES ASSUME IInv, [Next]_vars PROVE IInv'
  OBVIOUS
<1>1. ASSUME NEW t \in Thread, StartJob(t) PROVE IInv'
  BY <1>1, StartJobStep
<1>2. ASSUME NEW t \in Thread, SortPart(t) PROVE IInv'
  BY <1>2, SortPartStep
<1>3. ASSUME NEW t \in Thread, PopLevel(t) PROVE IInv'
  BY <1>3, PopLevelStep
<1>4. ASSUME NEW t \in Thread, Share(t) PROVE IInv'
  BY <1>4, ShareStep
<1>5. ASSUME NEW t \in Thread, EndJob(t) PROVE IInv'
  BY <1>5, EndJobStep
<1>6. CASE UNCHANGED vars
  BY <1>6 DEF vars, IInv, StateOK, StacksOK, SortedBelow, JobsFilled, OwnedOnce,
     CopiedAreSorted, Queues, Holds
<1> QED BY <1>1, <1>2, <1>3, <1>4, <1>5, <1>6 DEF Next, Work, Returned

\* The invariant says what the properties do.
LEMMA IInvTypeOK == IInv => TypeOK
<1> SUFFICES ASSUME IInv PROVE TypeOK
  OBVIOUS
<1>1. ASSUME NEW t \in Thread, thr[t].busy
      PROVE  0 <= thr[t].lo /\ thr[t].finished \in thr[t].lo .. N
             /\ thr[t].front \in 0 .. Len(thr[t].stack)
  <2>1. PICK r : r = thr[t]
    OBVIOUS
  <2>2. r \in BusyType /\ StackOK(r)
    BY <1>1, <2>1, BusyFacts DEF IInv, StacksOK
  <2>3. 0 <= r.lo /\ r.finished \in r.lo .. N /\ r.front \in 0 .. Len(r.stack)
    BY <2>2, AreaFacts, SequentialAssumption DEF Bound, StackOK
  <2> QED BY <2>1, <2>3
<1> QED BY <1>1 DEF IInv, StateOK, TypeOK

\* Levels that were not given away lie inside the area.
LEMMA IInvStackInArea == IInv => StackInArea
<1> SUFFICES ASSUME IInv, NEW t \in Thread, thr[t].busy,
                    NEW n \in thr[t].front + 1 .. Len(thr[t].stack)
    PROVE  PartLo(thr[t].stack[n], 0) >= thr[t].lo /\ PartHi(thr[t].stack[n], 2) <= thr[t].finished
  BY DEF StackInArea
<1>1. PICK r : r = thr[t]
  OBVIOUS
<1>2. r \in BusyType /\ StackOK(r) /\ n \in r.front + 1 .. Len(r.stack)
  BY <1>1, BusyFacts DEF IInv, StacksOK
<1>3. r.stack[n] \in LevelType /\ r.lo <= r.stack[n].a[1] /\ r.stack[n].a[4] <= r.finished
      /\ r.lo \in Bound /\ r.finished \in Bound
  BY <1>2, LevelInArea, AreaFacts
<1>4. PartLo(r.stack[n], 0) >= r.lo /\ PartHi(r.stack[n], 2) <= r.finished
  BY <1>3, SequentialAssumption DEF PartLo, PartHi, Bound, LevelType
<1> QED BY <1>1, <1>4

\* The owners of a string are counted.
LEMMA IInvOneOwner == IInv => OneOwner
<1> SUFFICES ASSUME IInv, NEW i \in Position
    PROVE  Cardinality({j \in jobs : i \in Cells(j.lo, j.hi)})
           + Cardinality({t \in Thread : thr[t].busy /\ i \in Cells(thr[t].lo, thr[t].finished)})
           + copied[i] = 1
  BY DEF OneOwner
<1> DEFINE queued == {j \in jobs : i \in Cells(j.lo, j.hi)}
           held == {t \in Thread : thr[t].busy /\ i \in Cells(thr[t].lo, thr[t].finished)}
<1>1. /\ \A j, k \in queued : j = k
      /\ \A t, u \in held : t = u
      /\ \A j \in queued, t \in held : FALSE
      /\ copied[i] = IF queued # {} \/ held # {} THEN 0 ELSE 1
  BY DEF IInv, OwnedOnce, Queues, Holds
<1>2. Cardinality({}) = 0
  BY FS_EmptySet
<1> HIDE DEF queued, held
<1>3. CASE queued # {}
  <2>1. PICK j \in queued : queued = {j}
    BY <1>1, <1>3
  <2>2. held = {}
    BY <1>1, <2>1
  <2>3. Cardinality(queued) = 1 /\ Cardinality(held) = 0 /\ copied[i] = 0
    BY <1>1, <1>2, <1>3, <2>1, <2>2, FS_Singleton
  <2> QED BY <2>3 DEF queued, held
<1>4. CASE held # {}
  <2>1. PICK t \in held : held = {t}
    BY <1>1, <1>4
  <2>2. queued = {}
    BY <1>1, <2>1
  <2>3. Cardinality(queued) = 0 /\ Cardinality(held) = 1 /\ copied[i] = 0
    BY <1>1, <1>2, <1>4, <2>1, <2>2, FS_Singleton
  <2> QED BY <2>3 DEF queued, held
<1>5. CASE queued = {} /\ held = {}
  <2>1. Cardinality(queued) = 0 /\ Cardinality(held) = 0 /\ copied[i] = 1
    BY <1>1, <1>2, <1>5
  <2> QED BY <2>1 DEF queued, held
<1> QED BY <1>3, <1>4, <1>5

\* Without jobs and busy threads nothing is owned.
LEMMA IInvAllCopied == IInv => AllCopied
<1> SUFFICES ASSUME IInv, Quiet, NEW i \in Position PROVE copied[i] = 1
  BY DEF AllCopied
<1>1. \A t \in Thread : ~Holds(i, t)
  BY DEF Quiet, Idle, Holds
<1> QED BY <1>1 DEF Quiet, IInv, OwnedOnce

---------------------------------------------------------------------------
\* The invariant holds of every behaviour.
LEMMA Inductive == Spec => []IInv
BY InitIInv, NextIInv, PTL DEF Spec

\* Jobs, areas and stacks stay inside the strings of the first job.
THEOREM SequentialTypeCorrect == Spec => []TypeOK
BY Inductive, IInvTypeOK, PTL

\* However often the oldest level of a stack is given away while its levels
\* are worked on, every string has one owner until it is in the output, where
\* it is written once: SequentialJob::run() and free_work() never hand out,
\* keep and copy the same string (bingmann-parallel_mkqs.hpp).
THEOREM SequentialOneOwner == Spec => []OneOwner
BY Inductive, IInvOneOwner, PTL

\* When the queue is dry and the threads idle all strings were copied.
THEOREM SequentialAllCopied == Spec => []AllCopied
BY Inductive, IInvAllCopied, PTL

\* Nothing reaches the output that is not in its final place: free_work()
\* copies an equal part without sorting only when its key holds the
\* terminator, and the end of a job copies only what its thread has sorted.
THEOREM SequentialCopiesSorted == Spec => []CopiedAreSorted
BY Inductive, PTL DEF IInv

\* A thread never works above cache_finished, where the strings belong to
\* those it gave them to.
THEOREM SequentialStaysInArea == Spec => []StackInArea
BY Inductive, IInvStackInArea, PTL

---------------------------------------------------------------------------
(* The sort as a whole *)

PP == INSTANCE MkqsPartitionProofs WITH SeqThreshold <- N - 1

\* No sequential job has begun.
Fresh ==
  /\ jobs = {} /\ thr = [t \in Thread |-> Idle]
  /\ sorted = {} /\ copied = [i \in Position |-> 0]

\* What is left of the partition when the ParallelJob is deleted.
PartitionLeft == P!TypeOK /\ P!QueuesExact /\ P!RecursesOnAll

ParallelIInv ==
  /\ depth \in -1 .. MaxDepth - 1
  /\ Alive => Fresh /\ PP!IInv /\ PivotOf(key, depth)
  /\ ~Alive => IInv /\ PartitionLeft

---------------------------------------------------------------------------
(* P and PP are instances of the same specification *)

\* The sizes are what the proofs about the partition assume.
LEMMA Assumed == PP!SizesOK
BY SequentialAssumption, PartitionAssumption DEF PP!SizesOK

\* They have the same steps.
LEMMA SameStep ==
  ASSUME NEW p, P!Partition(p)
  PROVE  PP!Partition(p)
BY Zenon DEF
     P!Partition, P!NewBlock, P!SourceDry, P!Keep, P!SwapEqual, P!ToRight, P!SwapSides, P!NextTurn,
     P!Good, P!Move, P!PushRest, P!Decrement, P!Needs, P!Scanning, P!Side, P!Ready, P!Finishing,
     P!Turn, P!Later, P!Goto, P!Push, P!MarkPartial, P!NoBlock, P!Full, P!Fill, P!Src, P!FrontStr,
     P!BackStr, P!Pass, P!Put, P!Grow, P!Drop, P!Extra, P!Sizes, P!Recurse, P!Item, P!Proc,
     P!Class,
     PP!Partition, PP!NewBlock, PP!SourceDry, PP!Keep, PP!SwapEqual, PP!ToRight, PP!SwapSides,
     PP!NextTurn, PP!Good, PP!Move, PP!PushRest, PP!Decrement, PP!Needs, PP!Scanning, PP!Side,
     PP!Ready, PP!Finishing, PP!Turn, PP!Later, PP!Goto, PP!Push, PP!MarkPartial, PP!NoBlock,
     PP!Full, PP!Fill, PP!Src, PP!FrontStr, PP!BackStr, PP!Pass, PP!Put, PP!Grow, PP!Drop,
     PP!Extra, PP!Sizes, PP!Recurse, PP!Item, PP!Proc, PP!Class

\* They have the same first states.
LEMMA SameInit == P!Init => PP!Init
BY Zenon DEF
     P!Init, P!Item, P!Proc, P!Class, P!Cuts, P!Blocks, P!NoBlock,
     PP!Init, PP!Item, PP!Proc, PP!Class, PP!Cuts, PP!Blocks, PP!NoBlock

\* They have the same last states.
LEMMA SameFinish ==
  /\ P!Finished => PP!Finished
  /\ P!Sizes = PP!Sizes /\ P!Class = PP!Class /\ P!Item = PP!Item /\ P!Proc = PP!Proc
  /\ \A c : P!Recurse(c) = PP!Recurse(c)
BY Zenon DEF
     P!Finished, P!Sizes, P!Recurse, P!Item, P!Proc, P!Class,
     PP!Finished, PP!Sizes, PP!Recurse, PP!Item, PP!Proc, PP!Class

\* They have the same properties.
LEMMA SameProperties ==
  /\ PP!TypeOK => P!TypeOK
  /\ PP!NothingLost => P!NothingLost
  /\ PP!QueuesExact => P!QueuesExact
  /\ PP!RecursesOnAll => P!RecursesOnAll
<1>1. PP!TypeOK => P!TypeOK
  BY Zenon DEF
     P!ToSet, P!TypeOK, P!Fill, P!Item, P!Proc, P!Class,
     PP!ToSet, PP!TypeOK, PP!Fill, PP!Item, PP!Proc, PP!Class
<1>2. PP!NothingLost => P!NothingLost
  BY Zenon DEF
     P!Cardinality, P!ToSet, P!NothingLost, P!Held, P!Item, P!Proc, P!Class,
     PP!Cardinality, PP!ToSet, PP!NothingLost, PP!Held, PP!Item, PP!Proc, PP!Class
<1>3. PP!QueuesExact => P!QueuesExact
  BY Zenon DEF
     P!Cardinality, P!ToSet, P!QueuesExact, P!Class,
     PP!Cardinality, PP!ToSet, PP!QueuesExact, PP!Class
<1>4. PP!RecursesOnAll => P!RecursesOnAll
  BY Zenon DEF
     P!ToSet, P!RecursesOnAll, P!Item, P!Class,
     PP!ToSet, PP!RecursesOnAll, PP!Item, PP!Class
<1> QED BY <1>1, <1>2, <1>3, <1>4

\* The invariant of the partition says what the properties do.
LEMMA PartitionSays == PP!IInv => P!TypeOK /\ P!NothingLost /\ P!QueuesExact /\ P!RecursesOnAll
<1> SUFFICES ASSUME PP!IInv PROVE P!TypeOK /\ P!NothingLost /\ P!QueuesExact /\ P!RecursesOnAll
  OBVIOUS
<1>1. PP!TypeOK /\ PP!NothingLost /\ PP!QueuesExact /\ PP!RecursesOnAll
  BY Assumed, PP!TypeFromIInv, PP!PlacesFromIInv, PP!QueuesFromIInv, PP!RecursesFromIInv
<1> QED BY <1>1, SameProperties

---------------------------------------------------------------------------
(* The steps *)

\* The first state.
LEMMA ParallelInitIInv == ParallelInit => ParallelIInv
<1> SUFFICES ASSUME ParallelInit PROVE ParallelIInv
  OBVIOUS
<1>1. PP!IInv
  <2>1. PP!Init
    BY SameInit DEF ParallelInit
  <2> QED BY <2>1, Assumed, PP!InitIInv
<1>2. depth \in -1 .. MaxDepth - 1 /\ Alive
  BY SequentialAssumption, PartitionAssumption DEF ParallelInit, Alive
<1> QED BY <1>1, <1>2 DEF ParallelInit, ParallelIInv, Fresh

\* A step of the partition.
LEMMA PartitionKeeps ==
  ASSUME ParallelIInv, NEW p \in P!Proc, PartitionStep(p)
  PROVE  ParallelIInv'
<1>1. Alive /\ P!Partition(p) /\ UNCHANGED <<vars, depth>>
  BY DEF PartitionStep
<1>2. PP!IInv /\ PP!Partition(p) /\ p \in PP!Proc
  BY <1>1, SameStep, SameFinish DEF ParallelIInv
<1>3. PP!IInv'
  BY <1>2, Assumed, PP!StepIInv
<1>4. key' = key
  BY <1>2, PP!KeyKept
<1>5. Fresh' /\ PivotOf(key, depth)' /\ Alive' /\ depth' \in -1 .. MaxDepth - 1
  BY <1>1, <1>4 DEF ParallelIInv, Fresh, PivotOf, Alive, vars, P!Item
<1> QED BY <1>3, <1>5 DEF ParallelIInv

\* The sizes of the queues when the partition is finished.
LEMMA QueueSizes ==
  ASSUME ParallelIInv, Alive, P!Finished
  PROVE  /\ P!Sizes["lt"] \in Nat /\ P!Sizes["eq"] \in Nat /\ P!Sizes["gt"] \in Nat
         /\ P!Sizes["lt"] + P!Sizes["eq"] + P!Sizes["gt"] = N
         /\ P!Sizes["eq"] # 0
         /\ \A i \in P!Item : key[i] \in P!Class /\ P!Sizes[key[i]] # 0
         /\ \A c \in P!Class :
              /\ child[c] = "none" <=> P!Sizes[c] = 0
              /\ child[c] = "sequential" <=> P!Sizes[c] # 0 /\ P!Sizes[c] <= N - 1
              /\ child[c] = "parallel" <=> P!Sizes[c] # 0 /\ ~(P!Sizes[c] <= N - 1)
<1>1. PP!IInv /\ PP!Finished /\ PivotOf(key, depth)
  BY SameFinish DEF ParallelIInv
<1>2. /\ \A c \in P!Class : P!Sizes[c] \in Nat /\ child[c] = P!Recurse(c)
      /\ P!Sizes["lt"] + P!Sizes["eq"] + P!Sizes["gt"] = N
      /\ \A i \in P!Item : key[i] \in P!Class /\ P!Sizes[key[i]] # 0
  <2>1. /\ \A c \in PP!Class : PP!Sizes[c] \in Nat /\ child[c] = PP!Recurse(c)
        /\ PP!Sizes["lt"] + PP!Sizes["eq"] + PP!Sizes["gt"] = N
        /\ \A i \in PP!Item : key[i] \in PP!Class /\ PP!Sizes[key[i]] # 0
    BY <1>1, Assumed, PP!FinishedFacts
  <2> QED BY <2>1, SameFinish, Zenon
<1>3. P!Sizes["eq"] # 0
  BY <1>1, <1>2 DEF PivotOf
<1> QED BY <1>2, <1>3 DEF P!Class, P!Recurse

\* The jobs J of queues of a, b and g strings at depth d.
JobsOf(a, b, g, d, J) ==
  LET l == [lo |-> 0, hi |-> a, depth |-> d]
      e == [lo |-> a, hi |-> a + b, depth |-> d + 1]
      u == [lo |-> a + b, hi |-> N, depth |-> d]
  IN  J \subseteq {l, e, u} /\ (l \in J <=> a # 0) /\ (e \in J <=> b # 0) /\ (u \in J <=> g # 0)

\* The jobs J share the strings out.
ShareOut(J) ==
  /\ J \subseteq JobType /\ \A j \in J : j.lo < j.hi
  /\ \A i \in Position : \E j \in J : i \in Cells(j.lo, j.hi) /\ \A k \in J : i \in Cells(k.lo, k.hi) => k = j

\* The sequential jobs of the three queues own every string once.
LEMMA JobsMade ==
  ASSUME NEW a \in Nat, NEW b \in Nat, NEW g \in Nat, a + b + g = N, NEW d \in 0 .. MaxDepth - 1,
         NEW J, JobsOf(a, b, g, d, J)
  PROVE  ShareOut(J)
<1> DEFINE l == [lo |-> 0, hi |-> a, depth |-> d]
           e == [lo |-> a, hi |-> a + b, depth |-> d + 1]
           u == [lo |-> a + b, hi |-> N, depth |-> d]
<1>1. MaxDepth \in Nat /\ N \in Nat
  BY SequentialAssumption
<1>2. l \in JobType /\ e \in JobType /\ u \in JobType
  BY <1>1 DEF JobType
<1>3. l.lo = 0 /\ l.hi = a /\ e.lo = a /\ e.hi = a + b /\ u.lo = a + b /\ u.hi = N
  OBVIOUS
<1>4. J \subseteq {l, e, u} /\ (l \in J <=> a # 0) /\ (e \in J <=> b # 0) /\ (u \in J <=> g # 0)
  BY DEF JobsOf
<1> HIDE DEF l, e, u
<1>5. \A j \in J : j.lo < j.hi
  <2>1. ASSUME NEW j \in J PROVE j.lo < j.hi
    <3>1. CASE j = l
      BY <1>3, <1>4, <3>1
    <3>2. CASE j = e
      BY <1>3, <1>4, <3>2
    <3>3. CASE j = u
      BY <1>1, <1>3, <1>4, <3>3
    <3> QED BY <1>4, <3>1, <3>2, <3>3
  <2> QED BY <2>1
<1>6. ASSUME NEW i \in Position
      PROVE  \E j \in J : i \in Cells(j.lo, j.hi) /\ \A k \in J : i \in Cells(k.lo, k.hi) => k = j
  <2>1. i \in Nat /\ i < N
    BY <1>1 DEF Position
  <2>2. /\ i \in Cells(l.lo, l.hi) <=> i < a
        /\ i \in Cells(e.lo, e.hi) <=> a <= i /\ i < a + b
        /\ i \in Cells(u.lo, u.hi) <=> a + b <= i
    BY <1>1, <1>3, <2>1 DEF Cells
  <2>3. CASE i < a
    <3>1. l \in J
      BY <1>4, <2>1, <2>3
    <3>2. i \notin Cells(e.lo, e.hi) /\ i \notin Cells(u.lo, u.hi) /\ i \in Cells(l.lo, l.hi)
      BY <2>1, <2>2, <2>3
    <3> QED BY <1>4, <3>1, <3>2
  <2>4. CASE a <= i /\ i < a + b
    <3>1. e \in J
      BY <1>4, <2>1, <2>4
    <3>2. i \notin Cells(l.lo, l.hi) /\ i \notin Cells(u.lo, u.hi) /\ i \in Cells(e.lo, e.hi)
      BY <2>1, <2>2, <2>4
    <3> QED BY <1>4, <3>1, <3>2
  <2>5. CASE a + b <= i
    <3>1. u \in J
      BY <1>1, <1>4, <2>1, <2>5
    <3>2. i \notin Cells(l.lo, l.hi) /\ i \notin Cells(e.lo, e.hi) /\ i \in Cells(u.lo, u.hi)
      BY <2>1, <2>2, <2>5
    <3> QED BY <1>4, <3>1, <3>2
  <2> QED BY <2>1, <2>3, <2>4, <2>5
<1> QED BY <1>2, <1>4, <1>5, <1>6 DEF ShareOut

\* The ParallelJob is deleted.
LEMMA FinishedStep ==
  ASSUME ParallelIInv, PartitionFinished
  PROVE  ParallelIInv'
<1>1. /\ Alive /\ P!Finished /\ Queued("parallel") = {}
      /\ jobs' = {QueueJob(c) : c \in Queued("sequential")} /\ depth' = -1
      /\ out' = [c \in P!Class |-> {}] /\ count' = [c \in P!Class |-> 0]
      /\ child' = [c \in P!Class |-> "none"]
      /\ UNCHANGED <<thr, sorted, copied, source, cur, pc, pwork>>
  BY DEF PartitionFinished
<1>2. PICK a, b, g : a = P!Sizes["lt"] /\ b = P!Sizes["eq"] /\ g = P!Sizes["gt"]
  OBVIOUS
<1>3. a \in Nat /\ b \in Nat /\ g \in Nat /\ a + b + g = N
  BY <1>1, <1>2, QueueSizes
<1>4. depth \in 0 .. MaxDepth - 1
  BY <1>1, SequentialAssumption DEF ParallelIInv, Alive
<1>5. /\ QueueJob("lt") = [lo |-> 0, hi |-> a, depth |-> depth]
      /\ QueueJob("eq") = [lo |-> a, hi |-> a + b, depth |-> depth + 1]
      /\ QueueJob("gt") = [lo |-> a + b, hi |-> N, depth |-> depth]
  BY <1>2 DEF QueueJob
<1>6. \A c \in P!Class : c \in Queued("sequential") <=> P!Sizes[c] # 0
  <2>1. \A c \in P!Class : child[c] # "parallel"
    BY <1>1 DEF Queued
  <2> QED BY <1>1, <2>1, QueueSizes DEF Queued
<1>7. Queued("sequential") \subseteq P!Class /\ P!Class = {"lt", "eq", "gt"}
  BY DEF Queued, P!Class
<1> DEFINE l == [lo |-> 0, hi |-> a, depth |-> depth]
           e == [lo |-> a, hi |-> a + b, depth |-> depth + 1]
           u == [lo |-> a + b, hi |-> N, depth |-> depth]
<1>8. /\ jobs' \subseteq {l, e, u}
      /\ l \in jobs' <=> a # 0
      /\ e \in jobs' <=> b # 0
      /\ u \in jobs' <=> g # 0
  <2>1. \A j : j \in jobs' <=> \E c \in Queued("sequential") : j = QueueJob(c)
    BY <1>1
  <2>2. l # e /\ e # u /\ (l = u => a = 0 /\ g = 0)
    <3>1. l.depth = depth /\ e.depth = depth + 1 /\ u.depth = depth /\ l.lo = 0 /\ l.hi = a /\ u.lo = a + b /\ u.hi = N
      OBVIOUS
    <3> HIDE DEF l, e, u
    <3> QED BY <1>3, <1>4, <3>1
  <2>3. /\ "lt" \in Queued("sequential") <=> a # 0
        /\ "eq" \in Queued("sequential") <=> b # 0
        /\ "gt" \in Queued("sequential") <=> g # 0
    BY <1>2, <1>6, <1>7
  <2> HIDE DEF l, e, u
  <2>4. QueueJob("lt") = l /\ QueueJob("eq") = e /\ QueueJob("gt") = u
    BY <1>5 DEF l, e, u
  <2> QED BY <1>7, <2>1, <2>2, <2>3, <2>4
<1>9. /\ jobs' \subseteq JobType /\ (\A j \in jobs' : j.lo < j.hi)
      /\ \A i \in Position : \E j \in jobs' :
           i \in Cells(j.lo, j.hi) /\ \A k \in jobs' : i \in Cells(k.lo, k.hi) => k = j
  <2>1. JobsOf(a, b, g, depth, jobs')
    BY <1>8 DEF JobsOf
  <2>2. ShareOut(jobs')
    BY <1>3, <1>4, <2>1, JobsMade
  <2> QED BY <2>2 DEF ShareOut
<1>10. IInv'
  <2>1. thr' = [t \in Thread |-> Idle] /\ sorted' = {} /\ copied' = [i \in Position |-> 0]
    BY <1>1 DEF ParallelIInv, Fresh
  <2>2. \A t \in Thread : ~thr'[t].busy
    BY <2>1 DEF Idle
  <2>3. StateOK'
    BY <1>9, <2>1 DEF StateOK
  <2>4. StacksOK' /\ SortedBelow' /\ JobsFilled' /\ CopiedAreSorted'
    BY <1>9, <2>1, <2>2 DEF StacksOK, SortedBelow, JobsFilled, CopiedAreSorted
  <2>5. OwnedOnce'
    BY <1>9, <2>1, <2>2 DEF OwnedOnce, Queues, Holds
  <2> QED BY <2>3, <2>4, <2>5 DEF IInv
<1>11. PartitionLeft'
  <2>1. P!TypeOK
    BY <1>1, PartitionSays DEF ParallelIInv
  <2>2. P!TypeOK'
    <3>1. \A c \in P!Class : count'[c] \in 0 .. N
      BY <1>1, SequentialAssumption
    <3> QED BY <1>1, <2>1, <3>1 DEF P!TypeOK, P!Fill, P!Proc, P!Class, P!Item
  <2>3. P!QueuesExact'
    <3>1. \A c \in P!Class : UNION {ToSet(s) : s \in out'[c]} = {} /\ count'[c] = 0
      BY <1>1
    <3>2. Cardinality({}) = 0
      BY FS_EmptySet
    <3>3. ASSUME NEW c \in P!Class
          PROVE  /\ \A i \in UNION {ToSet(s) : s \in out'[c]} : key'[i] = c
                 /\ count'[c] = Cardinality(UNION {ToSet(s) : s \in out'[c]})
      BY <3>1, <3>2, Zenon
    <3> QED BY <3>3 DEF P!QueuesExact, P!Class, P!ToSet, ToSet, P!Cardinality, Cardinality
  <2>4. P!RecursesOnAll'
    BY <1>1 DEF P!RecursesOnAll, P!Class
  <2> QED BY <2>2, <2>3, <2>4 DEF PartitionLeft
<1>12. ~Alive' /\ depth' \in -1 .. MaxDepth - 1
  BY <1>1, SequentialAssumption DEF Alive
<1> QED BY <1>10, <1>11, <1>12 DEF ParallelIInv

\* The invariant of the partition holds when it begins.
LEMMA BeginIInv == P!Init => PP!IInv
<1>1. PP!Init => PP!IInv
  BY Assumed, PP!InitIInv
<1> QED BY <1>1, SameInit

\* All strings are equal, and the same step begins one key deeper.
LEMMA AgainStep ==
  ASSUME ParallelIInv, PartitionAgain
  PROVE  ParallelIInv'
<1>1. /\ Alive /\ P!Finished /\ Queued("parallel") # {} /\ depth' = depth + 1 /\ PivotOf(key', depth + 1)
      /\ UNCHANGED vars
  BY DEF PartitionAgain
<1>2. \A i \in P!Item : key[i] = "eq"
  <2>1. PICK c \in P!Class : child[c] = "parallel"
    BY <1>1 DEF Queued
  <2>2. PICK a, b, g : a = P!Sizes["lt"] /\ b = P!Sizes["eq"] /\ g = P!Sizes["gt"]
    OBVIOUS
  <2>3. a \in Nat /\ b \in Nat /\ g \in Nat /\ a + b + g = N /\ b # 0
    BY <1>1, <2>2, QueueSizes
  <2>4. c = "lt" \/ c = "eq" \/ c = "gt"
    BY DEF P!Class
  <2>5. ~(P!Sizes[c] <= N - 1)
    BY <1>1, <2>1, QueueSizes
  <2>6. a = 0 /\ g = 0
    BY <2>2, <2>3, <2>4, <2>5
  <2>7. \A i \in P!Item : key[i] \in {"lt", "eq", "gt"} /\ P!Sizes[key[i]] # 0
    BY <1>1, QueueSizes DEF P!Class
  <2> QED BY <2>2, <2>6, <2>7
<1>3. depth + 1 \in 0 .. MaxDepth - 1
  <2>1. depth # MaxDepth - 1
    BY <1>1, <1>2 DEF ParallelIInv, PivotOf
  <2> QED BY <1>1, <2>1, SequentialAssumption DEF ParallelIInv, Alive
<1>4. PP!IInv'
  <2>1. P!Init'
    BY DEF PartitionAgain, P!Init
  <2> QED BY <2>1, BeginIInv, PTL
<1>5. Fresh' /\ PivotOf(key, depth)'
  BY <1>1 DEF ParallelIInv, Fresh, PivotOf, vars
<1>6. Alive' /\ depth' \in -1 .. MaxDepth - 1
  BY <1>1, <1>3, SequentialAssumption DEF Alive
<1> QED BY <1>4, <1>5, <1>6 DEF ParallelIInv

\* A step of a sequential job; there is none while the ParallelJob is alive.
LEMMA SequentialKeeps ==
  ASSUME ParallelIInv, NEW t \in Thread, SequentialStep(t)
  PROVE  ParallelIInv'
<1>1. (Work(t) \/ Share(t)) /\ UNCHANGED <<parallel, depth>>
  BY DEF SequentialStep
<1>2. ~Alive
  <2>1. SUFFICES ASSUME Fresh PROVE FALSE
    BY DEF ParallelIInv
  <2>2. jobs = {} /\ thr[t] = Idle /\ ~thr[t].busy
    BY <2>1 DEF Fresh, Idle
  <2> QED BY <1>1, <2>2 DEF Work, Share, StartJob, SortPart, PopLevel, EndJob, InLoop
<1>3. IInv'
  <2>1. IInv /\ Next
    BY <1>1, <1>2 DEF ParallelIInv, Next
  <2> QED BY <2>1, NextIInv
<1>4. PartitionLeft'
  <2>1. PartitionLeft
    BY <1>2 DEF ParallelIInv
  <2>2. P!TypeOK' /\ P!QueuesExact' /\ P!RecursesOnAll'
    BY <1>1, <2>1 DEF PartitionLeft, parallel, P!TypeOK, P!QueuesExact, P!RecursesOnAll
  <2> QED BY <2>2 DEF PartitionLeft
<1>5. ~Alive' /\ depth' \in -1 .. MaxDepth - 1
  BY <1>1, <1>2 DEF ParallelIInv, Alive
<1> QED BY <1>3, <1>4, <1>5 DEF ParallelIInv

\* A step that changes nothing.
LEMMA ParallelStutter == ParallelIInv /\ UNCHANGED allvars => ParallelIInv'
<1> SUFFICES ASSUME ParallelIInv, UNCHANGED allvars PROVE ParallelIInv'
  OBVIOUS
<1>1. UNCHANGED vars /\ UNCHANGED parallel /\ depth' = depth
  BY DEF allvars
<1>2. CASE Alive
  <2>1. PP!IInv'
    <3>1. PP!IInv /\ UNCHANGED PP!vars
      BY <1>1, <1>2 DEF ParallelIInv, parallel, PP!vars
    <3> QED BY <3>1, PP!StutterIInv
  <2>2. Fresh' /\ PivotOf(key, depth)' /\ Alive'
    BY <1>1, <1>2 DEF ParallelIInv, Fresh, PivotOf, Alive, vars, parallel
  <2> QED BY <1>1, <1>2, <2>1, <2>2 DEF ParallelIInv
<1>3. CASE ~Alive
  <2>1. IInv'
    BY <1>1, <1>3, NextIInv DEF ParallelIInv
  <2>2. PartitionLeft
    BY <1>3 DEF ParallelIInv
  <2>3. P!TypeOK' /\ P!QueuesExact' /\ P!RecursesOnAll'
    BY <1>1, <2>2 DEF PartitionLeft, parallel, P!TypeOK, P!QueuesExact, P!RecursesOnAll
  <2> QED BY <1>1, <1>3, <2>1, <2>3 DEF ParallelIInv, PartitionLeft, Alive
<1> QED BY <1>2, <1>3

\* Every step keeps the invariant.
LEMMA ParallelNextIInv == ParallelIInv /\ [ParallelNext]_allvars => ParallelIInv'
<1>1. ASSUME ParallelIInv, NEW p \in P!Proc, PartitionStep(p) PROVE ParallelIInv'
  BY <1>1, PartitionKeeps
<1>2. ASSUME ParallelIInv, PartitionFinished \/ PartitionAgain PROVE ParallelIInv'
  BY <1>2, FinishedStep, AgainStep
<1>3. ASSUME ParallelIInv, NEW t \in Thread, SequentialStep(t) PROVE ParallelIInv'
  BY <1>3, SequentialKeeps
<1> QED BY <1>1, <1>2, <1>3, ParallelStutter DEF ParallelNext

---------------------------------------------------------------------------
(* What the invariant says *)

\* Before the first sequential job the sequential half is at rest.
LEMMA FreshSays == Fresh => TypeOK /\ CopiedAreSorted /\ StackInArea
BY DEF Fresh, TypeOK, CopiedAreSorted, StackInArea, Idle

\* The properties of both halves.
LEMMA ParallelSays ==
  ParallelIInv => /\ TypesOK /\ OnePlace /\ QueuesExact /\ RecursesOnAll
                  /\ OutputComplete /\ CopiedAreSorted /\ StackInArea
<1> SUFFICES ASSUME ParallelIInv
    PROVE /\ TypesOK /\ OnePlace /\ QueuesExact /\ RecursesOnAll
          /\ OutputComplete /\ CopiedAreSorted /\ StackInArea
  OBVIOUS
<1> USE DEF TypesOK, OnePlace, QueuesExact, RecursesOnAll, OutputComplete, Sorted
<1>1. CASE Alive
  <2>1. P!TypeOK /\ P!NothingLost /\ P!QueuesExact /\ P!RecursesOnAll
    BY <1>1, PartitionSays DEF ParallelIInv
  <2>2. TypeOK /\ CopiedAreSorted /\ StackInArea
    BY <1>1, FreshSays DEF ParallelIInv
  <2> QED BY <1>1, <2>1, <2>2
<1>2. CASE ~Alive
  <2>1. IInv /\ PartitionLeft
    BY <1>2 DEF ParallelIInv
  <2>2. TypeOK /\ OneOwner /\ StackInArea /\ AllCopied /\ CopiedAreSorted
    BY <2>1, IInvTypeOK, IInvOneOwner, IInvStackInArea, IInvAllCopied DEF IInv
  <2> QED BY <1>2, <2>1, <2>2 DEF PartitionLeft
<1> QED BY <1>1, <1>2

\* The invariant holds of every behaviour.
LEMMA ParallelInductive == ParallelSpec => []ParallelIInv
BY ParallelInitIInv, ParallelNextIInv, PTL DEF ParallelSpec

\* No block is overfull and no cursor passes the end of its block, in any
\* order of the steps of the PartitionJobs (the assertions of front_cache(),
\* back_cache() and swap_or_move_to()); jobs and stacks stay inside the strings.
THEOREM ParallelTypesCorrect == ParallelSpec => []TypesOK
BY ParallelInductive, ParallelSays, PTL

\* From the first block to the output every string is in one place: swapping,
\* moving and pushing blocks loses and doubles none (has_src_block(),
\* swap_or_move_to(), oblk_push()), and the ranges of the three queues are
\* those of the sequential jobs (partition_finished()).
THEOREM ParallelOnePlace == ParallelSpec => []OnePlace
BY ParallelInductive, ParallelSays, PTL

\* A queue holds strings of its class only and count_lt and count_eq are
\* exact, though blocks go there before their job has ended.
THEOREM ParallelQueuesExact == ParallelSpec => []QueuesExact
BY ParallelInductive, ParallelSays, PTL

\* The job that ends last starts the recursion (--pwork == 0): all strings are
\* in the queues then, and every class that has strings gets a job.
THEOREM ParallelRecursesOnAll == ParallelSpec => []RecursesOnAll
BY ParallelInductive, ParallelSays, PTL

\* A sort that has ended has copied every string to the output, once.
THEOREM ParallelOutputComplete == ParallelSpec => []OutputComplete
BY ParallelInductive, ParallelSays, PTL

\* Only sorted strings reach the output, whichever ranges the partition made.
THEOREM ParallelCopiesSorted == ParallelSpec => []CopiedAreSorted
BY ParallelInductive, ParallelSays, PTL

\* No thread works above cache_finished, whichever ranges the partition made.
THEOREM ParallelStaysInArea == ParallelSpec => []StackInArea
BY ParallelInductive, ParallelSays, PTL
=============================================================================
