----------------------------- MODULE SampleSort -----------------------------
(***************************************************************************)
(* src/src/parallel/bingmann-parallel_sample_sort.hpp: pS5, the parallel   *)
(* string sample sort with LCP output and voluntary work sharing.          *)
(*                                                                         *)
(* A sort step owns the strings of positions lo .. hi-1 that agree up to   *)
(* depth.  A large one is a SampleSortStep (kind "para"): count and        *)
(* distribute jobs, then one child per bucket.  A small one is a           *)
(* SmallsortJob (kind "small"): one thread with explicit stacks of sample  *)
(* sort and multikey quicksort levels that gives the work of its oldest    *)
(* levels away when a thread is idle.  Children notify their parent; the   *)
(* last one computes the LCPs between the parts and deletes the step.      *)
(*                                                                         *)
(* Data is abstracted to positions: the classifier and the ternary split   *)
(* pick any bucket boundaries with a nonempty equal bucket (the splitter   *)
(* is a key of the set); the equal bucket is one key deeper, or done when  *)
(* its key holds the terminator.  Jobs run on the pool JobPool specifies;  *)
(* has_idle() is a relaxed read of a counter and may return anything.      *)
(***************************************************************************)
EXTENDS Integers, SequencesExt

CONSTANTS
  Thread,
  Instances     \* sizes of the input and of the parameters, named below

VARIABLES
  inst,         \* the sizes of this run
  step,         \* the SortStep objects that are alive, by StepId
  jobs,         \* jobs in the queue
  thr,          \* what each thread is doing, and for which step
  todo,         \* the children a thread has still to create
  fin,          \* how often each position got its final string
  lcp           \* how often each LCP was written

state == <<step, jobs, thr, todo, fin, lcp>>
vars == <<inst, state>>

N              == inst.n        \* number of strings
SeqThreshold   == inst.seq      \* Context::sequential_threshold()
SmallThreshold == inst.small    \* g_smallsort_threshold
InsThreshold   == inst.ins      \* g_inssort_threshold
FreeLevels     == inst.levels   \* levels one mkqs_free_work() call frees (8 in the code)
MaxParts       == inst.parts    \* MAXPROCS
MaxDepth       == inst.depth    \* bound: at this depth every key holds the terminator

Sizes == [n : Nat \ {0}, seq : Nat \ {0}, small : Nat \ {0}, ins : Nat \ {0},
          levels : Nat \ {0}, parts : Nat \ {0}, depth : Nat]
ASSUME ThreadAssumption == IsFiniteSet(Thread)
ASSUME SizesAssumption ==
  \A i \in Instances : i \in Sizes /\ i.ins <= i.small /\ i.small <= i.seq

Position == 0 .. N - 1
BktNum   == 3           \* one splitter: the buckets <, = and >

\* A step, and the substring range it sorts: <<lo, hi, depth>>.  A child is
\* smaller or deeper than its parent, so this names a step for ever.
StepId == {r \in (0 .. N) \X (0 .. N) \X (0 .. MaxDepth) : r[1] < r[2]}
NoStep == <<0, 0, 0>>
Root   == <<0, N, 0>>
Size(r) == r[2] - r[1]
Cells(r) == r[1] .. r[2] - 1
Inner(r) == r[1] + 1 .. r[2] - 1       \* the LCPs inside the range

\* A level: the bucket boundaries, the next bucket, is the equal bucket done.
Level(r) ==
  {[b |-> <<r[1], x, y, r[2]>>, depth |-> r[3], idx |-> 0, done |-> e] :
     x \in Cells(r), y \in r[1] + 1 .. r[2], e \in BOOLEAN}
Splits(r) == {l \in Level(r) : /\ l.b[2] < l.b[3]
                               /\ r[3] = MaxDepth => l.done}
\* Bucket k of a level, as the range of the step that would sort it.
Bucket(l, k) == <<l.b[k + 1], l.b[k + 2], IF k = 1 THEN l.depth + 1 ELSE l.depth>>
Filled(l, k) == l.b[k + 1] < l.b[k + 2]
Done(l, k)   == k = 1 /\ l.done

\* The LCPs between the nonempty buckets: sample_sort_lcp(), and
\* MKQSStep::calculate_lcp() for its three parts.
Borders(l) == {l.b[k + 1] : k \in {i \in 0 .. BktNum - 1 : Filled(l, i)}} \ {l.b[1]}

NewStep(r, parent) ==
  [kind   |-> IF Size(r) > SeqThreshold THEN "para" ELSE "small",
   parent |-> parent,
   cnt    |-> 0,                       \* m_substep_working
   pwork  |-> 0,
   bkt    |-> <<>>,                    \* <<level>> after the prefix sum
   stack  |-> [ss |-> <<>>, ms |-> <<>>],     \* ss_stack, ms_stack
   front  |-> [ss |-> 0, ms |-> 0]]           \* ss_pop_front, ms_pop_front

Job(type, r, p) == [type |-> type, s |-> r, p |-> p]

\* Enqueue(): which kind of step sorts a range, and the job it starts with.
FirstJob(r) == Job(IF Size(r) > SeqThreshold THEN "sample" ELSE "small", r, 0)

Least(m, n) == IF m < n THEN m ELSE n

\* parts: two per sequential_threshold() strings, at least one, at most MAXPROCS.
Parts(r) == IF Size(r) \div SeqThreshold = 0
            THEN 1 ELSE Least(2 * (Size(r) \div SeqThreshold), MaxParts)
PartJobs(type, r) == {Job(type, r, p) : p \in 0 .. Parts(r) - 1}

Idle == [at |-> "idle", s |-> NoStep]
At(t, a, r) == thr' = [thr EXCEPT ![t] = [at |-> a, s |-> r]]
Rest(t) == thr' = [thr EXCEPT ![t] = Idle]
Is(t, a) == thr[t].at = a /\ thr[t].s \in DOMAIN step

Init ==
  /\ inst \in Instances
  /\ step = [r \in {Root} |-> NewStep(r, NoStep)]
  /\ jobs = {FirstJob(Root)}
  /\ thr = [t \in Thread |-> Idle]
  /\ todo = [t \in Thread |-> {}]
  /\ fin = [i \in Position |-> 0]
  /\ lcp = [i \in Position |-> 0]

\* Write final strings and LCPs; count every write.
Write(cells, lcps) ==
  /\ fin' = [i \in Position |-> IF i \in cells THEN fin[i] + 1 ELSE fin[i]]
  /\ lcp' = [i \in Position |-> IF i \in lcps THEN lcp[i] + 1 ELSE lcp[i]]

TakeJob(t) ==
  /\ thr[t] = Idle
  /\ \E j \in jobs : jobs' = jobs \ {j} /\ At(t, j.type, j.s)
  /\ UNCHANGED <<step, todo, fin, lcp>>

\* Where a thread goes on when all children are created.
Then == [a \in {"split", "ssfree", "msfree"} |->
           CASE a = "split" -> "notify" [] a = "ssfree" -> "ss" [] OTHER -> "ms"]

\* The thread creates the children kids of step r, one by one.
Create(t, a, r, kids) ==
  /\ todo' = [todo EXCEPT ![t] = kids]
  /\ At(t, IF kids = {} THEN Then[a] ELSE a, r)

\* Children are created from the first bucket on.
FirstOf(kids) == CHOOSE c \in kids : \A d \in kids : c[1] <= d[1]

\* The steps that are alive when step c is made.
Made(steps, c, new) == [x \in DOMAIN steps \cup {c} |-> IF x = c THEN new ELSE steps[x]]

\* Mutant: the child is enqueued without substep_add().
EnqueueChild_NoAdd(t) ==
  LET r == thr[t].s
      c == FirstOf(todo[t])
  IN
  /\ todo[t] # {} /\ thr[t].at \in DOMAIN Then /\ r \in DOMAIN step
  /\ step' = Made(step, c, NewStep(c, r))
  /\ jobs' = jobs \cup {FirstJob(c)}
  /\ Create(t, thr[t].at, r, todo[t] \ {c})
  /\ UNCHANGED <<fin, lcp>>

\* substep_add(), then Enqueue() of the next child.  Its job may run before
\* the other children exist: the handle the thread holds on the step keeps
\* the count above zero until then.
EnqueueChild(t) ==
  LET r == thr[t].s
      c == FirstOf(todo[t])
  IN
  /\ todo[t] # {} /\ thr[t].at \in DOMAIN Then /\ r \in DOMAIN step
  /\ step' = Made([step EXCEPT ![r].cnt = @ + 1], c, NewStep(c, r))
  /\ jobs' = jobs \cup {FirstJob(c)}
  /\ Create(t, thr[t].at, r, todo[t] \ {c})
  /\ UNCHANGED <<fin, lcp>>

---------------------------------------------------------------------------
(* SampleSortStep *)

\* sample(): the loop that enqueues the jobs then tests p < parts once more.
Sample(t) ==
  LET r == thr[t].s IN
  /\ Is(t, "sample")
  /\ step' = [step EXCEPT ![r].pwork = Parts(r)]
  /\ jobs' = jobs \cup PartJobs("count", r)
  /\ At(t, "reread", r)
  /\ UNCHANGED <<todo, fin, lcp>>

\* Mutant: pwork is not set again for the distribute jobs.
Count_KeepWork(t) ==
  LET r == thr[t].s IN
  /\ Is(t, "count")
  /\ IF step[r].pwork > 1
     THEN step' = [step EXCEPT ![r].pwork = @ - 1] /\ Rest(t) /\ UNCHANGED jobs
     ELSE /\ \E l \in Splits(r) : step' = [step EXCEPT ![r].bkt = <<l>>, ![r].pwork = 0]
          /\ jobs' = jobs \cup PartJobs("dist", r)
          /\ At(t, "reread", r)
  /\ UNCHANGED <<todo, fin, lcp>>

\* count(p), and count_finished() in the job that counts last.
Count(t) ==
  LET r == thr[t].s IN
  /\ Is(t, "count")
  /\ IF step[r].pwork > 1
     THEN /\ step' = [step EXCEPT ![r].pwork = @ - 1]
          /\ Rest(t)
          /\ UNCHANGED jobs
     ELSE /\ \E l \in Splits(r) :
               step' = [step EXCEPT ![r].bkt = <<l>>, ![r].pwork = Parts(r)]
          /\ jobs' = jobs \cup PartJobs("dist", r)
          /\ At(t, "reread", r)
  /\ UNCHANGED <<todo, fin, lcp>>

\* The last p < parts of sample() and count_finished(): a read of the step.
\* By then the step may be gone; the value it held ends the loop.
Reread(t) ==
  /\ thr[t].at = "reread"
  /\ Rest(t)
  /\ UNCHANGED <<step, jobs, todo, fin, lcp>>

\* distribute(p).
Distribute(t) ==
  LET r == thr[t].s IN
  /\ Is(t, "dist")
  /\ step' = [step EXCEPT ![r].pwork = @ - 1]
  /\ IF step[r].pwork = 1 THEN At(t, "distfin", r) ELSE Rest(t)
  /\ UNCHANGED <<jobs, todo, fin, lcp>>

\* The buckets of distribute_finished(): one of one string or with a
\* terminated key is final, every other becomes a child.
BucketKids(l)  == {Bucket(l, k) : k \in {i \in 0 .. BktNum - 1 :
                     Filled(l, i) /\ ~Done(l, i) /\ Size(Bucket(l, i)) > 1}}
BucketsDone(l) == {Bucket(l, k) : k \in {i \in 0 .. BktNum - 1 :
                     Filled(l, i) /\ (Done(l, i) \/ Size(Bucket(l, i)) = 1)}}
Finish(ranges, borders) ==
  Write(UNION {Cells(b) : b \in ranges}, UNION {Inner(b) : b \in ranges} \cup borders)

\* Mutant: no handle while creating subjobs.
DistributeFinished_NoHandle(t) ==
  LET r == thr[t].s
      l == step[r].bkt[1]
  IN
  /\ Is(t, "distfin")
  /\ Finish(BucketsDone(l), {})
  /\ Create(t, "split", r, BucketKids(l))
  /\ UNCHANGED <<step, jobs>>

\* Mutant: the LCPs between the buckets are computed before they are sorted.
DistributeFinished_EarlyLcp(t) ==
  LET r == thr[t].s
      l == step[r].bkt[1]
  IN
  /\ Is(t, "distfin")
  /\ step' = [step EXCEPT ![r].cnt = @ + 1]
  /\ Finish(BucketsDone(l), Borders(l))
  /\ Create(t, "split", r, BucketKids(l))
  /\ UNCHANGED jobs

\* distribute_finished(): the anonymous handle, then the buckets.
DistributeFinished(t) ==
  LET r == thr[t].s
      l == step[r].bkt[1]
  IN
  /\ Is(t, "distfin")
  /\ step' = [step EXCEPT ![r].cnt = @ + 1]
  /\ Finish(BucketsDone(l), {})
  /\ Create(t, "split", r, BucketKids(l))
  /\ UNCHANGED jobs

---------------------------------------------------------------------------
(* SmallsortJob *)

SortsBySample(r) == Size(r) >= SmallThreshold

\* run(): the handle, then sort_sample_sort() or sort_mkqs_cache().
RunSmall(t) ==
  LET r == thr[t].s
      a == IF SortsBySample(r) THEN "ss" ELSE "ms"
  IN
  /\ Is(t, "small")
  /\ IF Size(r) < InsThreshold
     THEN /\ step' = [step EXCEPT ![r].cnt = @ + 1]
          /\ Write(Cells(r), Inner(r))
          /\ At(t, "notify", r)
     ELSE /\ \E l \in Splits(r) :
               step' = [step EXCEPT ![r].cnt = @ + 1, ![r].stack[a] = <<l>>]
          /\ At(t, a, r)
          /\ UNCHANGED <<fin, lcp>>
  /\ UNCHANGED <<jobs, todo>>

InLoop(t) == Is(t, "ss") \/ Is(t, "ms")
Stack(t)  == step[thr[t].s].stack[thr[t].at]
Popped(t) == step[thr[t].s].front[thr[t].at]
Check(a)  == IF a = "ss" THEN "sscheck" ELSE "mscheck"

\* Mutant: the bucket index moves on only when the bucket holds something.
RunBucket_EmptyStays(t) ==
  LET r == thr[t].s
      a == thr[t].at
      n == Len(Stack(t))
      l == Stack(t)[n]
      b == Bucket(l, l.idx)
      c == IF a = "ss" /\ Size(b) < SmallThreshold THEN "ms" ELSE a
      s == [step EXCEPT ![r].stack[a][n].idx = @ + 1]
  IN
  /\ InLoop(t) /\ n > Popped(t) /\ l.idx < BktNum
  /\ CASE ~Filled(l, l.idx) ->
            UNCHANGED step /\ At(t, Check(a), r) /\ UNCHANGED <<fin, lcp>>
       [] Filled(l, l.idx) /\ (Done(l, l.idx) \/ Size(b) < InsThreshold) ->
            step' = s /\ At(t, Check(a), r) /\ Write(Cells(b), Inner(b))
       [] OTHER ->
            /\ \E m \in Splits(b) : step' = [s EXCEPT ![r].stack[c] = Append(@, m)]
            /\ At(t, IF c = a THEN Check(a) ELSE c, r)
            /\ UNCHANGED <<fin, lcp>>
  /\ UNCHANGED <<jobs, todo>>

\* One turn of the while loop of either sort: the next bucket of the level on
\* top is finished at once, or becomes a level of its own.
RunBucket(t) ==
  LET r == thr[t].s
      a == thr[t].at
      n == Len(Stack(t))
      l == Stack(t)[n]
      b == Bucket(l, l.idx)
      c == IF a = "ss" /\ Size(b) < SmallThreshold THEN "ms" ELSE a
      s == [step EXCEPT ![r].stack[a][n].idx = @ + 1]
  IN
  /\ InLoop(t) /\ n > Popped(t) /\ l.idx < BktNum
  /\ CASE ~Filled(l, l.idx) ->
            step' = s /\ At(t, Check(a), r) /\ UNCHANGED <<fin, lcp>>
       [] Filled(l, l.idx) /\ (Done(l, l.idx) \/ Size(b) < InsThreshold) ->
            step' = s /\ At(t, Check(a), r) /\ Write(Cells(b), Inner(b))
       [] OTHER ->
            /\ \E m \in Splits(b) : step' = [s EXCEPT ![r].stack[c] = Append(@, m)]
            /\ At(t, IF c = a THEN Check(a) ELSE c, r)
            /\ UNCHANGED <<fin, lcp>>
  /\ UNCHANGED <<jobs, todo>>

\* The level on top is finished: its LCPs, then pop_back().
PopLevel(t) ==
  LET r == thr[t].s
      a == thr[t].at
      l == Last(Stack(t))
  IN
  /\ InLoop(t) /\ Len(Stack(t)) > Popped(t) /\ l.idx = BktNum
  /\ Write({}, Borders(l))
  /\ step' = [step EXCEPT ![r].stack[a] = Front(@)]
  /\ At(t, Check(a), r)
  /\ UNCHANGED <<jobs, todo>>

\* The loop ends when only freed levels are left on its stack.
LeaveLoop(t) ==
  LET r == thr[t].s IN
  /\ InLoop(t) /\ Len(Stack(t)) = Popped(t)
  /\ At(t, IF thr[t].at = "ms" /\ SortsBySample(r) THEN "sscheck" ELSE "notify", r)
  /\ UNCHANGED <<step, jobs, todo, fin, lcp>>

AtCheck(t) == Is(t, "sscheck") \/ Is(t, "mscheck")
Resume(t) == At(t, IF thr[t].at = "sscheck" THEN "ss" ELSE "ms", thr[t].s)

\* has_idle() is false.
KeepWork(t) ==
  /\ AtCheck(t)
  /\ Resume(t)
  /\ UNCHANGED <<step, jobs, todo, fin, lcp>>

\* The levels of stack a that one call frees, oldest first: all the buckets
\* not started yet become children, or are final if their key is terminated.
\* The stacks are private to the thread: only the jobs are seen one by one.
Give(t, a, levels, popped) ==
  LET r     == thr[t].s
      s     == step[r]
      freed == {s.stack[a][s.front[a] + i] : i \in 1 .. levels}
      work  == {w \in freed \X (0 .. BktNum - 1) : w[2] >= w[1].idx /\ Filled(w[1], w[2])}
      ended == {Bucket(w[1], w[2]) : w \in {v \in work : Done(v[1], v[2])}}
      kids  == {Bucket(w[1], w[2]) : w \in {v \in work : ~Done(v[1], v[2])}}
  IN
  /\ Finish(ended, {})
  /\ step' = [step EXCEPT ![r].front[a] = @ + popped]
  /\ Create(t, IF thr[t].at = "sscheck" THEN "ssfree" ELSE "msfree", r, kids)
  /\ UNCHANGED jobs

Open(t, a)  == Len(step[thr[t].s].stack[a]) - step[thr[t].s].front[a]

\* Mutant: the quicksort stack is given away first.
FreeWork_QuicksortFirst(t) ==
  /\ AtCheck(t)
  /\ IF Open(t, "ms") > 0
     THEN LET n == Least(Open(t, "ms"), FreeLevels) IN Give(t, "ms", n, n)
     ELSE LET n == Least(Open(t, "ss"), 1) IN Give(t, "ss", n, n)

\* Mutant: the freed levels stay on the stack.
FreeWork_NoPopFront(t) ==
  /\ AtCheck(t)
  /\ IF Open(t, "ss") > 0
     THEN Give(t, "ss", 1, 0)
     ELSE Give(t, "ms", Least(Open(t, "ms"), FreeLevels), 0)

\* has_idle() is true: sample_sort_free_work() frees the oldest sample sort
\* level; when none is left, mkqs_free_work() frees up to FreeLevels of the
\* quicksort levels.
FreeWork(t) ==
  /\ AtCheck(t)
  /\ IF Open(t, "ss") > 0
     THEN Give(t, "ss", 1, 1)
     ELSE LET n == Least(Open(t, "ms"), FreeLevels) IN Give(t, "ms", n, n)

---------------------------------------------------------------------------
(* SortStep *)

\* The levels whose LCPs substep_all_done() computes: that of the sample sort
\* step, those a small sort has given away.
OpenLevels(s) ==
  s.bkt \o SubSeq(s.stack.ms, 1, s.front.ms) \o SubSeq(s.stack.ss, 1, s.front.ss)

\* Mutant: the last substep deletes the step and forgets the parent.
Notify_NoParent(t) ==
  LET r == thr[t].s
      s == step[r]
      L == OpenLevels(s)
  IN
  /\ Is(t, "notify")
  /\ IF s.cnt > 1
     THEN step' = [step EXCEPT ![r].cnt = @ - 1] /\ UNCHANGED lcp
     ELSE /\ lcp' = [i \in Position |->
                      lcp[i] + Cardinality({k \in DOMAIN L : i \in Borders(L[k])})]
          /\ step' = Restrict(step, DOMAIN step \ {r})
  /\ Rest(t)
  /\ UNCHANGED <<jobs, todo, fin>>

\* substep_notify_done(): the last substep runs substep_all_done(), which
\* computes the LCPs, deletes the step and notifies the parent.
Notify(t) ==
  LET r == thr[t].s
      s == step[r]
      L == OpenLevels(s)
  IN
  /\ Is(t, "notify")
  /\ IF s.cnt > 1
     THEN /\ step' = [step EXCEPT ![r].cnt = @ - 1]
          /\ Rest(t)
          /\ UNCHANGED <<fin, lcp>>
     ELSE /\ lcp' = [i \in Position |->
                      lcp[i] + Cardinality({k \in DOMAIN L : i \in Borders(L[k])})]
          /\ step' = Restrict(step, DOMAIN step \ {r})
          /\ IF s.parent = NoStep THEN Rest(t) ELSE At(t, "notify", s.parent)
          /\ UNCHANGED fin
  /\ UNCHANGED <<jobs, todo>>

---------------------------------------------------------------------------
RunJob(t) ==
  \/ Sample(t) \/ Count(t) \/ Reread(t) \/ Distribute(t)
  \/ DistributeFinished(t) \/ EnqueueChild(t)
  \/ RunSmall(t) \/ RunBucket(t) \/ PopLevel(t) \/ LeaveLoop(t)
  \/ KeepWork(t) \/ FreeWork(t) \/ Notify(t)

\* The queue is empty and no thread runs a job: jobqueue.loop() returns.
Quiet == jobs = {} /\ \A t \in Thread : thr[t] = Idle

Returned == Quiet /\ UNCHANGED vars

Work(t) == (TakeJob(t) \/ RunJob(t)) /\ UNCHANGED inst

Next == (\E t \in Thread : Work(t)) \/ Returned

Spec == Init /\ [][Next]_vars

\* Every thread of the pool is scheduled by the operating system.
FairSpec == Spec /\ \A t \in Thread : WF_vars(Work(t))

---------------------------------------------------------------------------
(* Properties *)

Ats == {"idle", "sample", "count", "dist", "small", "reread", "distfin", "split",
        "ss", "ms", "sscheck", "mscheck", "ssfree", "msfree", "notify"}

TypeOK ==
  /\ DOMAIN step \subseteq StepId
  /\ \A r \in DOMAIN step :
       /\ step[r].parent \in StepId \cup {NoStep}
       /\ step[r].cnt \in Nat /\ step[r].pwork \in Nat
       /\ \A a \in {"ss", "ms"} : step[r].front[a] \in 0 .. Len(step[r].stack[a])
  /\ jobs \subseteq [type : {"sample", "count", "dist", "small"}, s : StepId, p : Nat]
  /\ thr \in [Thread -> [at : Ats, s : StepId \cup {NoStep}]]
  /\ \A t \in Thread : todo[t] \subseteq StepId
  /\ fin \in [Position -> Nat] /\ lcp \in [Position -> Nat]

\* No position is sorted twice and no LCP written twice, however the work was
\* given away, and lcp[0] is never touched ("must keep lcp[0] unchanged",
\* bingmann-parallel_sample_sort.hpp:1765 and :1780).
WrittenOnce ==
  \A i \in Position : fin[i] <= 1 /\ lcp[i] <= (IF i = 0 THEN 0 ELSE 1)

\* An LCP is written only when both strings it compares are in place: in the
\* NUMA variant the LCP array is the memory of the shadow array.
LcpAfterFinal ==
  \A i \in Position : lcp[i] > 0 => fin[i] > 0 /\ fin[i - 1] > 0

\* When the queue runs dry the sort is complete: every position and every LCP
\* is written and every step has been deleted.
SortComplete ==
  Quiet => /\ \A i \in Position : fin[i] = 1 /\ (i > 0 => lcp[i] = 1)
           /\ DOMAIN step = {}

\* m_substep_working is the number of children that have not notified yet and
\* of handles: a step is deleted by its last substep, not before, not twice.
Handles(r) ==
  {t \in Thread : thr[t].s = r /\ thr[t].at \in {"split", "ss", "ms", "sscheck", "mscheck", "ssfree", "msfree"}}
Notifiers(r) ==
  {t \in Thread : thr[t].at = "notify" /\ thr[t].s = r}
Children(r) == {x \in DOMAIN step : step[x].parent = r}

CountExact ==
  \A r \in DOMAIN step :
    step[r].cnt = Cardinality(Children(r)) + Cardinality(Handles(r)) + Cardinality(Notifiers(r))

\* Every job, every running thread and every child refers to a live step
\* (a thread at "reread" is the exception: see CreatorKeepsStep).
NoDangling ==
  /\ \A j \in jobs : j.s \in DOMAIN step
  /\ \A t \in Thread : thr[t].at \notin {"idle", "reread"} => thr[t].s \in DOMAIN step
  /\ \A r \in DOMAIN step : step[r].parent \in DOMAIN step \cup {NoStep}

\* assert(ms_pop_front == 0) and assert(ms_stack.size() == 0) of
\* sort_mkqs_cache(): quicksort levels are given away only when no sample sort
\* level is left that could start another quicksort.
PopFrontOrder ==
  \A r \in DOMAIN step :
    LET s == step[r]
    IN  Len(s.stack.ss) > s.front.ss =>
          /\ s.front.ms = 0
          /\ \A t \in Thread : thr[t] = [at |-> "ss", s |-> r] => s.stack.ms = <<>>

\* "keep anonymous subjob handle while creating subjobs"
\* (bingmann-parallel_sample_sort.hpp:1506): a step that a thread is still
\* creating jobs of is alive.
CreatorKeepsStep ==
  \A t \in Thread : thr[t].at = "reread" => thr[t].s \in DOMAIN step

\* The sort finishes.
SortFinishes == <>[]Quiet
=============================================================================
