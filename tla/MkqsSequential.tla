--------------------------- MODULE MkqsSequential ---------------------------
(***************************************************************************)
(* src/src/parallel/bingmann-parallel_mkqs.hpp: SequentialJob, sequential  *)
(* multikey quicksort with an explicit stack, whose oldest levels are      *)
(* queued as jobs of their own when a thread is idle.                      *)
(*                                                                         *)
(* A job sorts the strings lo .. hi-1 in a cache array and copies them to  *)
(* the output when it ends.  Nobody waits for anybody: each job, and the   *)
(* thread that gave work away, copies exactly the areas that are its own.  *)
(* What is left to the thread is the area below cache_finished.  The cache *)
(* array is shared by all jobs that came out of one and is reference       *)
(* counted; the areas of the jobs are disjoint.                            *)
(*                                                                         *)
(* MKQSStep is abstracted to the sizes of its three parts: the pivot is a  *)
(* string, so the equal part is nonempty, and is one key deeper, or done   *)
(* when the pivot holds the terminator.                                    *)
(***************************************************************************)
EXTENDS Integers, SequencesExt

CONSTANTS
  Thread,
  N,                    \* strings of the first job
  InsThreshold,         \* g_inssort_threshold
  MaxDepth              \* bound: at this depth every key holds the terminator

ASSUME SequentialAssumption ==
  N \in Nat \ {0} /\ InsThreshold \in Nat \ {0} /\ MaxDepth \in Nat

Position == 0 .. N - 1

\* A job: the range it sorts, and the depth.
JobType == [lo : 0 .. N, hi : 0 .. N, depth : 0 .. MaxDepth]
Cells(lo, hi) == lo .. hi - 1

VARIABLES
  jobs,         \* jobs in the queue
  thr,          \* the job a thread runs, its stack, pop_front, cache_finished
  sorted,       \* positions whose place in the cache array is final
  copied        \* how often each position of the output was written

vars == <<jobs, thr, sorted, copied>>

Idle == [busy |-> FALSE]

\* A level of the stack: where its parts begin, and the parts it has started.
Splits(lo, hi, d) ==
  {[a |-> <<lo, x, y, hi>>, depth |-> d, idx |-> 0, recurse |-> r] :
     x \in lo .. hi - 1, y \in lo + 1 .. hi, r \in {d < MaxDepth, FALSE}}
Levels(lo, hi, d) == {l \in Splits(lo, hi, d) : l.a[2] < l.a[3]}

\* Part k (0: lt, 1: eq, 2: gt) of a level, and the job that would sort it.
PartLo(l, k) == l.a[k + 1]
PartHi(l, k) == l.a[k + 2]
PartSize(l, k) == PartHi(l, k) - PartLo(l, k)
PartDepth(l, k) == IF k = 1 THEN l.depth + 1 ELSE l.depth
PartCells(l, k) == Cells(PartLo(l, k), PartHi(l, k))
PartJob(l, k) == [lo |-> PartLo(l, k), hi |-> PartHi(l, k), depth |-> PartDepth(l, k)]

\* The equal part of a terminated pivot needs no sorting.
NoRecurse(l, k) == k = 1 /\ ~l.recurse

Init ==
  /\ jobs = {[lo |-> 0, hi |-> N, depth |-> 0]}
  /\ thr = [t \in Thread |-> Idle]
  /\ sorted = {}
  /\ copied = [i \in Position |-> 0]

Copy(cells) == copied' = [i \in Position |-> IF i \in cells THEN copied[i] + 1 ELSE copied[i]]

\* run(): a small set is sorted and copied at once, a large one gets a stack.
StartJob(t) ==
  /\ thr[t] = Idle
  /\ \E j \in jobs :
       /\ jobs' = jobs \ {j}
       /\ IF j.hi - j.lo < InsThreshold
          THEN /\ sorted' = sorted \cup Cells(j.lo, j.hi)
               /\ Copy(Cells(j.lo, j.hi))
               /\ UNCHANGED thr
          ELSE /\ \E l \in Levels(j.lo, j.hi, j.depth) :
                    thr' = [thr EXCEPT ![t] = [busy |-> TRUE, lo |-> j.lo, stack |-> <<l>>,
                                               front |-> 0, finished |-> j.hi]]
               /\ UNCHANGED <<sorted, copied>>

\* while (stack.size() > pop_front)
InLoop(t) == thr[t].busy /\ Len(thr[t].stack) > thr[t].front

\* Mutant: an empty part is skipped before idx is incremented.
SortPart_EmptyStays(t) ==
  LET s == thr[t].stack
      l == Last(s)
      k == l.idx
      moved == [thr EXCEPT ![t].stack[Len(s)].idx = k + 1]
  IN
  /\ InLoop(t) /\ k < 3
  /\ CASE PartSize(l, k) = 0 -> UNCHANGED <<thr, sorted>>
       [] PartSize(l, k) > 0 /\ (NoRecurse(l, k) \/ PartSize(l, k) < InsThreshold) ->
            thr' = moved /\ sorted' = sorted \cup PartCells(l, k)
       [] OTHER ->
            /\ \E m \in Levels(PartLo(l, k), PartHi(l, k), PartDepth(l, k)) :
                 thr' = [moved EXCEPT ![t].stack = Append(@, m)]
            /\ UNCHANGED sorted
  /\ UNCHANGED <<jobs, copied>>

\* The next part of the level on top.
SortPart(t) ==
  LET s == thr[t].stack
      l == Last(s)
      k == l.idx
      moved == [thr EXCEPT ![t].stack[Len(s)].idx = k + 1]
  IN
  /\ InLoop(t) /\ k < 3
  /\ CASE PartSize(l, k) = 0 -> thr' = moved /\ UNCHANGED sorted
       [] PartSize(l, k) > 0 /\ (NoRecurse(l, k) \/ PartSize(l, k) < InsThreshold) ->
            thr' = moved /\ sorted' = sorted \cup PartCells(l, k)
       [] OTHER ->
            /\ \E m \in Levels(PartLo(l, k), PartHi(l, k), PartDepth(l, k)) :
                 thr' = [moved EXCEPT ![t].stack = Append(@, m)]
            /\ UNCHANGED sorted
  /\ UNCHANGED <<jobs, copied>>

\* Mutant: pop_back() also when the level is only started.
PopLevel_TwoParts(t) ==
  /\ InLoop(t) /\ Last(thr[t].stack).idx >= 2
  /\ thr' = [thr EXCEPT ![t].stack = Front(@)]
  /\ UNCHANGED <<jobs, sorted, copied>>

PopLevel(t) ==
  /\ InLoop(t) /\ Last(thr[t].stack).idx = 3
  /\ thr' = [thr EXCEPT ![t].stack = Front(@)]
  /\ UNCHANGED <<jobs, sorted, copied>>

\* The parts of the oldest level that have not been started.
Oldest(t) == thr[t].stack[thr[t].front + 1]
Unstarted(l) == {k \in 0 .. 2 : k >= l.idx /\ PartSize(l, k) > 0}

\* Mutant: sharing does not shorten the stack.
Share_KeepFront(t) ==
  LET l == Oldest(t) IN
  /\ InLoop(t) /\ Last(thr[t].stack).idx < 3
  /\ jobs' = jobs \cup {PartJob(l, k) : k \in {i \in Unstarted(l) : ~NoRecurse(l, i)}}
  /\ Copy(UNION {PartCells(l, k) : k \in {i \in Unstarted(l) : NoRecurse(l, i)}})
  /\ sorted' = sorted \cup UNION {PartCells(l, k) : k \in {i \in Unstarted(l) : NoRecurse(l, i)}}
  /\ thr' = [thr EXCEPT ![t].finished = IF l.idx < 3 THEN PartLo(l, l.idx) ELSE @]

\* Mutant: an equal part that needs no sorting is forgotten.
Share_EqualForgotten(t) ==
  LET l == Oldest(t) IN
  /\ InLoop(t) /\ Last(thr[t].stack).idx < 3
  /\ jobs' = jobs \cup {PartJob(l, k) : k \in {i \in Unstarted(l) : ~NoRecurse(l, i)}}
  /\ thr' = [thr EXCEPT ![t].front = @ + 1,
                        ![t].finished = IF l.idx < 3 THEN PartLo(l, l.idx) ELSE @]
  /\ UNCHANGED <<sorted, copied>>

\* has_idle() is true: the oldest level is given away, and cache_finished
\* moves down to the end of what was started of it.  A level of which all was
\* started leaves cache_finished alone.
Share(t) ==
  LET l == Oldest(t) IN
  /\ InLoop(t) /\ Last(thr[t].stack).idx < 3
  /\ jobs' = jobs \cup {PartJob(l, k) : k \in {i \in Unstarted(l) : ~NoRecurse(l, i)}}
  /\ Copy(UNION {PartCells(l, k) : k \in {i \in Unstarted(l) : NoRecurse(l, i)}})
  /\ sorted' = sorted \cup UNION {PartCells(l, k) : k \in {i \in Unstarted(l) : NoRecurse(l, i)}}
  /\ thr' = [thr EXCEPT ![t].front = @ + 1,
                        ![t].finished = IF l.idx < 3 THEN PartLo(l, l.idx) ELSE @]

\* Copy what is left to this thread to the output.
EndJob(t) ==
  /\ thr[t].busy /\ ~InLoop(t)
  /\ Copy(Cells(thr[t].lo, thr[t].finished))
  /\ thr' = [thr EXCEPT ![t] = Idle]
  /\ UNCHANGED <<jobs, sorted>>

Work(t) == StartJob(t) \/ SortPart(t) \/ PopLevel(t) \/ EndJob(t)

Quiet == jobs = {} /\ \A t \in Thread : thr[t] = Idle

Returned == Quiet /\ UNCHANGED vars

Next == (\E t \in Thread : Work(t) \/ Share(t)) \/ Returned

Spec == Init /\ [][Next]_vars

---------------------------------------------------------------------------
(* Properties *)

TypeOK ==
  /\ jobs \subseteq JobType
  /\ \A t \in Thread : thr[t].busy =>
       /\ 0 <= thr[t].lo /\ thr[t].finished \in thr[t].lo .. N
       /\ thr[t].front \in 0 .. Len(thr[t].stack)
  /\ sorted \subseteq Position

\* Every string has one owner until it is in the output: a queued job, or the
\* thread whose cache_finished is above it; nobody sorts or copies a string
\* that was given away.
OneOwner ==
  \A i \in Position :
    LET queued == {j \in jobs : i \in Cells(j.lo, j.hi)}
        held   == {t \in Thread : thr[t].busy /\ i \in Cells(thr[t].lo, thr[t].finished)}
    IN  Cardinality(queued) + Cardinality(held) + copied[i] = 1

\* A string is copied to the output only from its final place in the cache.
CopiedAreSorted == \A i \in Position : copied[i] > 0 => i \in sorted

\* A thread only works on levels inside the area that is left to it.
StackInArea ==
  \A t \in Thread : thr[t].busy =>
    \A n \in thr[t].front + 1 .. Len(thr[t].stack) :
      LET l == thr[t].stack[n] IN PartLo(l, 0) >= thr[t].lo /\ PartHi(l, 2) <= thr[t].finished

\* When the queue runs dry every string is in the output.
AllCopied == Quiet => \A i \in Position : copied[i] = 1
=============================================================================
