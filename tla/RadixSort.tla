------------------------------ MODULE RadixSort ------------------------------
(***************************************************************************)
(* src/src/parallel/bingmann-parallel_radix_sort.hpp: the parallel radix   *)
(* sorts with 8- and 16-bit keys.                                          *)
(*                                                                         *)
(* A large set is distributed by RadixStepCE into the other of two arrays, *)
(* the output and its shadow, and its buckets are enqueued; a small set is *)
(* copied back and sorted in place by a SmallsortJob8, whose explicit      *)
(* stack loses its oldest level to new jobs when a thread is idle.         *)
(*                                                                         *)
(* RadixStepCE is one action here: Distribution checks its phases, and no  *)
(* other job touches its range.  RadixStep8_CI is its result, the range    *)
(* grouped by character: RadixPermute checks how it gets there.            *)
(***************************************************************************)
EXTENDS Integers, SequencesExt

CONSTANTS
  Thread,
  N,                    \* strings
  Strings,              \* the strings the input is made of: sequences of Char
  MaxChar,              \* 255 in the code
  InsThreshold,         \* g_inssort_threshold
  SeqThresholds,        \* values of g_sequential_threshold: >= N for a range
                        \* that is one small job of a larger sort
  KeyWidths             \* 1: parallel_radix_sort_8bit, 2: _16bit

ASSUME RadixAssumption ==
  /\ N \in Nat \ {0} /\ MaxChar \in Nat \ {0} /\ KeyWidths \subseteq 1 .. 2
  /\ InsThreshold \in Nat \ {0} /\ SeqThresholds \subseteq {s \in Nat : s >= InsThreshold}
  /\ Strings \subseteq Seq(1 .. MaxChar)

Position == 0 .. N - 1
Bkt == 0 .. MaxChar

\* get_uint8: the character at a depth, the terminator at the end.
CharAt(s, d) == IF d < Len(s) THEN s[d + 1] ELSE 0

\* Order from a depth on.
Leq(a, b, d) ==
  \A k \in d .. Len(a) : CharAt(b, k) < CharAt(a, k) =>
    \E m \in d .. k - 1 : CharAt(a, m) < CharAt(b, m)

VARIABLES
  keychars,     \* characters in a key: the front end
  threshold,    \* g_sequential_threshold
  arr,          \* arr[0]: the output, arr[1]: its shadow
  jobs,         \* jobs in the queue
  thr,          \* the SmallsortJob8 a thread runs, its stack and pop_front
  goal          \* the sorted input

setup == <<keychars, threshold, goal>>
vars == <<setup, arr, jobs, thr>>

Idle == [busy |-> FALSE]

Cells(lo, hi) == lo .. hi - 1

\* get_key<uint16_t> stops at the terminator.
Key(s, d) == <<CharAt(s, d), IF keychars = 2 THEN CharAt(s, d + 1) ELSE 1>>
KeyLess(a, b) == a[1] < b[1] \/ (a[1] = b[1] /\ a[2] < b[2])

\* What some cells can hold when the strings that are there in one array are
\* written to them in another order.
Rearranged(from, to, cells) ==
  {[p \in Position |-> IF p \in cells THEN from[pi[p]] ELSE to[p]] : pi \in Bijection(cells, cells)}

\* In the order of the strings from a depth on, and of their characters at it.
Sorted(a, cells, d) == \A p, q \in cells : p < q => Leq(a[p], a[q], d)
InBuckets(a, cells, d) == \A p, q \in cells : p < q => CharAt(a[p], d) <= CharAt(a[q], d)

\* copy_back(): a range that lies in the shadow goes to the output.
CopyBack(a, flip, cells) ==
  IF flip = 1 THEN [a EXCEPT ![0] = [p \in Position |-> IF p \in cells THEN a[1][p] ELSE a[0][p]]]
              ELSE a

\* inssort_generic on the output.
InsSort(a, lo, hi, d) ==
  {[a EXCEPT ![0] = x] : x \in {y \in Rearranged(a[0], a[0], Cells(lo, hi)) :
                                  Sorted(y, Cells(lo, hi), d)}}

\* RadixStep8_CI on the output: what it can do to the array, and its level.
Grouped(a, lo, hi, d) ==
  {[a EXCEPT ![0] = x] : x \in {y \in Rearranged(a[0], a[0], Cells(lo, hi)) :
                                  InBuckets(y, Cells(lo, hi), d)}}

\* Mutant: bucket 0 is sorted further.
Level_Zero(a, lo, hi, d) ==
  [bkt |-> [b \in 0 .. MaxChar + 1 |->
              lo + Cardinality({i \in Cells(lo, hi) : CharAt(a[0][i], d) < b})],
   idx |-> -1]

\* Bucket 0 is not sorted further.
Level(a, lo, hi, d) ==
  [bkt |-> [b \in 0 .. MaxChar + 1 |->
              lo + Cardinality({i \in Cells(lo, hi) : CharAt(a[0][i], d) < b})],
   idx |-> 0]

\* A job: the range, the depth, the array its strings are in.
JobOf(lo, hi, d, f, big) == [lo |-> lo, hi |-> hi, depth |-> d, flip |-> f, big |-> big]

\* Enqueue: by size a RadixStepCE or a SmallsortJob8.
Enqueue(lo, hi, d, f) == JobOf(lo, hi, d, f, hi - lo > threshold)

Init ==
  /\ keychars \in KeyWidths
  /\ threshold \in SeqThresholds
  /\ arr \in {[f \in 0 .. 1 |-> [p \in Position |-> IF f = 0 THEN in[p] ELSE <<>>]] :
                in \in [Position -> Strings]}
  /\ goal \in {g \in Rearranged(arr[0], arr[0], Position) : Sorted(g, Position, 0)}
  /\ jobs = {Enqueue(0, N, 0, 0)}
  /\ thr = [t \in Thread |-> Idle]

\* distribute(): the strings go to the other array in the order of their keys.
Distributed(j) ==
  LET cells == Cells(j.lo, j.hi)
  IN  {[arr EXCEPT ![1 - j.flip] = x] :
         x \in {y \in Rearranged(arr[j.flip], arr[1 - j.flip], cells) :
                  \A p, q \in cells : p < q => ~KeyLess(Key(y[q], j.depth), Key(y[p], j.depth))}}

\* A key with a terminator in it: the bucket needs no further sorting.
Finished(key) == 0 \in {key[1], key[2]}

\* The ends of the bucket of a key, and the keys whose buckets are enqueued.
BktBegin(a, j, key) ==
  j.lo + Cardinality({p \in Cells(j.lo, j.hi) : KeyLess(Key(a[p], j.depth), key)})
BktEnd(a, j, key) ==
  j.lo + Cardinality({p \in Cells(j.lo, j.hi) : ~KeyLess(key, Key(a[p], j.depth))})
Deeper(a, j) ==
  {key \in {Key(a[p], j.depth) : p \in Cells(j.lo, j.hi)} :
     ~Finished(key) /\ BktEnd(a, j, key) > BktBegin(a, j, key) + 1}

\* Mutant: a bucket of one string is not copied back.
Ready_ForgetOne(a, j) == {p \in Cells(j.lo, j.hi) : Finished(Key(a[p], j.depth))}

\* What distribute_finished() copies back: finished buckets and single strings.
Ready(a, j) ==
  Cells(j.lo, j.hi) \ UNION {Cells(BktBegin(a, j, key), BktEnd(a, j, key)) : key \in Deeper(a, j)}

\* RadixStepCE.
RadixStep(t) ==
  /\ thr[t] = Idle
  /\ \E j \in jobs :
       LET to == 1 - j.flip
       IN
       /\ j.big
       /\ \E a \in Distributed(j) :
            /\ arr' = CopyBack(a, to, Ready(a[to], j))
            /\ jobs' = (jobs \ {j}) \cup
                 {Enqueue(BktBegin(a[to], j, key), BktEnd(a[to], j, key),
                          j.depth + keychars, to) : key \in Deeper(a[to], j)}
  /\ UNCHANGED <<setup, thr>>

\* SmallsortJob8::run up to its loop.
StartSmall(t) ==
  /\ thr[t] = Idle
  /\ \E j \in jobs :
       LET here == CopyBack(arr, j.flip, Cells(j.lo, j.hi))
       IN
       /\ ~j.big
       /\ jobs' = jobs \ {j}
       /\ IF j.hi - j.lo < InsThreshold
          THEN arr' \in InsSort(here, j.lo, j.hi, j.depth) /\ UNCHANGED thr
          ELSE /\ arr' \in Grouped(here, j.lo, j.hi, j.depth)
               /\ thr' = [thr EXCEPT ![t] = [busy |-> TRUE, depth |-> j.depth, front |-> 0,
                            stack |-> <<Level(here, j.lo, j.hi, j.depth)>>, check |-> FALSE]]
  /\ UNCHANGED setup

\* while (radixstack.size() > pop_front)
InLoop(t) == thr[t].busy /\ Len(thr[t].stack) > thr[t].front

\* Mutant: has_idle() is asked behind empty buckets, too.
AsksIdle_Always(lo, hi) == TRUE

\* An empty bucket continues the loop before has_idle() is asked.
AsksIdle(lo, hi) == hi > lo

\* The next bucket of the level on top.
NextBucket(t) ==
  LET s  == thr[t].stack
      b  == Last(s).idx + 1
      lo == Last(s).bkt[b]
      hi == Last(s).bkt[b + 1]
      d  == thr[t].depth + Len(s)
      moved == [thr EXCEPT ![t].stack[Len(s)].idx = b, ![t].check = AsksIdle(lo, hi)]
  IN
  /\ InLoop(t) /\ Last(s).idx < MaxChar
  /\ CASE hi = lo -> thr' = moved /\ UNCHANGED arr
       [] hi > lo /\ hi - lo < InsThreshold ->
            thr' = moved /\ arr' \in InsSort(arr, lo, hi, d)
       [] OTHER ->
            /\ thr' = [moved EXCEPT ![t].stack = Append(@, Level(arr, lo, hi, d))]
            /\ arr' \in Grouped(arr, lo, hi, d)
  /\ UNCHANGED <<setup, jobs>>

\* The buckets a level has not started.
Left(l) == {b \in l.idx + 1 .. MaxChar : l.bkt[b + 1] > l.bkt[b]}

\* Mutant: the buckets are given at the depth of the level on top.
Given_TopDepth(t) ==
  LET l == thr[t].stack[thr[t].front + 1]
  IN  {JobOf(l.bkt[b], l.bkt[b + 1], thr[t].depth + Len(thr[t].stack), 0, FALSE) : b \in Left(l)}

\* Mutant: the bucket the level has started is given, too.
Given_Current(t) ==
  LET l == thr[t].stack[thr[t].front + 1]
  IN  {JobOf(l.bkt[b], l.bkt[b + 1], thr[t].depth + thr[t].front, 0, FALSE) :
         b \in Left([l EXCEPT !.idx = @ - 1])}

\* The jobs the oldest level becomes.  Its buckets have one character more in
\* common than the depth they are given.
Given(t) ==
  LET l == thr[t].stack[thr[t].front + 1]
  IN  {JobOf(l.bkt[b], l.bkt[b + 1], thr[t].depth + thr[t].front, 0, FALSE) : b \in Left(l)}

\* has_idle().
Share(t) ==
  /\ InLoop(t) /\ thr[t].check
  /\ jobs' = jobs \cup Given(t)
  /\ thr' = [thr EXCEPT ![t].stack[thr[t].front + 1].idx = MaxChar, ![t].front = @ + 1,
                        ![t].check = FALSE]
  /\ UNCHANGED <<setup, arr>>

\* radixstack.pop_back(), and the end of the job.
PopLevel(t) ==
  LET s == thr[t].stack
  IN
  /\ thr[t].busy /\ s # <<>> /\ Last(s).idx = MaxChar
  /\ thr' = [thr EXCEPT ![t] = IF Len(s) - 1 > @.front
                               THEN [@ EXCEPT !.stack = Front(s), !.check = FALSE] ELSE Idle]
  /\ UNCHANGED <<setup, arr, jobs>>

Work(t) == RadixStep(t) \/ StartSmall(t) \/ NextBucket(t) \/ PopLevel(t)

Quiet == jobs = {} /\ \A t \in Thread : thr[t] = Idle
Returned == Quiet /\ UNCHANGED vars

Next == (\E t \in Thread : Work(t) \/ Share(t)) \/ Returned

Spec == Init /\ [][Next]_vars
FairSpec == Spec /\ \A t \in Thread : WF_vars(Work(t))

---------------------------------------------------------------------------
(* Properties *)

TypeOK ==
  /\ arr \in [0 .. 1 -> [Position -> Strings \cup {<<>>}]]
  /\ \A j \in jobs : 0 <= j.lo /\ j.lo < j.hi /\ j.hi <= N
  /\ \A t \in Thread : thr[t].busy =>
       /\ thr[t].front \in 0 .. Len(thr[t].stack)
       /\ \A k \in DOMAIN thr[t].stack : thr[t].stack[k].idx \in 0 .. MaxChar

\* What is still to be sorted: jobs, and the buckets of the live levels.
JobPieces == {<<"job", j, Cells(j.lo, j.hi)>> : j \in jobs}
LevelPieces(t, k) ==
  LET l == thr[t].stack[k]
  IN  {<<"bucket", <<t, k, b>>, Cells(l.bkt[b], l.bkt[b + 1])>> : b \in Left(l)}
Pieces ==
  JobPieces \cup
  UNION {UNION {LevelPieces(t, k) : k \in thr[t].front + 1 .. Len(thr[t].stack)} :
           t \in {u \in Thread : thr[u].busy}}

\* No string is in two jobs or buckets still to be sorted, whatever is shared.
OneOwner == \A x, y \in Pieces : x # y => x[3] \cap y[3] = {}

\* Whatever nobody will sort again is final and in the output, not the shadow.
SettledIsFinal ==
  \A p \in Position : (\A x \in Pieces : p \notin x[3]) => arr[0][p] = goal[p]

\* No string is read behind its terminator, and those of a job agree up to
\* the depth it is sorted from.
DepthIsCommon ==
  \A j \in jobs : \A p, q \in Cells(j.lo, j.hi) :
    /\ j.depth <= Len(arr[j.flip][p])
    /\ \A d \in 0 .. j.depth - 1 : CharAt(arr[j.flip][p], d) = CharAt(arr[j.flip][q], d)

\* The sort ends, although work is given to be sorted at a depth it was
\* sorted at before.
SortEnds == <>Quiet
=============================================================================
