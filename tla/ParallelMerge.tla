--------------------------- MODULE ParallelMerge ---------------------------
(***************************************************************************)
(* src/src/parallel/eberle-parallel-lcp-merge*.hpp and the sorters around  *)
(* it (eberle-parallel-lcp-mergesort.hpp, eberle-ps5-parallel-toplevel-    *)
(* merge.hpp): the input is cut into parts, the parts are sorted, and the  *)
(* sorted streams are merged by jobs of one queue.                         *)
(*                                                                         *)
(* A merge job that sees an idle thread stops, splits the rest of its      *)
(* streams into jobs of their own and ends.  Who may do so is decided by   *)
(* one plain global, the length of the longest running merge, which every  *)
(* merge job reads and writes without a lock.  The streams are split by    *)
(* one of three rules: keys of up to KeyChars characters behind a common   *)
(* prefix (LCP splitting), samples of every stream (standard splitting),   *)
(* or the middle of one stream (binary splitting).                         *)
(*                                                                         *)
(* A string is its position in the input; the instance says which          *)
(* characters it has and what a key read behind its terminator holds.      *)
(* The loser tree is abstracted to its result, the smallest head.          *)
(***************************************************************************)
EXTENDS Integers, SequencesExt

CONSTANTS
  Thread,               \* the threads of the queue
  Instances,            \* records: strings (Seq of Seq of 1 .. Base-1), cut (part sizes), behind, mode
  Horizon,              \* bound: from this depth on, memory behind two strings differs
  Base,                 \* characters are 0 .. Base-1, 0 is the terminator
  KeyChars,             \* characters of a key: key_traits::add_depth
  MERGE_BULK_SIZE,
  SHARE_WORK_THRESHOLD,
  SplittersPerThread,   \* 10 in createJobsStandardSplitting
  Tolerance             \* 5 in createJobsLcpSplitting

ASSUME MergeAssumption ==
  /\ Base \in Nat \ {0, 1} /\ KeyChars \in Nat \ {0}
  /\ MERGE_BULK_SIZE \in Nat \ {0} /\ SHARE_WORK_THRESHOLD \in Nat

VARIABLES
  inst,         \* the instance
  part,         \* the sorted streams, <<>> before they are sorted
  queue,        \* jobs that wait
  thr,          \* what each thread does
  longest,      \* g_lengthOfLongestJob
  out           \* the output array: a string, or 0 before it is written

vars == <<inst, part, queue, thr, longest, out>>

----------------------------------------------------------------------------
(* Strings and keys *)

Str(e) == inst.strings[e]
Agree(s, t, h) == \A i \in 1 .. h : s[i] = t[i]
Lcp(s, t) == CHOOSE h \in 0 .. Len(s) :
  /\ h <= Len(t) /\ Agree(s, t, h)
  /\ h = Len(s) \/ h = Len(t) \/ s[h + 1] # t[h + 1]
Less(s, t) == \E h \in 0 .. Len(t) - 1 :
  /\ h <= Len(s) /\ Agree(s, t, h)
  /\ h = Len(s) \/ s[h + 1] < t[h + 1]

\* What is read from depth d on: the rest of the string, or memory behind it.
\* No two strings are followed by the same memory forever: from Horizon on it differs.
Rest(e, d) ==
  CASE d <= Len(Str(e)) -> SubSeq(Str(e), d + 1, Len(Str(e)))
    [] d > Len(Str(e)) /\ d < Horizon -> <<inst.behind[e]>>
    [] OTHER -> <<e>>

\* get_char: KeyChars characters from depth d on, zeros after the terminator.
Key(e, d) == FoldLeft(LAMBDA a, c : a * Base + c, 0,
  [i \in 1 .. KeyChars |-> IF i <= Len(Rest(e, d)) THEN Rest(e, d)[i] ELSE 0])

\* Mutant: the mask keeps the last characters.
Masked_Last(key, width) == key % (Base ^ width)

\* keyMask: the first width characters.
Masked(key, width) == key \div (Base ^ (KeyChars - width))

\* LcpCacheStringPtr::binarySearch: strings of a sorted stream below s.
LowerBound(stream, s) == Cardinality({i \in DOMAIN stream : Less(Str(stream[i]), s)})

Total(streams) == FoldLeft(LAMBDA a, s : a + Len(s), 0, streams)
NonEmpty(streams) == SelectSeq(streams, LAMBDA s : s # <<>>)
Drop(stream, i) == SubSeq(stream, i + 1, Len(stream))

----------------------------------------------------------------------------
(* Jobs *)

\* Streams of a K-way merge: those that are not used are empty.
PadTo(streams) ==
  LET K == Min({k \in {4, 8, 16, 32, 64} : Len(streams) <= k}) IN
  streams \o [i \in 1 .. K - Len(streams) |-> <<>>]

Job(kind, streams, o, base, next, splittable) ==
  [kind |-> kind, streams |-> streams, out |-> o, len |-> Total(streams),
   base |-> base, next |-> next, splittable |-> splittable]

\* One stream is copied, two are merged at once, more by a loser tree.
MergeJob(streams, o, base, next, splittable) ==
  CASE Len(streams) = 1 -> Job("copy", streams, o, base, next, splittable)
    [] Len(streams) = 2 -> Job("binary", streams, o, base, next, splittable)
    [] OTHER -> Job("merge", PadTo(streams), o, base, next, splittable)

----------------------------------------------------------------------------
(* LCP splitting *)

\* Mutant: a common prefix as long as the key is taken for one that reaches beyond it.
RunLength_LcpInKey(stream, base, width) ==
  LET first == Masked(Key(stream[1], base), width)
      ends == {i \in 2 .. Len(stream) :
                 /\ Lcp(Str(stream[i - 1]), Str(stream[i])) < base + width - 1
                 /\ Masked(Key(stream[i], base), width) # first}
  IN IF ends = {} THEN Len(stream) ELSE Min(ends) - 1

\* findNextSplitter: how many strings at the front of a stream have its key.
RunLength(stream, base, width) ==
  LET first == Masked(Key(stream[1], base), width)
      ends == {i \in 2 .. Len(stream) :
                 /\ Lcp(Str(stream[i - 1]), Str(stream[i])) <= base + width - 1
                 /\ Masked(Key(stream[i], base), width) # first}
  IN IF ends = {} THEN Len(stream) ELSE Min(ends) - 1

\* Keys get shorter when the jobs get too small, longer when too large.
Adapt(width, elements, processed, created) ==
  LET expectedJobLength == Max({MERGE_BULK_SIZE, elements \div (100 * Cardinality(Thread))})
      expected == processed \div expectedJobLength
      tolerance == expected \div 30 + Tolerance
  IN CASE expected - created <= -tolerance -> Max({1, width - 1})
       [] expected - created >= tolerance -> Min({KeyChars, width + 1})
       [] OTHER -> width

----------------------------------------------------------------------------
(* Standard splitting: samples of all streams, sorted; no empty strings. *)

Splitters(streams) ==
  LET perStream == (SplittersPerThread * Cardinality(Thread)) \div Len(streams)
      Samples(s) == LET step == Len(s) \div (perStream + 1) IN
        IF s = <<>> THEN <<>> ELSE [i \in 1 .. perStream |-> Str(s[i * step + 1])]
      all == FlattenSeq([k \in DOMAIN streams |-> Samples(streams[k])])
  IN SelectSeq(SortSeq(all, Less), LAMBDA s : s # <<>>)

\* Binary splitting: the middle of a stream that is not empty.
Middles(streams) == {Str(s[Len(s) \div 2 + 1]) : s \in ToSet(NonEmpty(streams))}

\* What createJobs begins with: streams, output, the depth of the keys.
Splittings(streams, o, base) ==
  LET plan(splitters) == [in |-> streams, out |-> o, base |-> base, width |-> KeyChars,
                          elements |-> Total(streams), processed |-> 0, created |-> 0, both |-> TRUE, splitters |-> splitters]
  IN CASE inst.mode = "standard" -> {plan(Splitters(streams))}
       [] inst.mode = "binary" -> {plan(<<s>>) : s \in Middles(streams)}
       [] OTHER -> {plan(<<>>)}

----------------------------------------------------------------------------
(* The sorter: parts, then one merge of all. *)

n == Len(inst.strings)
Part == DOMAIN inst.cut
PartStart(k) == FoldLeft(LAMBDA a, c : a + c, 0, SubSeq(inst.cut, 1, k - 1))

Doing(t, pc) == thr[t].pc = pc
At(pc) == [pc |-> pc]

\* numThreads: the sequential merge runs its queue with one thread.
Starter == CHOOSE t \in Thread : TRUE
Working == IF inst.mode = "sequential" THEN {Starter} ELSE Thread

Init ==
  /\ inst \in Instances
  /\ part = [k \in DOMAIN inst.cut |-> <<>>]
  /\ queue = <<>>
  /\ thr = [t \in Thread |-> At("wait")]
  /\ longest = 0
  /\ out = [i \in 1 .. Len(inst.strings) |-> 0]

\* A part is sorted, by LCP mergesort or by pS5 on the strings of a node.
SortPart(k) ==
  /\ part[k] = <<>> /\ inst.cut[k] > 0
  /\ part' = [part EXCEPT ![k] = SortSeq([i \in 1 .. inst.cut[k] |-> PartStart(k) + i],
                LAMBDA a, b : Less(Str(a), Str(b)) \/ (Str(a) = Str(b) /\ a < b))]
  /\ UNCHANGED <<inst, queue, thr, longest, out>>

PartsSorted == \A k \in Part : Len(part[k]) = inst.cut[k]

\* parallelLcpMerge and its siblings: the first job, and the threads start.
StartMerge ==
  /\ PartsSorted
  /\ \A t \in Thread : Doing(t, "wait")
  /\ thr' = [t \in Thread |-> IF t \in Working THEN At("loop") ELSE At("done")]
  /\ CASE inst.mode = "binary" ->
            queue' = <<MergeJob(part, 0, 0, 0, TRUE)>> /\ UNCHANGED longest
       [] inst.mode = "sequential" ->
            queue' = <<MergeJob(part, 0, 0, 1, TRUE)>> /\ UNCHANGED longest
       [] OTHER -> queue' = <<Job("initial", part, 0, 0, 0, TRUE)>> /\ longest' = n
  /\ UNCHANGED <<inst, part, out>>

----------------------------------------------------------------------------
(* The threads of the queue *)

Goto(t, pc) == thr' = [thr EXCEPT ![t].pc = pc]

\* The queue hands out the oldest job.
TakeJob(t) ==
  /\ Doing(t, "loop") \/ Doing(t, "idle")
  /\ queue # <<>>
  /\ queue' = Tail(queue)
  /\ thr' = [thr EXCEPT ![t] = [pc |-> Head(queue).kind, job |-> Head(queue), last |-> 0]]
  /\ UNCHANGED <<inst, part, longest, out>>

GoIdle(t) ==
  /\ Doing(t, "loop") /\ queue = <<>>
  /\ Goto(t, "idle")
  /\ UNCHANGED <<inst, part, queue, longest, out>>

Leave(t) ==
  /\ Doing(t, "idle") /\ queue = <<>>
  /\ \A u \in Working : Doing(u, "idle") \/ Doing(u, "done")
  /\ Goto(t, "done")
  /\ UNCHANGED <<inst, part, queue, longest, out>>

has_idle == \E t \in Working : Doing(t, "idle")

\* The smallest head, compared from depth base on.
Smallest(streams, base) ==
  LET live == {k \in DOMAIN streams : streams[k] # <<>>}
      Head1(k) == Rest(streams[k][1], base)
  IN CHOOSE k \in live : \A j \in live :
       Less(Head1(k), Head1(j)) \/ (~Less(Head1(j), Head1(k)) /\ k <= j)

Write(o, seq) == out' = [i \in DOMAIN out |-> IF i - o \in DOMAIN seq THEN seq[i - o] ELSE out[i]]

\* CopyDataJob::run
RunCopy(t) ==
  /\ Doing(t, "copy")
  /\ Write(thr[t].job.out, thr[t].job.streams[1])
  /\ thr' = [thr EXCEPT ![t] = At("loop")]
  /\ UNCHANGED <<inst, part, queue, longest>>

\* writeElementsToStream: the next count strings; then the next round, or the end.
BeginWrite(t, count, then) ==
  thr' = [thr EXCEPT ![t] = IF count = 0 THEN At("loop")
            ELSE [pc |-> "write", job |-> @.job, last |-> @.job.len, left |-> count, then |-> then]]

\* Mutant: the output pointer stays.
WriteOne_SameOutput(t) ==
  LET j == thr[t].job
      k == Smallest(j.streams, IF j.kind = "binary" THEN 0 ELSE j.base)
  IN
  /\ Doing(t, "write")
  /\ Write(j.out, <<Head(j.streams[k])>>)
  /\ thr' = [thr EXCEPT ![t] =
       IF @.left = 1 /\ @.then = "loop" THEN At("loop")
       ELSE [@ EXCEPT !.left = @ - 1, !.pc = IF thr[t].left = 1 THEN "tick" ELSE "write",
                      !.job = [j EXCEPT !.streams[k] = Tail(@), !.len = @ - 1]]]
  /\ UNCHANGED <<inst, part, queue, longest>>

WriteOne(t) ==
  LET j == thr[t].job
      k == Smallest(j.streams, IF j.kind = "binary" THEN 0 ELSE j.base)
  IN
  /\ Doing(t, "write")
  /\ Write(j.out, <<Head(j.streams[k])>>)
  /\ thr' = [thr EXCEPT ![t] =
       IF @.left = 1 /\ @.then = "loop" THEN At("loop")
       ELSE [@ EXCEPT !.left = @ - 1, !.pc = IF thr[t].left = 1 THEN "tick" ELSE "write",
                      !.job = [j EXCEPT !.streams[k] = Tail(@), !.out = @ + 1, !.len = @ - 1]]]
  /\ UNCHANGED <<inst, part, queue, longest>>

\* BinaryMergeJob::run
RunBinary(t) ==
  /\ Doing(t, "binary")
  /\ BeginWrite(t, thr[t].job.len, "loop")
  /\ UNCHANGED <<inst, part, queue, longest, out>>

\* createJobs is called for the streams of the job, with the keys at depth base.
BeginSplit(t, base, then) ==
  \E plan \in Splittings(thr[t].job.streams, thr[t].job.out, base) :
    thr' = [thr EXCEPT ![t] = [pc |-> "split", job |-> @.job, plan |-> plan, then |-> then]]

\* InitialJob::run
RunInitial(t) ==
  /\ Doing(t, "initial")
  /\ BeginSplit(t, 0, "clear")
  /\ UNCHANGED <<inst, part, queue, longest, out>>

\* MergeJob::run; with binary splitting the job may be given away at once.
RunMerge(t) ==
  LET j == thr[t].job
      shouldShareWork == /\ inst.mode = "binary" /\ j.splittable
                         /\ has_idle /\ j.len > SHARE_WORK_THRESHOLD
  IN
  /\ Doing(t, "merge")
  /\ IF shouldShareWork THEN BeginSplit(t, 0, "loop")
     ELSE thr' = [thr EXCEPT ![t].pc = "tick", ![t].last = j.len]
  /\ UNCHANGED <<inst, part, queue, longest, out>>

\* mergeToOutput: the last strings are written and the job ends, or one more
\* round begins with a look at the longest length.
Tick(t) ==
  LET j == thr[t].job IN
  /\ Doing(t, "tick")
  /\ IF j.len < MERGE_BULK_SIZE THEN BeginWrite(t, j.len, "loop")
     ELSE Goto(t, IF longest = thr[t].last THEN "lower" ELSE "compare")
  /\ UNCHANGED <<inst, part, queue, longest, out>>

Lower(t) ==
  /\ Doing(t, "lower")
  /\ longest' = thr[t].job.len
  /\ Goto(t, "compare")
  /\ UNCHANGED <<inst, part, queue, out>>

\* A job that had to raise the global does not share in this round.
Raise(t) ==
  /\ Doing(t, "raise")
  /\ longest' = thr[t].job.len
  /\ BeginWrite(t, MERGE_BULK_SIZE, "tick")
  /\ UNCHANGED <<inst, part, queue, out>>

Compare(t) ==
  /\ Doing(t, "compare")
  /\ Goto(t, IF longest < thr[t].job.len THEN "raise" ELSE "share")
  /\ UNCHANGED <<inst, part, queue, longest, out>>

\* Mutant: jobs that one string splits off nothing from are split again.
ShareOrWrite_AnyJob(t) ==
  LET j == thr[t].job
      share == has_idle /\ j.len > SHARE_WORK_THRESHOLD /\ longest = j.len
  IN
  /\ Doing(t, "share")
  /\ IF share THEN BeginSplit(t, j.next, "reset") ELSE BeginWrite(t, MERGE_BULK_SIZE, "tick")
  /\ UNCHANGED <<inst, part, queue, longest, out>>

\* has_idle(), the threshold, and the global once more.
ShareOrWrite(t) ==
  LET j == thr[t].job
      share == /\ has_idle /\ j.len > SHARE_WORK_THRESHOLD /\ longest = j.len
               /\ inst.mode = "binary" => j.splittable
  IN
  /\ Doing(t, "share")
  /\ IF share
     THEN BeginSplit(t, j.next, "reset")
     ELSE BeginWrite(t, MERGE_BULK_SIZE, "tick")
  /\ UNCHANGED <<inst, part, queue, longest, out>>

Splitting(t) == Doing(t, "split")
EndSplit(t) == thr' = [thr EXCEPT ![t] = IF @.then = "loop" THEN At("loop")
                                         ELSE [pc |-> @.then, job |-> @.job]]

\* A job for the first idx[k] strings of each stream is enqueued.
Enqueue(t, job, idx) ==
  LET p == thr[t].plan IN
  /\ queue' = Append(queue, job)
  /\ thr' = [thr EXCEPT ![t].plan =
       [p EXCEPT !.in = [k \in DOMAIN p.in |-> Drop(p.in[k], idx[k])], !.out = @ + job.len,
                 !.processed = @ + job.len, !.created = @ + 1,
                 !.width = Adapt(@, p.elements, p.processed + job.len, p.created + 1),
                 !.splitters = IF @ = <<>> THEN <<>> ELSE Tail(@)]]

\* createJobsLcpSplitting, one round: the streams with the smallest key give
\* the strings that have it.
SplitKeys(t) ==
  LET p == thr[t].plan
      live == {k \in DOMAIN p.in : p.in[k] # <<>>}
      bucket == [k \in live |-> Masked(Key(p.in[k][1], p.base), p.width)]
      idx == [k \in DOMAIN p.in |->
        IF k \in live /\ \A j \in live : bucket[k] <= bucket[j] THEN RunLength(p.in[k], p.base, p.width) ELSE 0]
      taken == [k \in DOMAIN p.in |-> SubSeq(p.in[k], 1, idx[k])]
  IN
  /\ Splitting(t) /\ inst.mode \in {"lcp", "sequential"}
  /\ IF live = {} THEN EndSplit(t) /\ UNCHANGED queue
     ELSE Enqueue(t, MergeJob(NonEmpty(taken), p.out, p.base, p.base + p.width, TRUE), idx)
  /\ UNCHANGED <<inst, part, longest, out>>

\* The other rules: every stream that is not empty gives its strings below the
\* splitter, if any.  Only binary splitting looks whether there are some, and
\* lets jobs be split again only if there are some above, too.
SplitBelow(t) ==
  LET p == thr[t].plan
      idx == [k \in DOMAIN p.in |-> LowerBound(p.in[k], Head(p.splitters))]
      live == SelectSeq([k \in DOMAIN p.in |-> k], LAMBDA k : p.in[k] # <<>>)
      low == [i \in DOMAIN live |-> SubSeq(p.in[live[i]], 1, idx[live[i]])]
      both == inst.mode = "binary" => Total(low) \in 1 .. Total(p.in) - 1
  IN
  /\ Splitting(t) /\ p.splitters # <<>>
  /\ IF inst.mode = "binary" /\ Total(low) = 0
     THEN thr' = [thr EXCEPT ![t].plan.splitters = <<>>, ![t].plan.both = FALSE] /\ UNCHANGED queue
     ELSE Enqueue(t, MergeJob(low, p.out, 0, 0, both), idx)
  /\ UNCHANGED <<inst, part, longest, out>>

\* The strings that are not below the last splitter.
SplitRest(t) ==
  LET p == thr[t].plan IN
  /\ Splitting(t) /\ p.splitters = <<>> /\ inst.mode \in {"standard", "binary"}
  /\ IF inst.mode = "binary" /\ Total(p.in) = 0 THEN UNCHANGED queue
     ELSE queue' = Append(queue, MergeJob(NonEmpty(p.in), p.out, 0, 0, p.both))
  /\ EndSplit(t)
  /\ UNCHANGED <<inst, part, longest, out>>

\* if (g_lengthOfLongestJob == length) g_lengthOfLongestJob = 0
Reset(t) ==
  /\ Doing(t, "reset")
  /\ thr' = [thr EXCEPT ![t] = IF longest = thr[t].job.len THEN [@ EXCEPT !.pc = "clear"] ELSE At("loop")]
  /\ UNCHANGED <<inst, part, queue, longest, out>>

Clear(t) ==
  /\ Doing(t, "clear")
  /\ longest' = 0
  /\ thr' = [thr EXCEPT ![t] = At("loop")]
  /\ UNCHANGED <<inst, part, queue, out>>

Step(t) ==
  \/ TakeJob(t) \/ GoIdle(t) \/ Leave(t)
  \/ RunCopy(t) \/ RunBinary(t) \/ RunInitial(t) \/ RunMerge(t)
  \/ Tick(t) \/ Lower(t) \/ Compare(t) \/ Raise(t) \/ ShareOrWrite(t) \/ WriteOne(t)
  \/ SplitKeys(t) \/ SplitBelow(t) \/ SplitRest(t) \/ Reset(t) \/ Clear(t)

Returned == \A t \in Thread : Doing(t, "done")
Finished == Returned /\ UNCHANGED vars

Next ==
  \/ \E k \in Part : SortPart(k)
  \/ StartMerge
  \/ \E t \in Thread : Step(t)
  \/ Finished

Spec == Init /\ [][Next]_vars

\* Every thread keeps running; the parts are sorted and the merge is called.
FairSpec == Spec /\ WF_vars((\E k \in Part : SortPart(k)) \/ StartMerge)
                 /\ \A t \in Thread : WF_vars(Step(t))
----------------------------------------------------------------------------
(* Properties *)

\* The jobs that still have strings to write: queued, run, or about to be queued.
Owned(t) ==
  CASE thr[t].pc \in {"wait", "loop", "idle", "done", "reset", "clear"} -> <<>>
    [] Splitting(t) -> IF thr[t].plan.in = <<>> THEN <<>>
                       ELSE <<Job("rest", thr[t].plan.in, thr[t].plan.out, 0, 0, TRUE)>>
    [] OTHER -> <<thr[t].job>>

Busy(t) == {<<t, i>> : i \in DOMAIN Owned(t)}
Places == {<<"queue", i>> : i \in DOMAIN queue} \cup UNION {Busy(t) : t \in Thread}
Live == [p \in Places |-> IF p[1] = "queue" THEN queue[p[2]] ELSE Owned(p[1])[p[2]]]
Started == \E t \in Thread : ~Doing(t, "wait")

Slots(j) == j.out + 1 .. j.out + j.len
Strings(j) == UNION {ToSet(s) : s \in ToSet(j.streams)}

\* No string is lost, none is merged twice and no output slot is written by two
\* jobs: at any time each slot is written or belongs to one job, each string is
\* written or in the streams of one job, and a job has as many slots as strings.
Tiled ==
  Started =>
    /\ \A i \in 1 .. n : out[i] = 0 <=> \E p \in Places : i \in Slots(Live[p])
    /\ \A p, q \in Places : p # q =>
         /\ Slots(Live[p]) \cap Slots(Live[q]) = {}
         /\ Strings(Live[p]) \cap Strings(Live[q]) = {}
    /\ \A p \in Places : Cardinality(Strings(Live[p])) = Live[p].len
    /\ (ToSet(out) \ {0}) \cup UNION {Strings(Live[p]) : p \in Places} = 1 .. n

\* A split separates: what one job will write is not larger than what is written
\* or will be written behind it, so the jobs may run in any order, and the
\* output is sorted when the queue returns.
Ordered ==
  Started =>
    /\ \A i, j \in 1 .. n : i < j /\ out[i] # 0 /\ out[j] # 0 => ~Less(Str(out[j]), Str(out[i]))
    /\ \A p \in Places, i \in 1 .. n : out[i] # 0 => \A e \in Strings(Live[p]) :
         IF i <= Live[p].out THEN ~Less(Str(e), Str(out[i])) ELSE ~Less(Str(out[i]), Str(e))
    /\ \A p, q \in Places : Live[p].out < Live[q].out =>
         \A e \in Strings(Live[p]), f \in Strings(Live[q]) : ~Less(Str(f), Str(e))
    /\ Returned => \A i \in 1 .. n : out[i] # 0

\* The strings of a merge job agree in the characters before the depth at which
\* it compares them, and before the one at which its rest would be split, or
\* they are equal; with LCP splitting no job merges an empty stream.
PrefixShared ==
  \A p \in Places :
    LET j == Live[p] IN
    /\ j.kind = "merge" => \A e, f \in Strings(j) : Str(e) = Str(f) \/
         /\ Lcp(Str(e), Str(f)) >= j.base
         /\ inst.mode = "lcp" => Lcp(Str(e), Str(f)) >= j.next
    /\ inst.mode = "lcp" /\ j.kind \in {"copy", "binary"} /\ p[1] = "queue" => <<>> \notin ToSet(j.streams)

\* However often jobs give their work away, the merge comes to its end: the
\* threads leave the queue, and then all strings are written.
MergeReturns == <>Returned
=============================================================================
