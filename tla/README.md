# Models of parallel-string-sorting

This directory holds TLA+ models of the parallel string sorting framework in
`src/`, the TLC configurations that check them on small instances, and proofs
that TLAPS checks for every size. The models are translated from the source;
line numbers below are those of the files under `src/src/`.

## 1. The system and its parts

The program (`psstest`) runs one string sorting algorithm at a time on an input
and checks the result. Its own work is in the parallel sorters of
`src/parallel/` and in the job queue they share, `src/tools/jobqueue.hpp`.

| Part | State | Operations | Interacts with | Hard behaviour | What makes it correct |
|---|---|---|---|---|---|
| **Job queue** (`tools/jobqueue.hpp`) | a concurrent queue, `m_numthrs`, `m_idle_count` per queue; a group is a vector of queues | `enqueue`, `try_run`, `executeThreadWork`, `loop`, `numaLoop`; `numaLaunch`, `assist` | every parallel sorter enqueues jobs, jobs enqueue jobs; OpenMP starts the threads | termination by a counter read apart from the queue; helpers of other queues; fewer threads than queues | no job lost or run twice; loops return; idle count exact |
| **pS5** (`parallel/bingmann-parallel_sample_sort.hpp`) | a tree of sort steps with a count of working substeps; bucket arrays; two explicit stacks per small sort | sample, count, distribute; the small sort loops; freeing work; substep notification | job queue (`has_idle`, `enqueue`); `lazy_counter`; shadow array and LCP array | completion by reference count; work given away from the bottom of a stack; LCPs computed last, in memory that may be the shadow array | each string final once, each LCP once and last; steps live exactly as long as needed |
| **lazy_counter** (`tools/lockfree.hpp`) | a counter, a delta per thread, a flag | `add`, `update`, `get` | pS5 under `PS5_ENABLE_RESTSIZE` | relaxed atomics, two-step collection | sums are conserved; the final update is exact |
| **Parallel multikey quicksort** (`parallel/bingmann-parallel_mkqs.hpp`) | block source, per-job partition blocks, pending counts, a deque of steps per sequential job | block partition, pivot choice, sharing | job queue | blocks taken by CAS, the last partitioner finishes, sharing of the oldest steps | blocks partitioned once, ternary order |
| **Parallel radix sort** (`parallel/bingmann-parallel_radix_sort.hpp`) | radix steps with per-part buckets and `pwork`, 8- and 16-bit small sort stacks | count, distribute, recurse, sharing | job queue | as pS5 without completion tracking | permutation by key |
| **Parallel LCP merges** (`parallel/eberle-*.hpp`) | string streams, jobs, the plain global `g_lengthOfLongestJob` | sorting of the parts, merge, binary and copy jobs, three rules to split a running merge | job queue, pS5 per part, loser tree | splitting while others merge; a racy global decides who splits | every string merged once, jobs ordered, common prefixes right, the merge ends |
| **LCP loser tree and LCP merges** (`sequential/bingmann-lcp_*.hpp`) | a tree of losers with an LCP and a character per stream | play, replay, write; binary and K-way merge sort, insertion sort | parallel merges, runner | the LCP of a head refers to the last string written | sorted, LCPs and characters exact |
| **Classifier trees** (`sequential/bingmann-sample_sort*.hpp`) | splitters in order and in level order, their LCPs and terminator marks | three builders, searches by loop, unrolled, interleaved, assembler | sample sorts, pS5 | duplicate splitters, index arithmetic of the tree | each key in its bucket, finished buckets marked |
| **String pointers** (`tools/stringptr.hpp`, `stringset.hpp`) | views of the active, shadow, output, LCP and cache arrays | `flip`, `sub`, `copy_back`, `fill_lcp`, characters and keys | all sorters | aliasing of shadow, output and LCP memory | copy-back lands in the output |
| **Other sequential sorters** (`sequential/`) | local | insertion sorts, radix sorts, sample sorts, multikey quicksorts; those of McIlroy, Nilsson, Ng and Kakehi | base cases, runner | recursion turned into stacks, memory shared by groups | sorted, nothing lost |
| **Rantala's sorters** (`rantala/`) | local | merge sorts, MSD radix sorts, multikey quicksorts | runner | blocks that reuse the array being sorted; merged halves in different arrays; caches | sorted, nothing lost |
| **Akiba's radix sort, Shamsundar's LCP merge sort** (`parallel/*.cpp`) | OpenMP tasks; pthread blocks | as named | none | fork and join | as above |
| **Runner and tools** (`psstest.cpp`, `tools/`) | the list of sorters, options, arrays of a call, children | run every selected sorter, repeat, check | all sorters, operating system | fork, alarm, children that fail | every sorter is run and checked, the contest ends |
| **Third-party code** (`sinha-copy-burstsort/`, `minitbb/`, `tlx/`) | - | - | - | - | - |

How the parts meet: a sorter's front end computes its thresholds, enqueues a
first job and calls `loop()` (or `numaLaunch()` on a group of queues); jobs run
on the threads of the queue, enqueue further jobs and delete themselves. Nobody
waits for a job: a phase of several jobs ends with an atomic decrement, and the
job that brings it to zero runs the next phase (`count_finished`,
`distribute_finished`, `partition_finished`, `substep_all_done`). The small sorts
are sequential loops with explicit stacks; when `has_idle()` says that a thread
waits, they turn the unstarted parts of their oldest level into jobs. The sort
is over when the queue is, so its correctness rests on the queue's termination.

## 2. Modules and the code they stand for

Definitions keep the names of the source. A definition named `X_Something` is a
mutant: a plausible error in `X`, used to see that a property depends on it. A module named `XProofs` holds the theorems about `X`.

| Module | Models | State and actions |
|---|---|---|
| `JobPool` | what a group of job queues promises | `waiting`, `active`, `closed`; jobs are put in, taken once, run once; the pool closes with nothing left |
| `JobQueue` | `tools/jobqueue.hpp` | one action per access to shared state: `WorkPop`, `IncIdle`, `IdlePop`, `CheckIdle`, `DecIdle` are the lines of `executeThreadWork()`, `AssistPop` and `AssistCheck` those of `assist()`/`try_run()`, `LaunchLoop` and `JoinLoop` the fork and join of `numaLaunch()`/`numaLoop()`. `pc` is the line a thread is at, `scan` the loop variable of `assist()`. A queue is a set of jobs: no property needs its order. One queue is `loop()` |
| `SampleSort` | pS5: `SampleSortStep`, `SmallsortJob`, `SortStep` | a step per range `<<lo, hi, depth>>` that is alive, its `cnt` is `m_substep_working`, `pwork` the jobs of a phase, `stack`/`front` the two explicit stacks and their `pop_front`. `Sample`, `Count`, `Distribute` and `DistributeFinished` are the phases; `RunBucket`, `PopLevel`, `FreeWork`, `LeaveLoop` the loops of the small sort; `Notify` is `substep_notify_done()` with `substep_all_done()`. Which string lies where is abstracted: `fin` and `lcp` count the final writes of each position |
| `Distribution` | count, prefix sum and distribute, which pS5 and the radix sorts share | `bkt[p][b]`, `pwork`, and the shadow array slot by slot |
| `RadixPermute` | the in-place permutation of `RadixStep8_CI` | `TakeOut`, `Exchange`, `PutDown` are the iterations of its two loops |
| `BucketStep` | what one step of a bucket sort promises: the strings grouped, with the bucket boundaries, in one step | - |
| `RadixStep` | `Enqueue()` of the parallel radix sort: `Distribution` for large sets, `RadixPermute` for small ones | composes the two; `DeliversBuckets` is the refinement of `BucketStep` |
| `RadixSort` | the parallel radix sorts | `arr[0]`, `arr[1]` are the output and its shadow, with real (short) strings; `RadixStep` is a whole `RadixStepCE`, `StartSmall`, `NextBucket`, `Share`, `PopLevel` the parts of `SmallsortJob8::run()`. The strings of a bucket may be in any order |
| `LazyCounter` | `tools/lockfree.hpp`, driven as pS5 drives it under `PS5_ENABLE_RESTSIZE` | one action per atomic access of `add()` and `update()` |
| `MkqsPartition` | `ParallelJob` of parallel multikey quicksort | the three current blocks of every `PartitionJob`, the source, the three output queues; an action per turn of the loops of `partition()`, and `finish_partial()` |
| `MkqsSequential` | `SequentialJob` of parallel multikey quicksort | the stack with `pop_front` and `cache_finished`, and how often each position is copied to the output |
| `ParallelMkqs` | a whole sort: both composed | `PartitionFinished` hands the queues to sequential jobs, `PartitionAgain` to a new `ParallelJob` when all keys were equal |
| `ParallelMerge` | `eberle-parallel-lcp-merge*.hpp` and the sorters around it | `TakeJob`, `RunMerge`, `RunBinary`, `RunCopy`; `Tick`, `Lower`, `Compare`, `Raise` are the single reads and writes of the global; `SplitKeys`, `SplitBelow`, `SplitRest` the splitting rules, a job at a time; `Reset`, `Clear` the end of a split |
| `Strings` | characters and keys (`stringtools.hpp`), insertion sort (`inssort.hpp`), the checker (`checker.hpp`), the two ways of moving strings into buckets | operators |
| `RadixSorts` | `sequential/bingmann-radix_sort.hpp` | operators named after the sorters; the ones with a stack of radix steps keep the stack |
| `Classifiers`, `SampleSorts` | tree builders and classifiers, and the string sample sorts over them | operators |
| `LcpMerging` | LCP insertion sort, binary and K-way LCP merge sort, both loser trees | operators on sequences of (string, LCP, character) |
| `Mergesorts`, `LcpMergesorts` | `rantala/mergesort*.cpp`, `sequential/ng-lcpmergesort.cpp` | the label of a merger's state machine is the list of its streams in the order of their heads |
| `MsdSorts` | `rantala/msd_*.hpp` | `BlockInit`, `Scatter`, `Gather`, `MoveAway` are the block sort, with its free list, back links and the array it overwrites |
| `MultikeySorts` | `sequential/bs-mkqs.hpp`, `bingmann-mkqs.hpp`, `rantala/multikey_*.cpp` | `Partition` is the split of Bentley and Sedgewick with its four cursors |
| `ClassicSorts` | `mbm-radix.cpp`, `nilsson-*.cpp`, `ng-cradix*.cpp` | stacks, lists and groups, and the key buffers in their shared memory |
| `Contestants` | `PSS_CONTESTANT` and its kin: 95 registered sorters by name | functions from input to result |
| `Contest` | `Contest::run_contest()` and `Contestant_UCArray` in `psstest.cpp` | `procs` is the stack of runners, all but the last waiting for their child; `Fork`, `ChildStarts`, `ChildCannotLoad`, `Alarm`, `RealRun`, `Check`, `ListDone` |

`JobQueue` is composed with nothing by name: `SampleSort`, `RadixSort`, `ParallelMerge` and
`MkqsSequential` keep their queued jobs in a set that any idle thread takes from
and end when the set is empty and no thread runs a job. That is what `JobPool`
allows, and `JobQueue` is shown to implement `JobPool`. `has_idle()` is a relaxed
read of a counter; in the sorters it may return anything at any time. In the same way
`RadixSort` and `SampleSort` take as one step what `Distribution` and `RadixPermute` do in
many: that this is sound is `DeliversBuckets` (proved for any size in `RadixStepProofs`). `ParallelMerge` takes the smallest head where the
code asks its loser tree, which `LcpMerging` models.

The sequential sorters have no states between a call and its return that anyone could see; they are
operators, and the program that runs them, `Contest`, is the state machine. `ContestMC`,
`ParallelMergeMC`, `SampleSortMC` and `RadixSortMC` hold the instances.

## 3. Runs and what they show

All runs are exhaustive for their bounds.

| Run | Instance | Shows |
|---|---|---|
| `jq_group` | 4 threads on 3 queues (teams of 2, 1, 1), 2 jobs, any number of them queued at first, the others enqueued by jobs | `IdleExact`: the idle counters, raised and lowered on different paths, are exact. `WorkHasOwner`: a queue that holds a job has a thread that will still pop from it. `NoLostJob`, `PoolSafety`: nothing is stranded or run twice. `LoopsReturn`: `numaLaunch()` returns |
| `jq_group_assert` | 2 threads, 2 queues | violated: the assertion after the region of `numaLoop()` (section 6) |
| `ps5` | 2 threads; 4 strings with thresholds of 2, two keys deep, up to 3 parts; or one small sort of 5 strings with both stacks, freeing possible at every check | `NoDangling`, `CountExact`, `SortComplete`: a step lives until its last substep, its count is exact, and the drained queue means a complete sort. `LcpAfterFinal`: LCPs are written over the shadow memory only when both strings are in place. `WrittenOnce`: no string or LCP is written twice, whoever was given the work. `PopFrontOrder`: the assertions of `sort_mkqs_cache()` on its stack. `SortFinishes`. `TypeOK` includes that `pwork` and the counts never pass below zero |
| `ps5_creator` | 2 threads, 3 strings | violated: a step that is still creating jobs is alive (section 6) |
| `lazy_conserved` | 2 workers, 3 strings, 3 updates | `Conserved`: no string is lost between counter, deltas and sums in flight, although two updates may collect the same delta |
| `lazy_zero` | 2 workers, 2 strings, 2 updates | violated: the counter is zero after the join (section 6) |
| `radix_step` | any 7 strings of 3 characters; 5 parts | `DeliversBuckets`: large and small steps implement `BucketStep`. `SlotsWrittenOnce`: the writes without locks never meet. `NothingLost`, `CacheAgrees`: nothing is lost inside the permutation and its cache follows. `TypesOK`: no unsigned bucket end passes below zero |
| `radix` | 2 threads, any 4 of 6 strings of up to 3 characters, 8- and 16-bit keys, thresholds of 2 and 4 | `OneOwner`, `DepthIsCommon`: what is given away is given once and at a depth its strings have in common. `SettledIsFinal`: what nobody will sort again is final and in the output, not in the shadow array that is freed. `SortEnds` |
| `mkqs` | 2 `PartitionJob`s and 2 threads, 4 strings, blocks of 2, any cut of the source into blocks, any keys, two keys deep | `OnePlace`: from the first block to the output every string is in one place. `QueuesExact`, `RecursesOnAll`: the queues hold and count one class each, and the recursion starts when all is pushed. `CopiedAreSorted`, `StackInArea`, `OutputComplete`: work given away is copied by its new owner only, once, after it is sorted. `MkqsEnds` |
| `parallel_merge` | 2 threads, 3 parts of 7 strings, five inputs under the rules `lcp`, `standard`, `binary` and `sequential` | `Tiled`: at any time every output slot is written or belongs to one job, with as many strings as slots. `Ordered`: jobs that run in any order make a sorted output. `PrefixShared`: the common prefix a job relies on is common, and with LCP splitting no job gets an empty stream. `MergeReturns` |
| `parallel_merge_equal` | 7 equal strings, standard splitting | violated: the merge ends (section 6) |
| `contest` | 95 sorters; all inputs of up to three of six strings, 36 of ten strings with two seeds and 36 of them repeated, 36 of seven, one of 15, one of 20; five sorters under all combinations of forking, loading, timeout, repetition and output | `OutputSorted`: what a sorter that returns leaves is sorted and a permutation of the input, and no sorter read behind a terminator (TLC would stop). `LcpsExact`: LCPs and characters are exact, also after repetitions, and element 0 is untouched. `ContestEnds`: the parent outlives children that are killed, abort or cannot load |

### Bounds

- Threads: two threads give every pair of a giver and a taker, a creator and a
  finisher. `JobQueue` has four, so that a team has two threads that must agree
  to be idle, while teams of one leave early, and every queue has two queues to
  scan in an order of its own.
- Strings and thresholds: the thresholds are lowered with the sizes, so that
  four strings go through a parallel step, a bucket that is again parallel, small
  sorts, insertion sort, singletons and empty buckets; five strings fill both
  stacks of the small sort with a level that can be given away below one in work.
- `MaxDepth` (pS5, multikey quicksort) bounds the length of the strings in keys:
  at that depth every key holds the terminator. The radix model has real strings;
  its longest has three characters, one more than a 16-bit key.
- `SeqThresholds` of `radix` has 2, where large steps occur, and 4, where the whole
  range is one small job, as part of a larger sort may be.
- `MaxUpdates` bounds the calls of `update()` in `LazyCounter`. Two of them must overlap
  for a delta to be collected twice; the run has three.
- `Instances` of `ps5`: `parts` is the code's `MAXPROCS`, `levels` its 8 levels per call of
  `mkqs_free_work()`; both are lowered with the sizes.
- `radix_step`: `psize` rounds up to two strings, so of the five parts the fourth has one and the last begins behind the end.
- `parallel_merge`: `KeyChars` = 2 for 8, `MERGE_BULK_SIZE` = 2 for 4096 and
  `SHARE_WORK_THRESHOLD` = 2 for 16384, `SplittersPerThread` = 3 for 10, `Tolerance` = 1 for 5:
  seven strings are then merged in several bulks and split more than once. `Horizon`: memory behind two
  strings is equal up to character 5, more than two keys past the end of the longest. A part may be empty, as in the NUMA variant.
- `contest`: characters 1 and 2, keys of `KeyWidth` = 2 characters for 8. Insertion sort below 3 strings
  (`InssortThreshold`, 32 in the code), two-character buckets from 5 (`WideThreshold`, 0x10000), radix sort below
  3 (`SmallSort`, 32k), trees of 3 splitters (`TreeBits` = 2 for 10) from samples of 6, interleaving of 2 keys
  (`Rollout` = 2 for 4). LCP insertion sort up to 2 (`LcpBase`, 32), merge sorts below 4 by insertion (`MergeBase`, 32; its
  least value, as a four-way merge needs four streams), 3-way loser tree from 6
  (`LoserTreeWays`, 64 to 1024; `LoserTreeMin`, 0x10000). Caches of `CachedBytes` = 2 characters (4 to 12), blocks of
  `BlockSize` = 2 (1024), one spare block (6 or 29; the least a gather can need). Pseudo-median from 5 strings (`MedianOf9`, 30),
  block, bucket and pivot sorts from 5 (`MkqsThreshold`, 10000 or 15000), `Pivots` = 2 (16 or 32) from runs of 3 (7). `SmallGroup` = 3
  (10 to 20), a stack of `MbmStack` = 2 entries (1024) so that it overflows, key buffers of `KeyBuffer` = 2 characters (4) from
  `CacheCutoff` = 3 strings (128). Each long input has ten strings with common prefixes of two keys and duplicates, so that every
  sorter goes through its large, small and trivial case; the one of 20 is there for stale blocks and overwritten key buffers, the one of 15
  for the call of `abort()` (section 6).
- Where the code chooses at random (samples of splitters and pivots), `seed` gives positions; two or three seeds.

### Fairness

The specifications of the liveness runs have weak fairness of each
thread's whole step, for `JobQueue` also of each loop's fork and join, for `ParallelMerge` of the call of the
merge after the parts, for `ParallelMkqs` of the last `PartitionJob`. The threads
are operating system threads that never block in these programs (they spin), so a thread
that can take a step is scheduled. No strong fairness is used and no particular
outcome is promised: which job a pop finds is open, and giving work away is never owed
(`Share` and the freeing of work are not under fairness), because `has_idle()` may be
false for ever. That a job's `run()` ends is shown for the sorters themselves and assumed
in `JobQueue` through a finite set of jobs. In `Contest` the runner and its children go on running: weak fairness of
any step that moves a process or a repetition; the alarm is not fair, it may come or not.

Deadlock is checked in every run; a finished system stutters in an action of its own.

## 4. What is proved

TLAPS checks these for all values of the constants that satisfy the modules' named
assumptions: finite sets of threads, positive numbers of queues, threads and strings where the code
needs one, finitely many jobs of a queue, natural thresholds and depths.

`JobQueueProofs`:

- `TypeCorrect`, `IdleCorrect`, `OwnerCorrect`, `NothingLost`: `TypeOK`, `IdleExact`,
  `WorkHasOwner` and `NoLostJob` are invariants of `Spec`.
- `SingleQueueEmptyAtEnd`: with one queue the assertion at the end of `loop()` holds.
- `ImplementsPool`: every behaviour of the group of queues is one of `JobPool`.

The inductive invariant `IInv` is type correctness, `IdleExact`, `WorkHasOwner` and
three facts on program counters: a thread holds a job exactly while it runs it or
is about to (`RunningOK`), the team of a queue is unborn before its loop and gone
after (`LoopOK`), and a thread that assists is inside its scan (`ScanOK`).
`NoLostJob` is not inductive: a state with all threads gone but one, and a job in
a queue that one does not look at, would satisfy it and break it in a step.
`WorkHasOwner` rules that state out, and it is the argument for the design: a queue becomes
nonempty only by a thread that runs one of its jobs, and such a thread goes back
to that queue, or starts a new scan of the group, before it can leave
(`FinishJobStep`, with `ScanVisitsAll`: a scan visits every other queue). The idle counter
plays no part in it. A thread may leave on a stale count; that costs parallelism,
never a job. `IdleExact` is needed by `TypeOK` alone, for the decrement.

`SampleSortProofs`:

- `SampleSortTypeCorrect`, `NothingDangles`, `CounterExact`, `OldestFirst`: `TypeOK`, `NoDangling`,
  `CountExact` and `PopFrontOrder` are invariants of `Spec`.
- `EverythingSorted`: no string is put into its final place twice, and all are there when the
  queue is dry.
- `SampleSortWrittenOnce`, `LcpsLast`, `SampleSortComplete`: `WrittenOnce`, `LcpAfterFinal` and `SortComplete`, which say the same with the LCPs.

None of these is inductive alone. `IInv` has three strands, and `LInv` adds a fourth for the LCPs.

The life of a step. `AllCounted` is `CountExact` with the handles named by where a thread stands.
A counter that is exact does not yet say that a step is deleted at the right time: before
`split` no handle exists and the counter is zero, and it is the one job, or the `pwork` jobs, of the
current phase that keep the step. `StagesOK` says so: a step whose counter is zero has all its jobs and threads
at one phase, as many as `pwork`, and a step with handles has no job left. `HandlesOK`: one thread at most
works on the stacks of a step, and when none does everything on them was given away. With these a step that
is deleted has no job, no thread and no child (`NotifyKeeps`).

The stacks. `StacksOK`: the sample sort levels and the quicksort levels on top of them are one stack,
nested, each level in the bucket that the one below started last, so that the work a thread has not
started is one range of the array, from the next bucket of the newest level to the end of the oldest it has kept.
`FreeWork` cuts that range, and the buckets it gives away are cover and partition of what it cuts off
(`WaitsCover`, `WaitsApart`).

The array. `TreeOK`: ranges of live steps are nested or apart, and the parent of a step is the least one around it.
`AreasApart`: what a step still works on lies outside of every live step below it. `TodoOK` says the same of
children it is about to create: between two of them a thread has part of the level handed out and part not. `FinExact`: a position is final
exactly when no live step owes it. The end follows: an innermost step of a nonempty tree
has no child, so it has a job or a thread (`IInvSorted`), and the queue is not dry.

The LCPs. They are written by three kinds of code at three times: inside a bucket by the sorter that finishes it, between the buckets
of a level when the level is popped, and between the buckets of a level given away or of a large step when the step is deleted.
That these never meet and leave none out is `LcpExact`: an LCP is written exactly when no live step has it open (`Due`), and no two steps have the same one open (`DueApart`). What a step has
open is the inside of what it owes and the borders of its levels (`RimsOf`), finished or not. A border leaves a step only by being written: by `PopLevel` for
a level the thread has kept (`RimsPopped`), by the last `Notify` for the rest, each once (`RimOnce`), though by then the step is complete and
its children deleted. `LevelsOK`
says that a level ends where its step does or at a border of a level below it, `KidsOK` the same of the ranges about to become children,
`RimsApart` that no border lies inside a live step below, and `EndsHeld` that a live step ends at a border of one above or at an end of
the array. Hence `LcpsLast`: next to a string that is not final there is either the inside of what its owner still has to do or an end of it, and
that end is an LCP which the owner or a step above has open (`OwedWaits`). So an LCP that is written has both its strings final.

`ParallelMkqsProofs`, first about `SequentialJob` of parallel multikey quicksort from any one job:

- `SequentialOneOwner`, `SequentialAllCopied`: a string has one owner, a queued job or a thread, until it is in the output, and it is written there once.
- `SequentialCopiesSorted`, `SequentialStaysInArea`: `CopiedAreSorted` and `StackInArea`.

`StackInArea` is not inductive: that the next level still lies below `cache_finished` after the oldest was given away
needs the levels to be nested and the oldest one kept to end exactly at `cache_finished` (`StackOK`). `CopiedAreSorted` needs that all below the
cursor of the thread is sorted (`SortedBelow`), and both need that areas do not overlap (`OwnedOnce`).

`MkqsPartitionProofs` and `ParallelMkqsProofs`, about parallel multikey quicksort as a whole, from the first block to the last string:

- `PartitionInvariant`: the inductive invariant of one `ParallelJob`, for every number of strings and `PartitionJobs`, every block size and every cut of the source.
- `ParallelOnePlace`, `ParallelQueuesExact`, `ParallelRecursesOnAll`, `ParallelTypesCorrect`: the properties of the partition hold over all steps of a sort.
- `ParallelOutputComplete`, `ParallelCopiesSorted`, `ParallelStaysInArea`: those of the sequential jobs hold for the ranges that the partition made.

That a queue holds one class only is the point of the second phase, and rests on an order that is easy to get wrong: the
strings before the cursor of a block are of its class (`BlockOK`), an extra block has no others, and a block whose turn is over stays settled
while later turns swap and append strings to it (`TurnOK`): a swap needs an unpartitioned string there, and there is none. The right loop knows
that the left block waits at a string above the pivot, which is what it swaps away. That no string is lost is shown once for
four kinds of moves between the source, the blocks of a job and the queues (`Takes`, `Pushes`, `Swaps`, `Gives`), and
carried over to all jobs by `OneJobMoves`. The counts are cardinalities, so when the last job ends they add up to `N`, and
the three ranges follow one another (`AfterLast`, `JobsMade`). A step repeated one key deeper has found all strings equal (`AgainStep`).

`LazyCounterProofs`: `CounterConserved`, which is `Conserved`. It is a sum over the threads, so the proof needs that the sum is well
defined and changes by what one entry changes (`SumExists`, `SumChanged`); the invariant adds that the local
sum of a thread is zero outside of `update()`. That two updates collect the same delta is harmless because both subtract what they add.

`RadixSortProofs`, about the parallel radix sorts for any strings, threads, thresholds and both key widths:

- `RadixOneOwner`, `RadixSettled`, `RadixDepth`, `RadixTypes`: the safety properties of `radix`.
- `RadixSorted`: with no job and no busy thread left, the output is the sorted input.

The invariant (`RadixInvariant`) speaks of claims: every job, and every bucket of a live level not started, claims its range. A claimed
range holds the strings that the sorted input has there, in some other order, and those share the prefix that the
claim's depth says; claims are disjoint; what is in no claim is in its final place in the output. A step
replaces claims by claims on parts of their cells (`ReplaceClaims`). So a step has to be examined only in the range it works on, and stealing the
oldest level is the replacement of bucket claims by job claims one character less deep (`GivenReplace`).
That buckets end where the sorted input changes its character needs no count to be evaluated: the strings below a
character are equally many in the range and in the sorted input, because one is a bijective image of the other, and they come
first in both (`CharBucket`, `KeyBucket`, from `Cut` and `NoSqueeze`). A bucket that holds the terminator
consists of equal strings (`EndedInPlace`). A range that a sorter leaves in order is the result there (`OneOrder`), so neither the
insertion sort nor the permutation has to be deterministic or stable in the model, and neither is.
The stack can be higher than there are strings (three equal strings of 100 characters make 100 levels), so `Pieces` follows the stack.

`DistributionProofs` and `RadixStepProofs`, about one step of the parallel radix sort, for any strings, any alphabet and any number of parts:

- `StepDelivers`: `DeliversBuckets`, the refinement of `BucketStep`. The distribution, in any interleaving of its jobs, and the permutation deliver
  all strings in the order of their characters, with the boundaries of the buckets.
- `StepSlots`, `StepTypes`: `SlotsWrittenOnce` and `TypesOK`. The jobs that write without locks never meet, and no cell of `bkt` passes below zero.
- `PermuteLosesNothing`, `CacheMovesAlong`, `StepLosesNothing`: the permutation loses no string, and its cache follows the strings, alone and inside the step.

The distribution. No sum has to be evaluated: a cell of the prefix sum is the number of strings whose bucket and part come at or before the cell (`PrefixCount`, from
`FoldCounts`: a least set of cells whose sum were not the number of its strings would have one without its first cell). While part `p` distributes, `bkt[p][b]`
is the number of strings before those that `p` has still to move (`Distributing`), so the slot of a string is the number of strings before it in a total
order: by bucket, then by part, then from the last of the part to the first (`SlotOf`, `SlotOrder`). Two strings
cannot have the same slot (`SlotOnce`), and the slots are in the order of the buckets. At the end every string is in the shadow array, so every slot is
filled (pigeonhole), and the row of part 0 has come down to where the buckets begin (`FirstRow`). Parts that are short, empty or behind the last string are covered (`PartFacts`).

The permutation. `NothingLost` and `CacheAgrees` are inductive with the bounds of the variables (`IInv`); `BucketNotEmpty` shows
that the outer loop always moves on to cells whose cache has not been used up. That the result is in order needs more (`Settling`): the outer loop
is always at the beginning of a bucket, the buckets behind it are in place, and of the others the part that `bkt` has passed. A bucket in place has no
string elsewhere (`Settled`, pigeonhole), so the string in hand is never one of them (`HandFacts`), and what is left alone at the end can only
be the last bucket (`LastBucket`, `FixKeeps`). A bucket filled before the outer loop reaches it has its cell decremented once more, to one below its
beginning; that this is never below zero is because the first bucket cannot be filled before (the last part of `CellOK`).

Induction over numbers is done by a least counterexample: a nonempty set of naturals has a least element (`NatLeast`, from
the library's theorem on well-founded relations), which takes a set and no operator.

## 5. What is only model-checked

- All liveness (`LoopsReturn`, `SortFinishes`, `SortEnds`, `MkqsEnds`, `MergeReturns`, `ContestEnds`): out of the prover's reach.
- The sequential sorters: they are recursive operators, which the prover does not take. What they compute is checked on the
  inputs of `contest`.
- The parallel merges (`Tiled`, `Ordered`, `PrefixShared`): their splits fold over the streams of a job and search in each of them, so what
  a split covers is an induction over data. Section 8 says what a proof would need.
- `OutputSorted` and `LcpsExact` of `Contest`, which speak of the sequential sorters.

## 6. Where the code departs from its own statements

- **`numaLoop()` ends with `assert(m_queue.unsafe_size() == 0)`** (`tools/jobqueue.hpp:259`).
  In a group a thread of another queue may run one of this queue's jobs; it is not
  counted in `m_numthrs`, so the own team can leave and join before that job enqueues
  again. `jq_group_assert` shows it. No job is lost: the helper comes back for it
  (`OwnerCorrect`), and with one queue the assertion holds (`SingleQueueEmptyAtEnd`).
- **A step may be deleted while it is still enqueuing its jobs.** "keep anonymous subjob handle
  while creating subjobs" (`bingmann-parallel_sample_sort.hpp:1506`) is what
  `distribute_finished()` does. The loops of `sample()` and `count_finished()` (:1458) hold no handle
  and read `parts` once more after the last job is in the queue; by then
  the other threads may have run everything and deleted the step. `ps5_creator` shows it;
  the same loop is in `RadixStepCE` and in `ParallelJob`. Compilers
  may keep the bound in a register.
- **`assert(... ctx.restsize.update().get() == 0)`** (:1663): `update()` clears `m_changed`
  at its end (`tools/lockfree.hpp:105`) over the `true` of an `add()` it did not
  collect, and the final `update()` then does nothing. `lazy_zero` shows it. The option is off
  by default.

- **A merge of equal strings under standard splitting may be given away for ever.** The comment at
  `eberle-parallel-lcp-merge-standard-splitting.hpp:75` promises "to prevent work sharing when we just increased
  g_lengthOfLongestJob". All equal strings end in one job that is as long as its parent. The parent clears the
  global (:105-106) after it has queued that job; between test and store of the new job (:71) the old one clears, the new one raises it and
  splits at once, having written nothing. `parallel_merge_equal` shows the cycle. Binary and LCP splitting do not have it
  (`MergeReturns` in `parallel_merge`).

Found while modelling and not shown by a run of their own:

- `try_run()` returns
  `m_idle_count != m_numthrs`, documented as "returns false if queue is finished"
  (`tools/jobqueue.hpp:151`). The counters are also equal before the queue has started, and
  while a helper runs one of its jobs. `WorkHasOwner` is proved of what the code returns.
- **Merge jobs with an empty input.** `BinaryMergeJob::run()` asserts `!input1.empty() && !input2.empty()`
  (`eberle-parallel-lcp-merge.hpp:114`) and reads the first string of both. LCP splitting never queues such a job (`PrefixShared`);
  standard and binary splitting do, when all strings of a stream lie on one side of the splitter. Lengths of jobs are `unsigned`, 32 bits.
- **Sample sort with `TreeBuilderPreorder`** (`bingmann/sample_sortBSC`): the builder never sets the mark 0x80, so the
  strings of an equal bucket whose splitter holds the terminator are sorted again eight characters deeper, behind their
  terminators (`bingmann-sample_sort.cpp:154`). Left out of the contest; the other builders set the mark.
- **`std::sort` by keys of 4 or 8 characters** (`bingmann-stdsort.cpp:60`): the comment says "check highest byte for zero -> both strings end",
  but the comparison goes on behind the terminator when equal keys end inside the key. Not modelled.
- **Rantala's LCP merge sort aborts** (`rantala/mergesort_lcp.cpp:240`) when its left half ends in the scratch area and its right half in place:
  in the code with 127 strings, in the model with 15, which a contest input covers (a sorter that aborts takes its process with it).
  The variant with caches merges a stale right half instead (`m1 = SortedInTemp`, :1390): 125 strings in the code come out unsorted, 13 in
  the model; inputs of the contest have other lengths. With one string its base case reads a second, and `lcp()` of equal caches
  fails its own assertion (:1017) in debug builds. The three-way LCP sorts are not registered.
- **`msd_CE7` takes the reverse of sorted for sorted** (`rantala/msd_ce.hpp:464`): 0x10000 or more strings whose two-character keys never rise are left
  as they are. The model agrees (`NeverRising`; five descending strings come back unchanged); the inputs of the contest rise somewhere.
- **CRadix ignores character 255** (`sequential/ng-cradix.cpp:149`): its loops end below `AH` = 255, so strings with that byte are not sorted any further and
  `count[255]` is neither initialised nor reset. Its stack of 4096 entries has no check. The model's characters are below `AH`. `ng_lcpmergesort` compares
  signed characters, in another order for bytes from 128 on; the model's are below that.
- `CE3_sb` and `CI3_sb` read one bucket size past the end (`bingmann-radix_sort.hpp:918`, `:1128`), without effect.
- In the runner, the copy of the unsorted strings before an inner repetition is a self-copy (`stringptr_copy.copy(stringptr_copy)`, `psstest.cpp:608`): later repetitions
  sort sorted strings, and for LCP sorters with a cache the LCP array is not reset. A child that cannot load its data returns (:318) and goes on as a second runner.
  A failed permutation check is reported, but the result is still "ok" (`tools/checker.hpp:135`). The alarm exists in forked mode only. `lcp[0] = 42` is written for no strings, too.

## 7. Abstractions and limits

- Memory is sequentially consistent. The atomics of `jobqueue.hpp` are; those of
  `lazy_counter` are relaxed, and its model is therefore optimistic. `m_numthrs` is a plain
  variable that helpers read while the team writes it: `SeenThrs` lets them see the initial
  zero until the team's first atomic increment.
- The concurrent queue (third party) is an unordered set with atomic operations.
- In pS5 and parallel multikey quicksort the order of strings is abstracted to positions
  and bucket sizes: classifier, splitters, ternary split, insertion sort and the values of
  LCPs are checked in the sequential sorters only, where the strings are real.
- Sequential sorters: memory is not modelled beyond the arrays they write. Variants that differ in how they prefetch, cache or count (16-bit
  counters below 0x10000 strings, SSE comparisons, buckets in other vector classes) are the same operator. OpenMP variants of Rantala's sorts
  work on disjoint parts and join; they are the sequential ones.
- Equal strings are not told apart, so stability is not checked; no sorter here promises it.
- The NUMA front ends, timers, logging and statistics are left out; with them that the NUMA variant of pS5 writes element 0 of the LCP array of an empty part
  (`bingmann-parallel_sample_sort.hpp:1873`).
- Fewer threads than queues (`numaLaunch()` warns of it) is covered by the theorems for
  safety. `LoopsReturn` is listed for four threads and three queues.
- The empty input of the radix sort is left out: `inssort_generic()` tests `--n != 0`,
  which wraps for 0 (`sequential/inssort.hpp:74`).

### Not modelled

Burst sorts (`sequential/sinha-*`, `rantala/burstsort*.cpp`, `sinha-copy-burstsort/`), funnel sort and `std::sort`; Akiba's and Shamsundar's sorts, which fork and join without
shared state; the string sets that are not arrays of pointers, and the output variants of the string pointers; the pivot choice of parallel multikey quicksort;
reading of input, timers, statistics; `minitbb`, `tlx`. They are listed in `PROJECT.json` with their status.

## 8. Plan

Done: the job queue and its proofs; pS5 and the proofs of all its safety properties; the lazy counter; the parallel radix sorts and their proofs; their steps and the proof that they
refine `BucketStep`; parallel multikey quicksort as a whole; the parallel LCP merges with their splitting rules; the sequential sorters
and the runner that calls them.

Next, extending the model:

1. `MkqsPivot`: the choice of the pivot from nine candidates with unsigned indices.
   `get_direct()` asserts its index (`bingmann-parallel_mkqs.hpp:686`) while the
   candidate `n - 3` wraps for one or two strings.
2. Burst sort: its trie, the bursting of a bucket and the traversal.
3. The LCP and output variants of the string pointers.
4. An abstract `SortStep` tree (a step is complete when its children are) with `SampleSort`
   as its implementation.

Then, proofs:

1. `Tiled` of `ParallelMerge`: its splits use folds over streams, which first have to become functions.
2. That a `BucketStep` is what `RadixSort` and `SampleSort` take as one step, as a refinement of these modules instead of their shared definitions.
