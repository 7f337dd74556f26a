---------------------------- MODULE ParallelMkqs ----------------------------
(***************************************************************************)
(* src/src/parallel/bingmann-parallel_mkqs.hpp: one sort from its first    *)
(* block to its last string, MkqsPartition and MkqsSequential composed.    *)
(*                                                                         *)
(* The ParallelJob partitions the strings in blocks; the PartitionJob that *)
(* ends last hands each of the three queues to a job: a SequentialJob, or, *)
(* when it holds more strings than the threshold, a new ParallelJob.  The  *)
(* threshold is N - 1 here, so the latter is the queue of the equal        *)
(* strings when it holds all of them, and the new step has N strings, too. *)
(***************************************************************************)
EXTENDS MkqsSequential

CONSTANTS
  BlockSize,            \* block_size
  Procs                 \* PartitionJobs of a step

ASSUME PartitionAssumption ==
  BlockSize \in Nat \ {0} /\ Procs \in Nat \ {0} /\ MaxDepth # 0

VARIABLES
  key, source, cur, pc, out, count, pwork, child,    \* of the ParallelJob
  depth                 \* its depth in keys, or -1 when it is deleted

parallel == <<key, source, cur, pc, out, count, pwork, child>>
allvars == <<vars, parallel, depth>>

P == INSTANCE MkqsPartition WITH SeqThreshold <- N - 1

Alive == depth >= 0

\* The pivot is the key of one of the strings.  Bound: some strings differ
\* before MaxDepth.
PivotOf(k, d) ==
  /\ \E i \in P!Item : k[i] = "eq"
  /\ d = MaxDepth - 1 => \E i \in P!Item : k[i] # "eq"

\* bingmann_parallel_mkqs: the first job is a ParallelJob.
ParallelInit ==
  /\ jobs = {}
  /\ thr = [t \in Thread |-> Idle]
  /\ sorted = {}
  /\ copied = [i \in Position |-> 0]
  /\ P!Init
  /\ depth = 0 /\ PivotOf(key, depth)

PartitionStep(p) ==
  /\ Alive /\ P!Partition(p)
  /\ UNCHANGED <<vars, depth>>

\* The range and the depth of the job that gets the queue of class c.
QueueJob(c) ==
  LET n == P!Sizes IN
  CASE c = "lt" -> [lo |-> 0, hi |-> n["lt"], depth |-> depth]
    [] c = "eq" -> [lo |-> n["lt"], hi |-> n["lt"] + n["eq"], depth |-> depth + 1]
    [] OTHER    -> [lo |-> n["lt"] + n["eq"], hi |-> N, depth |-> depth]

Queued(how) == {c \in P!Class : child[c] = how}

\* Mutant: the equal strings get the first range.
PartitionFinished_EqualFirst ==
  /\ Alive /\ P!Finished /\ Queued("parallel") = {}
  /\ jobs' = {[QueueJob(c) EXCEPT !.lo = IF c = "eq" THEN 0 ELSE @] : c \in Queued("sequential")}
  /\ depth' = -1
  /\ key' = [i \in P!Item |-> "eq"] /\ out' = [c \in P!Class |-> {}] /\ count' = [c \in P!Class |-> 0]
  /\ child' = [c \in P!Class |-> "none"]
  /\ UNCHANGED <<thr, sorted, copied, source, cur, pc, pwork>>

\* partition_finished(): sequential jobs for the queues, then delete this.
PartitionFinished ==
  /\ Alive /\ P!Finished /\ Queued("parallel") = {}
  /\ jobs' = {QueueJob(c) : c \in Queued("sequential")}
  /\ depth' = -1
  /\ key' = [i \in P!Item |-> "eq"] /\ out' = [c \in P!Class |-> {}] /\ count' = [c \in P!Class |-> 0]
  /\ child' = [c \in P!Class |-> "none"]
  /\ UNCHANGED <<thr, sorted, copied, source, cur, pc, pwork>>

\* partition_finished(): all strings agree in this key.  The blocks of the
\* queue are the source of a new step one key deeper; its strings are named
\* anew.
PartitionAgain ==
  /\ Alive /\ P!Finished /\ Queued("parallel") # {}
  /\ depth' = depth + 1
  /\ source' \in {P!Blocks(e) : e \in P!Cuts}
  /\ \A m \in 1 .. BlockSize : Cardinality({n \in DOMAIN source' : Len(source'[n]) = m})
                               = Cardinality({b \in out["eq"] : Len(b) = m})
  /\ key' \in {k \in [P!Item -> P!Class] : PivotOf(k, depth + 1)}
  /\ cur' = [p \in P!Proc |-> [c \in P!Class |-> P!NoBlock]]
  /\ pc' = [p \in P!Proc |-> "left"]
  /\ out' = [c \in P!Class |-> {}]
  /\ count' = [c \in P!Class |-> 0]
  /\ pwork' = Procs
  /\ child' = [c \in P!Class |-> "none"]
  /\ UNCHANGED vars

SequentialStep(t) == (Work(t) \/ Share(t)) /\ UNCHANGED <<parallel, depth>>

Sorted == ~Alive /\ Quiet

ParallelNext ==
  \/ \E p \in P!Proc : PartitionStep(p)
  \/ PartitionFinished \/ PartitionAgain
  \/ \E t \in Thread : SequentialStep(t)
  \/ Sorted /\ UNCHANGED allvars

ParallelSpec == ParallelInit /\ [][ParallelNext]_allvars

\* The threads run what is queued; sharing is never owed.
ParallelFairSpec ==
  /\ ParallelSpec
  /\ \A p \in P!Proc : WF_allvars(PartitionStep(p))
  /\ WF_allvars(PartitionFinished) /\ WF_allvars(PartitionAgain)
  /\ \A t \in Thread : WF_allvars(Work(t) /\ UNCHANGED <<parallel, depth>>)
----------------------------------------------------------------------------
(* Properties *)

\* Blocks are never overfull and cursors never pass their end; jobs and
\* stacks stay inside the strings.
TypesOK == TypeOK /\ P!TypeOK

\* From the first block to the output every string is in one place: a block of
\* the source, a block in work, a queue; then a job, a thread, or the output.
OnePlace == IF Alive THEN P!NothingLost ELSE OneOwner

\* A queue holds strings of its class only, and its count is exact: the counts
\* place the three ranges of the output.
QueuesExact == P!QueuesExact

\* The recursion starts once all strings are in the queues, for every class
\* that has some.
RecursesOnAll == P!RecursesOnAll

\* When the last job ends every string is in the output, once.
OutputComplete == Sorted => AllCopied

\* The sort ends however often its work is given away.
MkqsEnds == <>[]Sorted
=============================================================================
