--------------------------- MODULE MkqsPartition ---------------------------
(***************************************************************************)
(* src/src/parallel/bingmann-parallel_mkqs.hpp: ParallelJob, the parallel  *)
(* ternary partition of parallel multikey quicksort.                       *)
(*                                                                         *)
(* The PartitionJobs of one ParallelJob take blocks of strings from a      *)
(* common source and partition them in place, each in three current blocks *)
(* (lt, eq, gt); full blocks go to three output queues.  When the source   *)
(* is dry the strings left are moved into blocks of their class, with      *)
(* extra blocks where there is no room.  The job that ends last starts the *)
(* recursion on the three queues.                                          *)
(*                                                                         *)
(* A string is an item; its key is how it compares with the pivot.  The    *)
(* source is a queue of blocks of any fill: BlockSourceInput cuts full     *)
(* blocks (and one rest) from the input with an atomic index, the two      *)
(* queue sources pop the blocks that an earlier partition has pushed.      *)
(***************************************************************************)
EXTENDS Integers, SequencesExt

CONSTANTS
  N,                    \* strings
  BlockSize,            \* block_size
  Procs,                \* PartitionJobs of this step
  SeqThreshold          \* ctx.g_sequential_threshold

Item  == 1 .. N
Proc  == 1 .. Procs
Class == {"lt", "eq", "gt"}

VARIABLES
  key,          \* class of each item with regard to the pivot
  source,       \* the blocks not taken yet
  cur,          \* the three PartitionBlocks of each job
  pc,           \* where each job is in partition()
  out,          \* oblk_lt, oblk_eq, oblk_gt
  count,        \* count_lt, count_eq, and the fill pushed to oblk_gt
  pwork,        \* PartitionJobs still working
  child         \* the job started on each queue by partition_finished()

vars == <<key, source, cur, pc, out, count, pwork, child>>

\* A PartitionBlock: does it hold a block, its strings 1..fill, the number of
\* those already partitioned, and is it an extra block of the second phase.
NoBlock == [blk |-> FALSE, str |-> <<>>, pos |-> 0, partial |-> FALSE]
Full(s) == [blk |-> TRUE, str |-> s, pos |-> 0, partial |-> FALSE]

Fill(b)  == Len(b.str)
Src(b)   == b.pos < Fill(b)             \* an unpartitioned string is left
FrontStr(b) == b.str[b.pos + 1]
BackStr(b)  == b.str[Fill(b)]
Pass(b)  == [b EXCEPT !.pos = @ + 1]
Put(b, x) == [b EXCEPT !.str[b.pos + 1] = x]
Grow(b, x) == Pass([b EXCEPT !.str = Append(@, x)])

\* All ways to cut the strings into blocks: where each of the blocks ends.
Cuts == UNION {{e \in [0 .. m -> 0 .. N] :
                  e[0] = 0 /\ e[m] = N /\ \A i \in 1 .. m : e[i] - e[i - 1] \in 1 .. BlockSize}
               : m \in 1 .. N}
Blocks(e) == [i \in DOMAIN e \ {0} |-> [j \in 1 .. e[i] - e[i - 1] |-> e[i - 1] + j]]

Init ==
  /\ key \in [Item -> Class]
  /\ source \in {Blocks(e) : e \in Cuts}
  /\ cur = [p \in Proc |-> [c \in Class |-> NoBlock]]
  /\ pc = [p \in Proc |-> "left"]
  /\ out = [c \in Class |-> {}]
  /\ count = [c \in Class |-> 0]
  /\ pwork = Procs
  /\ child = [c \in Class |-> "none"]

Goto(p, s) == pc' = [pc EXCEPT ![p] = s]

\* The other class than eq that each of the two loops of phase one is about.
Side(p) == IF pc[p] = "left" THEN "lt" ELSE "gt"
Scanning(p) == pc[p] \in {"left", "right"}

\* oblk_push() for each of the blocks bs[c] of the classes in C.
Push(bs, C) ==
  /\ out' = [c \in Class |-> IF c \in C THEN out[c] \cup {bs[c].str} ELSE out[c]]
  /\ count' = [c \in Class |-> IF c \in C THEN count[c] + Fill(bs[c]) ELSE count[c]]

---------------------------------------------------------------------------
(* Phase 1: partition blocks in place *)

\* The block whose strings are used up first: has_src_block() on the side
\* block, then on eq.
Needs(p, c) ==
  /\ Scanning(p)
  /\ ~Src(cur[p][c])
  /\ c = Side(p) \/ (c = "eq" /\ Src(cur[p][Side(p)]))

\* has_src_block(): a new block; the old one goes to its queue.
NewBlock(p, c) ==
  /\ Needs(p, c) /\ source # <<>>
  /\ source' = Tail(source)
  /\ IF cur[p][c].blk THEN Push(cur[p], {c}) ELSE UNCHANGED <<out, count>>
  /\ cur' = [cur EXCEPT ![p][c] = Full(Head(source))]
  /\ UNCHANGED <<key, pc, pwork, child>>

\* partial = (blk == NULL)
MarkPartial(bs) == [c \in Class |-> [bs[c] EXCEPT !.partial = ~bs[c].blk]]

\* has_src_block(): the source is dry.  A full block goes to its queue, one
\* with free space is kept for the second phase.
SourceDry(p, c) ==
  /\ Needs(p, c) /\ source = <<>>
  /\ IF Fill(cur[p][c]) = BlockSize
     THEN /\ Push(cur[p], {c})
          /\ cur' = [cur EXCEPT ![p] = MarkPartial([@ EXCEPT ![c] = NoBlock])]
     ELSE /\ cur' = [cur EXCEPT ![p] = MarkPartial(@)]
          /\ UNCHANGED <<out, count>>
  /\ Goto(p, "flt")
  /\ UNCHANGED <<key, source, pwork, child>>

Ready(p) == Scanning(p) /\ Src(cur[p][Side(p)]) /\ Src(cur[p]["eq"])

\* The front string of the side block is in its class: leave it there.
Keep(p) ==
  LET c == Side(p) IN
  /\ Ready(p) /\ key[FrontStr(cur[p][c])] = c
  /\ cur' = [cur EXCEPT ![p][c] = Pass(@)]
  /\ UNCHANGED <<key, source, pc, out, count, pwork, child>>

\* Mutant: the string swapped in is taken for one of the side's class.
SwapEqual_PassSide(p) ==
  LET b == cur[p][Side(p)]
      e == cur[p]["eq"]
  IN
  /\ Ready(p) /\ key[FrontStr(b)] = "eq"
  /\ cur' = [cur EXCEPT ![p][Side(p)] = Pass(Put(b, FrontStr(e))),
                        ![p]["eq"] = Pass(Put(e, FrontStr(b)))]
  /\ UNCHANGED <<key, source, pc, out, count, pwork, child>>

\* It equals the pivot: swap it with the front of the eq block.
SwapEqual(p) ==
  LET b == cur[p][Side(p)]
      e == cur[p]["eq"]
  IN
  /\ Ready(p) /\ key[FrontStr(b)] = "eq"
  /\ cur' = [cur EXCEPT ![p][Side(p)] = Put(b, FrontStr(e)),
                        ![p]["eq"] = Pass(Put(e, FrontStr(b)))]
  /\ UNCHANGED <<key, source, pc, out, count, pwork, child>>

\* The left loop has found a string above the pivot: look for one below.
ToRight(p) ==
  /\ pc[p] = "left" /\ Ready(p) /\ key[FrontStr(cur[p]["lt"])] = "gt"
  /\ Goto(p, "right")
  /\ UNCHANGED <<key, source, cur, out, count, pwork, child>>

\* The right loop has found it: swap the two.
SwapSides(p) ==
  LET l == cur[p]["lt"]
      g == cur[p]["gt"]
  IN
  /\ pc[p] = "right" /\ Ready(p) /\ key[FrontStr(g)] = "lt"
  /\ cur' = [cur EXCEPT ![p]["lt"] = Pass(Put(l, FrontStr(g))), ![p]["gt"] = Pass(Put(g, FrontStr(l)))]
  /\ Goto(p, "left")
  /\ UNCHANGED <<key, source, out, count, pwork, child>>

---------------------------------------------------------------------------
(* Phase 2: finish_partial() for lt, eq and gt *)

Turn == [s \in {"flt", "feq", "fgt"} |-> CASE s = "flt" -> "lt" [] s = "feq" -> "eq" [] s = "fgt" -> "gt"]
Later == [s \in DOMAIN Turn |-> CASE s = "flt" -> "feq" [] s = "feq" -> "fgt" [] s = "fgt" -> "push"]

\* The class whose strings the job is finishing still has some.
Finishing(p) ==
  /\ pc[p] \in DOMAIN Turn
  /\ LET b == cur[p][Turn[pc[p]]] IN b.blk /\ ~b.partial /\ Src(b)

NextTurn(p) ==
  /\ pc[p] \in DOMAIN Turn /\ ~Finishing(p)
  /\ Goto(p, Later[pc[p]])
  /\ UNCHANGED <<key, source, cur, out, count, pwork, child>>

Good(p) ==
  LET c == Turn[pc[p]] IN
  /\ Finishing(p) /\ key[FrontStr(cur[p][c])] = c
  /\ cur' = [cur EXCEPT ![p][c] = Pass(@)]
  /\ UNCHANGED <<key, source, pc, out, count, pwork, child>>

\* Take the front string out: the last one of the block fills the gap.
Drop(b) == [b EXCEPT !.str = SubSeq([@ EXCEPT ![b.pos + 1] = BackStr(b)], 1, Fill(b) - 1)]

Extra(x) == Grow([blk |-> TRUE, str |-> <<>>, pos |-> 0, partial |-> TRUE], x)

\* Mutant: no new block when the block is full.
Move_NoCheck(p) ==
  LET c == Turn[pc[p]]
      x == FrontStr(cur[p][c])
      d == key[x]
      b == cur[p][d]
  IN
  /\ Finishing(p) /\ d # c
  /\ cur' = [cur EXCEPT ![p][d] = IF ~b.blk THEN Extra(x)
                                  ELSE IF ~b.partial /\ Src(b) THEN Pass(Put(b, x)) ELSE Grow(b, x),
                        ![p][c] = IF ~b.partial /\ Src(b) THEN Put(@, FrontStr(b)) ELSE Drop(@)]
  /\ UNCHANGED <<key, source, pc, out, count, pwork, child>>

\* swap_or_move_to(): swap with an unpartitioned string of the block of its
\* class, or append it there, or start an extra block (check_partial_block).
Move(p) ==
  LET c == Turn[pc[p]]
      x == FrontStr(cur[p][c])
      d == key[x]
      b == cur[p][d]
      full == ~b.blk \/ b.pos >= BlockSize
      swap == ~full /\ ~b.partial /\ Src(b)
  IN
  /\ Finishing(p) /\ d # c
  /\ cur' = [cur EXCEPT
       ![p][d] = IF swap THEN Pass(Put(b, x)) ELSE IF full THEN Extra(x) ELSE Grow(b, x),
       ![p][c] = IF swap THEN Put(@, FrontStr(b)) ELSE Drop(@)]
  /\ IF full /\ b.blk THEN Push(cur[p], {d}) ELSE UNCHANGED <<out, count>>
  /\ UNCHANGED <<key, source, pc, pwork, child>>

---------------------------------------------------------------------------
\* The blocks that are left go to their queues.
PushRest(p) ==
  /\ pc[p] = "push"
  /\ Push(cur[p], {c \in Class : cur[p][c].blk /\ Fill(cur[p][c]) > 0})
  /\ cur' = [cur EXCEPT ![p] = [c \in Class |-> NoBlock]]
  /\ Goto(p, "dec")
  /\ UNCHANGED <<key, source, pwork, child>>

\* partition_finished(): the sizes of the three ranges of the output.
Sizes == [lt |-> count["lt"], eq |-> count["eq"], gt |-> N - (count["lt"] + count["eq"])]
Recurse(c) == IF Sizes[c] = 0 THEN "none"
              ELSE IF Sizes[c] <= SeqThreshold THEN "sequential" ELSE "parallel"

\* Mutant: the recursion starts in the job that ends first.
Decrement_First(p) ==
  /\ pc[p] = "dec"
  /\ pwork' = pwork - 1
  /\ child' = IF pwork = Procs THEN [c \in Class |-> Recurse(c)] ELSE child
  /\ Goto(p, "done")
  /\ UNCHANGED <<key, source, cur, out, count>>

\* --pwork; the last job starts the recursion.
Decrement(p) ==
  /\ pc[p] = "dec"
  /\ pwork' = pwork - 1
  /\ child' = IF pwork = 1 THEN [c \in Class |-> Recurse(c)] ELSE child
  /\ Goto(p, "done")
  /\ UNCHANGED <<key, source, cur, out, count>>

Partition(p) ==
  \/ \E c \in Class : NewBlock(p, c) \/ SourceDry(p, c)
  \/ Keep(p) \/ SwapEqual(p) \/ ToRight(p) \/ SwapSides(p)
  \/ NextTurn(p) \/ Good(p) \/ Move(p) \/ PushRest(p) \/ Decrement(p)

Finished == \A p \in Proc : pc[p] = "done"

Terminated == Finished /\ UNCHANGED vars

Next == (\E p \in Proc : Partition(p)) \/ Terminated

Spec == Init /\ [][Next]_vars

---------------------------------------------------------------------------
(* Properties *)

Held(p) == UNION {ToSet(cur[p][c].str) : c \in Class}

\* A block never holds more strings than it has room for, and its partitioned
\* part never passes its end (the assertions of front_cache, back_cache and
\* swap_or_move_to).
TypeOK ==
  /\ \A p \in Proc, c \in Class :
       LET b == cur[p][c] IN
       /\ Fill(b) <= BlockSize /\ b.pos <= Fill(b)
       /\ (~b.blk => Fill(b) = 0)
       /\ ToSet(b.str) \subseteq Item
  /\ pwork \in 0 .. Procs
  /\ \A c \in Class : count[c] \in 0 .. N

\* Every string is in exactly one place: a block of the source, a current
\* block of one job, or a block of one queue, once.
NothingLost ==
  \A i \in Item :
    LET blocks == {n \in DOMAIN source : i \in ToSet(source[n])}
        jobs   == {p \in Proc : i \in Held(p)}
        queues == {c \in Class : \E s \in out[c] : i \in ToSet(s)}
    IN  Cardinality(blocks) + Cardinality(jobs) + Cardinality(queues) = 1

\* A block in a queue holds strings of that class only, as the self-check of
\* partition_finished() asserts, and the count of the queue is that of the
\* strings in it: count_lt and count_eq place the three ranges of the output.
QueuesExact ==
  \A c \in Class :
    LET items == UNION {ToSet(s) : s \in out[c]}
    IN  /\ \A i \in items : key[i] = c
        /\ count[c] = Cardinality(items)

\* The recursion starts once all strings are in the queues, and it starts a
\* job for every class that has strings.
RecursesOnAll ==
  (\E c \in Class : child[c] # "none") =>
     /\ UNION {ToSet(s) : s \in UNION {out[c] : c \in Class}} = Item
     /\ \A c \in Class : child[c] = "none" <=> \A i \in Item : key[i] # c
=============================================================================
