---------------------------- MODULE Classifiers ----------------------------
(***************************************************************************)
(* Splitters of the string sample sorts and the classifiers that find the  *)
(* bucket of a key: sample_sort_tree_builder.hpp and the classes of        *)
(* sample_sortBSC.hpp, BTC.hpp, BTCT.hpp and BTCE.hpp, and the stand-alone *)
(* searches of sample_sortBS.cpp, BSC.cpp and BT.cpp (sequential/).        *)
(*                                                                         *)
(* Bucket 2 i + 1 holds the keys equal to splitter i, bucket 2 i those     *)
(* between splitters i - 1 and i.  A classifier is a record: tree, the     *)
(* splitters in level order from index 1, splitter, the same in key order  *)
(* from 0, lcp, the characters a splitter shares with the one before it,   *)
(* and done, the mark 0x80 of a splitter that holds the terminator.        *)
(***************************************************************************)
EXTENDS Strings, TLC

CONSTANTS TreeBits,          \* 10 in the code
          OversampleFactor,  \* 2 in the code
          Rollout            \* keys that are classified interleaved, 4 in the code

ASSUME ClassifiersAssumption == /\ TreeBits \in Nat \ {0}
                                /\ OversampleFactor \in Nat \ {0}
                                /\ Rollout \in Nat \ {0}

NumSplitters == 2^TreeBits - 1
Buckets == 0..2 * NumSplitters

----------------------------------------------------------------------------
(* TreeCalculations: a node of the perfect tree by its in-order and by its *)
(* level-order number, both from 1.                                        *)
HighBit(id) == CHOOSE b \in 0..TreeBits : 2^b <= id /\ id < 2^(b + 1)
LowBit(id) == CHOOSE b \in 0..TreeBits : id % 2^b = 0 /\ id % 2^(b + 1) # 0

level_to_preorder(id) ==
  LET hi == TreeBits - 1 - HighBit(id)
  IN ((id * 2^(hi + 1)) % 2^TreeBits) + 2^hi

pre_to_levelorder(id) ==
  LET lo == LowBit(id) + 1
  IN ((id \div 2^lo) % 2^TreeBits) + 2^(TreeBits - lo)

----------------------------------------------------------------------------
(* Every OversampleFactor-th of the sorted samples is a splitter.  This    *)
(* builder marks no splitter as done.                                      *)
TreeBuilderPreorder(samples) ==
  LET factor == Len(samples) \div NumSplitters
      splitter == [i \in 0..NumSplitters - 1 |-> samples[factor \div 2 + i * factor + 1]]
  IN [splitter |-> splitter,
      lcp |-> [i \in 0..NumSplitters |->
                 IF i \in {0, NumSplitters} THEN 0 ELSE KeyLcp(splitter[i - 1], splitter[i])],
      done |-> [i \in 0..NumSplitters |-> FALSE]]

(* Half of the samples left, half right of each node; samples equal to the *)
(* node are taken out of both halves.  The nodes are visited in key order, *)
(* and each is compared with the one visited before it.  A range may be    *)
(* empty: its node then is the sample that follows.                        *)
RECURSIVE BuildTree(_, _, _, _, _)
BuildTree(samples, lo, hi, treeidx, prevkey) ==
  LET mid == lo + (hi - lo) \div 2
      mykey == samples[mid + 1]
      midlo == Min({k \in lo..mid : \A e \in k..mid : samples[e + 1] = mykey})
      midhi == Min({k \in mid..Max({mid, hi}) : k + 1 >= hi \/ samples[k + 1] # mykey})
      Node(prev) == [key |-> mykey, lcp |-> KeyLcp(prev, mykey), done |-> Terminated(mykey)]
      left == BuildTree(samples, lo, midlo, 2 * treeidx, prevkey)
      right == BuildTree(samples, midhi, hi, 2 * treeidx + 1, mykey)
  IN IF 2 * treeidx < NumSplitters
     THEN [tree |-> (treeidx :> mykey) @@ left.tree @@ right.tree,
           nodes |-> left.nodes \o <<Node(Last(left.nodes).key)>> \o right.nodes]
     ELSE [tree |-> treeidx :> mykey, nodes |-> <<Node(prevkey)>>]

(* The constructor clears the LCP of the first splitter, which has none    *)
(* before it, and adds the one of the bucket behind the last.              *)
TreeBuilderLevelOrder(samples) ==
  LET built == BuildTree(samples, 0, Len(samples), 1, 0)
  IN [tree |-> built.tree,
      lcp |-> [i \in 0..NumSplitters |->
                 IF i \in {0, NumSplitters} THEN 0 ELSE built.nodes[i + 1].lcp],
      done |-> [i \in 0..NumSplitters |-> i < NumSplitters /\ built.nodes[i + 1].done]]

TreeBuilderPreAndLevelOrder(samples) ==
  LET built == BuildTree(samples, 0, Len(samples), 1, 0)
  IN [tree |-> built.tree,
      splitter |-> [i \in 0..NumSplitters - 1 |-> built.nodes[i + 1].key],
      lcp |-> [i \in 0..NumSplitters |->
                 IF i \in {0, NumSplitters} THEN 0 ELSE built.nodes[i + 1].lcp],
      done |-> [i \in 0..NumSplitters |-> i < NumSplitters /\ built.nodes[i + 1].done]]

(* sample_sortBT() sorts its splitters into level order itself: each level *)
(* takes those at odd multiples of half the step of the level above.       *)
LevelOrder(splitter) ==
  [t \in 1..NumSplitters |->
     LET level == HighBit(t) IN splitter[2^(TreeBits - 1 - level) * (2 * (t - 2^level) + 1) - 1]]

----------------------------------------------------------------------------
(* The ways down a tree.                                                   *)
Child(tree, key, i) == 2 * i + (IF key <= tree[i] THEN 0 ELSE 1)

(* The bucket of a leaf: the one left of the splitter with its number, or  *)
(* that splitter's own.                                                    *)
LeafBucket(i, splitter, key) ==
  LET leaf == i - (NumSplitters + 1)
  IN 2 * leaf + (IF leaf < NumSplitters /\ splitter[leaf] = key THEN 1 ELSE 0)

RECURSIVE Descend(_, _, _)
Descend(tree, key, i) ==
  IF i <= NumSplitters THEN Descend(tree, key, Child(tree, key, i)) ELSE i

Unrolled(tree, key) ==
  FoldLeft(LAMBDA i, level: Child(tree, key, i), 1, [l \in 1..TreeBits |-> l])

(* Equality is tested in every node; a match is the bucket of the node.    *)
RECURSIVE DescendEqual(_, _, _)
DescendEqual(tree, key, i) ==
  CASE i > NumSplitters -> 2 * (i - (NumSplitters + 1))
    [] i <= NumSplitters /\ key = tree[i] -> 2 * level_to_preorder(i) - 1
    [] OTHER -> DescendEqual(tree, key, Child(tree, key, i))

(* The unrolled version carries the bucket once it has one. *)
UnrolledEqual(tree, key) ==
  LET step == [found |-> FALSE, i |-> 1]
      walk == FoldLeft(LAMBDA w, level:
                CASE w.found -> w
                  [] ~ w.found /\ key = tree[w.i] ->
                       [found |-> TRUE, i |-> 2 * level_to_preorder(w.i) - 1]
                  [] OTHER -> [w EXCEPT !.i = Child(tree, key, w.i)],
                step, [l \in 1..TreeBits |-> l])
  IN IF walk.found THEN walk.i ELSE 2 * (walk.i - (NumSplitters + 1))

RECURSIVE BinSearch(_, _, _, _)
(* Mutant: the upper end is moved one too far. *)
BinSearch_HiSkipped(splitter, key, lo, hi) ==
  LET mid == (lo + hi) \div 2
  IN CASE lo >= hi -> lo
       [] lo < hi /\ key <= splitter[mid] -> BinSearch(splitter, key, lo, mid - 1)
       [] OTHER -> BinSearch(splitter, key, mid + 1, hi)

BinSearch(splitter, key, lo, hi) ==
  IF lo >= hi THEN lo
  ELSE LET mid == (lo + hi) \div 2
       IN IF key <= splitter[mid] THEN BinSearch(splitter, key, lo, mid)
          ELSE BinSearch(splitter, key, mid + 1, hi)

find_bkt_binsearch(splitter, key) ==
  LET lo == BinSearch(splitter, key, 0, NumSplitters)
  IN 2 * lo + (IF lo < NumSplitters /\ splitter[lo] = key THEN 1 ELSE 0)

RECURSIVE BinSearchEqual(_, _, _, _)
BinSearchEqual(splitter, key, lo, hi) ==
  LET mid == (lo + hi) \div 2
  IN CASE lo >= hi -> 2 * lo
       [] lo < hi /\ key = splitter[mid] -> 2 * mid + 1
       [] lo < hi /\ key < splitter[mid] -> BinSearchEqual(splitter, key, lo, mid)
       [] OTHER -> BinSearchEqual(splitter, key, mid + 1, hi)

find_bkt_equal(splitter, key) == BinSearchEqual(splitter, key, 0, NumSplitters)

find_bkt_tree(splitter, tree, key) == LeafBucket(Descend(tree, key, 1), splitter, key)

----------------------------------------------------------------------------
(* The classifier classes: the bucket they find for a key.                 *)
Interleaved(k, n) == k - (k % Rollout) + Rollout < n

ClassifyBinarySearch(c, key) == find_bkt_binsearch(c.splitter, key)

ClassifyTreeSimple(c, key) ==
  LeafBucket(Descend(c.tree, key, 1), c.splitter, key)

(* The assembler loop descends before it compares. *)
ClassifyTreeAssembler(c, key) ==
  LeafBucket(Descend(c.tree, key, Child(c.tree, key, 1)), c.splitter, key)

ClassifyTreeUnroll(c, key) ==
  LeafBucket(Unrolled(c.tree, key), c.splitter, key)

(* Whole groups of Rollout keys are unrolled, and one group or part of it  *)
(* is always left to the simple descent.                                   *)
ClassifyTreeUnrollInterleave(c, key, k, n) ==
  IF Interleaved(k, n) THEN ClassifyTreeUnroll(c, key) ELSE ClassifyTreeSimple(c, key)

(* Without an array in key order a splitter is looked up in the tree. *)
Calculated(c) == [i \in 0..NumSplitters - 1 |-> c.tree[pre_to_levelorder(i + 1)]]

ClassifyTreeCalcSimple(c, key) ==
  LeafBucket(Descend(c.tree, key, 1), Calculated(c), key)

ClassifyTreeCalcUnroll(c, key) ==
  LeafBucket(Unrolled(c.tree, key), Calculated(c), key)

ClassifyTreeCalcUnrollInterleave(c, key, k, n) ==
  IF Interleaved(k, n) THEN ClassifyTreeCalcUnroll(c, key) ELSE ClassifyTreeCalcSimple(c, key)

ClassifyEqual(c, key) == DescendEqual(c.tree, key, 1)

ClassifyEqualUnroll(c, key) == UnrolledEqual(c.tree, key)

(* In assembler the bucket number is computed from the position of the     *)
(* highest bit of the node.                                                *)
AssemblerBucket(i) ==
  LET cx == TreeBits - HighBit(i)
  IN 2 * (((i * 2^cx) % 2^TreeBits) + 2^(cx - 1)) - 1

RECURSIVE DescendAssembler(_, _, _)
DescendAssembler(tree, key, i) ==
  IF key = tree[i] THEN AssemblerBucket(i)
  ELSE LET next == Child(tree, key, i)
       IN IF next < NumSplitters + 1 THEN DescendAssembler(tree, key, next)
          ELSE 2 * (next - (NumSplitters + 1))

ClassifyEqualAssembler(c, key) == DescendAssembler(c.tree, key, 1)

(* Unrolled, it goes down TreeBits steps and leaves them at a match. *)
UnrolledAssembler(tree, key) ==
  LET Step(w, level) == IF w.found \/ key = tree[w.i] THEN [w EXCEPT !.found = TRUE]
                        ELSE [w EXCEPT !.i = Child(tree, key, w.i)]
      walk == FoldLeft(Step, [found |-> FALSE, i |-> 1], [l \in 1..TreeBits |-> l])
  IN IF walk.found THEN AssemblerBucket(walk.i) ELSE 2 * (walk.i - (NumSplitters + 1))

ClassifyEqualUnrollAssembler(c, key) == UnrolledAssembler(c.tree, key)
=============================================================================
