---------------------------- MODULE SampleSorts ----------------------------
(***************************************************************************)
(* The sequential string sample sorts of sequential/bingmann-sample_sort*: *)
(* the generic one with any classifier, the early ones without a bucket    *)
(* cache, and the one that classifies by a tree of splitter trees (RBTCE). *)
(*                                                                         *)
(* rng() % n is seeded by an address, so any string may be a sample; the   *)
(* argument seed stands for the generator's stream.                        *)
(***************************************************************************)
EXTENDS Classifiers, RadixSorts

CONSTANT SmallSort   \* fewer strings go to the radix sort, 32 * 1024 in the code

ASSUME SampleSortsAssumption == SmallSort \in Nat \ {0}

SampleSize == OversampleFactor * NumSplitters

Pick(ss, seed) == [i \in 1..SampleSize |-> 1 + ((i * seed + seed \div 2) % Len(ss))]

SortedKeys(keys) == SortSeq(keys, LAMBDA a, b: a < b)

Samples(ss, d, seed) ==
  LET p == Pick(ss, seed) IN SortedKeys(Map(LAMBDA i: Key(ss[i], d), p))

sample_sort_small_sort(ss, d) == MsdCI2(ss, d)

----------------------------------------------------------------------------
Build(kind, samples) ==
  CASE kind = "BSC" -> TreeBuilderPreorder(samples)
    [] kind \in {"BTC", "BTCA", "BTCU", "BTCUI"} -> TreeBuilderPreAndLevelOrder(samples)
    [] OTHER -> TreeBuilderLevelOrder(samples)

(* The k-th of n keys, counted from 0. *)
Classify(kind, c, key, k, n) ==
  CASE kind = "BSC" -> ClassifyBinarySearch(c, key)
    [] kind = "BTC" -> ClassifyTreeSimple(c, key)
    [] kind = "BTCA" -> ClassifyTreeAssembler(c, key)
    [] kind = "BTCU" -> ClassifyTreeUnroll(c, key)
    [] kind = "BTCUI" -> ClassifyTreeUnrollInterleave(c, key, k, n)
    [] kind = "BTCT" -> ClassifyTreeCalcSimple(c, key)
    [] kind = "BTCTU" -> ClassifyTreeCalcUnroll(c, key)
    [] kind = "BTCTUI" -> ClassifyTreeCalcUnrollInterleave(c, key, k, n)
    [] kind = "BTCE" -> ClassifyEqual(c, key)
    [] kind = "BTCEA" -> ClassifyEqualAssembler(c, key)
    [] kind = "BTCEU" -> ClassifyEqualUnrollAssembler(c, key)
    [] kind = "BTCEV" -> ClassifyEqualUnroll(c, key)

RECURSIVE ClassifyAll(_, _, _, _, _)
ClassifyAll(kind, c, ss, d, k) ==
  IF k = Len(ss) THEN <<>>
  ELSE <<Classify(kind, c, Key(ss[k + 1], d), k, Len(ss))>> \o ClassifyAll(kind, c, ss, d, k + 1)

(* Steps 4 and 5: the strings are permuted in place; a bucket of keys less *)
(* than a splitter is sorted from the characters it shares with the        *)
(* splitter before on, an equal bucket from the next key on unless its key *)
(* holds the terminator, the last bucket again from the same depth.        *)
RECURSIVE SampleSortGeneric(_, _, _, _)
SampleSortGeneric(kind, ss, d, seed) ==
  IF Len(ss) < SmallSort THEN sample_sort_small_sort(ss, d)
  ELSE LET c == Build(kind, Samples(ss, d, seed))
           bktcache == ClassifyAll(kind, c, ss, d, 0)
           moved == PermuteInPlace(ss, bktcache)
           DepthOf(b) == CASE b = 2 * NumSplitters -> d
                           [] b < 2 * NumSplitters /\ b % 2 = 0 -> d + c.lcp[b \div 2]
                           [] OTHER -> d + KeyWidth
           SortBucket(b) ==
             LET own == Bucket(moved, bktcache, b)
             IN IF Len(own) <= 1 \/ (b % 2 = 1 /\ c.done[b \div 2]) THEN own
                ELSE SampleSortGeneric(kind, own, DepthOf(b), seed)
       IN FlattenSeq([b \in 1..2 * NumSplitters + 1 |-> SortBucket(b - 1)])

(* The early variants take their splitters as TreeBuilderPreorder does and *)
(* look at the splitter itself for the terminator.  Without a cache the    *)
(* bucket of a string is searched again when the string is moved.          *)
Search(kind, splitter, key) ==
  CASE kind \in {"BS", "BSC_original", "BSCA_original"} -> find_bkt_binsearch(splitter, key)
    [] kind \in {"BSCE_original", "BSCEA_original"} -> find_bkt_equal(splitter, key)
    [] kind = "BT" -> find_bkt_tree(splitter, LevelOrder(splitter), key)

RECURSIVE SearchAll(_, _, _, _)
SearchAll(kind, splitter, ss, d) ==
  IF ss = <<>> THEN <<>>
  ELSE <<Search(kind, splitter, Key(Head(ss), d))>> \o SearchAll(kind, splitter, Tail(ss), d)

RECURSIVE SampleSortEarly(_, _, _, _)
SampleSortEarly(kind, ss, d, seed) ==
  IF Len(ss) < SmallSort THEN sample_sort_small_sort(ss, d)
  ELSE LET c == TreeBuilderPreorder(Samples(ss, d, seed))
           bkt == SearchAll(kind, c.splitter, ss, d)
           moved == PermuteInPlace(ss, bkt)
           DepthOf(b) == CASE b = 2 * NumSplitters -> d
                           [] b < 2 * NumSplitters /\ b % 2 = 0 -> d + c.lcp[b \div 2]
                           [] OTHER -> d + KeyWidth
           SortBucket(b) ==
             LET own == Bucket(moved, bkt, b)
             IN IF Len(own) <= 1 \/ (b % 2 = 1 /\ Terminated(c.splitter[b \div 2])) THEN own
                ELSE SampleSortEarly(kind, own, DepthOf(b), seed)
       IN FlattenSeq([b \in 1..2 * NumSplitters + 1 |-> SortBucket(b - 1)])

SampleSortBS(ss, seed) == SampleSortEarly("BS", ss, 0, seed)
SampleSortBSC(kind, ss, seed) == SampleSortEarly(kind, ss, 0, seed)
SampleSortBT(ss, seed) == SampleSortEarly("BT", ss, 0, seed)

----------------------------------------------------------------------------
(* RBTCE.  A splitter that enough samples are equal to gets a tree of its  *)
(* own for the key that follows.  A sample is a pair of its key and the    *)
(* string it is from; the list of trees grows while the nodes are visited. *)
Pairs(ss, p, d) ==
  LET Less(a, b) == a.key < b.key \/ (a.key = b.key /\ a.str < b.str)
  IN SortSeq(Map(LAMBDA i: [key |-> Key(ss[i], d), str |-> i], p), Less)

NoTree == [tree |-> <<>>, lcp |-> <<>>, done |-> <<>>, subtree |-> <<>>]

(* A node is added to tree t of trees: its LCP with the node before, its   *)
(* mark, and the number of the tree that is built for its equal samples,   *)
(* 0 if there is none.  With a subtree the equal samples are given their   *)
(* next keys and sorted by them.                                           *)
RECURSIVE BuildNodes(_, _, _, _, _, _, _, _, _)
KeyNode(trees, t, ss, d, samples, prevkey, mykey, midlo, midhi) ==
  LET equal == Slice(samples, midlo, midhi - midlo)
      grows == /\ midhi - midlo >= NumSplitters \div 2
               /\ ~ Terminated(mykey)
               /\ Len(trees) < 255
      new == Len(trees)
      deeper == Pairs(ss, Map(LAMBDA e: e.str, equal), d + KeyWidth)
      noted == [trees EXCEPT ![t + 1].lcp = Append(@, KeyLcp(prevkey, mykey)),
                             ![t + 1].done = Append(@, Terminated(mykey)),
                             ![t + 1].subtree = Append(@, IF grows THEN new ELSE 0)]
  IN IF grows
     THEN BuildNodes(Append(noted, NoTree), new, ss, d + KeyWidth, deeper, 0, Len(deeper), 1, 0).trees
     ELSE noted

BuildNodes(trees, t, ss, d, samples, lo, hi, treeidx, prevkey) ==
  LET mid == lo + (hi - lo) \div 2
      mykey == samples[mid + 1].key
      midlo == Min({k \in lo..mid : \A e \in k..mid : samples[e + 1].key = mykey})
      midhi == Min({k \in mid..Max({mid, hi}) : k + 1 >= hi \/ samples[k + 1].key # mykey})
      entered == [trees EXCEPT ![t + 1].tree = (treeidx :> mykey) @@ @]
      left == BuildNodes(entered, t, ss, d, samples, lo, midlo, 2 * treeidx, prevkey)
  IN IF 2 * treeidx < NumSplitters
     THEN BuildNodes(KeyNode(left.trees, t, ss, d, samples, left.last, mykey, midlo, midhi),
                     t, ss, d, samples, midhi, hi, 2 * treeidx + 1, mykey)
     ELSE [trees |-> KeyNode(entered, t, ss, d, samples, prevkey, mykey, midlo, midhi),
           last |-> mykey]

SplitterTrees(ss, d, seed) ==
  LET samples == Pairs(ss, Pick(ss, seed), d)
  IN BuildNodes(<<NoTree>>, 0, ss, d, samples, 0, Len(samples), 1, 0).trees

(* The tree number a string's path leads to and the bucket there, one for  *)
(* every tree it passes: an equal bucket with a subtree goes on in it.     *)
FindTree(kind, tree, key) ==
  IF kind = "RBTCEA" THEN DescendAssembler(tree, key, 1) ELSE DescendEqual(tree, key, 1)

SubtreeOf(tree, b) == IF b % 2 = 1 THEN tree.subtree[b \div 2 + 1] ELSE 0

RECURSIVE Path(_, _, _, _, _)
Path(kind, trees, t, s, d) ==
  LET b == FindTree(kind, trees[t + 1].tree, Key(s, d))
      sub == SubtreeOf(trees[t + 1], b)
  IN <<b>> \o (IF sub = 0 THEN <<>> ELSE Path(kind, trees, sub, s, d + KeyWidth))

(* Out of place, tree by tree: level is the trees passed so far, so a      *)
(* string's bucket in this tree is the next element of its path.           *)
RECURSIVE RecursivePermute(_, _, _, _)
RecursivePermute(trees, t, items, level) ==
  LET bktcache == Map(LAMBDA e: e.path[level], items)
      moved == Distribute(items, bktcache)
      Inner(b) == LET own == Bucket(moved, bktcache, b)
                      sub == SubtreeOf(trees[t + 1], b)
                  IN IF sub = 0 THEN own ELSE RecursivePermute(trees, sub, own, level + 1)
  IN FlattenSeq([b \in 1..2 * NumSplitters + 1 |-> Inner(b - 1)])

RECURSIVE SampleSortRBTCE(_, _, _, _), RecursiveSort(_, _, _, _, _, _, _)
RecursiveSort(kind, trees, t, items, level, d, seed) ==
  LET tree == trees[t + 1]
      bktcache == Map(LAMBDA e: e.path[level], items)
      SortBucket(b) ==
        LET own == Bucket(items, bktcache, b)
            strs == Map(LAMBDA e: e.str, own)
            sub == SubtreeOf(tree, b)
        IN CASE Len(own) <= 1 -> strs
             [] Len(own) > 1 /\ b = 2 * NumSplitters -> SampleSortRBTCE(kind, strs, d, seed)
             [] Len(own) > 1 /\ b < 2 * NumSplitters /\ b % 2 = 0 ->
                  SampleSortRBTCE(kind, strs, d + (IF b = 0 THEN 0 ELSE tree.lcp[b \div 2 + 1]), seed)
             [] OTHER -> CASE tree.done[b \div 2 + 1] -> strs
                           [] ~ tree.done[b \div 2 + 1] /\ sub # 0 ->
                                RecursiveSort(kind, trees, sub, own, level + 1, d + KeyWidth, seed)
                           [] OTHER -> SampleSortRBTCE(kind, strs, d + KeyWidth, seed)
  IN FlattenSeq([b \in 1..2 * NumSplitters + 1 |-> SortBucket(b - 1)])

SampleSortRBTCE(kind, ss, d, seed) ==
  IF Len(ss) < SmallSort THEN sample_sort_small_sort(ss, d)
  ELSE LET trees == SplitterTrees(ss, d, seed)
           items == Map(LAMBDA s: [str |-> s, path |-> Path(kind, trees, 0, s, d)], ss)
       IN RecursiveSort(kind, trees, 0, RecursivePermute(trees, 0, items, 1), 1, d, seed)
=============================================================================
