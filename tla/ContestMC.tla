----------------------------- MODULE ContestMC -----------------------------
(* Small contests: every sorter on every short input and on some longer    *)
(* ones that reach the buckets, trees and merges, and a few sorters under  *)
(* the options that fork, repeat, time out and write.                      *)
EXTENDS Contest, Contestants

Words == {<<>>, <<1>>, <<1, 1>>, <<1, 2>>, <<2>>, <<1, 1, 2>>}

ShortInputs == UNION {[1..n -> Words] : n \in 1..3}

LongInputs ==
  {<<a, <<1, 1>>, b, <<1, 1, 2, 1, 1>>, <<1, 1, 2, 1, 2>>, <<1, 1>>, <<2>>, <<1, 1, 1, 1>>,
     <<1, 1, 2, 1>>, a>> : a \in Words, b \in Words}

(* Seven strings, whose halves the merge sorts leave in different places,  *)
(* and fifteen, whose halves are left the other way round.                 *)
UnevenInputs ==
  {<<b, <<1, 1, 2>>, <<1>>, a, <<1, 1, 1>>, <<2>>, a>> : a \in Words, b \in Words}

AbortingInput ==
  [i \in 1..15 |-> IF i % 3 = 0 THEN <<1, 2>> ELSE <<2, 1>>]

(* Twenty strings: blocks of the array come free before the part already   *)
(* written, and groups at the same depth all use their key buffers up.     *)
WideInput ==
  [i \in 1..20 |->
     CASE i \in 1..5 -> <<2>> \o <<<<1, 1>>, <<1, 2>>, <<1>>, <<2, 1>>, <<1, 1, 2>>>>[i]
       [] i \in 11..15 -> <<>>
       [] OTHER -> <<1>> \o <<<<1, 2, 1>>, <<1, 1>>, <<1, 2, 2>>, <<2, 1>>, <<1, 1, 2>>>>[(i % 5) + 1]]

WideSorters ==
  <<"msd_DB", "multikey_block1", "multikey_block2", "multikey_block4", "ng_cradix", "mbm_radix",
    "nilsson_adaptive_msd", "nilsson_forward8", "nilsson_forward16">>

AllSorters ==
  FoldSet(LAMBDA name, list: Append(list, name), <<>>,
          PlainSorters \cup LcpSorters \cup LcpCacheSorters)
SomeSorters == <<"msd_CI2", "lcp_mergesort_2way", "lcp_insertion_sort_cache">>

Plain == [forkrun |-> FALSE, forkdataload |-> FALSE, loadable |-> TRUE, timeout |-> FALSE,
          repeats_inner |-> 1, output |-> FALSE]

Options == {o \in [forkrun : BOOLEAN, forkdataload : BOOLEAN, loadable : BOOLEAN,
                   timeout : BOOLEAN, repeats_inner : {1, 2}, output : BOOLEAN] :
              o.forkdataload => o.forkrun}

MCInstances ==
  [input : ShortInputs, list : {AllSorters}, seed : {1}, opts : {Plain}]
  \cup [input : LongInputs, list : {AllSorters}, seed : {1, 2}, opts : {Plain}]
  \cup [input : LongInputs, list : {AllSorters}, seed : {3},
        opts : {[Plain EXCEPT !.repeats_inner = 2]}]
  \cup [input : UnevenInputs, list : {AllSorters}, seed : {1}, opts : {Plain}]
  \cup [input : {AbortingInput}, list : {<<"mergesort_lcp_2way", "mergesort_2way">>}, seed : {1},
        opts : Options]
  \cup [input : {WideInput}, list : {WideSorters}, seed : {1}, opts : {Plain}]
  \cup [input : {<<<<2>>, <<1, 2>>, <<1, 1>>, <<1, 2>>, <<1>>>>}, list : {SomeSorters}, seed : {1},
        opts : Options]
=============================================================================
