---------------------------- MODULE Contestants ----------------------------
(***************************************************************************)
(* The registered sorters by their names: a plain sorter gets the strings, *)
(* an LCP sorter the LCP array as well, and one with a cache all three.    *)
(***************************************************************************)
EXTENDS SampleSorts, LcpMerging, Mergesorts, LcpMergesorts, MultikeySorts, ClassicSorts

(* sample_sort_generic<Classify> under the names of its classifiers.  BSC  *)
(* and, of the original ones, its two assembler versions are left out.     *)
GenericSampleSorts ==
  {"BTC", "BTCA", "BTCU", "BTCUI", "BTCT", "BTCTU", "BTCTUI", "BTCE", "BTCEA", "BTCEU", "BTCEV"}

EarlySampleSorts == {"BSC_original", "BSCE_original"}

RecursiveSampleSorts == {"RBTCE", "RBTCEA"}

Mergesorters ==
  {"mergesort_2way", "mergesort_3way", "mergesort_4way", "mergesort_2way_unstable",
   "mergesort_3way_unstable", "mergesort_4way_unstable", "mergesort_losertree"}

LcpMergesorters ==
  {"mergesort_lcp_2way", "mergesort_lcp_2way_unstable", "mergesort_cache1_lcp_2way",
   "mergesort_cache2_lcp_2way", "mergesort_cache4_lcp_2way", "ng_lcpmergesort"}

MsdSorters ==
  {"rantala_msd_CE0", "rantala_msd_CE1", "rantala_msd_CE2", "rantala_msd_CE3", "msd_CE4",
   "msd_CE5", "msd_CE6", "msd_CE7", "msd_CI", "msd_CI_adaptive", "msd_D", "msd_D_adaptive",
   "msd_A", "msd_A_adaptive", "msd_A2", "msd_A2_adaptive", "msd_A_lsd", "msd_A_lsd_adaptive",
   "msd_DB"}

MkqsSorters == {"bs_mkqs", "mkqs_generic"}

ClassicSorters ==
  {"mbm_radix", "nilsson_adaptive_msd", "nilsson_forward8", "nilsson_forward16",
   "ng_cradix", "ng_rantala_cradix"}

(* Rantala's, and the characters each compares at once. *)
SimdSorters == [multikey_simd1 |-> 1, multikey_simd2 |-> 2, multikey_simd4 |-> 4]

DynamicSorters ==
  [multikey_dynamic1 |-> 1, multikey_dynamic2 |-> 2, multikey_dynamic4 |-> 4]

BlockSorters == [multikey_block1 |-> 1, multikey_block2 |-> 2, multikey_block4 |-> 4]

CacheSorters == [multikey_cache4 |-> CachedBytes, multikey_cache8 |-> 2 * CachedBytes]

MultipivotSorters == [multikey_multipivot1 |-> 1, multikey_multipivot2 |-> 2,
                      multikey_multipivot4 |-> 4]

PlainSorters ==
  {"insertion_sort", "insertion_sort_gen",
   "msd_CE0", "msd_CE0_gen", "msd_CE2", "msd_CE3", "msd_CI0", "msd_CI2", "msd_CI2_gen",
   "msd_CI3", "msd_CE2_sb", "msd_CE3_sb", "msd_CI2_sb", "msd_CI3_sb", "BS", "BT"}
  \cup GenericSampleSorts \cup EarlySampleSorts \cup RecursiveSampleSorts
  \cup Mergesorters \cup LcpMergesorters \cup MsdSorters \cup MkqsSorters \cup ClassicSorters
  \cup DOMAIN SimdSorters \cup DOMAIN DynamicSorters \cup DOMAIN BlockSorters
  \cup DOMAIN CacheSorters \cup DOMAIN MultipivotSorters

LcpSorters ==
  {"lcp_insertion_sort", "lcp_insertion_sort_pseudocode", "lcp_mergesort_binary", "lcp_mergesort_binary_opt",
   "lcp_mergesort_2way", "lcp_mergesort_4way"}

LcpCacheSorters ==
  {"lcp_insertion_sort_cache", "lcp_mergesort_binary_cache_opt",
   "lcp_mergesort_cache_2way", "lcp_mergesort_cache_4way"}

Arrays == Seq([str : Seq(1..MaxChar), lcp : Nat, cache : Nat])

RunFunc ==
 [name \in PlainSorters, ss \in Seq(Seq(1..MaxChar)), seed \in Nat |->
  CASE name = "insertion_sort" -> Inssort(ss, 0)
    [] name = "insertion_sort_gen" -> InssortGeneric(ss, 0)
    [] name = "msd_CE0" -> MsdCE0(ss)
    [] name = "msd_CE0_gen" -> MsdCE0Generic(ss, 0)
    [] name = "msd_CE2" -> MsdCE2(ss, 0)
    [] name = "msd_CE3" -> MsdCE3(ss, 0)
    [] name = "msd_CI0" -> MsdCI0(ss)
    [] name = "msd_CI2" -> MsdCI2(ss, 0)
    [] name = "msd_CI2_gen" -> MsdCI2Generic(ss, 0)
    [] name = "msd_CI3" -> MsdCI3(ss, 0)
    [] name = "msd_CE2_sb" -> MsdCE2sb(ss)
    [] name = "msd_CE3_sb" -> MsdCE3sb(ss)
    [] name = "msd_CI2_sb" -> MsdCI2sb(ss)
    [] name = "msd_CI3_sb" -> MsdCI3sb(ss)
    [] name = "BS" -> SampleSortBS(ss, seed)
    [] name = "BT" -> SampleSortBT(ss, seed)
    [] name \in EarlySampleSorts -> SampleSortBSC(name, ss, seed)
    [] name \in GenericSampleSorts -> SampleSortGeneric(name, ss, 0, seed)
    [] name \in RecursiveSampleSorts -> SampleSortRBTCE(name, ss, 0, seed)
    [] name = "mergesort_2way" -> mergesort_2way(ss)
    [] name = "mergesort_3way" -> mergesort_3way(ss)
    [] name = "mergesort_4way" -> mergesort_4way(ss)
    [] name = "mergesort_2way_unstable" -> mergesort_2way_unstable(ss)
    [] name = "mergesort_3way_unstable" -> mergesort_3way_unstable(ss)
    [] name = "mergesort_4way_unstable" -> mergesort_4way_unstable(ss)
    [] name = "mergesort_losertree" -> mergesort_losertree(ss)
    [] name = "mergesort_lcp_2way" -> mergesort_lcp_2way(ss)
    [] name = "mergesort_lcp_2way_unstable" -> mergesort_lcp_2way_unstable(ss)
    [] name = "mergesort_cache1_lcp_2way" -> mergesort_cache1_lcp_2way(ss)
    [] name = "mergesort_cache2_lcp_2way" -> mergesort_cache2_lcp_2way(ss)
    [] name = "mergesort_cache4_lcp_2way" -> mergesort_cache4_lcp_2way(ss)
    [] name = "ng_lcpmergesort" -> ng_lcpmergesort(ss)
    [] name = "rantala_msd_CE0" -> msd_CE0(ss)
    [] name = "rantala_msd_CE1" -> msd_CE1(ss)
    [] name = "rantala_msd_CE2" -> msd_CE2(ss)
    [] name = "rantala_msd_CE3" -> msd_CE3(ss)
    [] name = "msd_CE4" -> msd_CE4(ss)
    [] name = "msd_CE5" -> msd_CE5(ss)
    [] name = "msd_CE6" -> msd_CE6(ss)
    [] name = "msd_CE7" -> msd_CE7(ss)
    [] name = "msd_CI" -> msd_ci(ss)
    [] name = "msd_CI_adaptive" -> msd_ci_adaptive(ss)
    [] name = "msd_D" -> msd_D(ss)
    [] name = "msd_D_adaptive" -> msd_D_adaptive(ss)
    [] name = "msd_A" -> MsdA(ss)
    [] name = "msd_A_adaptive" -> MsdA_adaptive(ss)
    [] name = "msd_A2" -> msd_A2(ss)
    [] name = "msd_A2_adaptive" -> msd_A2_adaptive(ss)
    [] name = "msd_A_lsd" -> msd_A_lsd(ss)
    [] name = "msd_A_lsd_adaptive" -> msd_A_lsd_adaptive(ss)
    [] name = "msd_DB" -> msd_DB(ss, 0)
    [] name = "bs_mkqs" -> ssort2(ss, 0)
    [] name = "mkqs_generic" -> mkqs_generic(ss, 0)
    [] name = "mbm_radix" -> mbm_radix(ss)
    [] name = "nilsson_adaptive_msd" -> nilsson_adaptive_msd(ss)
    [] name = "nilsson_forward8" -> nilsson_forward(ss, 1)
    [] name = "nilsson_forward16" -> nilsson_forward(ss, 2)
    [] name \in {"ng_cradix", "ng_rantala_cradix"} -> cradix(ss)
    [] name \in DOMAIN SimdSorters -> multikey_simd(ss, SimdSorters[name])
    [] name \in DOMAIN DynamicSorters -> multikey_dynamic(ss, DynamicSorters[name])
    [] name \in DOMAIN BlockSorters -> multikey_block(ss, BlockSorters[name])
    [] name \in DOMAIN CacheSorters -> multikey_cache(ss, CacheSorters[name])
    [] name \in DOMAIN MultipivotSorters ->
         multikey_multipivot(ss, 0, MultipivotSorters[name], seed)]

RunLcpFunc ==
 [name \in LcpSorters, p \in Arrays |->
  CASE name = "lcp_insertion_sort" -> lcp_insertion_sort(p, 0)
    [] name = "lcp_insertion_sort_pseudocode" -> lcp_insertion_sort_pseudocode(p, 0)
    [] name = "lcp_mergesort_binary" -> lcp_mergesort_binary(p)
    [] name = "lcp_mergesort_binary_opt" -> lcp_mergesort_binary_opt(p)
    [] name = "lcp_mergesort_2way" -> lcp_mergesort_kway(2, p)
    [] name = "lcp_mergesort_4way" -> lcp_mergesort_kway(4, p)]

RunLcpCacheFunc ==
 [name \in LcpCacheSorters, p \in Arrays |->
  CASE name = "lcp_insertion_sort_cache" -> lcp_insertion_sort(p, 0)
    [] name = "lcp_mergesort_binary_cache_opt" -> lcp_mergesort_binary_cache_opt(p)
    [] name = "lcp_mergesort_cache_2way" -> lcp_mergesort_cache_kway(2, p)
    [] name = "lcp_mergesort_cache_4way" -> lcp_mergesort_cache_kway(4, p)]
=============================================================================
