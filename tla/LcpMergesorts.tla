--------------------------- MODULE LcpMergesorts ---------------------------
(***************************************************************************)
(* Merge sorts that keep the LCPs to themselves: Rantala's                 *)
(* (rantala/mergesort_lcp.cpp), stable, unstable and with caches of        *)
(* several characters, and the original one by Ng and Kakehi               *)
(* (sequential/ng-lcpmergesort.cpp).                                       *)
(*                                                                         *)
(* Parts are sequences of entries as in LcpMerging; the code keeps an LCP  *)
(* one element earlier, with the string after.  Rantala's sorts leave the  *)
(* result in the input or in the scratch area, and the caller brings two   *)
(* halves together that ended in different places.  A call of abort() is   *)
(* the result <<>>.                                                        *)
(***************************************************************************)
EXTENDS LcpMerging, Mergesorts

Aborted == <<>>

(* A sorted part with its LCPs, and caches of w characters behind them. *)
Annotated(ss, w) ==
  LET lcp == [i \in DOMAIN ss |-> IF i = 1 THEN 0 ELSE Lcp(ss[i - 1], ss[i])]
  IN [i \in DOMAIN ss |-> Entry(ss[i], lcp[i], Packed(ss[i], lcp[i], w))]

(* The characters two caches share, a terminator not among them. *)
CacheLcp(a, b, w) ==
  LET At(c, k) == (c \div Radix8^(w - 1 - k)) % Radix8
  IN Min({k \in 0..w - 1 : k = w - 1 \/ At(a, k) = 0 \/ At(a, k) # At(b, k)})

----------------------------------------------------------------------------
(* The stable merger is the one of the binary merge sort. *)
merge_lcp_2way(a, b) == MergeWith("strings", a, b, 0)

(* The unstable one takes the heads of both streams when they are equal,   *)
(* but not for the first string.                                           *)
RECURSIVE MergePairs(_, _)
MergePairs(a, b) ==
  LET s == Head(a)
      t == Head(b)
      h == FirstDiff(s.str, t.str, s.lcp)
      r == lcp_compare(s, t)
  IN IF a = <<>> \/ b = <<>> THEN a \o b
     ELSE IF s.lcp = t.lcp /\ Char(s.str, h) = Char(t.str, h)
     THEN <<s, Entry(t.str, h, 0)>> \o MergePairs(Tail(a), Tail(b))
     ELSE IF r.first THEN <<s>> \o MergePairs(Tail(a), <<r.loser>> \o Tail(b))
                     ELSE <<t>> \o MergePairs(<<r.loser>> \o Tail(a), Tail(b))

merge_lcp_2way_unstable(a, b) ==
  LET x == AtDepth(a, 0)
      y == AtDepth(b, 0)
      r == lcp_compare(Head(x), Head(y))
  IN IF r.first THEN <<Head(x)>> \o MergePairs(Tail(x), <<r.loser>> \o Tail(y))
                ELSE <<Head(y)>> \o MergePairs(<<r.loser>> \o Tail(x), Tail(y))

(* With caches of w characters the strings are looked at only behind equal *)
(* caches without a terminator.                                            *)
CachesCompare(a, b, w) ==
  LET h == IF a.cache # b.cache \/ Terminated(a.cache) THEN a.lcp + CacheLcp(a.cache, b.cache, w)
           ELSE FirstDiff(a.str, b.str, a.lcp + w)
  IN IF a.lcp # b.lcp THEN ByLcp(a, b)
     ELSE Played(a, b, h, Packed(a.str, h, w), Packed(b.str, h, w))

RECURSIVE MergeCaches(_, _, _)
MergeCaches(a, b, w) ==
  LET r == CachesCompare(Head(a), Head(b), w)
  IN IF a = <<>> \/ b = <<>> THEN a \o b
     ELSE IF r.first THEN <<Head(a)>> \o MergeCaches(Tail(a), <<r.loser>> \o Tail(b), w)
                     ELSE <<Head(b)>> \o MergeCaches(<<r.loser>> \o Tail(a), Tail(b), w)

merge_cache_lcp_2way(a, b, w) ==
  MergeCaches([a EXCEPT ![1].lcp = 0], [b EXCEPT ![1].lcp = 0], w)

----------------------------------------------------------------------------
(* What a sort leaves: where the sorted strings are, and both areas.       *)
SortedInPlace(place, temp) == [at |-> "place", place |-> place, temp |-> temp]
SortedInTemp(place, temp) == [at |-> "temp", place |-> place, temp |-> temp]
DoesAbort == [at |-> "abort", place |-> Aborted, temp |-> Aborted]

ResultOf(r) == IF r.at = "place" THEN StrsOf(r.place) ELSE StrsOf(r.temp)

(* Small parts are sorted where they are; the scratch area is not written. *)
Base(ss, w) == SortedInPlace(Annotated(Inssort(ss, 0), w), Unsorted(ss))

(* Without caches a right half that ended in the scratch area is copied    *)
(* back, and a left half that ended there while the right did not is an    *)
(* abort(): 63 strings are sorted into the input, 64 into the scratch area *)
(* and 127 are such a pair the other way round.                            *)
RECURSIVE LcpSort(_, _)
LcpSort(kind, ss) ==
  LET half == Len(ss) \div 2
      l == LcpSort(kind, SubSeq(ss, 1, half))
      r == LcpSort(kind, SubSeq(ss, half + 1, Len(ss)))
      right == IF r.at = "temp" THEN r.temp ELSE r.place
      Merge(a, b) == IF kind = "stable" THEN merge_lcp_2way(a, b)
                     ELSE merge_lcp_2way_unstable(a, b)
  IN IF Len(ss) < MergeBase THEN Base(ss, 1)
     ELSE IF <<l.at, r.at>> = <<"temp", "place">> \/ "abort" \in {l.at, r.at} THEN DoesAbort
     ELSE IF l.at = "place" THEN SortedInTemp(l.place \o right, Merge(l.place, right))
     ELSE SortedInPlace(Merge(l.temp, r.temp), l.temp \o r.temp)

mergesort_lcp_2way(ss) == ResultOf(LcpSort("stable", ss))
mergesort_lcp_2way_unstable(ss) == ResultOf(LcpSort("unstable", ss))

(* With caches it is the left half that is copied.  Copied back to the     *)
(* input it is not used: the halves are merged from the scratch area all   *)
(* the same, and of the right half that one holds what was there before    *)
(* its last merge.                                                         *)
RECURSIVE CacheSort(_, _)
CacheSort(ss, w) ==
  LET half == Len(ss) \div 2
      l == CacheSort(SubSeq(ss, 1, half), w)
      r == CacheSort(SubSeq(ss, half + 1, Len(ss)), w)
      left == IF l.at = "temp" THEN l.temp ELSE l.place
  IN IF Len(ss) < MergeBase THEN Base(ss, w)
     ELSE IF l.at = "place" /\ r.at = "place"
     THEN SortedInTemp(l.place \o r.place, merge_cache_lcp_2way(l.place, r.place, w))
     ELSE SortedInPlace(merge_cache_lcp_2way(left, r.temp, w), left \o r.temp)

mergesort_cache1_lcp_2way(ss) == ResultOf(CacheSort(ss, 1))
mergesort_cache2_lcp_2way(ss) == ResultOf(CacheSort(ss, 2))
mergesort_cache4_lcp_2way(ss) == ResultOf(CacheSort(ss, 4))

----------------------------------------------------------------------------
(* The original LCP merge sort splits down to single strings, copies the   *)
(* left half out and merges the two back; the last merge writes strings.   *)
lcpm(a, b) == MergeWith("strings", a, b, 0)

RECURSIVE lcpms_i(_)
lcpms_i(ss) ==
  LET half == Len(ss) \div 2
  IN IF Len(ss) <= 1 THEN Annotated(ss, 1)
     ELSE lcpm(lcpms_i(SubSeq(ss, 1, half)), lcpms_i(SubSeq(ss, half + 1, Len(ss))))

ng_lcpmergesort(ss) == StrsOf(lcpms_i(ss))
=============================================================================
