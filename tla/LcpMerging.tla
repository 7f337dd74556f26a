----------------------------- MODULE LcpMerging -----------------------------
(***************************************************************************)
(* The sorters that carry LCPs along: LCP insertion sort                   *)
(* (sequential/bingmann-lcp_inssort.hpp), binary LCP merge sort            *)
(* (bingmann-lcp_mergesort_binary.hpp) and K-way LCP merge sort            *)
(* (bingmann-lcp_mergesort_kway.hpp) over the two loser trees of           *)
(* bingmann-lcp_losertree.hpp.                                             *)
(*                                                                         *)
(* A part of the arrays is a sequence of entries: a string, its LCP with   *)
(* the string before it and the character behind that LCP.  The first LCP  *)
(* of a part means nothing until the part is merged.  A stream being       *)
(* merged is the entries left of it, and the LCP and the character a merge *)
(* keeps for the head of a stream are those of its first entry.            *)
(***************************************************************************)
EXTENDS Strings

CONSTANTS LcpBase,        \* parts this small are insertion sorted, 32 in the code
          UnsetLcp,       \* what the runner puts into the LCP array, and
          KeptLcp         \* into its element 0, which must stay as it is: 42

ASSUME LcpAssumption == LcpBase \in Nat \ {0}

Entry(s, lcp, c) == [str |-> s, lcp |-> lcp, cache |-> c]

Unsorted(ss) ==
  [i \in DOMAIN ss |-> Entry(ss[i], IF i = 1 THEN KeptLcp ELSE UnsetLcp, 0)]

StrsOf(p) == Map(LAMBDA e: e.str, p)
LcpsOf(p) == Map(LAMBDA e: e.lcp, p)
CacheOf(p) == Map(LAMBDA e: e.cache, p)

----------------------------------------------------------------------------
(* LCP insertion sort.  x goes to a place at or below i; h is its LCP with *)
(* the string after the free place.  A string with a smaller LCP ends the  *)
(* search, one with a larger LCP is passed without a look, and only one    *)
(* with the same LCP is compared, from there on.                           *)
RECURSIVE LcpInsert(_, _, _, _)
LcpInsert(p, x, i, h) ==
  LET cur == p[i - 1]
      e == FirstDiff(x, cur.str, h)
      compared == p[i].lcp = h
      SetNext(q, lcp) == IF i + 1 \in DOMAIN p THEN [q EXCEPT ![i + 1].lcp = lcp] ELSE q
      Place(q) ==
        LET r == SetNext([q EXCEPT ![i].str = x], h)
        IN IF i + 1 \in DOMAIN p
           THEN [r EXCEPT ![i + 1].cache = Char(r[i + 1].str, h)] ELSE r
  IN IF i = 1 \/ p[i].lcp < h THEN Place(p)
     ELSE IF compared /\ Char(x, e) >= Char(cur.str, e)
     THEN Place([p EXCEPT ![i].lcp = e, ![i].cache = Char(x, e)])
     ELSE LcpInsert(SetNext([p EXCEPT ![i].str = cur.str, ![i].cache = cur.cache],
                            p[i].lcp),
                    x, i - 1, IF compared THEN e ELSE h)

RECURSIVE LcpInsertFrom(_, _, _)
LcpInsertFrom(p, j, depth) ==
  IF j > Len(p) THEN p ELSE LcpInsertFrom(LcpInsert(p, p[j].str, j, depth), j + 1, depth)

lcp_insertion_sort(p, depth) == IF Len(p) <= 1 THEN p ELSE LcpInsertFrom(p, 1, depth)

(* The version close to the pseudocode has one loop for all strings and    *)
(* decides about the string before the free place first.                   *)
RECURSIVE PseudoInsert(_, _, _, _)
PseudoInsert(p, snew, i, h) ==
  LET s2 == p[i - 1].str
      e == FirstDiff(snew, s2, h)
      SetNext(q, lcp) == IF i < Len(p) THEN [q EXCEPT ![i + 1].lcp = lcp] ELSE q
      Place(q) == SetNext([q EXCEPT ![i].str = snew], h)
      Shift(lcp) == PseudoInsert(SetNext([p EXCEPT ![i].str = s2], p[i].lcp), snew, i - 1, lcp)
  IN CASE i = 1 \/ p[i].lcp < h -> Place(p)
       [] i > 1 /\ p[i].lcp > h -> Shift(h)
       [] OTHER -> IF Char(snew, e) < Char(s2, e) THEN Shift(e)
                   ELSE Place([p EXCEPT ![i].lcp = e])

RECURSIVE PseudoInsertFrom(_, _, _)
PseudoInsertFrom(p, j, depth) ==
  IF j > Len(p) THEN p ELSE PseudoInsertFrom(PseudoInsert(p, p[j].str, j, depth), j + 1, depth)

lcp_insertion_sort_pseudocode(p, depth) == PseudoInsertFrom(p, 1, depth)

----------------------------------------------------------------------------
(* Mutant: the loser keeps the LCP it came with. *)
Played_LcpKept(a, b, h, ca, cb) ==
  IF ca <= cb THEN [first |-> TRUE, loser |-> [b EXCEPT !.cache = cb]]
              ELSE [first |-> FALSE, loser |-> [a EXCEPT !.cache = ca]]

(* One comparison of two heads whose LCPs are with the same string: the    *)
(* larger LCP is the smaller string; with equal ones the characters are    *)
(* compared, and the loser's LCP is then the one with the winner.  a wins  *)
(* ties.                                                                   *)
Played(a, b, h, ca, cb) ==
  IF ca <= cb THEN [first |-> TRUE, loser |-> Entry(b.str, h, cb)]
              ELSE [first |-> FALSE, loser |-> Entry(a.str, h, ca)]

ByLcp(a, b) == IF a.lcp > b.lcp THEN [first |-> TRUE, loser |-> b]
                                ELSE [first |-> FALSE, loser |-> a]

lcp_compare(a, b) ==
  IF a.lcp # b.lcp THEN ByLcp(a, b)
  ELSE LET h == FirstDiff(a.str, b.str, a.lcp)
       IN Played(a, b, h, Char(a.str, h), Char(b.str, h))

(* The version that looks into the strings only behind equal cached        *)
(* characters.                                                             *)
CacheCompare(a, b) ==
  IF a.lcp # b.lcp THEN ByLcp(a, b)
  ELSE IF a.cache # b.cache \/ a.cache = 0 THEN Played(a, b, a.lcp, a.cache, b.cache)
  ELSE LET h == FirstDiff(a.str, b.str, a.lcp + 1)
       IN Played(a, b, h, Char(a.str, h), Char(b.str, h))

(* The heads of two streams, by their strings or by their caches. *)
Compare(heads, a, b) == IF heads = "cache" THEN CacheCompare(a, b) ELSE lcp_compare(a, b)

----------------------------------------------------------------------------
(* Binary merging.  The first entry of each part starts at the common      *)
(* depth.  When one part is used up the rest of the other is copied, its   *)
(* first LCP being the one the merge holds.                                *)
AtDepth(p, depth) ==
  IF p = <<>> THEN p ELSE [p EXCEPT ![1] = Entry(@.str, depth, Char(@.str, depth))]

RECURSIVE MergeHeads(_, _, _)
MergeHeads(heads, a, b) ==
  LET r == Compare(heads, Head(a), Head(b))
  IN IF a = <<>> \/ b = <<>> THEN a \o b
     ELSE IF r.first THEN <<Head(a)>> \o MergeHeads(heads, Tail(a), <<r.loser>> \o Tail(b))
                     ELSE <<Head(b)>> \o MergeHeads(heads, <<r.loser>> \o Tail(a), Tail(b))

MergeWith(heads, a, b, depth) == MergeHeads(heads, AtDepth(a, depth), AtDepth(b, depth))

lcp_merge_binary(a, b) == MergeWith("strings", a, b, 0)
lcp_merge_binary_opt(a, b) == MergeWith("strings", a, b, 0)
(* Ties go to the second input: its roles are swapped. *)
lcp_merge_binary_cache_opt(a, b) == MergeWith("cache", b, a, 0)

RECURSIVE MergesortBinary(_, _)
MergesortBinary(kind, p) ==
  LET half == Len(p) \div 2
      a == MergesortBinary(kind, SubSeq(p, 1, half))
      b == MergesortBinary(kind, SubSeq(p, half + 1, Len(p)))
  IN IF Len(p) <= LcpBase THEN lcp_insertion_sort(p, 0)
     ELSE CASE kind = "plain" -> lcp_merge_binary(a, b)
            [] kind = "opt" -> lcp_merge_binary_opt(a, b)
            [] kind = "cache" -> lcp_merge_binary_cache_opt(a, b)

(* The sorts end by putting back what element 0 of the LCP array held. *)
KeepFirst(p) == IF p = <<>> THEN p ELSE [p EXCEPT ![1].lcp = KeptLcp]

lcp_mergesort_binary(p) == KeepFirst(MergesortBinary("plain", p))
lcp_mergesort_binary_opt(p) == KeepFirst(MergesortBinary("opt", p))
lcp_mergesort_binary_cache_opt(p) == KeepFirst(MergesortBinary("cache", p))

----------------------------------------------------------------------------
(* A loser tree over K streams: an inner node holds the stream that lost   *)
(* there, the top one the winner.  A stream that is used up loses to every *)
(* other, and as a defender it stays where it is.                          *)
Game(heads, st, node) ==
  LET d == st.nodes[node]
      c == st.contender
      r == Compare(heads, Head(st.streams[c]), Head(st.streams[d]))
      Swap == [st EXCEPT !.nodes[node] = c, !.contender = d]
  IN IF st.streams[d] = <<>> THEN st
     ELSE IF st.streams[c] = <<>> THEN Swap
     ELSE IF r.first THEN [st EXCEPT !.streams[d][1] = r.loser]
                     ELSE [Swap EXCEPT !.streams[c][1] = r.loser]

RECURSIVE PlayPath(_, _, _)
PlayPath(heads, st, path) ==
  IF path = <<>> THEN st ELSE PlayPath(heads, Game(heads, st, Head(path)), Tail(path))

(* LcpStringLoserTree: streams 1..K, leaf k at K + k, the top node is 1.   *)
(* A first game is played where both sides have come in, the contender     *)
(* then waits at the parent.                                               *)
RECURSIVE RisePlain(_)
RisePlain(n) == IF n % 2 = 0 /\ n > 2 THEN <<n \div 2>> \o RisePlain(n \div 2) ELSE <<>>

RECURSIVE ReplayPlain(_)
ReplayPlain(n) ==
  IF n > 2 THEN <<(n + 1) \div 2>> \o ReplayPlain((n + 1) \div 2) ELSE <<>>

(* LcpCacheStringLoserTree: streams 0..K-1, leaf i at K + i, the winner is *)
(* nodes[0].                                                               *)
RECURSIVE RiseCache(_)
RiseCache(n) == IF n % 2 = 1 /\ n > 1 THEN <<n \div 2>> \o RiseCache(n \div 2) ELSE <<>>

RECURSIVE ReplayCache(_)
ReplayCache(n) == IF n > 1 THEN <<n \div 2>> \o ReplayCache(n \div 2) ELSE <<>>

Enter(heads, st, k, leaf, path, up) ==
  LET s == PlayPath(heads, [st EXCEPT !.contender = k], path)
      last == IF path = <<>> THEN leaf ELSE Last(path)
  IN [s EXCEPT !.nodes[(last + up) \div 2] = s.contender]

initTreePlain(streams, K) ==
  FoldLeft(LAMBDA st, k: Enter("strings", st, k, K + k, RisePlain(K + k), 1),
           [streams |-> [k \in 1..K |-> AtDepth(streams[k], 0)],
            nodes |-> [k \in 1..K |-> k], contender |-> 1],
           [k \in 1..K |-> k])

initTreeCache(streams, K) ==
  FoldLeft(LAMBDA st, k: Enter("cache", st, k - 1, K + k - 1, RiseCache(K + k - 1), 0),
           [streams |-> [k \in 0..K - 1 |-> AtDepth(streams[k + 1], 0)],
            nodes |-> [k \in 0..K - 1 |-> k], contender |-> 0],
           [k \in 1..K |-> k])

(* Taking n winners out, the stream of each moved on and its way up        *)
(* replayed.                                                               *)
TakeWinner(heads, st, path) ==
  PlayPath(heads, [st EXCEPT !.streams[st.contender] = Tail(@)], path)

RECURSIVE WriteElementsPlain(_, _, _)
WriteElementsPlain(tree, K, n) ==
  LET w == tree.nodes[1]
      s == TakeWinner("strings", [tree EXCEPT !.contender = w], ReplayPlain(K + w))
  IN IF n = 0 THEN <<>>
     ELSE <<Head(tree.streams[w])>>
            \o WriteElementsPlain([s EXCEPT !.nodes[1] = s.contender], K, n - 1)

RECURSIVE WriteElementsCache(_, _, _)
WriteElementsCache(tree, K, n) ==
  LET w == tree.nodes[0]
      s == TakeWinner("cache", [tree EXCEPT !.contender = w], ReplayCache(K + w))
  IN IF n = 0 THEN <<>>
     ELSE <<Head(tree.streams[w])>>
            \o WriteElementsCache([s EXCEPT !.nodes[0] = s.contender], K, n - 1)

(* K parts of the same size, the last one takes what is left over. *)
calculateRanges(K, n) ==
  LET split == n \div K
  IN [i \in 1..K |-> [begin |-> (i - 1) * split,
                      size |-> IF i < K THEN split ELSE n - (K - 1) * split]]

RECURSIVE MergesortKway(_, _, _)
MergesortKway(kind, K, p) ==
  LET ranges == calculateRanges(K, Len(p))
      parts == [i \in 1..K |->
                  MergesortKway(kind, K, Slice(p, ranges[i].begin, ranges[i].size))]
  IN IF Len(p) <= 2 * K \/ Len(p) <= LcpBase THEN lcp_insertion_sort(p, 0)
     ELSE IF kind = "plain" THEN WriteElementsPlain(initTreePlain(parts, K), K, Len(p))
     ELSE WriteElementsCache(initTreeCache(parts, K), K, Len(p))

lcp_mergesort_kway(K, p) == KeepFirst(MergesortKway("plain", K, p))
lcp_mergesort_cache_kway(K, p) == KeepFirst(MergesortKway("cache", K, p))
=============================================================================
