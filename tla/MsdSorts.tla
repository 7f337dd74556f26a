------------------------------ MODULE MsdSorts ------------------------------
(***************************************************************************)
(* Rantala's most significant digit radix sorts (rantala/msd_*.hpp): by    *)
(* counting, out of place and in place, into dynamic buckets, with a cache *)
(* of some characters of every string, with least significant digit passes *)
(* over such a cache, and into blocks that reuse the array being sorted.   *)
(***************************************************************************)
EXTENDS RadixSorts

CONSTANTS CachedBytes,   \* characters cached with a string, 4 to 12 in the code
          BlockSize,     \* strings in a block, 1024
          SpareBlocks    \* blocks to spare in the temporary space, 6 or 29

ASSUME MsdSortsAssumption == /\ CachedBytes \in Nat \ {0} /\ CachedBytes % 2 = 0
                             /\ BlockSize \in Nat \ {0}
                             /\ WideThreshold > BlockSize
                             /\ SpareBlocks \in Nat \ {0}

----------------------------------------------------------------------------
(* Into dynamic buckets: every string is pushed behind those its bucket    *)
(* has, then the buckets are copied back one by one and cleared.           *)
RECURSIVE PushBack(_, _, _)
PushBack(buckets, ss, keys) ==
  IF ss = <<>> THEN buckets
  ELSE PushBack([buckets EXCEPT ![Head(keys)] = Append(@, Head(ss))], Tail(ss), Tail(keys))

MoveDynamic(ss, keys, radix) ==
  LET buckets == PushBack([b \in 0..radix - 1 |-> <<>>], ss, keys)
  IN FlattenSeq([b \in 1..radix |-> buckets[b - 1]])

(* The test for keys that are in order already has its comparison the      *)
(* wrong way round: what it finds in order are keys that never rise.       *)
NeverRising(keys) == \A i \in 2..Len(keys) : keys[i] <= keys[i - 1]

MoveKind(kind, ss, keys, radix) ==
  CASE kind \in {"out", "in"} -> Move(kind, ss, keys)
    [] kind = "dynamic" -> MoveDynamic(ss, keys, radix)
    [] kind = "checked" -> IF NeverRising(keys) THEN ss ELSE Distribute(ss, keys)

(* By one character. Counters of 16 bits are enough: they are used only    *)
(* where there are fewer than 0x10000 strings.                             *)
RECURSIVE ByChar(_, _, _)
ByChar(kind, ss, d) ==
  IF Len(ss) < InssortThreshold THEN Inssort(ss, d)
  ELSE LET oracle == Map(LAMBDA s: Char(s, d), ss)
           moved == MoveKind(kind, ss, oracle, Radix8)
           SortBucket(b) == LET own == Bucket(moved, oracle, b)
                            IN IF own = <<>> THEN own ELSE ByChar(kind, own, d + 1)
       IN Bucket(moved, oracle, 0) \o FlattenSeq([b \in 1..MaxChar |-> SortBucket(b)])

(* By two characters while there are many strings; only that sort checks   *)
(* for keys in order.                                                      *)
RECURSIVE Adaptive(_, _, _)
Adaptive(kind, ss, d) ==
  IF Len(ss) < WideThreshold THEN ByChar(IF kind = "checked" THEN "out" ELSE kind, ss, d)
  ELSE LET oracle == Map(LAMBDA s: Char16(s, d), ss)
           moved == MoveKind(kind, ss, oracle, Radix16)
           SortBucket(b) == LET own == Bucket(moved, oracle, b)
                            IN IF own = <<>> \/ Terminated(b) THEN own
                               ELSE Adaptive(kind, own, d + 2)
       IN FlattenSeq([b \in 1..Radix16 |-> SortBucket(b - 1)])

msd_CE0(ss) == ByChar("out", ss, 0)
msd_CE1(ss) == ByChar("out", ss, 0)
msd_CE2(ss) == ByChar("out", ss, 0)
msd_CE3(ss) == Adaptive("out", ss, 0)
msd_CE4(ss) == Adaptive("out", ss, 0)
msd_CE5(ss) == Adaptive("out", ss, 0)
msd_CE6(ss) == Adaptive("out", ss, 0)
msd_CE7(ss) == Adaptive("checked", ss, 0)
msd_ci(ss) == ByChar("in", ss, 0)
msd_ci_adaptive(ss) == Adaptive("in", ss, 0)
msd_D(ss) == ByChar("dynamic", ss, 0)
msd_D_adaptive(ss) == Adaptive("dynamic", ss, 0)

----------------------------------------------------------------------------
(* With a cache.  A block is a string with CachedBytes characters of it.   *)
fill_cache(ss, d) ==
  Map(LAMBDA s: [ptr |-> s, bytes |-> [j \in 1..CachedBytes |->
                    IF d + j - 1 < Len(s) THEN s[d + j] ELSE 0]], ss)

Ptrs(blocks) == Map(LAMBDA b: b.ptr, blocks)

(* Blocks are moved by a cached character, or two; the cache is filled     *)
(* anew once all of it has been used.                                      *)
RECURSIVE msd_A(_, _, _)
msd_A(given, given_depth, true_depth) ==
  LET used == given_depth >= CachedBytes
      cache == IF used THEN fill_cache(Ptrs(given), true_depth) ELSE given
      cache_depth == IF used THEN 0 ELSE given_depth
      keys == Map(LAMBDA e: e.bytes[cache_depth + 1], cache)
      sorted == Distribute(cache, keys)
      SortBucket(b) == LET own == Bucket(sorted, keys, b)
                       IN IF own = <<>> THEN own
                          ELSE msd_A(own, cache_depth + 1, true_depth + 1)
  IN IF Len(given) < InssortThreshold THEN Inssort(Ptrs(given), true_depth)
     ELSE Ptrs(Bucket(sorted, keys, 0)) \o FlattenSeq([b \in 1..MaxChar |-> SortBucket(b)])

RECURSIVE msd_A_adaptive(_, _, _)
msd_A_adaptive(given, given_depth, true_depth) ==
  LET used == given_depth >= CachedBytes
      cache == IF used THEN fill_cache(Ptrs(given), true_depth) ELSE given
      cache_depth == IF used THEN 0 ELSE given_depth
      keys == Map(LAMBDA e: Radix8 * e.bytes[cache_depth + 1] + e.bytes[cache_depth + 2], cache)
      sorted == Distribute(cache, keys)
      SortBucket(b) == LET own == Bucket(sorted, keys, b)
                       IN IF own = <<>> \/ Terminated(b) THEN Ptrs(own)
                          ELSE msd_A_adaptive(own, cache_depth + 2, true_depth + 2)
  IN IF Len(given) < WideThreshold THEN msd_A(given, given_depth, true_depth)
     ELSE FlattenSeq([b \in 1..Radix16 |-> SortBucket(b - 1)])

(* In msd_A2 the scratch area for the blocks is the array of the strings,  *)
(* which nothing reads until the end, and as much more as it takes.        *)
MsdA(ss) == msd_A(fill_cache(ss, 0), 0, 0)
MsdA_adaptive(ss) == msd_A_adaptive(fill_cache(ss, 0), 0, 0)
msd_A2(ss) == msd_A(fill_cache(ss, 0), 0, 0)
msd_A2_adaptive(ss) == msd_A_adaptive(fill_cache(ss, 0), 0, 0)

----------------------------------------------------------------------------
(* Least significant digit first: all cached characters are sorted by,     *)
(* last to first, width of them at a time, then the runs with the same     *)
(* cache are sorted from behind it on unless it ends in a terminator.      *)
RECURSIVE Passes(_, _, _)
Passes(cache, byte, width) ==
  IF byte = 0 THEN cache
  ELSE LET KeyOf(e) == IF width = 1 THEN e.bytes[byte]
                       ELSE Radix8 * e.bytes[byte - 1] + e.bytes[byte]
       IN Passes(Distribute(cache, Map(KeyOf, cache)), byte - width, width)

RECURSIVE msd_lsd(_, _, _), SortRuns(_, _, _)
SortRuns(cache, d, width) ==
  LET cnt == Max({k \in DOMAIN cache : \A i \in 1..k : cache[i].bytes = cache[1].bytes})
      run == Ptrs(SubSeq(cache, 1, cnt))
      ends == Last(cache[1].bytes) = 0
  IN IF cache = <<>> THEN <<>>
     ELSE (IF cnt = 1 \/ ends THEN run ELSE msd_lsd(run, d + CachedBytes, width))
            \o SortRuns(SubSeq(cache, cnt + 1, Len(cache)), d, width)

msd_lsd(ss, d, width) ==
  CASE Len(ss) < InssortThreshold -> Inssort(ss, d)
    [] width = 2 /\ Len(ss) \in InssortThreshold..WideThreshold - 1 -> msd_lsd(ss, d, 1)
    [] OTHER -> SortRuns(Passes(fill_cache(ss, d), CachedBytes, width), d, width)

msd_A_lsd(ss) == msd_lsd(ss, 0, 1)
msd_A_lsd_adaptive(ss) == msd_lsd(ss, 0, 2)

----------------------------------------------------------------------------
(* Into blocks.  The memory is the array and behind it a temporary space   *)
(* of one block per bucket and some to spare; a block is its address.      *)
(* First the temporary blocks are handed out, then those of the array,     *)
(* whose strings have been read by then.  A block of the array that holds  *)
(* strings has a link to its place in the list of its bucket.              *)
NoLink == <<>>

BlockInit(ss, buckets, own) ==
  LET n == Len(ss)
      temp == buckets + SpareBlocks
  IN [mem |-> [a \in 0..n + temp * BlockSize - 1 |-> IF a < n THEN ss[a + 1] ELSE <<>>],
      free |-> [i \in 1..temp |-> n + (i - 1) * BlockSize]
                 \o [i \in 1..own |-> (i - 1) * BlockSize],
      buckets |-> [b \in 0..buckets - 1 |-> <<>>],
      size |-> [b \in 0..buckets - 1 |-> 0],
      links |-> [k \in 0..n \div BlockSize |-> NoLink]]

Linked(st, n, block, link) ==
  IF block < n THEN [st EXCEPT !.links[block \div BlockSize] = link] ELSE st

(* String i goes to the last block of its bucket, or to a new one. *)
RECURSIVE Scatter(_, _, _)
Scatter(st, keys, i) ==
  LET n == Len(keys)
      key == keys[i + 1]
      block == Head(st.free)
      taken == IF st.size[key] % BlockSize = 0
               THEN Linked([st EXCEPT !.free = Tail(@), !.buckets[key] = Append(@, block)],
                           n, block, <<key, Len(st.buckets[key]) + 1>>)
               ELSE st
      to == Last(taken.buckets[key]) + (st.size[key] % BlockSize)
  IN IF i = n THEN st
     ELSE Scatter([taken EXCEPT !.mem[to] = st.mem[i], !.size[key] = @ + 1], keys, i + 1)

CopyBlock(mem, to, from, items) ==
  [a \in DOMAIN mem |-> IF a \in to..to + items - 1 THEN mem[from + a - to] ELSE mem[a]]

(* The block that lies where strings are about to be written is moved to a *)
(* free one that is not stale, that is not in the part already written.    *)
MoveAway(st, n, pos, overlap) ==
  LET link == st.links[overlap]
      k == Min({j \in DOMAIN st.free : st.free[j] >= pos})
      tmp == st.free[k]
      from == st.buckets[link[1]][link[2]]
      linked == Linked([st EXCEPT !.free = SubSeq(@, k + 1, Len(@))], n, tmp, link)
  IN IF link = NoLink THEN st
     ELSE [linked EXCEPT !.mem = CopyBlock(@, tmp, from, BlockSize),
                         !.buckets[link[1]][link[2]] = tmp,
                         !.links[overlap] = NoLink]

(* Block k of bucket c comes to pos: it is there already, or is copied and *)
(* given back, the ones of the temporary space to be used first.           *)
RECURSIVE Gather(_, _, _, _, _)
Gather(st, n, c, k, pos) ==
  LET items == Min({BlockSize, st.size[c] - (k - 1) * BlockSize})
      inPlace == st.buckets[c][k] = pos
      cleared == MoveAway(st, n, pos, (pos + items - 1) \div BlockSize)
      block == cleared.buckets[c][k]
      unlinked == Linked(cleared, n, block, NoLink)
      copied == [unlinked EXCEPT !.mem = CopyBlock(@, pos, block, items),
                                 !.free = IF block < n THEN Append(@, block) ELSE <<block>> \o @]
  IN CASE c \notin DOMAIN st.buckets -> st
       [] c \in DOMAIN st.buckets /\ k > Len(st.buckets[c]) -> Gather(st, n, c + 1, 1, pos)
       [] OTHER -> Gather(IF inPlace THEN Linked(st, n, pos, NoLink) ELSE copied,
                          n, c, k + 1, pos + items)

(* The strings of the array in bucket order, after both. *)
MoveBlocks(ss, keys, buckets, own) ==
  LET moved == Gather(Scatter(BlockInit(ss, buckets, own), keys, 0), Len(ss), 0, 1, 0)
  IN [i \in 1..Len(ss) |-> moved.mem[i - 1]]

RECURSIVE msd_DB(_, _)
msd_DB(ss, d) ==
  LET n == Len(ss)
      keys == Map(LAMBDA s: Char(s, d), ss)
      moved == MoveBlocks(ss, keys, Radix8, (n - BlockSize + BlockSize - 1) \div BlockSize)
      SortBucket(b) == LET own == Bucket(moved, keys, b)
                       IN IF own = <<>> THEN own ELSE msd_DB(own, d + 1)
  IN IF n < WideThreshold THEN ByChar("out", ss, d)
     ELSE Bucket(moved, keys, 0) \o FlattenSeq([b \in 1..MaxChar |-> SortBucket(b)])
=============================================================================
