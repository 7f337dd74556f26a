--------------------------- MODULE MultikeySorts ---------------------------
(***************************************************************************)
(* The multikey quicksorts: the original one of Bentley and Sedgewick      *)
(* (sequential/bs-mkqs.hpp), the same over string sets (bingmann-mkqs.hpp) *)
(* and Rantala's (rantala/multikey_*.cpp): with an oracle, into dynamic    *)
(* buckets, into blocks, with cached characters and with several pivots.   *)
(***************************************************************************)
EXTENDS MsdSorts

CONSTANTS MedianOf9,       \* more strings take a pseudo-median of nine, 30 in the code
          MkqsThreshold,   \* fewer strings are left to ssort2(), 10000 or 15000
          Pivots,          \* pivots of the sort with several, 16 or 32
          PivotRun         \* strings in a row sampled for them, 7

ASSUME MultikeyAssumption == /\ MedianOf9 \in Nat \ 0..3
                             /\ MkqsThreshold \in Nat \ 0..MedianOf9
                             /\ MkqsThreshold > PivotRun /\ MkqsThreshold > BlockSize
                             /\ Pivots \in Nat \ {0}
                             /\ PivotRun \in Nat \ {0}

----------------------------------------------------------------------------
(* The partition all in-place sorts use, over entries of a string and its  *)
(* key.  The pivot is the first entry.  Entries equal to it are collected  *)
(* at both ends: those before a and those behind d; the ones between a and *)
(* b are less, the ones between c and d greater.                           *)
Entries(ss, d, width) == Map(LAMBDA s: [str |-> s, key |-> Packed(s, d, width)], ss)
StrsIn(at) == Map(LAMBDA e: e.str, at)

Swapped(at, i, j) == [at EXCEPT ![i] = at[j], ![j] = at[i]]

Equal(st, i) == st.at[i].key = st.at[1].key

RECURSIVE ScanUp(_)
ScanUp(st) ==
  CASE st.b > st.c \/ st.at[st.b].key > st.at[1].key -> st
    [] st.b <= st.c /\ Equal(st, st.b) ->
         ScanUp([st EXCEPT !.at = Swapped(st.at, st.a, st.b), !.a = @ + 1, !.b = @ + 1])
    [] OTHER -> ScanUp([st EXCEPT !.b = @ + 1])

RECURSIVE ScanDown(_)
ScanDown(st) ==
  CASE st.b > st.c \/ st.at[st.c].key < st.at[1].key -> st
    [] st.b <= st.c /\ Equal(st, st.c) ->
         ScanDown([st EXCEPT !.at = Swapped(st.at, st.c, st.d), !.d = @ - 1, !.c = @ - 1])
    [] OTHER -> ScanDown([st EXCEPT !.c = @ - 1])

Exchanged(st) ==
  IF st.b > st.c THEN st
  ELSE [st EXCEPT !.at = Swapped(st.at, st.b, st.c), !.b = @ + 1, !.c = @ - 1]

RECURSIVE SplitEnds(_)
SplitEnds(st) == IF st.b > st.c THEN st ELSE SplitEnds(Exchanged(ScanDown(ScanUp(st))))

vecswap2(at, i, j, r) ==
  [k \in DOMAIN at |-> IF k \in i..i + r - 1 THEN at[j + k - i]
                       ELSE IF k \in j..j + r - 1 THEN at[i + k - j] ELSE at[k]]

(* The equal entries are swapped back to the middle. *)
EqualsToMiddle(st, n) ==
  LET r1 == Min({st.a - 1, st.b - st.a})
      r2 == Min({n - st.d, st.d - st.c})
  IN vecswap2(vecswap2(st.at, 1, st.b - r1, r1), st.b, n + 1 - r2, r2)

Parts(at, lt, gt) == [lt |-> SubSeq(at, 1, lt),
                      eq |-> SubSeq(at, lt + 1, Len(at) - gt),
                      gt |-> SubSeq(at, Len(at) - gt + 1, Len(at))]

Split(st, n) == Parts(EqualsToMiddle(st, n), st.b - st.a, st.d - st.c)

Partition(at) ==
  Split(SplitEnds([at |-> at, a |-> 2, b |-> 2, c |-> Len(at), d |-> Len(at)]), Len(at))

----------------------------------------------------------------------------
(* The median of three, the first of two equal ones: where it is. *)
med3func(at, a, b, c) ==
  LET va == at[a].key  vb == at[b].key  vc == at[c].key
  IN CASE va = vb -> a
       [] va # vb /\ vc \in {va, vb} -> c
       [] va < vb /\ vc \notin {va, vb} -> IF vb < vc THEN b ELSE IF va < vc THEN c ELSE a
       [] OTHER -> IF vb > vc THEN b ELSE IF va < vc THEN a ELSE c

PivotAt(at) ==
  LET n == Len(at)
      m == n \div 2 + 1
      e == n \div 8
  IN IF n > MedianOf9
     THEN med3func(at, med3func(at, 1, 1 + e, 1 + 2 * e), med3func(at, m - e, m, m + e),
                       med3func(at, n - 2 * e, n - e, n))
     ELSE med3func(at, 1, m, n)

RECURSIVE Mkqs(_, _, _), MkqsParts(_, _, _)
MkqsParts(kind, p, d) ==
  LET Sort(part) == IF Len(part) > 1 THEN Mkqs(kind, StrsIn(part), d) ELSE StrsIn(part)
  IN Sort(p.lt)
       \o (IF p.eq[1].key = 0 THEN StrsIn(p.eq) ELSE Mkqs(kind, StrsIn(p.eq), d + 1))
       \o Sort(p.gt)

PivotFirst(at) == Swapped(at, 1, PivotAt(at))

Mkqs(kind, ss, d) ==
  CASE Len(ss) < InssortThreshold /\ kind = "ssort2" -> Inssort(ss, d)
    [] Len(ss) < InssortThreshold /\ kind = "generic" -> InssortGeneric(ss, d)
    [] OTHER -> MkqsParts(kind, Partition(PivotFirst(Entries(ss, d, 1))), d)

ssort2(ss, d) == Mkqs("ssort2", ss, d)
mkqs_generic(ss, d) == Mkqs("generic", ss, d)

----------------------------------------------------------------------------
(* Rantala's sorts compare width characters at once, 1, 2 or 4. *)
med3char(a, b, c) ==
  CASE a = b -> a
    [] a # b /\ c \in {a, b} -> c
    [] OTHER -> CHOOSE m \in {a, b, c} : /\ \E x \in {a, b, c} : x < m
                                         /\ \E x \in {a, b, c} : x > m

pseudo_median(ss, d, width) ==
  LET n == Len(ss)
      At(i) == Packed(ss[i + 1], d, width)
      m == n \div 2
  IN IF n > MedianOf9
     THEN med3char(med3char(At(0), At(1), At(2)), med3char(At(m), At(m + 1), At(m + 2)),
                   med3char(At(n - 3), At(n - 2), At(n - 1)))
     ELSE med3char(At(0), At(m), At(n - 1))

get_bucket(c, pivot) == IF c > pivot THEN 2 ELSE IF c = pivot THEN 1 ELSE 0

(* With an oracle in which the buckets of all strings are found first, or  *)
(* into three dynamic buckets, or into blocks that reuse the array.  The   *)
(* equal strings are sorted behind the pivot unless it has the terminator. *)
Small(kind, ss) == Len(ss) < IF kind = "simd" THEN InssortThreshold ELSE MkqsThreshold

Classified(ss, d, width, partval) ==
  [strs |-> ss, partval |-> partval,
   oracle |-> Map(LAMBDA s: get_bucket(Packed(s, d, width), partval), ss)]

MoveMultikey(kind, c) ==
  [c EXCEPT !.strs = CASE kind = "simd" -> Distribute(c.strs, c.oracle)
                       [] kind = "dynamic" -> MoveDynamic(c.strs, c.oracle, 3)
                       [] kind = "block" ->
                            MoveBlocks(c.strs, c.oracle, 3, Len(c.strs) \div BlockSize)]

RECURSIVE Multikey(_, _, _, _), MultikeyParts(_, _, _, _)
MultikeyParts(kind, c, d, width) ==
  LET Own(b) == Bucket(c.strs, c.oracle, b)
  IN Multikey(kind, Own(0), d, width)
       \o (IF Terminated(c.partval) THEN Own(1) ELSE Multikey(kind, Own(1), d + width, width))
       \o Multikey(kind, Own(2), d, width)

Multikey(kind, ss, d, width) ==
  CASE Small(kind, ss) /\ kind = "simd" -> Inssort(ss, d)
    [] Small(kind, ss) /\ kind # "simd" -> ssort2(ss, d)
    [] OTHER ->
         MultikeyParts(kind,
           MoveMultikey(kind, Classified(ss, d, width, pseudo_median(ss, d, width))), d, width)

multikey_simd(ss, width) == Multikey("simd", ss, 0, width)
multikey_dynamic(ss, width) == Multikey("dynamic", ss, 0, width)
multikey_block(ss, width) == Multikey("block", ss, 0, width)

----------------------------------------------------------------------------
(* With a cache: the entries keep their keys through partitions by them.   *)
(* A dirty cache is filled before it is used.                              *)
RECURSIVE SortGroups(_, _)
SortGroups(at, d) ==
  LET cnt == Cardinality({i \in DOMAIN at : at[i].key = at[1].key})
      group == StrsIn(SubSeq(at, 1, cnt))
  IN IF at = <<>> THEN <<>>
     ELSE (IF cnt > 1 /\ ~ Terminated(at[1].key) THEN Inssort(group, d) ELSE group)
            \o SortGroups(SubSeq(at, cnt + 1, Len(at)), d)

inssort_cache_block(at) == SortSeq(at, LAMBDA a, b: a.key < b.key)

CachePivotAt(at) ==
  LET n == Len(at)
      m == n \div 2 + 1
      e == n \div 8
      q == n \div 4
  IN med3func(at, med3func(at, 1, 1 + e, 1 + q), med3func(at, m - e, m, m + e),
                  med3func(at, n - q, n - e, n - 2))

RECURSIVE MultikeyCache(_, _, _, _), CacheParts(_, _, _)
CacheParts(p, d, width) ==
  MultikeyCache(p.lt, FALSE, d, width)
    \o (IF Terminated(p.eq[1].key) THEN StrsIn(p.eq)
        ELSE MultikeyCache(p.eq, TRUE, d + width, width))
    \o MultikeyCache(p.gt, FALSE, d, width)

CachePivotFirst(at) == Swapped(at, 1, CachePivotAt(at))

MultikeyCache(at, dirty, d, width) ==
  CASE Len(at) < InssortThreshold /\ dirty -> Inssort(StrsIn(at), d)
    [] Len(at) < InssortThreshold /\ ~ dirty -> SortGroups(inssort_cache_block(at), d + width)
    [] OTHER -> CacheParts(Partition(CachePivotFirst(IF dirty THEN Entries(StrsIn(at), d, width)
                                                     ELSE at)), d, width)

multikey_cache(ss, width) ==
  MultikeyCache(Map(LAMBDA s: [str |-> s, key |-> 0], ss), TRUE, 0, width)

----------------------------------------------------------------------------
(* With several pivots, taken in equal steps from a sample of runs of      *)
(* strings.  When the sample has too few different keys, keys from 1 on    *)
(* are added that need not occur in any string.                            *)
PivotSample(ss, d, width, seed) ==
  {Packed(ss[((i * seed) % (Len(ss) - PivotRun)) + j], d, width) :
     i \in 1..Pivots, j \in 1..PivotRun}

RECURSIVE WithJunk(_, _)
WithJunk(sample, i) ==
  LET key == IF Terminated(i) THEN i + 1 ELSE i
  IN IF Cardinality(sample) >= Pivots THEN sample ELSE WithJunk(sample \cup {key}, key + 1)

PivotsOf(sample) ==
  LET sample_array == SetToSortSeq(sample, <)
      step == Len(sample_array) \div Pivots
  IN [i \in 1..Pivots |-> sample_array[step * (i - 1) + 1]]

(* A bucket per pivot and one left and right of each. *)
left_bucket(j) == 2 * (j - 1)
middle_bucket(j) == 2 * (j - 1) + 1
right_bucket(j) == 2 * (j - 1) + 2

fill_oracle(c, pivots) ==
  LET below == {j \in 1..Pivots : pivots[j] <= c}
  IN IF below = {} THEN left_bucket(1)
     ELSE IF c = pivots[Max(below)] THEN middle_bucket(Max(below)) ELSE right_bucket(Max(below))

(* Leading characters two different pivots share, up to a terminator. *)
PivotLcp(a, b, width) ==
  LET CharOf(x, i) == (x \div Radix8^(width - 1 - i)) % Radix8
  IN Min({width - 1} \cup {i \in 0..width - 1 : CharOf(a, i) = 0 \/ CharOf(a, i) # CharOf(b, i)})

ByPivots(ss, d, width, pivots) ==
  [strs |-> ss, pivots |-> pivots,
   oracle |-> Map(LAMBDA s: fill_oracle(Packed(s, d, width), pivots), ss)]

MoveMultipivot(c) ==
  IF \A i \in 2..Len(c.oracle) : c.oracle[i - 1] <= c.oracle[i] THEN c
  ELSE [c EXCEPT !.strs = Distribute(c.strs, c.oracle)]

PivotDepth(c, b, d, width) ==
  CASE b % 2 = 1 -> d + width
    [] b \in {0, 2 * Pivots} -> d
    [] OTHER -> d + PivotLcp(c.pivots[b \div 2], c.pivots[b \div 2 + 1], width)

RECURSIVE multikey_multipivot(_, _, _, _), MultipivotParts(_, _, _, _)
MultipivotParts(c, d, width, seed) ==
  LET Done(b) == b % 2 = 1 /\ Terminated(c.pivots[b \div 2 + 1])
      Sort(own, b) == IF own = <<>> \/ Done(b) THEN own
                      ELSE multikey_multipivot(own, PivotDepth(c, b, d, width), width, seed)
  IN FlattenSeq([b \in 1..2 * Pivots + 1 |-> Sort(Bucket(c.strs, c.oracle, b - 1), b - 1)])

multikey_multipivot(ss, d, width, seed) ==
  IF Len(ss) < MkqsThreshold THEN ssort2(ss, d)
  ELSE LET pivots == PivotsOf(WithJunk(PivotSample(ss, d, width, seed), 1))
       IN MultipivotParts(MoveMultipivot(ByPivots(ss, d, width, pivots)), d, width, seed)
=============================================================================
