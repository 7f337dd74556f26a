------------------------------ MODULE Strings ------------------------------
(***************************************************************************)
(* What the sequential sorters share: strings and their packed characters  *)
(* (tools/stringtools.hpp), the order they sort by, the insertion sort     *)
(* most of them end in (sequential/inssort.hpp), the two ways of moving    *)
(* strings into buckets, and the reference the results are compared with   *)
(* (tools/checker.hpp).                                                    *)
(*                                                                         *)
(* A string is a sequence of characters 1..MaxChar, its terminator is the  *)
(* character 0 behind the last one.  Reading any further is an error: TLC  *)
(* stops, so a run that ends has shown that no sorter reads behind a       *)
(* terminator.  Equal strings are not told apart.                          *)
(***************************************************************************)
EXTENDS Naturals, Sequences, SequencesExt, FiniteSetsExt

CONSTANTS MaxChar,       \* the largest character, 255 in the code
          KeyWidth       \* characters in a key_type, 8 in the code

ASSUME StringsAssumption == /\ MaxChar \in Nat \ {0}
                            /\ KeyWidth \in Nat \ {0, 1}

Radix8 == MaxChar + 1
Radix16 == Radix8 * Radix8

(* The character at a depth, 0 at the terminator. *)
Char(s, d) == IF d = Len(s) THEN 0 ELSE s[d + 1]

(* w characters from a depth on, packed most significant first; the ones   *)
(* behind a terminator are 0.                                              *)
RECURSIVE Packed(_, _, _)
Packed(s, d, w) ==
  IF w = 0 \/ Char(s, d) = 0 THEN 0 ELSE Char(s, d) * Radix8^(w - 1) + Packed(s, d + 1, w - 1)

Char16(s, d) == Packed(s, d, 2)
Key(s, d) == Packed(s, d, KeyWidth)

Terminated(key) == key % Radix8 = 0

(* Leading characters two keys share: count_high_zero_bits() of their      *)
(* difference in characters, KeyWidth when they are equal.                 *)
KeyLcp(a, b) ==
  CHOOSE k \in 0..KeyWidth :
    /\ a \div Radix8^(KeyWidth - k) = b \div Radix8^(KeyWidth - k)
    /\ k < KeyWidth => a \div Radix8^(KeyWidth - k - 1) # b \div Radix8^(KeyWidth - k - 1)

(* Comparing two strings from a depth on, character by character, until    *)
(* they differ or end.                                                     *)
RECURSIVE FirstDiff(_, _, _)
FirstDiff(s, t, d) ==
  IF Char(s, d) = Char(t, d) /\ Char(s, d) # 0 THEN FirstDiff(s, t, d + 1) ELSE d

Lcp(s, t) == FirstDiff(s, t, 0)

Leq(s, t, d) == LET e == FirstDiff(s, t, d) IN Char(s, e) <= Char(t, e)

----------------------------------------------------------------------------
(* The longest tail of strings larger than x, which one step of the        *)
(* insertion sort shifts up by one.                                        *)
Shifted(a, x, d) ==
  CHOOSE k \in 0..Len(a) :
    /\ \A i \in k + 1..Len(a) : ~ Leq(a[i], x, d)
    /\ k > 0 => Leq(a[k], x, d)

RECURSIVE InsertAll(_, _, _)
InsertAll(a, ss, d) ==
  IF ss = <<>> THEN a
  ELSE InsertAll(InsertAt(a, Shifted(a, Head(ss), d) + 1, Head(ss)), Tail(ss), d)

Inssort(ss, d) == InsertAll(<<>>, ss, d)

(* The object version counts its strings down with --n != 0: it may not be *)
(* called without a string.                                                *)
InssortGeneric(ss, d) == InsertAll(<<Head(ss)>>, Tail(ss), d)

----------------------------------------------------------------------------
(* The elements of a sequence, each put through Op. *)
Map(Op(_), ss) == SubSeq([i \in DOMAIN ss |-> Op(ss[i])], 1, Len(ss))

(* Moving the strings into buckets.  keys[i] is the bucket of ss[i]; a     *)
(* result is the strings in bucket order and the size of each bucket.      *)
BucketSize(keys, b) == Cardinality({i \in DOMAIN keys : keys[i] = b})
BucketBegin(keys, b) == Cardinality({i \in DOMAIN keys : keys[i] < b})

Slice(ss, begin, size) == SubSeq(ss, begin + 1, begin + size)

Bucket(moved, keys, b) == Slice(moved, BucketBegin(keys, b), BucketSize(keys, b))

(* part put back over as many elements of ss, from begin on. *)
Overwrite(ss, begin, part) ==
  [i \in DOMAIN ss |-> IF i \in begin + 1..begin + Len(part) THEN part[i - begin] ELSE ss[i]]

(* Out of place: each string is written behind those of smaller buckets    *)
(* and behind the earlier ones of its own.                                 *)
RECURSIVE WriteAll(_, _, _)
WriteAll(st, ss, keys) ==
  IF ss = <<>> THEN st.sorted
  ELSE WriteAll([st EXCEPT !.sorted[st.bktindex[Head(keys)] + 1] = Head(ss),
                           !.bktindex[Head(keys)] = @ + 1], Tail(ss), Tail(keys))

Distribute(ss, keys) ==
  WriteAll([sorted |-> ss, bktindex |-> [b \in ToSet(keys) |-> BucketBegin(keys, b)]], ss, keys)

(* In place, by cycles: bkt[b] is the end of what is still unplaced of     *)
(* bucket b.  The string held in the hand goes to the last free place of   *)
(* its bucket and the one found there is taken up, until the cycle comes   *)
(* back to i; the next cycle starts behind the bucket that closed, and the *)
(* walk ends at the last bucket that is not empty.                         *)
RECURSIVE Cycle(_, _, _)
Cycle(st, perm, i) ==
  LET j == st.bkt[perm.key] - 1
      placed == [st EXCEPT !.bkt[perm.key] = j]
  IN IF j > i
     THEN Cycle([placed EXCEPT !.at[j + 1] = perm], st.at[j + 1], i)
     ELSE [st |-> [placed EXCEPT !.at[i + 1] = perm], closed |-> perm.key]

RECURSIVE Walk(_, _, _, _)
Walk(st, i, stop, size) ==
  IF i >= stop THEN st
  ELSE LET c == Cycle(st, st.at[i + 1], i)
       IN Walk(c.st, i + size[c.closed], stop, size)

PermuteInPlace(ss, keys) ==
  LET used == {keys[i] : i \in DOMAIN keys}
      size == [b \in used |-> BucketSize(keys, b)]
      start == [at |-> [i \in DOMAIN ss |-> [str |-> ss[i], key |-> keys[i]]],
                bkt |-> [b \in used |-> BucketBegin(keys, b) + size[b]]]
      done == Walk(start, 0, Len(ss) - size[Max(used)], size)
  IN Map(LAMBDA e: e.str, done.at)

----------------------------------------------------------------------------
(* The reference: the order and the permutation the contest checks, and    *)
(* the LCP array and the character cache of a sorted sequence.             *)
InOrder(ss) == \A i \in 2..Len(ss) : Leq(ss[i - 1], ss[i], 0)

Occurrences(ss) == [s \in ToSet(ss) |-> Cardinality({i \in DOMAIN ss : ss[i] = s})]

Sorted(input, output) == InOrder(output) /\ Occurrences(input) = Occurrences(output)

LcpExact(ss, lcp) == \A i \in 2..Len(ss) : lcp[i] = Lcp(ss[i - 1], ss[i])

CacheExact(ss, lcp, cache) == \A i \in 2..Len(ss) : cache[i] = Char(ss[i], lcp[i])
=============================================================================
