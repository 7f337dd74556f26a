----------------------------- MODULE RadixSorts -----------------------------
(***************************************************************************)
(* The most significant digit radix sorts of                               *)
(* sequential/bingmann-radix_sort.hpp: out of place (CE) and in place      *)
(* (CI), by one character or adaptively by two, recursive or with an       *)
(* explicit stack of radix steps.  A variant that only caches the          *)
(* characters it moves by is the one it caches for.                        *)
(***************************************************************************)
EXTENDS Strings

CONSTANTS InssortThreshold,  \* fewer strings are sorted by insertion, 32 in the code
          WideThreshold      \* as many strings are sorted by two characters, 0x10000

ASSUME RadixSortsAssumption == /\ InssortThreshold \in Nat \ {0, 1}
                               /\ WideThreshold \in Nat

Move(how, ss, keys) == CASE how = "out" -> Distribute(ss, keys)
                         [] how = "in" -> PermuteInPlace(ss, keys)

(* The recursion of the one-character sorts: the bucket of the terminated  *)
(* strings is done, every other one of more than one string is sorted from *)
(* the next character on.                                                  *)
RECURSIVE Msd8(_, _, _)
Msd8(how, ss, d) ==
  IF Len(ss) < InssortThreshold THEN Inssort(ss, d)
  ELSE LET keys == Map(LAMBDA s: Char(s, d), ss)
           moved == Move(how, ss, keys)
           SortBucket(b) == LET own == Bucket(moved, keys, b)
                            IN IF Len(own) > 1 THEN Msd8(how, own, d + 1) ELSE own
       IN Bucket(moved, keys, 0) \o FlattenSeq([b \in 1..MaxChar |-> SortBucket(b)])

MsdCE0(ss) == Msd8("out", ss, 0)
MsdCE2(ss, d) == Msd8("out", ss, d)
MsdCI0(ss) == Msd8("in", ss, 0)
MsdCI2(ss, d) == Msd8("in", ss, d)

(* The object versions of both, with the insertion sort of string sets. *)
RECURSIVE MsdCE0Generic(_, _)
MsdCE0Generic(ss, d) ==
  IF Len(ss) < InssortThreshold THEN InssortGeneric(ss, d)
  ELSE LET keys == Map(LAMBDA s: Char(s, d), ss)
           sorted == Distribute(ss, keys)
           SortBucket(b) == LET own == Bucket(sorted, keys, b)
                            IN IF Len(own) > 1 THEN MsdCE0Generic(own, d + 1) ELSE own
       IN Bucket(sorted, keys, 0) \o FlattenSeq([b \in 1..MaxChar |-> SortBucket(b)])

RECURSIVE MsdCI2Generic(_, _)
MsdCI2Generic(ss, d) ==
  IF Len(ss) < InssortThreshold THEN InssortGeneric(ss, d)
  ELSE LET charcache == Map(LAMBDA s: Char(s, d), ss)
           moved == PermuteInPlace(ss, charcache)
           SortBucket(b) == LET own == Bucket(moved, charcache, b)
                            IN IF Len(own) > 1 THEN MsdCI2Generic(own, d + 1) ELSE own
       IN Bucket(moved, charcache, 0) \o FlattenSeq([b \in 1..MaxChar |-> SortBucket(b)])

(* Two characters at a time while there are many strings; a bucket whose   *)
(* second character is the terminator is done.                             *)
RECURSIVE MsdCE3(_, _)
MsdCE3(ss, d) ==
  IF Len(ss) < WideThreshold THEN MsdCE2(ss, d)
  ELSE LET charcache == Map(LAMBDA s: Char16(s, d), ss)
           sorted == Distribute(ss, charcache)
           SortBucket(b) == LET own == Bucket(sorted, charcache, b)
                            IN IF ~ Terminated(b) /\ Len(own) > 1
                               THEN MsdCE3(own, d + 2) ELSE own
       IN FlattenSeq([b \in 1..Radix16 |-> SortBucket(b - 1)])

RECURSIVE MsdCI3(_, _)
MsdCI3(ss, d) ==
  IF Len(ss) < WideThreshold THEN MsdCI2(ss, d)
  ELSE LET charcache == Map(LAMBDA s: Char16(s, d), ss)
           moved == PermuteInPlace(ss, charcache)
           SortBucket(b) == LET own == Bucket(moved, charcache, b)
                            IN IF ~ Terminated(b) /\ Len(own) > 1
                               THEN MsdCI3(own, d + 2) ELSE own
       IN FlattenSeq([b \in 1..Radix16 |-> SortBucket(b - 1)])

----------------------------------------------------------------------------
(* The same with a stack.  A radix step moves n strings from begin on by   *)
(* their characters at a depth and remembers the bucket sizes, where the   *)
(* next bucket to process begins and the bucket processed last; the        *)
(* machine is the array and the stack of steps.                            *)
RadixStep8(how, m, begin, n, d) ==
  LET part == Slice(m.at, begin, n)
      keys == Map(LAMBDA s: Char(s, d), part)
      size == [b \in 0..MaxChar |-> BucketSize(keys, b)]
  IN [at |-> Overwrite(m.at, begin, Move(how, part, keys)),
      stack |-> Append(m.stack, [str |-> begin + size[0], idx |-> 0, size |-> size])]

RECURSIVE RunStack8(_, _, _)
RunStack8(how, m, depth) ==
  IF m.stack = <<>> THEN m.at
  ELSE LET top == Last(m.stack)
           idx == top.idx + 1
           size == top.size[idx]
           d == depth + Len(m.stack)
           next == [m EXCEPT !.stack[Len(m.stack)] =
                      [top EXCEPT !.idx = idx, !.str = top.str + size]]
       IN IF top.idx >= MaxChar
          THEN RunStack8(how, [m EXCEPT !.stack = Front(m.stack)], depth)
          ELSE RunStack8(how,
                 CASE size = 0 -> next
                   [] size \in 1..InssortThreshold - 1 ->
                        [next EXCEPT !.at = Overwrite(m.at, top.str,
                                              Inssort(Slice(m.at, top.str, size), d))]
                   [] OTHER -> RadixStep8(how, next, top.str, size, d),
                 depth)

StackSort8(how, ss, d) == RunStack8(how, RadixStep8(how, [at |-> ss, stack |-> <<>>], 0, Len(ss), d), d)

MsdCE2sb(ss) == IF Len(ss) < InssortThreshold THEN Inssort(ss, 0) ELSE StackSort8("out", ss, 0)
MsdCI2sb(ss) == IF Len(ss) < InssortThreshold THEN Inssort(ss, 0) ELSE StackSort8("in", ss, 0)

RadixStep16(how, m, begin, n, d) ==
  LET part == Slice(m.at, begin, n)
      keys == Map(LAMBDA s: Char16(s, d), part)
      size == [b \in 0..Radix16 - 1 |-> BucketSize(keys, b)]
  IN [at |-> Overwrite(m.at, begin, Move(how, part, keys)),
      stack |-> Append(m.stack, [str |-> begin + size[0], idx |-> 0, size |-> size])]

(* The loop runs while idx < RADIX and increments idx first, so it also    *)
(* reads the bucket size behind the last one.  What it finds there is not  *)
(* known; its bucket number ends in a terminator, so it is only added to   *)
(* a position that nothing uses any more.                                  *)
RECURSIVE RunStack16(_, _)
RunStack16(how, m) ==
  IF m.stack = <<>> THEN m.at
  ELSE LET top == Last(m.stack)
           idx == top.idx + 1
           size == IF idx < Radix16 THEN top.size[idx] ELSE Len(m.at)
           d == 2 * Len(m.stack)
           next == [m EXCEPT !.stack[Len(m.stack)] =
                      [top EXCEPT !.idx = idx, !.str = top.str + size]]
           Sorted16(part) == [next EXCEPT !.at = Overwrite(m.at, top.str, part)]
       IN IF top.idx >= Radix16
          THEN RunStack16(how, [m EXCEPT !.stack = Front(m.stack)])
          ELSE RunStack16(how,
                 CASE size = 0 \/ Terminated(idx) -> next
                   [] ~ Terminated(idx) /\ size \in 1..InssortThreshold - 1 ->
                        Sorted16(Inssort(Slice(m.at, top.str, size), d))
                   [] ~ Terminated(idx) /\ size \in InssortThreshold..WideThreshold - 1 ->
                        Sorted16(StackSort8(how, Slice(m.at, top.str, size), d))
                   [] OTHER -> RadixStep16(how, next, top.str, size, d))

StackSort16(how, ss) ==
  CASE Len(ss) < InssortThreshold -> Inssort(ss, 0)
    [] Len(ss) \in InssortThreshold..WideThreshold - 1 -> StackSort8(how, ss, 0)
    [] OTHER -> RunStack16(how, RadixStep16(how, [at |-> ss, stack |-> <<>>], 0, Len(ss), 0))

MsdCE3sb(ss) == StackSort16("out", ss)
MsdCI3sb(ss) == StackSort16("in", ss)
=============================================================================
