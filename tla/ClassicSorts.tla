---------------------------- MODULE ClassicSorts ----------------------------
(***************************************************************************)
(* The radix sorts of other authors under sequential/: American flag sort  *)
(* with an explicit stack (mbm-radix.cpp), Nilsson's sorts of linked lists *)
(* (nilsson-*.cpp) and CRadix with its key buffers (ng-cradix*.cpp).       *)
(***************************************************************************)
EXTENDS RadixSorts, Integers

CONSTANTS SmallGroup,    \* groups about this small are sorted by insertion, 10 to 20
          MbmStack,      \* entries of the stack of mbm_radix, 1024
          KeyBuffer,     \* characters of a string in a key buffer, 4
          CacheCutoff    \* no more strings are sorted without key buffers, 128

ASSUME ClassicSortsAssumption == /\ SmallGroup \in Nat \ {0, 1}
                                 /\ MbmStack \in Nat /\ MbmStack >= MaxChar
                                 /\ KeyBuffer \in Nat \ {0}
                                 /\ CacheCutoff \in Nat

KeysAt(ss, d, width) == Map(LAMBDA s: Packed(s, d, width), ss)

----------------------------------------------------------------------------
(* mbm_radix: the stack has [begin, n, depth] for every pile of more than  *)
(* one string, the first of the largest ones lowest.  When a pile has more *)
(* different characters than the stack has room it is sorted in a call of  *)
(* its own with a stack of its own.                                        *)
Piles(top, keys) ==
  SelectSeq([c \in 1..MaxChar |-> [begin |-> top.begin + BucketBegin(keys, c),
                                   n |-> BucketSize(keys, c), depth |-> top.depth + 1]],
            LAMBDA pile: pile.n > 1)

LargestLowest(piles) ==
  LET big == CHOOSE i \in DOMAIN piles :
               /\ \A j \in DOMAIN piles : piles[j].n <= piles[i].n
               /\ \A j \in 1..i - 1 : piles[j].n < piles[i].n
  IN IF piles = <<>> \/ piles[big].n <= 2 THEN piles
     ELSE [piles EXCEPT ![1] = piles[big], ![big] = piles[1]]

Overflows(rest, keys) == Len(rest) + Cardinality(ToSet(keys) \ {0}) > MbmStack

RECURSIVE RsortA(_, _), PermuteHome(_, _, _, _)
PermuteHome(at, rest, top, keys) ==
  LET part == Slice(at, top.begin, top.n)
  IN IF Overflows(rest, keys)
     THEN RsortA(RsortA(at, <<top>>), rest)
     ELSE RsortA(Overwrite(at, top.begin, PermuteInPlace(part, keys)),
                 rest \o LargestLowest(Piles(top, keys)))

RsortA(at, stack) ==
  LET top == Last(stack)
      part == Slice(at, top.begin, top.n)
  IN CASE stack = <<>> -> at
       [] stack # <<>> /\ top.n < SmallGroup ->
            RsortA(Overwrite(at, top.begin, Inssort(part, top.depth)), Front(stack))
       [] OTHER -> PermuteHome(at, Front(stack), top, KeysAt(part, top.depth, 1))

mbm_radix(ss) == RsortA(ss, <<[begin |-> 0, n |-> Len(ss), depth |-> 0]>>)

----------------------------------------------------------------------------
(* Nilsson's insertion sort of a list: behind the tail, before the head,   *)
(* or behind the strings in the middle that are not larger.                *)
RECURSIVE Insertsort(_, _, _)
Insertsort(done, ss, p) ==
  LET x == Head(ss)
      larger == {k \in DOMAIN done : ~ Leq(done[k], x, p)}
  IN CASE ss = <<>> -> done
       [] ss # <<>> /\ larger = {} -> Insertsort(Append(done, x), Tail(ss), p)
       [] ss # <<>> /\ larger # {} /\ Leq(x, done[1], p) -> Insertsort(<<x>> \o done, Tail(ss), p)
       [] OTHER -> Insertsort(InsertAt(done, Min(larger), x), Tail(ss), p)

InsertsortList(ss, p) == Insertsort(<<Head(ss)>>, Tail(ss), p)

(* The adaptive sort has a stack of lists, the smallest strings lowest.    *)
(* Finished lists next to each other on it become one.                     *)
OnTop(stack, list) ==
  IF list.finished /\ stack # <<>> /\ Last(stack).finished
  THEN [stack EXCEPT ![Len(stack)].strs = @ \o list.strs]
  ELSE Append(stack, list)

ontostack(stack, strs, pos, ends) ==
  LET small == Len(strs) <= SmallGroup
  IN OnTop(stack, [strs |-> IF small /\ ~ ends THEN InsertsortList(strs, pos) ELSE strs,
                   finished |-> ends \/ small, pos |-> pos])

RECURSIVE AllOntoStack(_, _, _, _, _)
AllOntoStack(stack, moved, keys, b, pos) ==
  LET own == Bucket(moved, keys, b)
  IN IF b > Max(ToSet(keys)) THEN stack
     ELSE AllOntoStack(IF own = <<>> THEN stack ELSE ontostack(stack, own, pos, Terminated(b)),
                       moved, keys, b + 1, pos)

(* By two characters while there are many strings. *)
ByteWidth(ss) == IF Len(ss) <= WideThreshold THEN 1 ELSE 2

IntoBuckets(stack, ss, keys, pos) == AllOntoStack(stack, Distribute(ss, keys), keys, 0, pos)

RECURSIVE AdaptiveMsd(_, _)
AdaptiveMsd(stack, res) ==
  LET top == Last(stack)
      width == ByteWidth(top.strs)
  IN CASE stack = <<>> -> res
       [] stack # <<>> /\ top.finished -> AdaptiveMsd(Front(stack), top.strs \o res)
       [] OTHER -> AdaptiveMsd(IntoBuckets(Front(stack), top.strs, KeysAt(top.strs, top.pos, width),
                                           top.pos + width), res)

nilsson_adaptive_msd(ss) ==
  IF Len(ss) < 2 THEN ss ELSE AdaptiveMsd(<<[strs |-> ss, finished |-> FALSE, pos |-> 0]>>, <<>>)

----------------------------------------------------------------------------
(* The forward sorts go over all groups at once, one position after the    *)
(* other.  A group is split by its keys there and small parts are sorted;  *)
(* finished parts next to each other stay one group.  A group with only    *)
(* one key stays as it is, and is done when the key has the terminator.    *)
RECURSIVE SplitParts(_, _, _, _, _)
SplitParts(moved, keys, b, pos, groups) ==
  LET own == Bucket(moved, keys, b)
      small == Len(own) < SmallGroup
      finis == Terminated(b) \/ small
      part == IF small /\ ~ Terminated(b) THEN InsertsortList(own, pos) ELSE own
  IN CASE b > Max(ToSet(keys)) -> groups
       [] b <= Max(ToSet(keys)) /\ own = <<>> -> SplitParts(moved, keys, b + 1, pos, groups)
       [] OTHER ->
            SplitParts(moved, keys, b + 1, pos,
                  IF finis /\ groups # <<>> /\ Last(groups).finis
                  THEN [groups EXCEPT ![Len(groups)].strs = @ \o part]
                  ELSE Append(groups, [strs |-> part, finis |-> finis]))

SplitGroup(group, keys, pos) ==
  IF \A i \in DOMAIN keys : keys[i] = keys[1]
  THEN <<[group EXCEPT !.finis = Terminated(keys[1])]>>
  ELSE SplitParts(Distribute(group.strs, keys), keys, 0, pos, <<>>)

RECURSIVE Forward(_, _, _)
Forward(groups, pos, width) ==
  LET Round(group) == IF group.finis THEN <<group>>
                      ELSE SplitGroup(group, KeysAt(group.strs, pos, width), pos + width)
  IN IF \A i \in DOMAIN groups : groups[i].finis
     THEN FlattenSeq(Map(LAMBDA group: group.strs, groups))
     ELSE Forward(FlattenSeq(Map(Round, groups)), pos + width, width)

nilsson_forward(ss, width) ==
  IF Len(ss) < 2 THEN ss ELSE Forward(<<[strs |-> ss, finis |-> FALSE]>>, 0, width)

----------------------------------------------------------------------------
(* CRadix.  All groups share one memory for their key buffers.  A group    *)
(* whose buffers are used up fills them again from the place where its     *)
(* own begin, over buffers of groups behind it: those are taken from the   *)
(* stack before it.  Characters are below the alphabet's upper bound.      *)
NoBuffer == -1

FillKeyBuffer(kb, tk, ss, d) ==
  LET Filled(a) == LET s == ss[(a - tk) \div KeyBuffer + 1]
                       e == d + ((a - tk) % KeyBuffer)
                   IN IF e <= Len(s) THEN Char(s, e) ELSE kb[a]
  IN [a \in DOMAIN kb |-> IF a \in tk..tk + Len(ss) * KeyBuffer - 1 THEN Filled(a) ELSE kb[a]]

(* The buffers of a group, kbsd characters each, and what is left of them  *)
(* behind the first, in the new order of the strings.                      *)
Buffers(kb, tk, n, kbsd) == [i \in 1..n |-> [j \in 1..kbsd |-> kb[tk + (i - 1) * kbsd + j - 1]]]

PermuteBuffers(kb, tk, moved, kbsd1) ==
  LET Of(a) == moved[(a - tk) \div kbsd1 + 1][((a - tk) % kbsd1) + 2]
  IN [a \in DOMAIN kb |-> IF a \in tk..tk + Len(moved) * kbsd1 - 1 THEN Of(a) ELSE kb[a]]

(* Large groups go on the stack, smaller ones are sorted here: from depth  *)
(* d on, whose character they share.                                       *)
RECURSIVE PushGroups(_, _, _, _, _)
PushGroups(m, top, keys, kbsd1, c) ==
  LET begin == top.sa + BucketBegin(keys, c)
      n == BucketSize(keys, c)
      sk == IF kbsd1 = NoBuffer THEN NoBuffer ELSE top.sk + kbsd1 * BucketBegin(keys, c)
  IN CASE c > MaxChar -> m
       [] c \in 1..MaxChar /\ n > SmallGroup ->
            PushGroups([m EXCEPT !.stack = Append(m.stack, [sa |-> begin, sk |-> sk, sn |-> n,
                                                        sb |-> top.sb + 1])],
                   top, keys, kbsd1, c + 1)
       [] OTHER -> PushGroups([m EXCEPT !.at = Overwrite(m.at, begin,
                                                     Inssort(Slice(m.at, begin, n), top.sb))],
                          top, keys, kbsd1, c + 1)

MoveGroup(m, top, keys) ==
  [m EXCEPT !.at = Overwrite(m.at, top.sa, Distribute(Slice(m.at, top.sa, top.sn), keys)),
            !.stack = Front(m.stack)]

RDFK(m, top, keys) == PushGroups(MoveGroup(m, top, keys), top, keys, NoBuffer, 1)

ByBuffer(m, top, buffers, keys, kbsd1) ==
  PushGroups([MoveGroup(m, top, keys) EXCEPT
            !.kb = PermuteBuffers(m.kb, top.sk, Distribute(buffers, keys), kbsd1)],
         top, keys, kbsd1, 1)

Buffered(m, top, kbsd) ==
  LET buffers == Buffers(m.kb, top.sk, top.sn, kbsd)
  IN ByBuffer(m, top, buffers, Map(LAMBDA k: k[1], buffers), kbsd - 1)

RECURSIVE CRadix(_)
CRadix(m) ==
  LET top == Last(m.stack)
      part == Slice(m.at, top.sa, top.sn)
      fresh == top.sb % KeyBuffer = 0
  IN CASE m.stack = <<>> -> m.at
       [] m.stack # <<>> /\ (top.sk = NoBuffer \/ (fresh /\ top.sn <= CacheCutoff)) ->
            CRadix(RDFK(m, top, KeysAt(part, top.sb, 1)))
       [] OTHER ->
            CRadix(Buffered(IF fresh THEN [m EXCEPT !.kb = FillKeyBuffer(m.kb, top.sk, part, top.sb)]
                            ELSE m,
                            top, KeyBuffer - (top.sb % KeyBuffer)))

cradix(ss) ==
  CRadix([at |-> ss, kb |-> [a \in 0..Len(ss) * KeyBuffer - 1 |-> 0],
          stack |-> <<[sa |-> 0, sk |-> 0, sn |-> Len(ss), sb |-> 0]>>])
=============================================================================
