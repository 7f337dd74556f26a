----------------------------- MODULE Mergesorts -----------------------------
(***************************************************************************)
(* Rantala's merge sorts: two, three and four ways, stable                 *)
(* (rantala/mergesort.cpp) and unstable (rantala/mergesort_unstable.cpp),  *)
(* and K ways by a loser tree (rantala/mergesort_losertree.cpp,            *)
(* rantala/tools/losertree.hpp).                                           *)
(*                                                                         *)
(* The code of the mergers is one labelled state for every order the heads *)
(* of the streams can be in, with a jump for every way the next string of  *)
(* the first stream can change that order.  The label is kept here as the  *)
(* list of the streams, with the streams of equal heads in one group in    *)
(* the unstable mergers.  A stream is [at |-> its number, left |-> what    *)
(* is left of it].                                                         *)
(***************************************************************************)
EXTENDS Strings

CONSTANTS MergeBase,       \* fewer strings are sorted by insertion, 32 in the code
          LoserTreeMin,    \* fewer strings are merged four ways, 0x10000
          LoserTreeWays    \* streams of a loser tree, 64 to 1024

ASSUME MergesortsAssumption == /\ MergeBase \in Nat \ 0..3
                               /\ LoserTreeWays \in Nat \ {0, 1}
                               /\ LoserTreeMin \in Nat \ 0..LoserTreeWays - 1

Less(s, t) == ~ Leq(t, s, 0)
Same(s, t) == Leq(s, t, 0) /\ Leq(t, s, 0)

Key0(a) == Head(a.left)
Moved(a) == [a EXCEPT !.left = Tail(@)]

----------------------------------------------------------------------------
(* The stable mergers.  Of equal heads the one of the stream with the      *)
(* smaller number comes first.                                             *)
Before(a, b) == IF a.at < b.at THEN Leq(Key0(a), Key0(b), 0) ELSE Less(Key0(a), Key0(b))

(* The next state after a string of stream a: a before the first stream it *)
(* comes before, else last.                                                *)
Reinsert(a, order) ==
  LET k == Cardinality({i \in DOMAIN order : ~ Before(a, order[i])}) + 1
  IN InsertAt(order, k, a)

InitialOrder(streams) == FoldLeft(LAMBDA order, a: Reinsert(a, order), <<>>, streams)

(* Once a stream is used up the others go to the merger of one way less,   *)
(* which orders them anew; the last one is copied.                         *)
RECURSIVE MergeStable(_)
MergeStable(order) ==
  LET a == order[1]
      rest == Tail(order)
  IN IF rest = <<>> THEN a.left
     ELSE <<Key0(a)>> \o (IF Len(a.left) = 1 THEN MergeStable(InitialOrder(rest))
                          ELSE MergeStable(Reinsert(Moved(a), rest)))

merge_2way(streams) == MergeStable(InitialOrder(streams))
merge_3way(streams) == MergeStable(InitialOrder(streams))
merge_4way(streams) == MergeStable(InitialOrder(streams))

----------------------------------------------------------------------------
(* The unstable mergers.  The state is a list of groups of streams, those  *)
(* of one group with equal heads.  a joins the group it equals or stands   *)
(* before the first group it is less than.                                 *)
Join(a, groups) ==
  LET less == {i \in DOMAIN groups : ~ Less(Key0(a), Key0(groups[i][1]))}
      k == Cardinality(less)
  IN IF k > 0 /\ Same(Key0(a), Key0(groups[k][1]))
     THEN [groups EXCEPT ![k] = Append(@, a)]
     ELSE InsertAt(groups, k + 1, <<a>>)

initial(streams) == FoldLeft(LAMBDA groups, a: Join(a, groups), <<>>, streams)

(* A stream that alone is first gives its string and finds its new place   *)
(* among the others; of several equal ones each gives its string, and the  *)
(* order of all is found anew.  When one is used up, the ones that are not *)
(* go to the merger for as many, and a single one is copied.               *)
RECURSIVE MergeUnstable(_)
finish(streams) ==
  LET nonempty == SelectSeq(streams, LAMBDA a: a.left # <<>>)
  IN IF nonempty = <<>> THEN <<>> ELSE MergeUnstable(initial(nonempty))

StrictCase(a, others) ==
  <<Key0(a)>> \o (IF Len(a.left) = 1 THEN finish(FlattenSeq(others))
                  ELSE MergeUnstable(Join(Moved(a), others)))

EqCase(group, others) ==
  LET moved == Map(Moved, group)
      all == moved \o FlattenSeq(others)
  IN Map(Key0, group) \o
       (IF \E i \in DOMAIN moved : moved[i].left = <<>> THEN finish(all)
        ELSE MergeUnstable(initial(all)))

MergeUnstable(groups) ==
  CASE Len(groups) = 1 /\ Len(groups[1]) = 1 -> groups[1][1].left
    [] Len(groups) > 1 /\ Len(groups[1]) = 1 -> StrictCase(groups[1][1], Tail(groups))
    [] OTHER -> EqCase(groups[1], Tail(groups))

merge_2way_unstable(streams) == MergeUnstable(initial(streams))
merge_3way_unstable(streams) == MergeUnstable(initial(streams))
merge_4way_unstable(streams) == MergeUnstable(initial(streams))

----------------------------------------------------------------------------
(* The sorts: the ends of all parts but the last, each part sorted the     *)
(* same way, in the parallel versions by sections that run side by side on *)
(* parts of the strings and of the scratch area of their own.              *)
Streams(ss, splits) ==
  LET ends == <<0>> \o splits \o <<Len(ss)>>
  IN [i \in 1..Len(splits) + 1 |->
        [at |-> i - 1, left |-> SubSeq(ss, ends[i] + 1, ends[i + 1])]]

SortedStreams(Sort(_), ss, splits) ==
  Map(LAMBDA a: [a EXCEPT !.left = Sort(@)], Streams(ss, splits))

Halves(n) == <<n \div 2>>
Thirds(n) == <<n \div 3, (2 * n) \div 3>>
Quarters(n) == <<n \div 4, n \div 2, n \div 4 + n \div 2>>
Quarters34(n) == <<n \div 4, n \div 2, (3 * n) \div 4>>

RECURSIVE mergesort_2way(_)
mergesort_2way(ss) ==
  IF Len(ss) < MergeBase THEN Inssort(ss, 0)
  ELSE merge_2way(SortedStreams(mergesort_2way, ss, Halves(Len(ss))))

RECURSIVE mergesort_3way(_)
mergesort_3way(ss) ==
  IF Len(ss) < MergeBase THEN Inssort(ss, 0)
  ELSE merge_3way(SortedStreams(mergesort_3way, ss, Thirds(Len(ss))))

RECURSIVE mergesort_4way(_)
mergesort_4way(ss) ==
  IF Len(ss) < MergeBase THEN Inssort(ss, 0)
  ELSE merge_4way(SortedStreams(mergesort_4way, ss, Quarters(Len(ss))))

RECURSIVE mergesort_2way_unstable(_)
mergesort_2way_unstable(ss) ==
  IF Len(ss) < MergeBase THEN Inssort(ss, 0)
  ELSE merge_2way_unstable(SortedStreams(mergesort_2way_unstable, ss, Halves(Len(ss))))

RECURSIVE mergesort_3way_unstable(_)
mergesort_3way_unstable(ss) ==
  IF Len(ss) < MergeBase THEN Inssort(ss, 0)
  ELSE merge_3way_unstable(SortedStreams(mergesort_3way_unstable, ss, Thirds(Len(ss))))

RECURSIVE mergesort_4way_unstable(_)
mergesort_4way_unstable(ss) ==
  IF Len(ss) < MergeBase THEN Inssort(ss, 0)
  ELSE merge_4way_unstable(SortedStreams(mergesort_4way_unstable, ss, Quarters34(Len(ss))))

----------------------------------------------------------------------------
(* The loser tree.  The streams are the leaves, as many as the next power  *)
(* of two, with empty ones behind the given; an inner node holds the       *)
(* number of the stream that lost there, node 0 that of the winner.        *)
StreamOffset == CHOOSE o \in {2^e : e \in 1..LoserTreeWays} :
                  LoserTreeWays <= o /\ o < 2 * LoserTreeWays

stream_empty(t, i) == t.streams[i] = <<>>
Min0(t, i) == Head(t.streams[i])

(* The two sides of a node play; the left one wins ties, an empty stream   *)
(* loses.                                                                  *)
RECURSIVE init_min(_, _)
init_min(t, root) ==
  IF root >= StreamOffset THEN [tree |-> t, min |-> root - StreamOffset]
  ELSE LET l == init_min(t, 2 * root)
           r == init_min(l.tree, 2 * root + 1)
           leftWins == \/ stream_empty(t, r.min)
                       \/ /\ ~ stream_empty(t, l.min)
                          /\ Leq(Min0(t, l.min), Min0(t, r.min), 0)
       IN IF leftWins THEN [tree |-> [r.tree EXCEPT !.nodes[root] = r.min], min |-> l.min]
          ELSE [tree |-> [r.tree EXCEPT !.nodes[root] = l.min], min |-> r.min]

loser_tree(streams) ==
  LET t == [streams |-> [i \in 0..StreamOffset - 1 |->
                           IF i < Len(streams) THEN streams[i + 1].left ELSE <<>>],
            nodes |-> [i \in 0..StreamOffset - 1 |-> 0]]
      built == init_min(t, 1)
  IN [built.tree EXCEPT !.nodes[0] = built.min]

(* The winner's way up once its stream has moved on. *)
RECURSIVE update(_, _, _)
update(t, new_min, i) ==
  IF i = 0 THEN [t EXCEPT !.nodes[0] = new_min]
  ELSE LET d == t.nodes[i]
           swapped == \/ stream_empty(t, new_min)
                      \/ ~ stream_empty(t, d) /\ Less(Min0(t, d), Min0(t, new_min))
       IN IF swapped THEN update([t EXCEPT !.nodes[i] = new_min], d, i \div 2)
          ELSE update(t, new_min, i \div 2)

RECURSIVE TakeMins(_)
TakeMins(t) ==
  LET w == t.nodes[0]
      moved == [t EXCEPT !.streams[w] = Tail(@)]
  IN IF \A i \in DOMAIN t.streams : stream_empty(t, i) THEN <<>>
     ELSE <<Min0(t, w)>> \o TakeMins(update(moved, w, (StreamOffset + w) \div 2))

RECURSIVE mergesort_losertree(_)
mergesort_losertree(ss) ==
  LET split == Len(ss) \div LoserTreeWays
      ends == [i \in 1..LoserTreeWays - 1 |-> i * split]
  IN IF Len(ss) < LoserTreeMin THEN mergesort_4way(ss)
     ELSE TakeMins(loser_tree(SortedStreams(mergesort_losertree, ss, ends)))
=============================================================================
