---------------------------- MODULE Distribution ----------------------------
(***************************************************************************)
(* The parallel distribution that pS5 (SampleSortStep::count, distribute,  *)
(* bingmann-parallel_sample_sort.hpp) and the parallel radix sort          *)
(* (RadixStepCE, bingmann-parallel_radix_sort.hpp) have in common.         *)
(*                                                                         *)
(* The strings are cut into parts of psize strings.  Count jobs count the  *)
(* buckets of their part; the last one turns the counts into an inclusive  *)
(* prefix sum over (bucket, part), so that bkt[p][b] ends the window of    *)
(* the shadow array that part p fills with its strings of bucket b.        *)
(* Distribute jobs fill the windows from the end without locks; the last   *)
(* one finds the bucket boundaries in bkt[0].                              *)
(***************************************************************************)
EXTENDS Integers, FiniteSets, Folds

CONSTANTS
  N,                    \* strptr.size()
  Parts,                \* parts
  BktNum                \* bktnum, numbkts

Position == 0 .. N - 1
Part     == 0 .. Parts - 1
Bkt      == 0 .. BktNum - 1
Empty    == -1                  \* a slot of the shadow array not written yet

\* Part p is strB(p) .. strE(p) - 1: psize rounds up, so the last parts may
\* be short, empty, or begin behind the last string.
psize   == (N + Parts - 1) \div Parts
Low(m, n) == IF m < n THEN m ELSE n
strB(p) == p * psize
strE(p) == LET e == Low((p + 1) * psize, N) IN IF e < strB(p) THEN strB(p) ELSE e

VARIABLES
  key,          \* bktcache: the bucket of each string
  bkt,          \* bkt[p][b]
  pwork,        \* jobs of the phase still working
  pc,           \* what the job of each part does
  str,          \* the next string a distribute job moves
  shadow,       \* which string is in each slot of the shadow array
  bounds        \* the bucket boundaries distribute_finished() uses, or <<>>

vars == <<key, bkt, pwork, pc, str, shadow, bounds>>

Init ==
  /\ key \in [Position -> Bkt]
  /\ bkt = [p \in Part |-> [b \in Bkt |-> 0]]
  /\ pwork = Parts
  /\ pc = [p \in Part |-> "count"]
  /\ str = [p \in Part |-> strB(p)]
  /\ shadow = [i \in Position |-> Empty]
  /\ bounds = <<>>

\* Mutant: the last string of a part is not counted.
CountStrings_ShortPart(p) ==
  /\ pc[p] = "count"
  /\ bkt' = [bkt EXCEPT ![p] =
       [b \in Bkt |-> Cardinality({i \in strB(p) .. strE(p) - 2 : key[i] = b})]]
  /\ pc' = [pc EXCEPT ![p] = "counted"]
  /\ UNCHANGED <<key, pwork, str, shadow, bounds>>

\* count(p): the buckets of part p.
CountStrings(p) ==
  /\ pc[p] = "count"
  /\ bkt' = [bkt EXCEPT ![p] =
       [b \in Bkt |-> Cardinality({i \in strB(p) .. strE(p) - 1 : key[i] = b})]]
  /\ pc' = [pc EXCEPT ![p] = "counted"]
  /\ UNCHANGED <<key, pwork, str, shadow, bounds>>

\* Mutant: the sum of a bucket is stored after its last part, for all parts.
PrefixSum_AllParts ==
  [p \in Part |-> [b \in Bkt |->
    MapThenFoldSet(LAMBDA x, y : x + y, 0, LAMBDA c : bkt[c[1]][c[2]],
                   LAMBDA S : CHOOSE c \in S : TRUE,
                   {c \in Part \X Bkt : c[2] <= b})]]

\* The inclusive prefix sum: all parts of a bucket, then the next bucket.
PrefixSum ==
  [p \in Part |-> [b \in Bkt |->
    MapThenFoldSet(LAMBDA x, y : x + y, 0, LAMBDA c : bkt[c[1]][c[2]],
                   LAMBDA S : CHOOSE c \in S : TRUE,
                   {c \in Part \X Bkt : c[2] < b \/ (c[2] = b /\ c[1] <= p)})]]

\* --pwork of a count job; the last one runs count_finished(), which enqueues
\* the distribute jobs.
EndCount(p) ==
  /\ pc[p] = "counted"
  /\ IF pwork = 1
     THEN /\ bkt' = PrefixSum
          /\ pwork' = Parts
          /\ pc' = [q \in Part |-> "dist"]
     ELSE /\ pwork' = pwork - 1
          /\ pc' = [pc EXCEPT ![p] = "wait"]
          /\ UNCHANGED bkt
  /\ UNCHANGED <<key, str, shadow, bounds>>

\* distribute(p): *(sbegin + --mybkt[*mybktcache]) = std::move(*str).
MoveString(p) ==
  LET b == key[str[p]]
  IN
  /\ pc[p] = "dist" /\ str[p] < strE(p)
  /\ shadow' = [shadow EXCEPT ![bkt[p][b] - 1] = str[p]]
  /\ bkt' = [bkt EXCEPT ![p][b] = @ - 1]
  /\ str' = [str EXCEPT ![p] = @ + 1]
  /\ UNCHANGED <<key, pwork, pc, bounds>>

\* Mutant: the job that distributes first goes on to distribute_finished().
EndDistribute_First(p) ==
  /\ pc[p] = "dist" /\ str[p] = strE(p)
  /\ pwork' = pwork - 1
  /\ bounds' = IF pwork = Parts THEN <<bkt[0]>> ELSE bounds
  /\ pc' = [pc EXCEPT ![p] = "done"]
  /\ UNCHANGED <<key, bkt, str, shadow>>

\* --pwork of a distribute job; the last one runs distribute_finished().
EndDistribute(p) ==
  /\ pc[p] = "dist" /\ str[p] = strE(p)
  /\ pwork' = pwork - 1
  /\ bounds' = IF pwork = 1 THEN <<bkt[0]>> ELSE bounds
  /\ pc' = [pc EXCEPT ![p] = "done"]
  /\ UNCHANGED <<key, bkt, str, shadow>>

PartStep(p) == CountStrings(p) \/ EndCount(p) \/ MoveString(p) \/ EndDistribute(p)

Terminated == (\A p \in Part : pc[p] = "done") /\ UNCHANGED vars

Next == (\E p \in Part : PartStep(p)) \/ Terminated

Spec == Init /\ [][Next]_vars

---------------------------------------------------------------------------
(* Properties *)

TypeOK ==
  /\ key \in [Position -> Bkt]
  /\ bkt \in [Part -> [Bkt -> 0 .. N]]
  /\ pwork \in 0 .. Parts
  /\ str \in [Part -> Nat]
  /\ shadow \in [Position -> Position \cup {Empty}]

\* The jobs write the shadow array without locks, and never the same slot.
SlotsKept == \A i \in Position : shadow[i] # Empty => shadow'[i] = shadow[i]
=============================================================================
