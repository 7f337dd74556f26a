----------------------------- MODULE RadixPermute -----------------------------
(***************************************************************************)
(* src/src/parallel/bingmann-parallel_radix_sort.hpp: the in-place         *)
(* permutation of RadixStep8_CI and RadixStep16_CI.                        *)
(*                                                                         *)
(* Strings are moved along the cycles of the permutation: the string taken *)
(* out at i goes to the end of its bucket and the one found there is       *)
(* carried on, until one belongs at i.  The characters are read only once, *)
(* into a cache that must move with the strings.  The last nonempty bucket *)
(* is left alone.                                                          *)
(***************************************************************************)
EXTENDS Integers, FiniteSets

CONSTANTS
  N,                    \* ss.size()
  MaxChar               \* 255, or 65535 with 16-bit characters

ASSUME PermuteAssumption == N \in Nat \ {0} /\ MaxChar \in Nat

Position == 0 .. N - 1
Char     == 0 .. MaxChar

VARIABLES
  char,         \* the character of each string, by its first position
  ss,           \* the string at each position
  charcache,    \* the cached character of each position
  bkt,          \* the end of what is left of each bucket
  i,            \* the position the outer loop is at
  perm, permch, \* the string in hand and its character
  pc            \* "outer", "inner" loop, or "done"

vars == <<char, ss, charcache, bkt, i, perm, permch, pc>>

bktsize(c) == Cardinality({s \in Position : char[s] = c})

\* Mutant: one string too many is left alone.
last_bkt_size_More ==
  1 + Cardinality({s \in Position : \A r \in Position : char[r] <= char[s]})

\* The size of the last nonempty bucket.
last_bkt_size == Cardinality({s \in Position : \A r \in Position : char[r] <= char[s]})

\* The counting pass and the inclusive prefix sum.
Init ==
  /\ char \in [Position -> Char]
  /\ ss = [p \in Position |-> p]
  /\ charcache = char
  /\ bkt = [c \in Char |-> Cardinality({s \in Position : char[s] <= c})]
  /\ i = 0
  /\ perm = 0
  /\ permch = 0
  /\ pc = "outer"

\* perm = ss[i]
TakeOut ==
  /\ pc = "outer" /\ i < N - last_bkt_size
  /\ perm' = ss[i]
  /\ permch' = charcache[i]
  /\ pc' = "inner"
  /\ UNCHANGED <<char, ss, charcache, bkt, i>>

\* Mutant: the characters stay where they are.
Exchange_KeepCache ==
  LET j == bkt[permch] - 1
  IN
  /\ pc = "inner" /\ j > i
  /\ bkt' = [bkt EXCEPT ![permch] = j]
  /\ perm' = ss[j] /\ ss' = [ss EXCEPT ![j] = perm]
  /\ permch' = charcache[j]
  /\ UNCHANGED <<char, charcache, i, pc>>

\* Mutant: an assignment instead of a swap.
Exchange_NoSwap ==
  LET j == bkt[permch] - 1
  IN
  /\ pc = "inner" /\ j > i
  /\ bkt' = [bkt EXCEPT ![permch] = j]
  /\ perm' = perm /\ ss' = [ss EXCEPT ![j] = perm]
  /\ permch' = charcache[j] /\ charcache' = [charcache EXCEPT ![j] = permch]
  /\ UNCHANGED <<char, i, pc>>

\* while ((j = --bkt[permch]) > i): the string in hand goes to j.
Exchange ==
  LET j == bkt[permch] - 1
  IN
  /\ pc = "inner" /\ j > i
  /\ bkt' = [bkt EXCEPT ![permch] = j]
  /\ perm' = ss[j] /\ ss' = [ss EXCEPT ![j] = perm]
  /\ permch' = charcache[j] /\ charcache' = [charcache EXCEPT ![j] = permch]
  /\ UNCHANGED <<char, i, pc>>

\* Mutant: the outer loop goes on with the next position.
PutDown_NextPosition ==
  LET j == bkt[permch] - 1
  IN
  /\ pc = "inner" /\ j <= i
  /\ bkt' = [bkt EXCEPT ![permch] = j]
  /\ ss' = [ss EXCEPT ![i] = perm]
  /\ i' = i + 1
  /\ pc' = "outer"
  /\ UNCHANGED <<char, charcache, perm, permch>>

\* The string in hand belongs at i, and the rest of its bucket is in place.
PutDown ==
  LET j == bkt[permch] - 1
  IN
  /\ pc = "inner" /\ j <= i
  /\ bkt' = [bkt EXCEPT ![permch] = j]
  /\ ss' = [ss EXCEPT ![i] = perm]
  /\ i' = i + bktsize(permch)
  /\ pc' = "outer"
  /\ UNCHANGED <<char, charcache, perm, permch>>

\* The loop ends, and the prefix sum is fixed.
Fix ==
  /\ pc = "outer" /\ i >= N - last_bkt_size
  /\ bkt' = [c \in Char |-> Cardinality({s \in Position : char[s] < c})]
  /\ pc' = "done"
  /\ UNCHANGED <<char, ss, charcache, i, perm, permch>>

Terminated == pc = "done" /\ UNCHANGED vars

Next == TakeOut \/ Exchange \/ PutDown \/ Fix \/ Terminated

Spec == Init /\ [][Next]_vars

---------------------------------------------------------------------------
(* Properties *)

\* The cells of bkt are unsigned: none is ever decremented below zero, and
\* none is left so that another string could be written behind the end.
TypeOK ==
  /\ char \in [Position -> Char]
  /\ ss \in [Position -> Position]
  /\ charcache \in [Position -> Char]
  /\ bkt \in [Char -> 0 .. N]
  /\ i \in 0 .. N
  /\ perm \in Position /\ permch \in Char

\* No string is lost or doubled: with the one in hand back at i, the array
\* holds every string once.
InHand == IF pc = "inner" THEN [ss EXCEPT ![i] = perm] ELSE ss
NothingLost == \A p, q \in Position : p # q => InHand[p] # InHand[q]

\* Every cached character that is still to be read is that of the string it
\* is read for.
CacheAgrees ==
  /\ pc = "inner" => permch = char[perm]
  /\ \A p \in Position : p > i \/ (p = i /\ pc = "outer") => charcache[p] = char[ss[p]]
=============================================================================
