----------------------------- MODULE BucketStep -----------------------------
(***************************************************************************)
(* What one step of a bucket sort promises, whichever code does it: the    *)
(* strings, rearranged, in the order of their characters, and where each   *)
(* bucket begins.  It says nothing of the order inside a bucket: the       *)
(* in-place permutation and the distribution from the end are not stable.  *)
(***************************************************************************)
EXTENDS Integers, FiniteSets

CONSTANTS
  N,                    \* strings
  MaxChar               \* characters are 0 .. MaxChar

VARIABLES
  char,         \* the character of each string
  order,        \* the string at each position
  bounds        \* where each bucket begins, or <<>> before the step

vars == <<char, order, bounds>>

Strings == 0 .. N - 1
Below(c) == Cardinality({s \in Strings : char[s] < c})

Init ==
  /\ char \in [Strings -> 0 .. MaxChar]
  /\ order = [p \in Strings |-> p]
  /\ bounds = <<>>

Sort ==
  /\ bounds = <<>>
  /\ bounds' = [c \in 0 .. MaxChar |-> Below(c)]
  /\ {order'[p] : p \in Strings} = Strings
  /\ \A p, q \in Strings : p <= q => char[order'[p]] <= char[order'[q]]
  /\ UNCHANGED char

Spec == Init /\ [][Sort]_vars
=============================================================================
