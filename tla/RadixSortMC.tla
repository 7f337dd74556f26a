----------------------------- MODULE RadixSortMC -----------------------------
(* Instances of RadixSort for TLC: strings with common prefixes longer than *)
(* a 16-bit key, one a prefix of another, and duplicates.                   *)
EXTENDS RadixSort

SomeStrings == {<<>>, <<1>>, <<1, 1>>, <<1, 1, 1>>, <<1, 1, 2>>, <<2, 1>>}
=============================================================================
