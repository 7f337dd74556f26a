-------------------------- MODULE ParallelMergeMC --------------------------
EXTENDS ParallelMerge

\* Seven strings; some are equal, some a prefix of another.
Mixed == <<<<2, 1>>, <<2, 2>>, <<2, 1, 1>>, <<1>>, <<1, 2>>, <<2>>, <<1, 1>>>>
Groups == <<<<1, 1>>, <<1, 1>>, <<1, 1>>, <<2>>, <<1, 1>>, <<1, 1>>, <<2>>>>
Pairs == <<<<1, 1>>, <<1, 2>>, <<1, 1>>, <<1, 2>>, <<1, 1>>, <<1, 2>>, <<2>>>>
Same == [i \in 1 .. 7 |-> <<1>>]
\* What is behind the strings: the same everywhere, or not.
Zeros == [i \in 1 .. 7 |-> 0]
Mixture == [i \in 1 .. 7 |-> i % 2]

Case(strings, cut, behind, mode) == [strings |-> strings, cut |-> cut, behind |-> behind, mode |-> mode]

\* <<2, 2, 3>> is what calculateRanges gives three threads; the NUMA variants
\* take parts of any size, empty ones, too.
Cases ==
  {Case(Mixed, <<2, 2, 3>>, Zeros, m) : m \in {"lcp", "standard", "binary", "sequential"}}
  \cup {Case(Groups, <<2, 3, 2>>, b, "lcp") : b \in {Zeros, Mixture}}
  \cup {Case(Pairs, <<2, 2, 3>>, Zeros, m) : m \in {"lcp", "binary"}}
  \cup {Case(Same, <<2, 2, 3>>, Zeros, m) : m \in {"lcp", "binary"}}
  \cup {Case(Groups, <<3, 0, 4>>, Zeros, m) : m \in {"lcp", "standard"}}

\* Standard splitting of seven equal strings.
EqualCases == {Case(Same, <<2, 2, 3>>, Zeros, "standard")}
=============================================================================
