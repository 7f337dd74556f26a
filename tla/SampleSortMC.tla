---------------------------- MODULE SampleSortMC ----------------------------
(* Instances of SampleSort for TLC. *)
EXTENDS SampleSort

Instance(n, seq, small, ins, levels, depth) ==
  [n |-> n, seq |-> seq, small |-> small, ins |-> ins, levels |-> levels, parts |-> 3, depth |-> depth]

\* Parallel steps above small sorts, two keys deep.
Parallel == Instance(4, 2, 2, 2, 1, 1)
\* One small sort with both stacks.
Small == Instance(5, 5, 5, 2, 2, 0)

BothInstances == {Parallel, Small}
\* The least instance with a parallel step.
LeastInstance == {Instance(3, 2, 2, 2, 1, 0)}
=============================================================================
