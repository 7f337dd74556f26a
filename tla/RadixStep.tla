------------------------------ MODULE RadixStep ------------------------------
(***************************************************************************)
(* One step of the parallel radix sort: Enqueue() of                       *)
(* bingmann-parallel_radix_sort.hpp has large sets distributed by count    *)
(* and distribute jobs (Distribution) and small ones permuted in place by  *)
(* one thread (RadixPermute).  Both are shown to implement BucketStep.     *)
(***************************************************************************)
EXTENDS RadixPermute

CONSTANT Parts                  \* parts of a large step
ASSUME PartsAssumption == Parts \in Nat \ {0}

VARIABLES
  large,        \* the set is larger than the sequential threshold
  dbkt, pwork, dpc, str, shadow, dbounds        \* of the distribution

dvars == <<dbkt, pwork, dpc, str, shadow, dbounds>>

D == INSTANCE Distribution WITH
       key <- char, BktNum <- MaxChar + 1, bkt <- dbkt, pc <- dpc, bounds <- dbounds

\* Enqueue(): both steps are laid out, one of them is run.
EnqueueStep == large \in BOOLEAN /\ Init /\ D!Init

RunLarge == large /\ D!Next /\ UNCHANGED <<vars, large>>
RunSmall == ~large /\ Next /\ UNCHANGED <<dvars, large>>

StepSpec == EnqueueStep /\ [][RunLarge \/ RunSmall]_<<vars, dvars, large>>
----------------------------------------------------------------------------
(* Properties *)

\* The promise is kept at once, by the job that distributes last or by the end
\* of the permutation loop; in a large step the strings are in the shadow.
Promise == INSTANCE BucketStep WITH
  order <- CASE large /\ dbounds # <<>> -> shadow
             [] ~large /\ pc = "done"   -> ss
             [] OTHER -> [p \in Position |-> p],
  bounds <- CASE large /\ dbounds # <<>> -> dbounds[1]
              [] ~large /\ pc = "done"   -> bkt
              [] OTHER -> <<>>

\* Both steps deliver a BucketStep: all strings, grouped, with the right
\* boundaries, in one step, whatever the interleaving of the jobs.
DeliversBuckets == Promise!Spec

\* The cells of bkt are unsigned: none is decremented below zero, by the loop
\* that permutes or by the jobs that fill their windows from the end.
TypesOK == TypeOK /\ D!TypeOK

\* The jobs write the shadow array without locks, and never the same slot.
SlotsWrittenOnce == [][D!SlotsKept]_(D!vars)
=============================================================================
