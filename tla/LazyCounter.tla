---------------------------- MODULE LazyCounter ----------------------------
(***************************************************************************)
(* src/src/tools/lockfree.hpp: lazy_counter, the counter of the strings    *)
(* that remain to be sorted.  Every thread adds to a delta of its own and  *)
(* update() collects the deltas.  It is driven as pS5 drives it under      *)
(* PS5_ENABLE_RESTSIZE: donesize() subtracts the strings a thread has      *)
(* finished, sequential_threshold() calls update() at any time, and when   *)
(* all threads have joined the caller updates once more and asserts zero.  *)
(* One action is one access to an atomic.                                  *)
(***************************************************************************)
EXTENDS Integers

CONSTANTS
  NumThreads,           \* m_nthr
  Total,                \* restsize = strptr.size()
  MaxUpdates            \* bound: calls of update() by the threads

ASSUME CounterAssumption ==
  NumThreads \in Nat \ {0} /\ Total \in Nat /\ MaxUpdates \in Nat

Worker == 0 .. NumThreads - 1
Caller == NumThreads            \* the thread that started the others
Agent  == 0 .. NumThreads

VARIABLES
  delta,        \* m_thr[t].delta
  counter,      \* m_counter
  changed,      \* m_changed
  pc,           \* where each thread is
  scan,         \* update(): the loop index t
  seen,         \* update(): the local delta it loaded
  agg,          \* update(): the local agg_delta
  rest,         \* strings no thread has finished yet
  updates       \* calls of update() so far

vars == <<delta, counter, changed, pc, scan, seen, agg, rest, updates>>

Init ==
  /\ delta = [t \in Worker |-> 0]
  /\ counter = Total
  /\ changed = FALSE
  /\ pc = [t \in Agent |-> "ready"]
  /\ scan = [t \in Agent |-> 0]
  /\ seen = [t \in Agent |-> 0]
  /\ agg = [t \in Agent |-> 0]
  /\ rest = Total
  /\ updates = 0

Goto(t, s) == pc' = [pc EXCEPT ![t] = s]

\* donesize(n, tid) = add(-n, tid): first the delta, ...
Add(t) ==
  /\ t \in Worker /\ pc[t] = "ready"
  /\ \E n \in 1 .. rest :
       /\ delta' = [delta EXCEPT ![t] = @ - n]
       /\ rest' = rest - n
  /\ Goto(t, "flag")
  /\ UNCHANGED <<counter, changed, scan, seen, agg, updates>>

\* ... then the flag.
Flag(t) ==
  /\ pc[t] = "flag"
  /\ changed' = TRUE
  /\ Goto(t, "ready")
  /\ UNCHANGED <<delta, counter, scan, seen, agg, rest, updates>>

\* A worker leaves when nothing is left to do.
Leave(t) ==
  /\ t \in Worker /\ pc[t] = "ready" /\ rest = 0
  /\ Goto(t, "done")
  /\ UNCHANGED <<delta, counter, changed, scan, seen, agg, rest, updates>>

\* The callers of update(): a worker that asks for the threshold, or the
\* caller, once, after the join.
MayUpdate(t) ==
  /\ pc[t] = "ready"
  /\ IF t = Caller THEN \A w \in Worker : pc[w] = "done" ELSE updates < MaxUpdates

After(t) == IF t = Caller THEN "done" ELSE "ready"

UpdateBegin(t) ==
  /\ MayUpdate(t)
  /\ updates' = IF t = Caller THEN updates ELSE updates + 1
  /\ IF changed
     THEN /\ Goto(t, "load")
          /\ scan' = [scan EXCEPT ![t] = 0]
          /\ agg' = [agg EXCEPT ![t] = 0]
     ELSE Goto(t, After(t)) /\ UNCHANGED <<scan, agg>>
  /\ UNCHANGED <<delta, counter, changed, seen, rest>>

\* The loop head and the load of the delta of thread scan[t].
Load(t) ==
  /\ pc[t] = "load"
  /\ IF scan[t] = NumThreads
     THEN Goto(t, "flush") /\ UNCHANGED <<scan, seen>>
     ELSE IF delta[scan[t]] = 0
     THEN scan' = [scan EXCEPT ![t] = @ + 1] /\ UNCHANGED <<pc, seen>>
     ELSE /\ seen' = [seen EXCEPT ![t] = delta[scan[t]]]
          /\ Goto(t, "sub")
          /\ UNCHANGED scan
  /\ UNCHANGED <<delta, counter, changed, agg, rest, updates>>

\* Mutant: the delta is stored back as zero instead of subtracted.
Subtract_StoreZero(t) ==
  /\ pc[t] = "sub"
  /\ delta' = [delta EXCEPT ![scan[t]] = 0]
  /\ agg' = [agg EXCEPT ![t] = @ + seen[t]]
  /\ scan' = [scan EXCEPT ![t] = @ + 1]
  /\ Goto(t, "load")
  /\ UNCHANGED <<counter, changed, seen, rest, updates>>

\* fetch_sub of the value loaded, and the local sum.
Subtract(t) ==
  /\ pc[t] = "sub"
  /\ delta' = [delta EXCEPT ![scan[t]] = @ - seen[t]]
  /\ agg' = [agg EXCEPT ![t] = @ + seen[t]]
  /\ scan' = [scan EXCEPT ![t] = @ + 1]
  /\ Goto(t, "load")
  /\ UNCHANGED <<counter, changed, seen, rest, updates>>

Flush(t) ==
  /\ pc[t] = "flush"
  /\ counter' = counter + agg[t]
  /\ agg' = [agg EXCEPT ![t] = 0]
  /\ Goto(t, "clear")
  /\ UNCHANGED <<delta, changed, scan, seen, rest, updates>>

Clear(t) ==
  /\ pc[t] = "clear"
  /\ changed' = FALSE
  /\ Goto(t, After(t))
  /\ UNCHANGED <<delta, counter, scan, seen, agg, rest, updates>>

Finished == pc[Caller] = "done" /\ UNCHANGED vars

Next ==
  \/ \E t \in Agent : \/ Add(t) \/ Flag(t) \/ Leave(t) \/ UpdateBegin(t)
                      \/ Load(t) \/ Subtract(t) \/ Flush(t) \/ Clear(t)
  \/ Finished

Spec == Init /\ [][Next]_vars

---------------------------------------------------------------------------
\* f[0] + ... + f[n - 1]
Sum(f, n) ==
  LET upto[k \in 0 .. n] == IF k = 0 THEN 0 ELSE upto[k - 1] + f[k - 1] IN upto[n]

\* Concurrent adds and updates never lose or invent a string: the counter,
\* the deltas and the sums still in flight always add up to what is left.
\* Two updates may collect the same delta; it then turns negative.
Conserved == counter + Sum(delta, NumThreads) + Sum(agg, NumThreads + 1) = rest

\* assert(restsize.update().get() == 0) after the jobs are done
\* (bingmann-parallel_sample_sort.hpp:1663).
RestIsZero == pc[Caller] = "done" => counter = 0
=============================================================================
