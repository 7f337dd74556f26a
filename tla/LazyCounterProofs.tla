-------------------------- MODULE LazyCounterProofs --------------------------
(***************************************************************************)
(* Proofs about LazyCounter for every number of threads, strings and       *)
(* calls of update().                                                      *)
(*                                                                         *)
(* What is conserved is a sum over the threads.  The lemmas on Sum say     *)
(* that it is well defined, and that it changes by what one entry changes; *)
(* an action then moves an amount from one term of Conserved to another.   *)
(* The invariant adds types and one fact on the local sum of update(): it  *)
(* is zero outside of the loop, so that starting the loop loses nothing.   *)
(***************************************************************************)
EXTENDS LazyCounter, WellFoundedInduction, TLAPS

PcStates == {"ready", "flag", "load", "sub", "flush", "clear", "done"}

TypesOK ==
  /\ delta \in [Worker -> Int]
  /\ counter \in Int
  /\ pc \in [Agent -> PcStates]
  /\ scan \in [Agent -> 0 .. NumThreads]
  /\ seen \in [Agent -> Int]
  /\ agg \in [Agent -> Int]
  /\ rest \in Nat

\* A thread that holds a loaded delta holds that of an existing thread.
ScanInside == \A t \in Agent : pc[t] = "sub" => scan[t] < NumThreads

\* Only inside of update() there is a local sum.
SumInFlight == \A t \in Agent : pc[t] \notin {"load", "sub", "flush"} => agg[t] = 0

IInv == TypesOK /\ ScanInside /\ SumInFlight /\ Conserved

---------------------------------------------------------------------------
(* Sums *)

\* Less, as a relation.
LT == {p \in Nat \X Nat : p[1] < p[2]}

\* A nonempty set of naturals has a least element.
LEMMA NatLeast ==
  ASSUME NEW T, T \subseteq Nat, T # {}
  PROVE  \E x \in T : \A y \in T : x <= y
<1>1. IsWellFoundedOn(LT, Nat)
  BY NatLessThanWellFounded, Zenon DEF OpToRel, LT
<1>2. PICK x \in T : \A y \in T : ~(<<y, x>> \in LT)
  BY <1>1, WFMin
<1>3. \A y \in T : ~(y < x)
  BY <1>2 DEF LT
<1> QED BY <1>3

\* s holds the sums of the first entries of f, up to n of them.
Upto(f, n, s) == s = [k \in 0 .. n |-> IF k = 0 THEN 0 ELSE s[k - 1] + f[k - 1]]

\* The recursion in Sum has a solution.
LEMMA SumExists ==
  ASSUME NEW n \in Nat, NEW f
  PROVE  \E s : Upto(f, n, s)
<1> DEFINE Bad == {m \in 0 .. n : ~ \E s : Upto(f, m, s)}
<1>1. SUFFICES ASSUME Bad # {} PROVE FALSE
  OBVIOUS
<1>2. PICK m \in Bad : \A y \in Bad : m <= y
  <2>1. Bad \subseteq Nat
    OBVIOUS
  <2> HIDE DEF Bad
  <2> QED BY <1>1, <2>1, NatLeast
<1>3. CASE m = 0
  <2> DEFINE s == [k \in 0 .. 0 |-> 0]
  <2>1. Upto(f, 0, s)
    BY DEF Upto
  <2> QED BY <1>3, <2>1
<1>4. CASE m # 0
  <2>1. m - 1 \in 0 .. n /\ m - 1 \notin Bad
    BY <1>2, <1>4
  <2>2. PICK s : Upto(f, m - 1, s)
    BY <2>1
  <2> DEFINE e == [k \in 0 .. m |-> IF k = 0 THEN 0 ELSE s[k - 1] + f[k - 1]]
  <2>3. \A k \in 0 .. m - 1 : e[k] = s[k]
    <3>1. \A k \in 0 .. m - 1 : s[k] = IF k = 0 THEN 0 ELSE s[k - 1] + f[k - 1]
      BY <2>2 DEF Upto
    <3> QED BY <1>2, <3>1
  <2>4. e = [k \in 0 .. m |-> IF k = 0 THEN 0 ELSE e[k - 1] + f[k - 1]]
    <3>1. \A k \in 0 .. m : k # 0 => k - 1 \in 0 .. m - 1
      BY <1>2, <1>4
    <3>2. \A k \in 0 .. m : (IF k = 0 THEN 0 ELSE s[k - 1] + f[k - 1])
                            = (IF k = 0 THEN 0 ELSE e[k - 1] + f[k - 1])
      BY <2>3, <3>1
    <3> QED BY <3>2
  <2>5. Upto(f, m, e)
    BY <2>4 DEF Upto
  <2> QED BY <1>2, <2>5
<1> QED BY <1>3, <1>4

\* Hence Sum is the last of these sums.
LEMMA SumIsUpto ==
  ASSUME NEW n \in Nat, NEW f
  PROVE  \E s : Upto(f, n, s) /\ Sum(f, n) = s[n]
<1> DEFINE c == CHOOSE s : Upto(f, n, s)
<1>1. Upto(f, n, c)
  BY SumExists
<1>2. Sum(f, n) = c[n]
  BY DEF Sum, Upto
<1> QED BY <1>1, <1>2

\* A sum of integers is one.
LEMMA UptoTyped ==
  ASSUME NEW n \in Nat, NEW f, \A k \in 0 .. n - 1 : f[k] \in Int, NEW s, Upto(f, n, s)
  PROVE  \A k \in 0 .. n : s[k] \in Int
<1> DEFINE Bad == {k \in 0 .. n : s[k] \notin Int}
<1>1. SUFFICES ASSUME Bad # {} PROVE FALSE
  OBVIOUS
<1>2. PICK m \in Bad : \A y \in Bad : m <= y
  <2>1. Bad \subseteq Nat
    OBVIOUS
  <2> HIDE DEF Bad
  <2> QED BY <1>1, <2>1, NatLeast
<1>3. m # 0
  BY <1>2 DEF Upto
<1>4. m - 1 \in 0 .. n /\ m - 1 \notin Bad /\ m - 1 \in 0 .. n - 1
  BY <1>2, <1>3
<1>5. s[m] = s[m - 1] + f[m - 1]
  BY <1>2, <1>3 DEF Upto
<1>6. s[m - 1] \in Int /\ f[m - 1] \in Int
  BY <1>4
<1>7. s[m] \in Int
  BY <1>5, <1>6
<1> QED BY <1>2, <1>7

\* A sum of integers is an integer.
LEMMA SumTyped ==
  ASSUME NEW n \in Nat, NEW f, \A k \in 0 .. n - 1 : f[k] \in Int
  PROVE  Sum(f, n) \in Int
<1>1. PICK s : Upto(f, n, s) /\ Sum(f, n) = s[n]
  BY SumIsUpto
<1>2. s[n] \in Int
  <2>1. \A k \in 0 .. n : s[k] \in Int
    BY <1>1, UptoTyped
  <2>2. n \in 0 .. n
    OBVIOUS
  <2> QED BY <2>1, <2>2
<1> QED BY <1>1, <1>2

\* Adding d to one entry adds d to the sum.
LEMMA SumChanged ==
  ASSUME NEW n \in Nat, NEW f, NEW g, NEW t \in 0 .. n - 1, NEW d \in Int,
         \A k \in 0 .. n - 1 : f[k] \in Int,
         \A k \in 0 .. n - 1 : k # t => g[k] = f[k],
         g[t] = f[t] + d
  PROVE  Sum(g, n) = Sum(f, n) + d
<1>1. PICK s : Upto(f, n, s) /\ Sum(f, n) = s[n]
  BY SumIsUpto
<1>2. PICK r : Upto(g, n, r) /\ Sum(g, n) = r[n]
  BY SumIsUpto
<1> DEFINE Want(k) == IF k > t THEN s[k] + d ELSE s[k]
           Bad == {k \in 0 .. n : r[k] # Want(k)}
<1>3. Bad = {}
  <2>1. SUFFICES ASSUME Bad # {} PROVE FALSE
    OBVIOUS
  <2>2. PICK m \in Bad : \A y \in Bad : m <= y
    <3>1. Bad \subseteq Nat
      OBVIOUS
    <3> HIDE DEF Bad
    <3> QED BY <2>1, <3>1, NatLeast
  <2>3. m # 0
    BY <1>1, <1>2, <2>2 DEF Upto
  <2>4. m - 1 \in 0 .. n /\ r[m - 1] = Want(m - 1) /\ m - 1 \in 0 .. n - 1
    BY <2>2, <2>3
  <2>5. s[m] = s[m - 1] + f[m - 1] /\ r[m] = r[m - 1] + g[m - 1]
    BY <1>1, <1>2, <2>2, <2>3 DEF Upto
  <2>6. PICK a \in Int, b \in Int : a = s[m - 1] /\ b = f[m - 1]
    BY <1>1, <2>4, UptoTyped
  <2>7. r[m] = Want(m)
    <3>1. CASE m - 1 = t
      <4>1. r[m] = a + (b + d) /\ s[m] = a + b /\ m > t
        BY <2>4, <2>5, <2>6, <3>1
      <4>2. r[m] = s[m] + d
        BY <4>1, <2>6
      <4> QED BY <4>1, <4>2
    <3>2. CASE m - 1 # t
      <4>1. g[m - 1] = b
        BY <2>4, <2>6, <3>2
      <4>2. CASE m - 1 > t
        <5>1. r[m] = (a + d) + b /\ s[m] = a + b /\ m > t
          BY <2>4, <2>5, <2>6, <4>1, <4>2
        <5>2. r[m] = s[m] + d
          BY <5>1, <2>6
        <5> QED BY <5>1, <5>2
      <4>3. CASE ~(m - 1 > t)
        <5>1. r[m] = a + b /\ s[m] = a + b /\ ~(m > t)
          BY <2>2, <2>4, <2>5, <2>6, <3>2, <4>1, <4>3
        <5> QED BY <5>1
      <4> QED BY <4>2, <4>3
    <3> QED BY <3>1, <3>2
  <2> QED BY <2>2, <2>7
<1>4. n \in 0 .. n /\ n > t
  OBVIOUS
<1>5. r[n] = s[n] + d
  BY <1>3, <1>4
<1> QED BY <1>1, <1>2, <1>5

\* A sum of zeroes is zero.
LEMMA SumZero ==
  ASSUME NEW n \in Nat, NEW f, \A k \in 0 .. n - 1 : f[k] = 0
  PROVE  Sum(f, n) = 0
<1>1. PICK s : Upto(f, n, s) /\ Sum(f, n) = s[n]
  BY SumIsUpto
<1> DEFINE Bad == {k \in 0 .. n : s[k] # 0}
<1>2. Bad = {}
  <2>1. SUFFICES ASSUME Bad # {} PROVE FALSE
    OBVIOUS
  <2>2. PICK m \in Bad : \A y \in Bad : m <= y
    <3>1. Bad \subseteq Nat
      OBVIOUS
    <3> HIDE DEF Bad
    <3> QED BY <2>1, <3>1, NatLeast
  <2>3. m # 0
    BY <1>1, <2>2 DEF Upto
  <2>4. m - 1 \in 0 .. n /\ s[m - 1] = 0 /\ f[m - 1] = 0
    BY <2>2, <2>3
  <2>5. s[m] = s[m - 1] + f[m - 1]
    BY <1>1, <2>2, <2>3 DEF Upto
  <2>6. s[m] = 0
    BY <2>4, <2>5
  <2> QED BY <2>2, <2>6
<1>3. n \in 0 .. n
  OBVIOUS
<1> QED BY <1>1, <1>2, <1>3

---------------------------------------------------------------------------
(* The counter *)

\* Before the threads run nothing is counted but the total.
LEMMA InitIInv == Init => IInv
<1> SUFFICES ASSUME Init PROVE IInv
  OBVIOUS
<1> USE CounterAssumption
<1>1. TypesOK /\ ScanInside /\ SumInFlight
  BY DEF Init, TypesOK, ScanInside, SumInFlight, PcStates, Worker, Agent
<1>2. Sum(delta, NumThreads) = 0
  BY SumZero DEF Init, Worker
<1>3. Sum(agg, NumThreads + 1) = 0
  BY SumZero DEF Init, Agent
<1>4. Conserved
  BY <1>2, <1>3 DEF Init, Conserved
<1> QED BY <1>1, <1>4 DEF IInv

\* The terms of Conserved are integers.
LEMMA TermsTyped ==
  ASSUME TypesOK
  PROVE  Sum(delta, NumThreads) \in Int /\ Sum(agg, NumThreads + 1) \in Int
<1>1. Sum(delta, NumThreads) \in Int
  BY SumTyped, CounterAssumption DEF TypesOK, Worker
<1>2. Sum(agg, NumThreads + 1) \in Int
  BY SumTyped, CounterAssumption DEF TypesOK, Agent
<1> QED BY <1>1, <1>2

\* donesize() subtracts from a delta what it subtracts from the rest.
LEMMA AddKeeps ==
  ASSUME IInv, NEW t \in Agent, Add(t)
  PROVE  IInv'
<1>1. PICK n \in 1 .. rest : /\ delta' = [delta EXCEPT ![t] = @ - n]
                            /\ rest' = rest - n
  BY DEF Add
<1>2. rest \in Nat /\ n \in Nat /\ -n \in Int /\ t \in Worker /\ NumThreads \in Nat
  BY CounterAssumption DEF Add, IInv, TypesOK
<1>3. TypesOK' /\ ScanInside' /\ SumInFlight'
  BY <1>1, <1>2 DEF Add, Goto, IInv, TypesOK, ScanInside, SumInFlight, PcStates
<1>4. Sum(delta', NumThreads) = Sum(delta, NumThreads) + (-n)
  <2>1. \A k \in 0 .. NumThreads - 1 : delta[k] \in Int
    BY DEF IInv, TypesOK, Worker
  <2>2. /\ t \in 0 .. NumThreads - 1
        /\ \A k \in 0 .. NumThreads - 1 : k # t => delta'[k] = delta[k]
        /\ delta'[t] = delta[t] + (-n)
    BY <1>1, <1>2 DEF IInv, TypesOK, Worker
  <2> QED BY <1>2, <2>1, <2>2, SumChanged
<1>5. Conserved'
  BY <1>1, <1>2, <1>4, TermsTyped DEF Add, Conserved, IInv, TypesOK
<1> QED BY <1>3, <1>5 DEF IInv

\* Subtracting a loaded delta and adding it to the local sum cancel out,
\* whatever other updates have done to the delta meanwhile.
LEMMA SubtractKeeps ==
  ASSUME IInv, NEW t \in Agent, Subtract(t)
  PROVE  IInv'
<1>1. PICK u, x : u = scan[t] /\ x = seen[t]
  OBVIOUS
<1>2. u \in Worker /\ x \in Int /\ -x \in Int /\ NumThreads \in Nat /\ u + 1 \in 0 .. NumThreads
  BY <1>1, CounterAssumption DEF Subtract, IInv, TypesOK, ScanInside, Worker
<1>3. /\ delta' = [delta EXCEPT ![u] = @ - x]
      /\ agg' = [agg EXCEPT ![t] = @ + x]
      /\ scan' = [scan EXCEPT ![t] = u + 1]
  BY <1>1 DEF Subtract
<1>4. TypesOK' /\ ScanInside' /\ SumInFlight'
  <2>1. pc[t] = "sub" /\ pc' = [pc EXCEPT ![t] = "load"] /\ UNCHANGED <<counter, seen, rest>>
    BY DEF Subtract, Goto
  <2>2. TypesOK /\ delta[u] - x \in Int /\ agg[t] + x \in Int
    BY <1>2 DEF IInv, TypesOK
  <2>3. TypesOK'
    BY <1>2, <1>3, <2>1, <2>2 DEF TypesOK, PcStates
  <2>4. ScanInside'
    BY <1>3, <2>1 DEF IInv, TypesOK, ScanInside
  <2>5. SumInFlight'
    BY <1>3, <2>1 DEF IInv, TypesOK, SumInFlight
  <2> QED BY <2>3, <2>4, <2>5
<1>5. Sum(delta', NumThreads) = Sum(delta, NumThreads) + (-x)
  <2>1. \A k \in 0 .. NumThreads - 1 : delta[k] \in Int
    BY DEF IInv, TypesOK, Worker
  <2>2. /\ u \in 0 .. NumThreads - 1
        /\ \A k \in 0 .. NumThreads - 1 : k # u => delta'[k] = delta[k]
        /\ delta'[u] = delta[u] + (-x)
    BY <1>2, <1>3 DEF IInv, TypesOK, Worker
  <2> QED BY <1>2, <2>1, <2>2, SumChanged
<1>6. Sum(agg', NumThreads + 1) = Sum(agg, NumThreads + 1) + x
  <2>1. NumThreads + 1 \in Nat /\ (NumThreads + 1) - 1 = NumThreads
    BY <1>2
  <2>2. \A k \in 0 .. (NumThreads + 1) - 1 : agg[k] \in Int
    BY <2>1 DEF IInv, TypesOK, Agent
  <2>3. /\ t \in 0 .. (NumThreads + 1) - 1
        /\ \A k \in 0 .. (NumThreads + 1) - 1 : k # t => agg'[k] = agg[k]
        /\ agg'[t] = agg[t] + x
    BY <1>2, <1>3, <2>1 DEF IInv, TypesOK, Agent
  <2> QED BY <1>2, <2>1, <2>2, <2>3, SumChanged
<1>7. Conserved'
  BY <1>2, <1>5, <1>6, TermsTyped DEF Subtract, Conserved, IInv, TypesOK
<1> QED BY <1>4, <1>7 DEF IInv

\* The local sum moves into the counter.
LEMMA FlushKeeps ==
  ASSUME IInv, NEW t \in Agent, Flush(t)
  PROVE  IInv'
<1>1. PICK a : a = agg[t]
  OBVIOUS
<1>2. a \in Int /\ -a \in Int /\ NumThreads \in Nat
  BY <1>1, CounterAssumption DEF IInv, TypesOK
<1>3. counter' = counter + a /\ agg' = [agg EXCEPT ![t] = 0]
  BY <1>1 DEF Flush
<1>4. TypesOK' /\ ScanInside' /\ SumInFlight'
  BY <1>2, <1>3 DEF Flush, Goto, IInv, TypesOK, ScanInside, SumInFlight, PcStates
<1>5. Sum(agg', NumThreads + 1) = Sum(agg, NumThreads + 1) + (-a)
  <2>1. NumThreads + 1 \in Nat /\ (NumThreads + 1) - 1 = NumThreads
    BY <1>2
  <2>2. \A k \in 0 .. (NumThreads + 1) - 1 : agg[k] \in Int
    BY <2>1 DEF IInv, TypesOK, Agent
  <2>3. /\ t \in 0 .. (NumThreads + 1) - 1
        /\ \A k \in 0 .. (NumThreads + 1) - 1 : k # t => agg'[k] = agg[k]
        /\ agg'[t] = agg[t] + (-a)
    BY <1>1, <1>2, <1>3, <2>1 DEF IInv, TypesOK, Agent
  <2> QED BY <1>2, <2>1, <2>2, <2>3, SumChanged
<1>6. Conserved'
  BY <1>2, <1>3, <1>5, TermsTyped DEF Flush, Conserved, IInv, TypesOK
<1> QED BY <1>4, <1>6 DEF IInv

\* Starting an update resets a local sum that is zero.
LEMMA UpdateBeginKeeps ==
  ASSUME IInv, NEW t \in Agent, UpdateBegin(t)
  PROVE  IInv'
<1>1. agg[t] = 0 /\ agg \in [Agent -> Int]
  BY DEF UpdateBegin, MayUpdate, IInv, SumInFlight, TypesOK
<1>2. agg' = agg
  BY <1>1 DEF UpdateBegin
<1>3. TypesOK' /\ ScanInside' /\ SumInFlight'
  BY <1>2, CounterAssumption DEF UpdateBegin, MayUpdate, Goto, After, IInv, TypesOK, ScanInside, SumInFlight, PcStates
<1>4. Conserved'
  BY <1>2 DEF UpdateBegin, Conserved, IInv
<1> QED BY <1>3, <1>4 DEF IInv

\* The other steps touch no term of the sum.
LEMMA OthersKeep ==
  ASSUME IInv, NEW t \in Agent, Flag(t) \/ Leave(t) \/ Load(t) \/ Clear(t)
  PROVE  IInv'
<1>1. CASE Flag(t)
  BY <1>1 DEF Flag, Goto, IInv, TypesOK, ScanInside, SumInFlight, PcStates, Conserved
<1>2. CASE Leave(t)
  BY <1>2 DEF Leave, Goto, IInv, TypesOK, ScanInside, SumInFlight, PcStates, Conserved
<1>3. CASE Clear(t)
  BY <1>3 DEF Clear, Goto, After, IInv, TypesOK, ScanInside, SumInFlight, PcStates, Conserved
<1>4. CASE Load(t)
  <2>1. Conserved'
    BY <1>4 DEF Load, IInv, Conserved
  <2>2. PICK u : u = scan[t]
    OBVIOUS
  <2>3. u \in 0 .. NumThreads /\ NumThreads \in Nat
    BY <2>2, CounterAssumption DEF IInv, TypesOK
  <2>4. CASE u = NumThreads
    BY <1>4, <2>1, <2>2, <2>4 DEF Load, Goto, IInv, TypesOK, ScanInside, SumInFlight, PcStates
  <2>5. CASE u # NumThreads
    <3>1. u \in Worker /\ u + 1 \in 0 .. NumThreads /\ u < NumThreads
      BY <2>3, <2>5 DEF Worker
    <3>2. CASE delta[u] = 0
      BY <1>4, <2>1, <2>2, <2>5, <3>1, <3>2 DEF Load, Goto, IInv, TypesOK, ScanInside, SumInFlight, PcStates
    <3>3. CASE delta[u] # 0
      BY <1>4, <2>1, <2>2, <2>5, <3>1, <3>3 DEF Load, Goto, IInv, TypesOK, ScanInside, SumInFlight, PcStates
    <3> QED BY <3>2, <3>3
  <2> QED BY <2>4, <2>5
<1> QED BY <1>1, <1>2, <1>3, <1>4

\* Every step keeps the invariant.
LEMMA NextIInv == IInv /\ [Next]_vars => IInv'
<1> SUFFICES ASSUME IInv, [Next]_vars PROVE IInv'
  OBVIOUS
<1>1. CASE UNCHANGED vars
  BY <1>1 DEF vars, IInv, TypesOK, ScanInside, SumInFlight, Conserved
<1>2. ASSUME NEW t \in Agent,
             Add(t) \/ Flag(t) \/ Leave(t) \/ UpdateBegin(t)
             \/ Load(t) \/ Subtract(t) \/ Flush(t) \/ Clear(t)
      PROVE  IInv'
  BY <1>2, AddKeeps, SubtractKeeps, FlushKeeps, UpdateBeginKeeps, OthersKeep
<1> QED BY <1>1, <1>2 DEF Next, Finished

\* Adds and updates of any number of threads, in any order, neither lose nor
\* invent a string: lazy_counter is wrong at most about what it has not
\* collected yet (tools/lockfree.hpp).
THEOREM CounterConserved == Spec => []Conserved
<1>1. Init => IInv
  BY InitIInv
<1>2. IInv /\ [Next]_vars => IInv'
  BY NextIInv
<1>3. IInv => Conserved
  BY DEF IInv
<1> QED BY <1>1, <1>2, <1>3, PTL DEF Spec

=============================================================================
