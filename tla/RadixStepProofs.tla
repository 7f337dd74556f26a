--------------------------- MODULE RadixStepProofs ---------------------------
(***************************************************************************)
(* Proofs about one step of the parallel radix sort, for any number of     *)
(* strings, any alphabet and any number of parts.                          *)
(*                                                                         *)
(* The in-place permutation loses no string and moves its cache with the   *)
(* strings (IInv).  Its outer loop is always at the beginning of a bucket, *)
(* the buckets behind it are in place, and of the others the part that     *)
(* bkt has passed (Settling); that a bucket which is in place can have no  *)
(* string elsewhere is the pigeonhole principle (Settled).                 *)
(*                                                                         *)
(* What the distribution does is proved in DistributionProofs.  Together   *)
(* the two show that either step is one step of BucketStep.                *)
(***************************************************************************)
EXTENDS RadixStep, FiniteSetTheorems, FunctionTheorems, TLAPS

DP == INSTANCE DistributionProofs WITH
        key <- char, BktNum <- MaxChar + 1, bkt <- dbkt, pc <- dpc, bounds <- dbounds

---------------------------------------------------------------------------
(* The in-place permutation: nothing is lost *)

\* The bounds the proofs need.  A bucket end above N would write behind the
\* array; one below zero does not matter here, since the loop ends at j <= i.
Bounds ==
  /\ char \in [Position -> Char]
  /\ ss \in [Position -> Position]
  /\ charcache \in [Position -> Char]
  /\ bkt \in [Char -> Int]
  /\ \A c \in Char : bkt[c] <= N
  /\ i \in Nat
  /\ perm \in Position /\ permch \in Char
  /\ pc \in {"outer", "inner", "done"}
  /\ pc = "inner" => i < N

IInv == Bounds /\ NothingLost /\ CacheAgrees

\* A set of strings has between 0 and N elements.
LEMMA CountBounds ==
  ASSUME NEW S \in SUBSET Position
  PROVE  IsFiniteSet(S) /\ Cardinality(S) \in Nat /\ Cardinality(S) <= N
<1>1. IsFiniteSet(Position) /\ Cardinality(Position) = N
  <2>1. 0 \in Int /\ N - 1 \in Int /\ 0 <= N - 1
    BY PermuteAssumption
  <2> QED BY <2>1, FS_Interval, PermuteAssumption DEF Position
<1>2. IsFiniteSet(S) /\ Cardinality(S) <= N
  BY <1>1, FS_Subset
<1>3. Cardinality(S) \in Nat
  BY <1>2, FS_CardinalityType
<1> QED BY <1>2, <1>3

\* The bucket of the string in hand is not empty, so the outer loop advances.
LEMMA BucketNotEmpty ==
  ASSUME Bounds, permch = char[perm]
  PROVE  bktsize(permch) \in Nat /\ bktsize(permch) >= 1
<1> DEFINE S == {s \in Position : char[s] = permch}
<1>1. S \in SUBSET Position /\ perm \in S
  BY DEF Bounds
<1>2. IsFiniteSet(S) /\ Cardinality(S) \in Nat
  BY <1>1, CountBounds
<1>3. Cardinality(S) # 0
  BY <1>1, <1>2, FS_EmptySet
<1> QED BY <1>2, <1>3 DEF bktsize

LEMMA InitIInv == Init => IInv
<1> SUFFICES ASSUME Init PROVE IInv
  OBVIOUS
<1>1. 0 \in Position /\ 0 \in Char
  BY PermuteAssumption DEF Position, Char
<1>2. \A c \in Char : Cardinality({s \in Position : char[s] <= c}) \in Nat
                      /\ Cardinality({s \in Position : char[s] <= c}) <= N
  <2> TAKE c \in Char
  <2>1. {s \in Position : char[s] <= c} \in SUBSET Position
    OBVIOUS
  <2> QED BY <2>1, CountBounds
<1>3. Bounds
  BY <1>1, <1>2 DEF Bounds, Init
<1>4. NothingLost
  BY DEF NothingLost, InHand, Init
<1>5. CacheAgrees
  BY DEF CacheAgrees, Init, Position
<1> QED BY <1>3, <1>4, <1>5 DEF IInv

LEMMA TakeOutIInv == IInv /\ TakeOut => IInv'
<1> SUFFICES ASSUME IInv, TakeOut PROVE IInv'
  OBVIOUS
<1> USE DEF IInv
<1>1. last_bkt_size \in Nat
  <2>1. {s \in Position : \A r \in Position : char[r] <= char[s]} \in SUBSET Position
    OBVIOUS
  <2> QED BY <2>1, CountBounds DEF last_bkt_size
<1>2. i < N /\ i \in Position
  <2>1. N \in Int /\ i \in Nat /\ i < N - last_bkt_size
    BY PermuteAssumption DEF TakeOut, Bounds
  <2>2. i < N
    BY <1>1, <2>1
  <2> QED BY <2>1, <2>2 DEF Position
<1>3. Bounds'
  BY <1>2 DEF TakeOut, Bounds
<1>4. InHand' = InHand
  BY <1>2 DEF TakeOut, InHand, Bounds
<1>5. NothingLost'
  BY <1>4 DEF NothingLost
<1>6. CacheAgrees'
  BY <1>2 DEF TakeOut, CacheAgrees, Bounds
<1> QED BY <1>3, <1>5, <1>6

LEMMA ExchangeIInv == IInv /\ Exchange => IInv'
<1> SUFFICES ASSUME IInv, Exchange PROVE IInv'
  OBVIOUS
<1> USE DEF IInv
<1> DEFINE j == bkt[permch] - 1
<1>1. j \in Position /\ j > i /\ i \in Position /\ j # i
  <2>1. N \in Int /\ i \in Nat /\ i < N /\ j > i
    BY PermuteAssumption DEF Exchange, Bounds
  <2>2. bkt[permch] \in Int /\ bkt[permch] <= N
    BY DEF Bounds
  <2> QED BY <2>1, <2>2 DEF Position
<1>2. ss[j] \in Position /\ charcache[j] \in Char /\ perm \in Position /\ permch \in Char
  BY <1>1 DEF Bounds
<1>3. Bounds'
  <2>1. bkt' \in [Char -> Int] /\ \A c \in Char : bkt'[c] <= N
    <3>1. N \in Int /\ bkt[permch] \in Int /\ bkt[permch] <= N
      BY PermuteAssumption DEF Bounds
    <3>2. j \in Int /\ j <= N
      BY <3>1
    <3> QED BY <3>2 DEF Exchange, Bounds
  <2> QED BY <1>1, <1>2, <2>1 DEF Exchange, Bounds
<1>4. NothingLost'
  <2>1. /\ InHand[i] = perm /\ InHand[j] = ss[j]
        /\ InHand'[i] = ss[j] /\ InHand'[j] = perm
    BY <1>1, <1>2 DEF InHand, Exchange, Bounds
  <2>2. \A p \in Position : p # i /\ p # j => InHand'[p] = InHand[p]
    BY <1>1, <1>2 DEF InHand, Exchange, Bounds
  <2> QED BY <1>1, <2>1, <2>2 DEF NothingLost
<1>5. CacheAgrees'
  <2>1. permch' = char'[perm']
    BY <1>1 DEF CacheAgrees, Exchange
  <2>2. charcache'[j] = char'[ss'[j]]
    BY <1>1 DEF CacheAgrees, Exchange, Bounds
  <2>3. \A p \in Position : p > i /\ p # j => charcache'[p] = char'[ss'[p]]
    BY <1>1 DEF CacheAgrees, Exchange, Bounds
  <2> QED BY <2>1, <2>2, <2>3 DEF CacheAgrees, Exchange
<1> QED BY <1>3, <1>4, <1>5

LEMMA PutDownIInv == IInv /\ PutDown => IInv'
<1> SUFFICES ASSUME IInv, PutDown PROVE IInv'
  OBVIOUS
<1> USE DEF IInv
<1>1. i \in Position /\ perm \in Position
  <2>1. N \in Int /\ i \in Nat /\ i < N /\ perm \in Position
    BY PermuteAssumption DEF PutDown, Bounds
  <2> QED BY <2>1 DEF Position
<1>2. bktsize(permch) \in Nat /\ bktsize(permch) >= 1
  BY BucketNotEmpty DEF PutDown, CacheAgrees
<1>3. i' > i /\ i' \in Nat
  BY <1>2 DEF PutDown, Bounds
<1>4. Bounds'
  <2>1. bkt' \in [Char -> Int] /\ \A c \in Char : bkt'[c] <= N
    <3>1. N \in Int /\ bkt[permch] \in Int /\ bkt[permch] <= N
      BY PermuteAssumption DEF Bounds
    <3>2. bkt[permch] - 1 \in Int /\ bkt[permch] - 1 <= N
      BY <3>1
    <3> QED BY <3>2 DEF PutDown, Bounds
  <2> QED BY <1>1, <1>3, <2>1 DEF PutDown, Bounds
<1>5. InHand' = InHand
  BY <1>1 DEF PutDown, InHand
<1>6. NothingLost'
  BY <1>5 DEF NothingLost
<1>7. CacheAgrees'
  <2> SUFFICES ASSUME NEW p \in Position, p > i' \/ p = i'
               PROVE  charcache'[p] = char'[ss'[p]]
    BY DEF CacheAgrees, PutDown
  <2>1. p > i /\ p # i
    BY <1>1, <1>3 DEF Position
  <2> QED BY <2>1 DEF CacheAgrees, PutDown, Bounds
<1> QED BY <1>4, <1>6, <1>7

LEMMA FixIInv == IInv /\ Fix => IInv'
<1> SUFFICES ASSUME IInv, Fix PROVE IInv'
  OBVIOUS
<1> USE DEF IInv
<1>1. \A c \in Char : Cardinality({s \in Position : char[s] < c}) \in Nat
                      /\ Cardinality({s \in Position : char[s] < c}) <= N
  <2> TAKE c \in Char
  <2>1. {s \in Position : char[s] < c} \in SUBSET Position
    OBVIOUS
  <2> QED BY <2>1, CountBounds
<1>2. Bounds'
  BY <1>1 DEF Fix, Bounds
<1>3. NothingLost'
  BY DEF Fix, NothingLost, InHand
<1>4. CacheAgrees'
  BY DEF Fix, CacheAgrees
<1> QED BY <1>2, <1>3, <1>4

LEMMA NextIInv == IInv /\ [Next]_vars => IInv'
<1> SUFFICES ASSUME IInv, [Next]_vars PROVE IInv'
  OBVIOUS
<1>1. CASE TakeOut BY <1>1, TakeOutIInv
<1>2. CASE Exchange BY <1>2, ExchangeIInv
<1>3. CASE PutDown BY <1>3, PutDownIInv
<1>4. CASE Fix BY <1>4, FixIInv
<1>5. CASE UNCHANGED vars
  BY <1>5 DEF IInv, vars, Bounds, NothingLost, InHand, CacheAgrees
<1> QED BY <1>1, <1>2, <1>3, <1>4, <1>5 DEF Next, Terminated

\* No string is lost or doubled by the permutation, whatever the input.
THEOREM PermuteLosesNothing == Spec => []NothingLost
<1>1. IInv => NothingLost
  BY DEF IInv
<1> QED BY <1>1, InitIInv, NextIInv, PTL DEF Spec

\* The cached characters the loop reads are those of the strings they stand
\* for, so that the permutation never has to read a string again.
THEOREM CacheMovesAlong == Spec => []CacheAgrees
<1>1. IInv => CacheAgrees
  BY DEF IInv
<1> QED BY <1>1, InitIInv, NextIInv, PTL DEF Spec

---------------------------------------------------------------------------
(* The buckets *)

\* Where bucket c begins and ends.
Begin(c) == Cardinality({s \in Position : char[s] < c})
End(c)   == Cardinality({s \in Position : char[s] <= c})

Ordered ==
  /\ \A c \in Char : /\ Begin(c) \in Nat /\ bktsize(c) \in Nat /\ End(c) \in Nat
                      /\ End(c) = Begin(c) + bktsize(c) /\ End(c) <= N
  /\ \A c, d \in Char : c < d => End(c) <= Begin(d)

\* The buckets follow one another.
LEMMA BucketsOrdered == ASSUME char \in [Position -> Char] PROVE Ordered
<1>1. \A s \in Position : char[s] \in Int
  BY PermuteAssumption DEF Char
<1>2. ASSUME NEW c \in Char
      PROVE  /\ Begin(c) \in Nat /\ bktsize(c) \in Nat /\ End(c) \in Nat
             /\ End(c) = Begin(c) + bktsize(c) /\ End(c) <= N
  <2>1. PICK A \in SUBSET Position, B \in SUBSET Position, E \in SUBSET Position :
          /\ A = {s \in Position : char[s] < c} /\ B = {s \in Position : char[s] = c}
          /\ E = {s \in Position : char[s] <= c}
    OBVIOUS
  <2>2. c \in Int
    BY PermuteAssumption DEF Char
  <2>3. E = A \cup B /\ A \cap B = {}
    BY <1>1, <2>1, <2>2
  <2>4. /\ IsFiniteSet(A) /\ Cardinality(A) \in Nat /\ IsFiniteSet(B) /\ Cardinality(B) \in Nat
        /\ Cardinality(E) \in Nat /\ Cardinality(E) <= N
    BY CountBounds
  <2>5. Cardinality(E) = Cardinality(A) + Cardinality(B) - Cardinality(A \cap B)
    BY <2>3, <2>4, FS_Union
  <2>6. Cardinality(A \cap B) = 0
    BY <2>3, FS_EmptySet
  <2>7. Cardinality(E) = Cardinality(A) + Cardinality(B)
    BY <2>4, <2>5, <2>6
  <2> QED BY <2>1, <2>4, <2>7 DEF Begin, End, bktsize
<1>3. ASSUME NEW c \in Char, NEW d \in Char, c < d PROVE End(c) <= Begin(d)
  <2>1. PICK E \in SUBSET Position, A \in SUBSET Position :
          E = {s \in Position : char[s] <= c} /\ A = {s \in Position : char[s] < d}
    OBVIOUS
  <2>2. c \in Int /\ d \in Int
    BY PermuteAssumption DEF Char
  <2>3. E \in SUBSET A
    BY <1>1, <1>3, <2>1, <2>2
  <2>4. IsFiniteSet(A)
    BY CountBounds
  <2>5. Cardinality(E) <= Cardinality(A)
    BY <2>3, <2>4, FS_Subset
  <2> QED BY <2>1, <2>5 DEF Begin, End
<1> QED BY <1>2, <1>3 DEF Ordered

Perm(f) == f \in [Position -> Position] /\ \A p, q \in Position : p # q => f[p] # f[q]
InBucket(c, p) == Begin(c) <= p /\ p < End(c)

\* A bucket all of whose positions have their strings has no string elsewhere.
LEMMA Settled ==
  ASSUME char \in [Position -> Char], NEW f, Perm(f), NEW c \in Char,
         \A p \in Position : InBucket(c, p) => char[f[p]] = c,
         NEW q \in Position, char[f[q]] = c
  PROVE  InBucket(c, q)
<1>1. /\ Begin(c) \in Nat /\ bktsize(c) \in Nat /\ End(c) \in Nat
      /\ End(c) = Begin(c) + bktsize(c) /\ End(c) <= N
  BY BucketsOrdered DEF Ordered
<1>2. PICK W \in SUBSET Position : \A p \in Position : p \in W <=> InBucket(c, p)
  <2>1. {p \in Position : InBucket(c, p)} \in SUBSET Position
    OBVIOUS
  <2> QED BY <2>1
<1>3. PICK S \in SUBSET Position : S = {s \in Position : char[s] = c}
  OBVIOUS
<1>4. W = Begin(c) .. End(c) - 1
  <2>1. PICK b \in Nat, e \in Nat : b = Begin(c) /\ e = End(c) /\ b <= e /\ e <= N
    BY <1>1
  <2>2. \A p \in Position : p \in W <=> b <= p /\ p < e
    BY <1>2, <2>1 DEF InBucket
  <2>3. \A p : p \in b .. e - 1 => p \in Position /\ b <= p /\ p < e
    BY <2>1, PermuteAssumption DEF Position
  <2>4. \A p \in Position : b <= p /\ p < e => p \in b .. e - 1
    BY <2>1, PermuteAssumption DEF Position
  <2>5. W = b .. e - 1
    BY <2>2, <2>3, <2>4
  <2> QED BY <2>1, <2>5
<1>5. Cardinality(W) = Cardinality(S) /\ IsFiniteSet(S)
  <2>1. Cardinality(S) = bktsize(c)
    BY <1>3 DEF bktsize
  <2>2. IsFiniteSet(S)
    BY CountBounds
  <2>3. PICK b \in Int, e \in Int : b = Begin(c) /\ e = End(c) - 1 /\ e - b + 1 = bktsize(c) /\ bktsize(c) \in Nat
    BY <1>1
  <2>4. Cardinality(b .. e) = IF b > e THEN 0 ELSE e - b + 1
    BY FS_Interval
  <2>5. Cardinality(W) = bktsize(c)
    BY <1>4, <2>3, <2>4
  <2> QED BY <2>1, <2>2, <2>5
<1>6. PICK g \in [W -> S] : \A p \in W : g[p] = f[p]
  <2>1. \A p \in W : f[p] \in S
    BY <1>2, <1>3 DEF Perm
  <2>2. [p \in W |-> f[p]] \in [W -> S]
    BY <2>1
  <2> QED BY <2>2
<1>7. g \in Injection(W, S)
  <2>1. \A x, y \in W : g[x] = g[y] => x = y
    BY <1>6 DEF Perm
  <2> QED BY <2>1, Fun_IsInj
<1>8. g \in Surjection(W, S)
  BY <1>5, <1>7, FS_Injection
<1>9. f[q] \in S
  BY <1>3 DEF Perm
<1>10. PICK p \in W : g[p] = f[q]
  BY <1>8, <1>9 DEF Surjection
<1> QED BY <1>2, <1>6, <1>10 DEF Perm

---------------------------------------------------------------------------
(* The in-place permutation: what is in place *)

\* The outer loop is at the beginning of a bucket.  A bucket behind it is in
\* place; of one before it, what bkt has passed.
CellOK(c) ==
  /\ 0 <= bkt[c] /\ bkt[c] <= End(c)
  /\ i <= Begin(c) => Begin(c) <= bkt[c]
  /\ End(c) <= i => bkt[c] <= Begin(c)
  /\ i = 0 /\ 0 < End(c) => 0 < bkt[c]
Passed(c) == \A p \in Position : InBucket(c, p) /\ bkt[c] <= p => char[InHand[p]] = c
Settling ==
  /\ \A c \in Char : End(c) <= i \/ i <= Begin(c)
  /\ \A c \in Char : CellOK(c) /\ Passed(c)
  /\ i <= N

\* The result: every string is in its bucket.
Grouped ==
  /\ \A p \in Position : InBucket(char[ss[p]], p)
  /\ bkt = [c \in Char |-> Begin(c)]
  /\ i <= N

PermInv == IInv /\ (pc # "done" => Settling) /\ (pc = "done" => Grouped)

\* The array with the string in hand is a permutation of the strings.
LEMMA InHandPerm == ASSUME IInv PROVE Perm(InHand)
<1>1. ss \in [Position -> Position] /\ perm \in Position
  BY DEF IInv, Bounds
<1>2. InHand \in [Position -> Position]
  BY <1>1 DEF InHand
<1> QED BY <1>2 DEF IInv, NothingLost, Perm

\* The bucket of the string in hand is not in place.
LEMMA HandFacts ==
  ASSUME IInv, Settling, pc = "inner"
  PROVE  /\ permch \in Char /\ i \in Position /\ i \in Nat /\ InHand[i] = perm /\ permch = char[perm]
         /\ perm \in Position /\ bkt[permch] \in Nat
         /\ i <= Begin(permch) /\ Begin(permch) < End(permch)
         /\ Begin(permch) <= bkt[permch] /\ bkt[permch] <= End(permch)
         /\ 0 < bkt[permch]
         /\ bkt[permch] = Begin(permch) => i = Begin(permch)
<1>1. PICK c \in Char : c = permch
  BY DEF IInv, Bounds
<1>2. char \in [Position -> Char] /\ bkt \in [Char -> Int] /\ perm \in Position /\ i \in Nat /\ i < N
      /\ ss \in [Position -> Position]
  BY DEF IInv, Bounds
<1>3. i \in Position
  BY <1>2, PermuteAssumption DEF Position
<1>4. c = char[perm] /\ InHand[i] = perm
  BY <1>1, <1>2, <1>3 DEF IInv, CacheAgrees, InHand
<1>5. /\ Begin(c) \in Nat /\ bktsize(c) \in Nat /\ End(c) \in Nat
      /\ End(c) = Begin(c) + bktsize(c) /\ End(c) <= N
  BY <1>2, BucketsOrdered DEF Ordered
<1>6. bktsize(c) >= 1
  BY <1>1, <1>4, BucketNotEmpty DEF IInv
<1>7. CellOK(c) /\ Passed(c) /\ (End(c) <= i \/ i <= Begin(c)) /\ bkt[c] \in Int
  BY <1>2 DEF Settling
<1>8. bkt[c] <= Begin(c) => Begin(c) <= i /\ i < End(c)
  <2> SUFFICES ASSUME bkt[c] <= Begin(c) PROVE InBucket(c, i)
    BY DEF InBucket
  <2>1. \A p \in Position : p \in Int
    BY DEF Position
  <2>2. \A p \in Position : InBucket(c, p) => bkt[c] <= p
    BY <1>5, <1>7, <2>1 DEF InBucket
  <2>3. \A p \in Position : InBucket(c, p) => char[InHand[p]] = c
    BY <1>7, <2>2 DEF Passed
  <2> QED BY <1>2, <1>3, <1>4, <2>3, InHandPerm, Settled
<1>9. /\ i <= Begin(c) /\ Begin(c) < End(c) /\ Begin(c) <= bkt[c] /\ bkt[c] <= End(c)
      /\ 0 < bkt[c] /\ (bkt[c] = Begin(c) => i = Begin(c)) /\ bkt[c] \in Nat
  BY <1>2, <1>5, <1>6, <1>7, <1>8 DEF CellOK
<1> QED BY <1>1, <1>2, <1>3, <1>4, <1>9

LEMMA InitPermInv == ASSUME Init PROVE PermInv
<1>1. IInv
  BY InitIInv
<1>2. char \in [Position -> Char]
  BY DEF Init
<1>3. /\ \A c \in Char : bkt[c] = End(c) /\ Begin(c) \in Nat /\ bktsize(c) \in Nat /\ End(c) \in Nat
      /\ \A c \in Char : End(c) = Begin(c) + bktsize(c)
  BY <1>2, BucketsOrdered DEF Init, End, Ordered
<1>4. \A c \in Char : CellOK(c)
  BY <1>3 DEF CellOK, Init
<1>5. \A c \in Char : Passed(c)
  BY <1>3 DEF Passed, InBucket, Position
<1>6. Settling
  <2>1. i = 0 /\ 0 <= N
    BY PermuteAssumption DEF Init
  <2>2. \A c \in Char : i <= Begin(c)
    BY <1>3, <2>1
  <2> QED BY <1>4, <1>5, <2>1, <2>2 DEF Settling
<1> QED BY <1>1, <1>6 DEF PermInv, Init

\* What a step leaves alone.
LEMMA Unmoved ==
  ASSUME char' = char
  PROVE  \A c : /\ Begin(c)' = Begin(c) /\ End(c)' = End(c)
                /\ \A p : InBucket(c, p)' <=> InBucket(c, p)
BY DEF Begin, End, InBucket

LEMMA TakeOutKeeps == ASSUME PermInv, TakeOut PROVE PermInv'
<1>1. IInv /\ Settling /\ IInv'
  BY TakeOutIInv DEF PermInv, TakeOut
<1>2. UNCHANGED <<char, ss, bkt, i>> /\ pc' = "inner" /\ perm' = ss[i] /\ pc = "outer"
  BY DEF TakeOut
<1>3. InHand' = InHand
  <2>1. ss \in [Position -> Position]
    BY <1>1 DEF IInv, Bounds
  <2> QED BY <1>2, <2>1 DEF InHand
<1>4. Settling'
  BY <1>1, <1>2, <1>3, Unmoved DEF Settling, CellOK, Passed
<1> QED BY <1>1, <1>2, <1>4 DEF PermInv

LEMMA ExchangeKeeps == ASSUME PermInv, Exchange PROVE PermInv'
<1>1. IInv /\ Settling /\ IInv' /\ pc = "inner"
  BY ExchangeIInv DEF PermInv, Exchange
<1>2. PICK c \in Char, j \in Int : c = permch /\ j = bkt[permch] - 1
  BY <1>1 DEF IInv, Bounds
<1>3. /\ j > i /\ bkt' = [bkt EXCEPT ![c] = j] /\ perm' = ss[j] /\ ss' = [ss EXCEPT ![j] = perm]
      /\ UNCHANGED <<char, i, pc>>
  BY <1>2 DEF Exchange
<1>4. /\ i \in Nat /\ i \in Position /\ perm \in Position /\ InHand[i] = perm /\ c = char[perm] /\ bkt[c] \in Nat
      /\ i <= Begin(c) /\ Begin(c) < End(c) /\ Begin(c) <= bkt[c] /\ bkt[c] <= End(c)
      /\ (bkt[c] = Begin(c) => i = Begin(c))
  BY <1>1, <1>2, HandFacts
<1>5. /\ bkt \in [Char -> Int] /\ ss \in [Position -> Position] /\ char \in [Position -> Char]
  BY <1>1 DEF IInv, Bounds
<1>6. Ordered
  BY <1>5, BucketsOrdered
<1>7. Begin(c) \in Nat /\ End(c) \in Nat /\ End(c) <= N
  BY <1>6 DEF Ordered
<1>8. InBucket(c, j) /\ j \in Position
  BY <1>2, <1>3, <1>4, <1>7, PermuteAssumption DEF InBucket, Position
<1>9. \A d \in Char : bkt'[d] = IF d = c THEN j ELSE bkt[d]
  BY <1>3, <1>5
<1>10. \A p \in Position : InHand'[p] = IF p = i THEN ss[j] ELSE IF p = j THEN perm ELSE InHand[p]
  <2>1. InHand' = [ss' EXCEPT ![i] = ss[j]] /\ InHand = [ss EXCEPT ![i] = perm]
    BY <1>1, <1>3 DEF InHand
  <2>2. \A p \in Position : ss'[p] = IF p = j THEN perm ELSE ss[p]
    BY <1>3, <1>5
  <2>3. ss' \in [Position -> Position]
    BY <1>3, <1>4, <1>5
  <2>4. \A p \in Position : InHand'[p] = IF p = i THEN ss[j] ELSE ss'[p]
    BY <2>1, <2>3
  <2>5. \A p \in Position : p # i => InHand[p] = ss[p]
    BY <1>5, <2>1
  <2> QED BY <2>2, <2>4, <2>5
<1>11. ASSUME NEW d \in Char PROVE CellOK(d)' /\ Passed(d)'
  <2>1. CellOK(d) /\ Passed(d) /\ Begin(d) \in Nat /\ End(d) \in Nat /\ bkt[d] \in Int
    BY <1>1, <1>5, <1>6 DEF Settling, Ordered
  <2>2. CellOK(d)'
    <3>1. CASE d = c
      <4>1. bkt'[d] = j /\ i' = i
        BY <1>3, <1>9, <3>1
      <4>2. /\ 0 <= j /\ j <= End(d) /\ (i <= Begin(d) => Begin(d) <= j)
            /\ (End(d) <= i => j <= Begin(d)) /\ (i = 0 /\ 0 < End(d) => 0 < j)
        BY <1>2, <1>3, <1>4, <1>7, <3>1
      <4> QED BY <1>3, <4>1, <4>2, Unmoved DEF CellOK
    <3>2. CASE d # c
      <4>1. bkt'[d] = bkt[d] /\ i' = i
        BY <1>3, <1>9, <3>2
      <4> QED BY <1>3, <2>1, <4>1, Unmoved DEF CellOK
    <3> QED BY <3>1, <3>2
  <2>3. ASSUME NEW p \in Position, InBucket(d, p), bkt'[d] <= p
        PROVE  char[InHand'[p]] = d
    <3>1. p \in Int
      BY DEF Position
    <3>2. CASE p = j
      <4>1. d = c
        <5>1. ~(c < d) /\ ~(d < c)
          BY <1>6, <1>7, <1>8, <2>1, <2>3, <3>1, <3>2 DEF InBucket, Ordered
        <5> QED BY <5>1, PermuteAssumption DEF Char
      <4>2. InHand'[p] = perm
        BY <1>3, <1>4, <1>8, <1>10, <1>2, <3>2
      <4> QED BY <1>4, <4>1, <4>2
    <3>3. CASE p = i
      <4>1. bkt'[d] <= i /\ d # c /\ bkt[d] <= i
        BY <1>2, <1>3, <1>4, <1>9, <2>3, <3>3
      <4>2. char[InHand[i]] = d
        BY <2>1, <2>3, <3>3, <4>1 DEF Passed
      <4> QED BY <1>4, <4>1, <4>2
    <3>4. CASE p # i /\ p # j
      <4>1. bkt[d] <= p
        BY <1>2, <1>4, <1>9, <2>1, <2>3, <3>1, <3>4
      <4>2. char[InHand[p]] = d
        BY <2>1, <2>3, <4>1 DEF Passed
      <4> QED BY <1>10, <3>4, <4>2
    <3> QED BY <3>2, <3>3, <3>4
  <2>4. Passed(d)'
    BY <1>3, <2>3, Unmoved DEF Passed
  <2> QED BY <2>2, <2>4
<1>12. Settling'
  BY <1>1, <1>3, <1>11, Unmoved DEF Settling
<1> QED BY <1>1, <1>3, <1>12 DEF PermInv

LEMMA PutDownKeeps == ASSUME PermInv, PutDown PROVE PermInv'
<1>1. IInv /\ Settling /\ IInv' /\ pc = "inner" /\ pc' = "outer"
  BY PutDownIInv DEF PermInv, PutDown
<1>2. PICK c \in Char, j \in Int : c = permch /\ j = bkt[permch] - 1
  BY <1>1 DEF IInv, Bounds
<1>3. /\ j <= i /\ bkt' = [bkt EXCEPT ![c] = j] /\ ss' = [ss EXCEPT ![i] = perm]
      /\ i' = i + bktsize(c) /\ UNCHANGED <<char, perm>>
  BY <1>2 DEF PutDown
<1>4. /\ i \in Nat /\ i \in Position /\ perm \in Position /\ InHand[i] = perm /\ c = char[perm] /\ bkt[c] \in Nat
      /\ i <= Begin(c) /\ Begin(c) < End(c) /\ Begin(c) <= bkt[c] /\ bkt[c] <= End(c)
      /\ 0 < bkt[c] /\ (bkt[c] = Begin(c) => i = Begin(c))
  BY <1>1, <1>2, HandFacts
<1>5. /\ bkt \in [Char -> Int] /\ ss \in [Position -> Position] /\ char \in [Position -> Char]
  BY <1>1 DEF IInv, Bounds
<1>6. Ordered
  BY <1>5, BucketsOrdered
<1>7. Begin(c) \in Nat /\ End(c) \in Nat /\ End(c) <= N /\ End(c) = Begin(c) + bktsize(c)
  BY <1>6 DEF Ordered
\* The bucket in hand is the one that begins at i.
<1>8. Begin(c) = i /\ i' = End(c) /\ j <= Begin(c) /\ 0 <= j
  BY <1>2, <1>3, <1>4, <1>7
<1>9. \A d \in Char : bkt'[d] = IF d = c THEN j ELSE bkt[d]
  BY <1>3, <1>5
<1>10. InHand' = InHand
  BY <1>1, <1>3 DEF InHand
<1>11. ASSUME NEW d \in Char, d # c
       PROVE  /\ Begin(d) \in Nat /\ End(d) \in Nat /\ Begin(d) <= End(d)
              /\ End(d) <= Begin(c) \/ End(c) <= Begin(d)
  <2>1. c < d \/ d < c
    BY <1>11, PermuteAssumption DEF Char
  <2>2. Begin(d) \in Nat /\ End(d) \in Nat /\ bktsize(d) \in Nat /\ End(d) = Begin(d) + bktsize(d)
    BY <1>6 DEF Ordered
  <2>3. Begin(d) <= End(d)
    BY <2>2
  <2> QED BY <1>6, <2>1, <2>2, <2>3 DEF Ordered
<1>12. ASSUME NEW d \in Char PROVE CellOK(d)' /\ Passed(d)'
  <2>1. CellOK(d) /\ Passed(d) /\ bkt[d] \in Int
    BY <1>1, <1>5 DEF Settling
  <2>2. CASE d = c
    <3>1. CellOK(d)'
      <4>1. bkt'[d] = j
        BY <1>9, <2>2
      <4>2. /\ 0 <= j /\ j <= End(d) /\ ~(End(c) <= Begin(d)) /\ j <= Begin(d) /\ End(c) # 0
        BY <1>4, <1>7, <1>8, <2>2
      <4> QED BY <1>3, <1>8, <4>1, <4>2, Unmoved DEF CellOK
    <3>2. ASSUME NEW p \in Position, InBucket(d, p) PROVE char[InHand[p]] = d
      <4>1. p = i \/ bkt[d] <= p
        BY <1>2, <1>3, <1>4, <1>7, <1>8, <2>2, <3>2 DEF InBucket, Position
      <4> QED BY <1>4, <2>1, <2>2, <3>2, <4>1 DEF Passed
    <3>3. Passed(d)'
      BY <1>3, <1>10, <3>2, Unmoved DEF Passed
    <3> QED BY <3>1, <3>3
  <2>3. CASE d # c
    <3>1. bkt'[d] = bkt[d]
      BY <1>9, <2>3
    <3>2. /\ Begin(d) \in Nat /\ End(d) \in Nat /\ Begin(d) <= End(d)
          /\ End(d) <= Begin(c) \/ End(c) <= Begin(d)
      BY <1>11, <2>3
    <3>3. CellOK(d)'
      <4>1. /\ 0 <= bkt[d] /\ bkt[d] <= End(d)
            /\ (End(c) <= Begin(d) => Begin(d) <= bkt[d])
            /\ (End(d) <= End(c) => bkt[d] <= Begin(d)) /\ End(c) # 0
        BY <1>4, <1>7, <1>8, <2>1, <3>2 DEF CellOK
      <4> QED BY <1>3, <1>8, <3>1, <4>1, Unmoved DEF CellOK
    <3>4. Passed(d)'
      BY <1>3, <1>10, <2>1, <3>1, Unmoved DEF Passed
    <3> QED BY <3>3, <3>4
  <2> QED BY <2>2, <2>3
<1>13. Settling'
  <2>1. \A d \in Char : End(d) <= End(c) \/ End(c) <= Begin(d)
    <3> TAKE d \in Char
    <3>1. CASE d = c
      BY <1>7, <3>1
    <3>2. CASE d # c
      <4>1. /\ End(d) \in Nat /\ (End(d) <= Begin(c) \/ End(c) <= Begin(d))
        BY <1>11, <3>2
      <4> QED BY <1>4, <1>7, <4>1
    <3> QED BY <3>1, <3>2
  <2>2. i' <= N
    BY <1>7, <1>8
  <2> QED BY <1>3, <1>8, <1>12, <2>1, <2>2, Unmoved DEF Settling
<1> QED BY <1>1, <1>13 DEF PermInv

\* The last nonempty bucket ends at N, and what it leaves is the strings before it.
LEMMA LastBucket ==
  ASSUME char \in [Position -> Char]
  PROVE  \E m \in Char : /\ \A s \in Position : char[s] <= m
                         /\ End(m) = N /\ N - last_bkt_size = Begin(m)
<1>1. PICK m \in Char : (\E s \in Position : char[s] = m) /\ \A s \in Position : char[s] <= m
  <2>1. \A s \in Position : char[s] \in Int /\ MaxChar - char[s] \in Nat
    BY PermuteAssumption DEF Char
  <2>2. PICK T \in SUBSET Nat : T = {MaxChar - char[s] : s \in Position}
    BY <2>1
  <2>3. T # {}
    <3>1. 0 \in Position
      BY PermuteAssumption DEF Position
    <3> QED BY <2>2, <3>1
  <2>4. PICK x \in T : \A y \in T : x <= y
    BY <2>3, DP!NatLeast
  <2>5. PICK r \in Position : x = MaxChar - char[r]
    BY <2>2, <2>4
  <2>6. ASSUME NEW s \in Position PROVE char[s] <= char[r]
    <3>1. MaxChar - char[r] <= MaxChar - char[s]
      BY <2>2, <2>4, <2>5
    <3> QED BY <2>1, <3>1, PermuteAssumption
  <2> QED BY <2>6
<1>2. {s \in Position : \A r \in Position : char[r] <= char[s]} = {s \in Position : char[s] = m}
  BY <1>1, PermuteAssumption DEF Char
<1>3. last_bkt_size = bktsize(m)
  BY <1>2 DEF last_bkt_size, bktsize
<1>4. End(m) = N
  <2>1. {s \in Position : char[s] <= m} = Position
    BY <1>1
  <2>2. Cardinality(Position) = N
    <3>1. 0 \in Int /\ N - 1 \in Int /\ 0 <= N - 1
      BY PermuteAssumption
    <3> QED BY <3>1, FS_Interval, PermuteAssumption DEF Position
  <2> QED BY <2>1, <2>2 DEF End
<1>5. Begin(m) \in Nat /\ bktsize(m) \in Nat /\ End(m) = Begin(m) + bktsize(m)
  BY BucketsOrdered DEF Ordered
<1> QED BY <1>1, <1>3, <1>4, <1>5

\* The loop ends: the strings of the last bucket are where they are left.
LEMMA FixKeeps == ASSUME PermInv, Fix PROVE PermInv'
<1>1. IInv /\ Settling /\ IInv' /\ pc = "outer" /\ pc' = "done" /\ UNCHANGED <<char, ss, i>>
      /\ i >= N - last_bkt_size /\ bkt' = [c \in Char |-> Begin(c)]
  BY FixIInv DEF PermInv, Fix, Begin
<1>2. /\ char \in [Position -> Char] /\ bkt \in [Char -> Int] /\ i \in Nat
  BY <1>1 DEF IInv, Bounds
<1>3. Ordered
  BY <1>2, BucketsOrdered
<1>4. PICK m \in Char : /\ \A s \in Position : char[s] <= m
                        /\ End(m) = N /\ N - last_bkt_size = Begin(m)
  BY <1>2, LastBucket
<1>5. Perm(ss) /\ InHand = ss
  BY <1>1, InHandPerm DEF InHand
<1>6. m \in Int /\ Begin(m) \in Nat /\ Begin(m) <= i
  BY <1>1, <1>3, <1>4, PermuteAssumption DEF Char, Ordered
<1>7. ASSUME NEW c \in Char, c < m, NEW q \in Position, char[ss[q]] = c
      PROVE  InBucket(c, q)
  <2>1. CellOK(c) /\ Passed(c) /\ End(c) \in Nat /\ Begin(c) \in Nat /\ bkt[c] \in Int /\ End(c) <= Begin(m)
    BY <1>1, <1>2, <1>3, <1>4, <1>7 DEF Settling, Ordered
  <2>2. bkt[c] <= Begin(c)
    BY <1>2, <1>6, <2>1 DEF CellOK
  <2>3. \A p \in Position : p \in Int
    BY DEF Position
  <2>4. \A p \in Position : InBucket(c, p) => char[ss[p]] = c
    BY <1>5, <2>1, <2>2, <2>3 DEF Passed, InBucket
  <2> QED BY <1>2, <1>5, <1>7, <2>4, Settled
<1>8. ASSUME NEW p \in Position, InBucket(m, p) PROVE char[ss[p]] = m
  <2>1. PICK d \in Char : d = char[ss[p]] /\ d <= m
    BY <1>2, <1>4, <1>5 DEF Perm
  <2>2. ASSUME d < m PROVE FALSE
    <3>1. InBucket(d, p) /\ End(d) <= Begin(m) /\ End(d) \in Nat
      BY <1>3, <1>4, <1>7, <2>1, <2>2 DEF Ordered
    <3>2. p \in Int
      BY DEF Position
    <3> QED BY <1>6, <1>8, <3>1, <3>2 DEF InBucket
  <2>3. d \in Int
    BY PermuteAssumption DEF Char
  <2> QED BY <1>6, <2>1, <2>2, <2>3
<1>9. ASSUME NEW p \in Position PROVE InBucket(char[ss[p]], p)
  <2>1. PICK d \in Char : d = char[ss[p]] /\ d <= m
    BY <1>2, <1>4, <1>5 DEF Perm
  <2>2. CASE d < m
    BY <1>7, <2>1, <2>2
  <2>3. CASE d = m
    BY <1>2, <1>4, <1>5, <1>8, <2>1, <2>3, Settled
  <2>4. d \in Int
    BY PermuteAssumption DEF Char
  <2> QED BY <1>6, <2>1, <2>2, <2>3, <2>4
<1>10. Grouped'
  <2>1. i <= N
    BY <1>1 DEF Settling
  <2> QED BY <1>1, <1>9, <2>1, Unmoved DEF Grouped
<1> QED BY <1>1, <1>10 DEF PermInv

LEMMA NextPermInv == ASSUME PermInv, [Next]_vars PROVE PermInv'
<1>1. CASE TakeOut BY <1>1, TakeOutKeeps
<1>2. CASE Exchange BY <1>2, ExchangeKeeps
<1>3. CASE PutDown BY <1>3, PutDownKeeps
<1>4. CASE Fix BY <1>4, FixKeeps
<1>5. CASE UNCHANGED vars
  <2>1. IInv'
    BY <1>5, NextIInv DEF PermInv
  <2>2. UNCHANGED <<char, ss, bkt, i, perm, pc>> /\ InHand' = InHand
    BY <1>5 DEF vars, InHand
  <2>3. Settling => Settling'
    BY <2>2, Unmoved DEF Settling, CellOK, Passed
  <2>4. Grouped => Grouped'
    BY <2>2, Unmoved DEF Grouped
  <2> QED BY <2>1, <2>2, <2>3, <2>4 DEF PermInv
<1> QED BY <1>1, <1>2, <1>3, <1>4, <1>5 DEF Next, Terminated

LEMMA InvPermTypes == ASSUME PermInv PROVE TypeOK
<1>1. Bounds /\ Ordered
  BY BucketsOrdered DEF PermInv, IInv, Bounds
<1>2. i <= N /\ \A c \in Char : bkt[c] \in 0 .. N
  <2>1. CASE pc # "done"
    BY <1>1, <2>1, PermuteAssumption DEF PermInv, Settling, CellOK, Ordered, Bounds
  <2>2. CASE pc = "done"
    <3>1. \A c \in Char : bkt[c] = Begin(c)
      BY <2>2 DEF PermInv, Grouped
    <3>2. \A c \in Char : Begin(c) \in Nat /\ bktsize(c) \in Nat /\ End(c) = Begin(c) + bktsize(c) /\ End(c) <= N
      BY <1>1 DEF Ordered
    <3>3. \A c \in Char : Begin(c) <= N
      BY <3>2, PermuteAssumption
    <3> QED BY <2>2, <3>1, <3>2, <3>3, PermuteAssumption DEF PermInv, Grouped
  <2> QED BY <2>1, <2>2
<1> QED BY <1>1, <1>2, PermuteAssumption DEF Bounds, TypeOK

\* What the end of the loop leaves: all strings, in the order of their characters.
Permuted ==
  pc = "done" =>
    /\ bkt = [c \in Char |-> Begin(c)]
    /\ {ss[p] : p \in Position} = Position
    /\ \A p, q \in Position : p <= q => char[ss[p]] <= char[ss[q]]

LEMMA InvPermuted == ASSUME PermInv PROVE Permuted
<1> SUFFICES ASSUME pc = "done"
             PROVE  /\ bkt = [c \in Char |-> Begin(c)]
                    /\ {ss[p] : p \in Position} = Position
                    /\ \A p, q \in Position : p <= q => char[ss[p]] <= char[ss[q]]
  BY DEF Permuted
<1>1. IInv /\ Grouped
  BY DEF PermInv
<1>2. Perm(ss) /\ char \in [Position -> Char]
  BY <1>1, InHandPerm DEF InHand, IInv, Bounds
<1>3. {ss[p] : p \in Position} = Position
  <2>1. \A x, y \in Position : ss[x] = ss[y] => x = y
    BY <1>2 DEF Perm
  <2>2. ss \in Injection(Position, Position)
    BY <1>2, <2>1, Fun_IsInj DEF Perm
  <2>3. IsFiniteSet(Position)
    BY CountBounds
  <2>4. ss \in Surjection(Position, Position)
    BY <2>2, <2>3, FS_Injection
  <2> QED BY <1>2, <2>4 DEF Surjection, Perm
<1>4. ASSUME NEW p \in Position, NEW q \in Position, p <= q
      PROVE  char[ss[p]] <= char[ss[q]]
  <2>1. PICK c \in Char, d \in Char : c = char[ss[p]] /\ d = char[ss[q]]
    BY <1>2 DEF Perm
  <2>2. InBucket(c, p) /\ InBucket(d, q) /\ p \in Int /\ q \in Int /\ c \in Int /\ d \in Int
    BY <1>1, <2>1, PermuteAssumption DEF Grouped, Position, Char
  <2>3. (d < c => End(d) <= Begin(c)) /\ End(d) \in Nat /\ Begin(c) \in Nat
    BY <1>2, BucketsOrdered DEF Ordered
  <2> QED BY <1>4, <2>1, <2>2, <2>3 DEF InBucket
<1> QED BY <1>1, <1>3, <1>4 DEF Grouped

---------------------------------------------------------------------------
(* D and DP are instances of the same specification *)

\* The sizes are what the proofs about the distribution assume.
LEMMA Assumed == DP!SizesOK
BY PermuteAssumption, PartsAssumption DEF DP!SizesOK

\* They have the same prefix sum.
LEMMA SamePrefixSum == D!PrefixSum = DP!PrefixSum
BY Zenon DEF D!PrefixSum, DP!PrefixSum, D!Part, DP!Part, D!Bkt, DP!Bkt, D!MapThenFoldSet, DP!MapThenFoldSet

\* They have the same steps.
LEMMA SameNext == D!Next => DP!Next
BY Zenon, SamePrefixSum DEF
     D!Next, D!PartStep, D!CountStrings, D!EndCount, D!MoveString, D!EndDistribute, D!Terminated,
     D!vars, D!strB, D!strE, D!psize, D!Low, D!Part, D!Bkt, D!Cardinality,
     DP!Next, DP!PartStep, DP!CountStrings, DP!EndCount, DP!MoveString, DP!EndDistribute,
     DP!Terminated, DP!vars, DP!strB, DP!strE, DP!psize, DP!Low, DP!Part, DP!Bkt,
     DP!Cardinality

\* They have the same first states.
LEMMA SameInit == D!Init => DP!Init
BY Zenon DEF D!Init, D!Position, D!Part, D!Bkt, D!strB, D!psize, D!Empty,
     DP!Init, DP!Position, DP!Part, DP!Bkt, DP!strB, DP!psize, DP!Empty

\* They have the same types.
LEMMA SameTypeOK == DP!TypeOK => D!TypeOK
BY Zenon DEF D!TypeOK, D!Position, D!Part, D!Bkt, D!Empty,
     DP!TypeOK, DP!Position, DP!Part, DP!Bkt, DP!Empty

---------------------------------------------------------------------------
(* A step of either kind *)

StepInv == PermInv /\ DP!IInv
StepNext == RunLarge \/ RunSmall
stepvars == <<vars, dvars, large>>

LEMMA InitStepInv == ASSUME EnqueueStep PROVE StepInv
BY InitPermInv, SameInit, DP!InitIInv, Assumed DEF EnqueueStep, StepInv

\* The distribution when the loop runs, or nothing does.
LEMMA Standing == ASSUME UNCHANGED <<char, dvars>> PROVE [DP!Next]_(DP!vars)
BY DEF DP!vars, dvars

\* Every step is a step of the one and leaves the other alone.
LEMMA StepOfEach ==
  ASSUME [StepNext]_stepvars
  PROVE  [Next]_vars /\ [DP!Next]_(DP!vars) /\ large' = large
<1>1. CASE RunLarge
  BY <1>1, SameNext DEF RunLarge
<1>2. CASE RunSmall
  <2>1. char' = char
    BY <1>2 DEF RunSmall, Next, TakeOut, Exchange, PutDown, Fix, Terminated, vars
  <2> QED BY <1>2, <2>1, Standing DEF RunSmall
<1>3. CASE UNCHANGED stepvars
  BY <1>3, Standing DEF stepvars, vars
<1> QED BY <1>1, <1>2, <1>3 DEF StepNext

LEMMA NextStepInv == ASSUME StepInv, [StepNext]_stepvars PROVE StepInv'
BY StepOfEach, NextPermInv, DP!NextIInv, Assumed DEF StepInv

LEMMA StepAlways == StepSpec => []StepInv
<1>1. EnqueueStep => StepInv
  BY InitStepInv
<1>2. StepInv /\ [StepNext]_stepvars => StepInv'
  BY NextStepInv
<1>3. StepSpec => EnqueueStep /\ [][StepNext]_stepvars
  BY DEF StepSpec, StepNext, stepvars
<1> QED BY <1>1, <1>2, <1>3, PTL

\* No cell of bkt is decremented below zero, by the loop that permutes in
\* place or by the jobs that fill their windows from the end, whatever the
\* characters and however the jobs interleave.
THEOREM StepTypes == StepSpec => []TypesOK
<1>1. StepInv => TypesOK
  BY InvPermTypes, DP!InvTypeOK, Assumed, SameTypeOK DEF StepInv, TypesOK
<1> QED BY <1>1, StepAlways, PTL

\* In a step of either kind no string is lost, and the cached characters move
\* with the strings.
THEOREM StepLosesNothing == StepSpec => [](NothingLost /\ CacheAgrees)
<1>1. StepInv => NothingLost /\ CacheAgrees
  BY DEF StepInv, PermInv, IInv
<1> QED BY <1>1, StepAlways, PTL

\* The distribute jobs write the shadow array without locks, and never the
\* same slot: the windows of two parts cannot meet.
THEOREM StepSlots == StepSpec => SlotsWrittenOnce
<1>1. StepInv /\ [StepNext]_stepvars => [D!SlotsKept]_(D!vars)
  <2> SUFFICES ASSUME StepInv, [StepNext]_stepvars PROVE D!SlotsKept
    OBVIOUS
  <2>1. DP!SlotsKept
    BY StepOfEach, DP!NextIInv, Assumed DEF StepInv
  <2> QED BY <2>1 DEF D!SlotsKept, DP!SlotsKept, D!Position, DP!Position, D!Empty, DP!Empty
<1>2. StepSpec => [][StepNext]_stepvars
  BY DEF StepSpec, StepNext, stepvars
<1> QED BY <1>1, <1>2, StepAlways, PTL DEF SlotsWrittenOnce

---------------------------------------------------------------------------
(* The promise *)

\* What the promise sees of a step.
Order == CASE large /\ dbounds # <<>> -> shadow
           [] ~large /\ pc = "done"   -> ss
           [] OTHER -> [p \in Position |-> p]
Bounded == CASE large /\ dbounds # <<>> -> dbounds[1]
             [] ~large /\ pc = "done"   -> bkt
             [] OTHER -> <<>>

LEMMA SeenLarge == ASSUME large, dbounds # <<>> PROVE Order = shadow /\ Bounded = dbounds[1]
BY DEF Order, Bounded

LEMMA SeenSmall == ASSUME ~large, pc = "done" PROVE Order = ss /\ Bounded = bkt
BY DEF Order, Bounded

LEMMA SeenBefore ==
  ASSUME large => dbounds = <<>>, ~large => pc # "done"
  PROVE  Order = [p \in Position |-> p] /\ Bounded = <<>>
BY DEF Order, Bounded

\* The step of the promise, in these words.
Deliver ==
  /\ Bounded = <<>>
  /\ Bounded' = [c \in Char |-> Begin(c)]
  /\ {Order'[p] : p \in Position} = Position
  /\ \A p, q \in Position : p <= q => char[Order'[p]] <= char[Order'[q]]
  /\ UNCHANGED char

LEMMA DeliverSorts == Deliver => Promise!Sort
BY Zenon DEF Deliver, Promise!Sort, Promise!Strings, Promise!Below, Order, Bounded,
     Position, Char, Begin, Promise!Cardinality, Cardinality

LEMMA PromiseStays ==
  ASSUME UNCHANGED <<char, Order, Bounded>>
  PROVE  UNCHANGED Promise!vars
<1>1. Promise!vars = <<char, Order, Bounded>> /\ Promise!vars' = <<char', Order', Bounded'>>
  BY Zenon DEF Promise!vars, Order, Bounded
<1> QED BY <1>1

LEMMA InitPromise == ASSUME EnqueueStep PROVE Promise!Init
<1>1. dbounds = <<>> /\ pc = "outer" /\ char \in [Position -> Char]
  BY SameInit DEF EnqueueStep, Init, DP!Init
<1>2. Order = [p \in Position |-> p] /\ Bounded = <<>>
  BY <1>1, SeenBefore
<1> QED BY <1>1, <1>2, Zenon DEF Promise!Init, Promise!Strings, Order, Bounded, Position, Char

\* What either step has delivered when it is finished.
Results == DP!Delivered /\ Permuted

LEMMA InvResults == ASSUME StepInv PROVE Results
BY InvPermuted, DP!InvDelivered, Assumed DEF StepInv, Results

\* The boundaries that distribute_finished() finds are the beginnings of the buckets.
LEMMA SameBegins == DP!Begins = [c \in Char |-> Begin(c)]
<1>1. (MaxChar + 1) - 1 = MaxChar
  BY PermuteAssumption
<1>2. DP!Bkt = Char
  BY <1>1 DEF DP!Bkt, Char
<1> QED BY <1>2, Zenon DEF DP!Begins, DP!Position, Position, Begin, DP!Cardinality, Cardinality

LEMMA LargePromise ==
  ASSUME StepInv, Results, Results', RunLarge
  PROVE  [Promise!Sort]_(Promise!vars)
<1>1. large /\ large' /\ [DP!Next]_(DP!vars) /\ UNCHANGED <<char, vars>>
  BY StepOfEach DEF RunLarge, StepNext, vars
<1>2. CASE dbounds # <<>>
  <2>1. UNCHANGED <<shadow, dbounds>>
    BY <1>1, <1>2, Assumed, DP!DeliveredStays DEF Results
  <2>2. UNCHANGED <<char, Order, Bounded>>
    BY <1>1, <2>1 DEF Order, Bounded
  <2> QED BY <2>2, PromiseStays
<1>3. CASE dbounds = <<>> /\ dbounds' = <<>>
  <2>1. Order' = [p \in Position |-> p] /\ Bounded' = <<>>
    BY <1>1, <1>3 DEF Order, Bounded
  <2>2. UNCHANGED <<char, Order, Bounded>>
    BY <1>1, <1>3, <2>1, SeenBefore
  <2> QED BY <2>2, PromiseStays
<1>4. CASE dbounds = <<>> /\ dbounds' # <<>>
  <2>1. Bounded = <<>>
    BY <1>1, <1>4, SeenBefore
  <2>2. Order' = shadow' /\ Bounded' = dbounds'[1]
    BY <1>1, <1>4 DEF Order, Bounded
  <2>3. /\ dbounds' = <<DP!Begins'>>
        /\ {shadow'[k] : k \in DP!Position} = DP!Position
        /\ \A k, l \in DP!Position : k <= l => char'[shadow'[k]] <= char'[shadow'[l]]
    BY <1>4 DEF Results, DP!Delivered, DP!Position
  <2>4. DP!Position = Position
    BY DEF DP!Position, Position
  <2>5. DP!Begins' = [c \in Char |-> Begin(c)]
    <3>1. DP!Begins' = DP!Begins
      BY <1>1 DEF DP!Begins, DP!Position
    <3> QED BY <3>1, SameBegins
  <2>6. Bounded' = [c \in Char |-> Begin(c)]
    BY <2>2, <2>3, <2>5
  <2>7. Deliver
    BY <1>1, <2>1, <2>2, <2>3, <2>4, <2>6 DEF Deliver
  <2> QED BY <2>7, DeliverSorts
<1> QED BY <1>2, <1>3, <1>4

LEMMA SmallPromise ==
  ASSUME StepInv, Results, Results', RunSmall
  PROVE  [Promise!Sort]_(Promise!vars)
<1>1. ~large /\ ~large' /\ Next /\ char' = char
  BY DEF RunSmall, Next, TakeOut, Exchange, PutDown, Fix, Terminated, vars
<1>2. CASE pc = "done"
  <2>1. UNCHANGED <<ss, bkt, pc>>
    BY <1>1, <1>2 DEF Next, TakeOut, Exchange, PutDown, Fix, Terminated, vars
  <2>2. UNCHANGED <<char, Order, Bounded>>
    BY <1>1, <2>1 DEF Order, Bounded
  <2> QED BY <2>2, PromiseStays
<1>3. CASE pc # "done" /\ pc' # "done"
  <2>1. Order' = [p \in Position |-> p] /\ Bounded' = <<>>
    BY <1>1, <1>3 DEF Order, Bounded
  <2>2. UNCHANGED <<char, Order, Bounded>>
    BY <1>1, <1>3, <2>1, SeenBefore
  <2> QED BY <2>2, PromiseStays
<1>4. CASE pc # "done" /\ pc' = "done"
  <2>1. Bounded = <<>>
    BY <1>1, <1>4, SeenBefore
  <2>2. Order' = ss' /\ Bounded' = bkt'
    BY <1>1, <1>4 DEF Order, Bounded
  <2>3. /\ bkt' = [c \in Char |-> Begin(c)']
        /\ {ss'[p] : p \in Position} = Position
        /\ \A p, q \in Position : p <= q => char'[ss'[p]] <= char'[ss'[q]]
    BY <1>4 DEF Results, Permuted
  <2>4. \A c \in Char : Begin(c)' = Begin(c)
    BY <1>1, Unmoved
  <2>5. Deliver
    BY <1>1, <2>1, <2>2, <2>3, <2>4 DEF Deliver
  <2> QED BY <2>5, DeliverSorts
<1> QED BY <1>2, <1>3, <1>4

\* Either step of the parallel radix sort, the distribution with its jobs in
\* any interleaving and the permutation in place, delivers a BucketStep: all
\* strings in the order of their characters, with the boundaries of the
\* buckets, at once.
THEOREM StepDelivers == StepSpec => DeliversBuckets
<1>1. EnqueueStep => Promise!Init
  BY InitPromise
<1>2. StepInv => Results
  BY InvResults
<1>3. StepInv /\ Results /\ Results' /\ [StepNext]_stepvars => [Promise!Sort]_(Promise!vars)
  <2> SUFFICES ASSUME StepInv, Results, Results', [StepNext]_stepvars
               PROVE  [Promise!Sort]_(Promise!vars)
    OBVIOUS
  <2>1. CASE UNCHANGED stepvars
    <3>1. UNCHANGED <<char, ss, bkt, pc, shadow, dbounds, large>>
      BY <2>1 DEF stepvars, vars, dvars
    <3>2. UNCHANGED <<char, Order, Bounded>>
      BY <3>1 DEF Order, Bounded
    <3> QED BY <3>2, PromiseStays
  <2> QED BY <2>1, LargePromise, SmallPromise DEF StepNext
<1>4. StepSpec => EnqueueStep /\ [][StepNext]_stepvars
  BY DEF StepSpec, StepNext, stepvars
<1> QED BY <1>1, <1>2, <1>3, <1>4, StepAlways, PTL DEF DeliversBuckets, Promise!Spec
=============================================================================
