---------------------------- MODULE RadixSortProofs ----------------------------
(***************************************************************************)
(* Proofs about the parallel radix sorts, for any number of strings, any   *)
(* threads, thresholds and alphabet: what is still to be sorted has one    *)
(* owner, jobs start at a depth their strings have in common, and what     *)
(* nobody will sort again is final and in the output.                      *)
(*                                                                         *)
(* The argument: an unsorted piece holds the strings of the result for its *)
(* cells, in another order, and those have a common prefix.  Putting them  *)
(* in buckets splits the piece where the result is split, since both have  *)
(* equally many strings below each character.                              *)
(***************************************************************************)
EXTENDS RadixSort, FiniteSetTheorems, FunctionTheorems, WellFoundedInduction, TLAPS

---------------------------------------------------------------------------
(* Strings *)

String == Seq(1 .. MaxChar)

\* Less, as a relation.
LT == {p \in Nat \X Nat : p[1] < p[2]}

\* A nonempty set of naturals has a least element.
LEMMA NatLeast ==
  ASSUME NEW T, T \subseteq Nat, T # {}
  PROVE  \E x \in T : \A y \in T : x <= y
<1>1. IsWellFoundedOn(LT, Nat)
  BY NatLessThanWellFounded, Zenon DEF OpToRel, LT
<1>2. PICK x \in T : \A y \in T : ~(<<y, x>> \in LT)
  BY <1>1, WFMin
<1>3. \A y \in T : ~(y < x)
  BY <1>2 DEF LT
<1> QED BY <1>3

\* The terminator is the only 0, and nothing else comes behind it.
LEMMA CharAtType ==
  ASSUME NEW s \in String, NEW d \in Nat
  PROVE  CharAt(s, d) \in Bkt /\ (CharAt(s, d) = 0 <=> d >= Len(s))
<1>1. MaxChar \in Nat /\ Len(s) \in Nat
  BY RadixAssumption DEF String
<1>2. CASE d < Len(s)
  <2>1. s[d + 1] \in 1 .. MaxChar
    BY <1>1, <1>2 DEF String
  <2> QED BY <1>1, <1>2, <2>1 DEF CharAt, Bkt
<1>3. CASE d >= Len(s)
  BY <1>1, <1>3 DEF CharAt, Bkt
<1> QED BY <1>1, <1>2, <1>3

\* Two strings agree below a depth.
Alike(s, t, d) == \A e \in 0 .. d - 1 : CharAt(s, e) = CharAt(t, e)

\* Strings that agree everywhere, or up to a terminator, are the same.
LEMMA SameString ==
  ASSUME NEW s \in String, NEW t \in String, NEW d \in Nat,
         Alike(s, t, d), CharAt(s, d) = 0, CharAt(t, d) = 0,
         d <= Len(s), d <= Len(t)
  PROVE  s = t
<1>1. Len(s) = d /\ Len(t) = d
  BY CharAtType DEF String
<1>2. ASSUME NEW i \in 1 .. d PROVE s[i] = t[i]
  <2>1. i - 1 \in 0 .. d - 1 /\ i - 1 < d /\ (i - 1) + 1 = i
    OBVIOUS
  <2>2. CharAt(s, i - 1) = CharAt(t, i - 1)
    BY <2>1 DEF Alike
  <2> QED BY <1>1, <2>1, <2>2 DEF CharAt
<1> QED BY <1>1, <1>2 DEF String

\* Two strings agree from a depth on, or there is a first difference.
DifferAt(s, t, d, k) ==
  /\ k \in Nat /\ k >= d /\ CharAt(s, k) # CharAt(t, k)
  /\ \A m \in d .. k - 1 : CharAt(s, m) = CharAt(t, m)
EqualFrom(s, t, d) == \A k \in Nat : k >= d => CharAt(s, k) = CharAt(t, k)

LEMMA FirstDifference ==
  ASSUME NEW s, NEW t, NEW d \in Nat
  PROVE  EqualFrom(s, t, d) \/ \E k : DifferAt(s, t, d, k)
<1> DEFINE Diff == {k \in Nat : k >= d /\ CharAt(s, k) # CharAt(t, k)}
<1>1. CASE Diff = {}
  BY <1>1 DEF EqualFrom
<1>2. CASE Diff # {}
  <2>1. PICK k \in Diff : \A y \in Diff : k <= y
    <3>1. Diff \subseteq Nat
      OBVIOUS
    <3> HIDE DEF Diff
    <3> QED BY <1>2, <3>1, NatLeast
  <2>2. \A m \in d .. k - 1 : CharAt(s, m) = CharAt(t, m)
    <3> TAKE m \in d .. k - 1
    <3>1. m \in Nat /\ m >= d /\ ~ (k <= m)
      BY <2>1
    <3> QED BY <2>1, <3>1
  <2> QED BY <2>1, <2>2 DEF DifferAt
<1> QED BY <1>1, <1>2

\* The order is decided at the first difference.
LEMMA LeqAtDifference ==
  ASSUME NEW s \in String, NEW t \in String, NEW d \in Nat, NEW k, DifferAt(s, t, d, k)
  PROVE  Leq(s, t, d) <=> CharAt(s, k) < CharAt(t, k)
<1>1. k \in Nat /\ k >= d /\ CharAt(s, k) # CharAt(t, k) /\ Len(s) \in Nat /\ MaxChar \in Nat
  BY RadixAssumption DEF DifferAt, String
<1>2. CharAt(s, k) \in Nat /\ CharAt(t, k) \in Nat /\ (CharAt(s, k) = 0 <=> k >= Len(s))
  BY <1>1, CharAtType DEF Bkt
<1>3. ASSUME Leq(s, t, d) PROVE CharAt(s, k) < CharAt(t, k)
  <2>1. SUFFICES ASSUME CharAt(t, k) < CharAt(s, k) PROVE FALSE
    BY <1>1, <1>2
  <2>2. k \in d .. Len(s)
    BY <1>1, <1>2, <2>1
  <2>3. PICK m \in d .. k - 1 : CharAt(s, m) < CharAt(t, m)
    BY <1>3, <2>1, <2>2 DEF Leq
  <2>4. CharAt(s, m) = CharAt(t, m)
    BY DEF DifferAt
  <2>5. m \in Nat
    BY <1>1
  <2> QED BY <2>3, <2>4, <2>5, CharAtType, <1>1 DEF Bkt
<1>4. ASSUME CharAt(s, k) < CharAt(t, k) PROVE Leq(s, t, d)
  <2>1. SUFFICES ASSUME NEW j \in d .. Len(s), CharAt(t, j) < CharAt(s, j)
                 PROVE  \E m \in d .. j - 1 : CharAt(s, m) < CharAt(t, m)
    BY DEF Leq
  <2>2. j \in Nat /\ CharAt(t, j) \in Nat /\ CharAt(s, j) \in Nat
    BY <1>1, CharAtType DEF Bkt
  <2>3. j # k
    BY <1>2, <1>4, <2>1
  <2>4. ~ (j \in d .. k - 1)
    BY <2>1, <2>2 DEF DifferAt
  <2>5. k \in d .. j - 1
    BY <1>1, <2>2, <2>3, <2>4
  <2> QED BY <1>4, <2>5
<1> QED BY <1>3, <1>4

LEMMA LeqWhenEqual ==
  ASSUME NEW s \in String, NEW t \in String, NEW d \in Nat, EqualFrom(s, t, d)
  PROVE  Leq(s, t, d)
<1> SUFFICES ASSUME NEW j \in d .. Len(s), CharAt(t, j) < CharAt(s, j) PROVE FALSE
  BY DEF Leq
<1>1. j \in Nat /\ j >= d /\ Len(s) \in Nat
  BY DEF String
<1>2. CharAt(s, j) = CharAt(t, j) /\ CharAt(s, j) \in Nat
  BY <1>1, CharAtType, RadixAssumption DEF EqualFrom, Bkt
<1> QED BY <1>2

\* The order is transitive, and antisymmetric on what it looks at.
LEMMA LeqTransitive ==
  ASSUME NEW s \in String, NEW t \in String, NEW u \in String, NEW d \in Nat,
         Leq(s, t, d), Leq(t, u, d)
  PROVE  Leq(s, u, d)
<1>0. \A x \in String : \A k \in Nat : CharAt(x, k) \in Nat
  <2> TAKE x \in String
  <2> TAKE k \in Nat
  <2>1. CharAt(x, k) \in Bkt
    BY CharAtType
  <2> QED BY <2>1, RadixAssumption DEF Bkt
<1>1. CASE EqualFrom(s, t, d) /\ EqualFrom(t, u, d)
  <2>1. EqualFrom(s, u, d)
    BY <1>1 DEF EqualFrom
  <2> QED BY <2>1, LeqWhenEqual
<1>2. ASSUME NEW k, DifferAt(t, u, d, k), EqualFrom(s, t, d) PROVE Leq(s, u, d)
  <2>1. DifferAt(s, u, d, k) /\ CharAt(s, k) = CharAt(t, k)
    BY <1>2 DEF DifferAt, EqualFrom
  <2> QED BY <1>2, <2>1, LeqAtDifference
<1>3. ASSUME NEW k, DifferAt(s, t, d, k), EqualFrom(t, u, d) PROVE Leq(s, u, d)
  <2>1. DifferAt(s, u, d, k) /\ CharAt(u, k) = CharAt(t, k)
    BY <1>3 DEF DifferAt, EqualFrom
  <2> QED BY <1>3, <2>1, LeqAtDifference
<1>4. ASSUME NEW k, DifferAt(s, t, d, k), NEW l, DifferAt(t, u, d, l) PROVE Leq(s, u, d)
  <2>0. k \in Nat /\ l \in Nat /\ k >= d /\ l >= d
    BY <1>4 DEF DifferAt
  <2>1. CharAt(s, k) < CharAt(t, k) /\ CharAt(t, l) < CharAt(u, l)
    BY <1>4, LeqAtDifference
  <2>2. CASE k < l
    <3>1. CharAt(t, k) = CharAt(u, k) /\ CharAt(s, k) < CharAt(u, k)
      BY <1>4, <2>0, <2>1, <2>2 DEF DifferAt
    <3>2. CharAt(s, k) # CharAt(u, k)
      BY <1>0, <2>0, <3>1
    <3>3. \A m \in d .. k - 1 : CharAt(s, m) = CharAt(u, m)
      BY <1>4, <2>0, <2>2 DEF DifferAt
    <3>4. DifferAt(s, u, d, k)
      BY <2>0, <3>2, <3>3 DEF DifferAt
    <3> QED BY <3>1, <3>4, LeqAtDifference
  <2>3. CASE l <= k
    <3>1. CharAt(s, l) < CharAt(u, l)
      <4>1. CASE l = k
        <5>1. CharAt(s, k) \in Nat /\ CharAt(t, k) \in Nat /\ CharAt(u, k) \in Nat
          BY <1>0, <2>0
        <5> QED BY <2>1, <4>1, <5>1
      <4>2. CASE l < k
        BY <1>4, <2>0, <2>1, <4>2 DEF DifferAt
      <4> QED BY <2>0, <2>3, <4>1, <4>2
    <3>2. CharAt(s, l) # CharAt(u, l)
      BY <1>0, <2>0, <3>1
    <3>3. \A m \in d .. l - 1 : CharAt(s, m) = CharAt(u, m)
      BY <1>4, <2>0, <2>3 DEF DifferAt
    <3>4. DifferAt(s, u, d, l)
      BY <2>0, <3>2, <3>3 DEF DifferAt
    <3> QED BY <3>1, <3>4, LeqAtDifference
  <2> QED BY <2>0, <2>2, <2>3
<1> QED BY <1>1, <1>2, <1>3, <1>4, FirstDifference

LEMMA LeqAntisymmetric ==
  ASSUME NEW s \in String, NEW t \in String, NEW d \in Nat,
         Leq(s, t, d), Leq(t, s, d), Alike(s, t, d)
  PROVE  s = t
<1>1. EqualFrom(s, t, d)
  <2> SUFFICES ASSUME NEW k, DifferAt(s, t, d, k) PROVE FALSE
    BY FirstDifference
  <2>1. DifferAt(t, s, d, k) /\ k \in Nat
    BY DEF DifferAt
  <2>2. CharAt(s, k) < CharAt(t, k) /\ CharAt(t, k) < CharAt(s, k)
    BY <2>1, LeqAtDifference
  <2>3. CharAt(s, k) \in Nat /\ CharAt(t, k) \in Nat
    BY <2>1, CharAtType, RadixAssumption DEF Bkt
  <2> QED BY <2>2, <2>3
<1>2. \A k \in Nat : CharAt(s, k) = CharAt(t, k)
  BY <1>1 DEF EqualFrom, Alike
<1>3. Len(s) \in Nat /\ Len(t) \in Nat
  BY DEF String
<1>4. Alike(s, t, Len(s)) /\ CharAt(s, Len(s)) = 0 /\ CharAt(t, Len(s)) = 0
  BY <1>2, <1>3, CharAtType DEF Alike
<1>5. Len(s) <= Len(t)
  <2>1. CharAt(s, Len(t)) = 0
    BY <1>2, <1>3, CharAtType
  <2> QED BY <1>3, <2>1, CharAtType
<1> QED BY <1>3, <1>4, <1>5, SameString

\* Behind a common prefix the order is that of the whole strings.
LEMMA LeqBehindPrefix ==
  ASSUME NEW s \in String, NEW t \in String, NEW d \in Nat, Leq(s, t, 0), Alike(s, t, d)
  PROVE  Leq(s, t, d) /\ CharAt(s, d) <= CharAt(t, d)
<1>1. CASE EqualFrom(s, t, d)
  <2>1. CharAt(s, d) = CharAt(t, d) /\ CharAt(s, d) \in Nat
    BY <1>1, CharAtType, RadixAssumption DEF EqualFrom, Bkt
  <2> QED BY <1>1, <2>1, LeqWhenEqual
<1>2. ASSUME NEW k, DifferAt(s, t, d, k) PROVE Leq(s, t, d) /\ CharAt(s, d) <= CharAt(t, d)
  <2>0. k \in Nat /\ k >= d
    BY <1>2 DEF DifferAt
  <2>1. DifferAt(s, t, 0, k)
    <3>1. ASSUME NEW m \in 0 .. k - 1 PROVE CharAt(s, m) = CharAt(t, m)
      <4>1. m \in 0 .. d - 1 \/ m \in d .. k - 1
        BY <2>0
      <4> QED BY <1>2, <4>1 DEF DifferAt, Alike
    <3> QED BY <1>2, <2>0, <3>1 DEF DifferAt
  <2>2. CharAt(s, k) < CharAt(t, k)
    BY <2>1, LeqAtDifference
  <2>3. Leq(s, t, d)
    BY <1>2, <2>2, LeqAtDifference
  <2>4. CharAt(s, d) \in Nat /\ CharAt(t, d) \in Nat
    BY CharAtType, RadixAssumption DEF Bkt
  <2>5. CASE k = d
    BY <2>2, <2>3, <2>4, <2>5
  <2>6. CASE k > d
    <3>1. CharAt(s, d) = CharAt(t, d)
      BY <1>2, <2>0, <2>6 DEF DifferAt
    <3> QED BY <2>3, <2>4, <3>1
  <2> QED BY <2>0, <2>5, <2>6
<1> QED BY <1>1, <1>2, FirstDifference

---------------------------------------------------------------------------
(* Cells and what they hold *)

LEMMA CellsFinite ==
  ASSUME NEW lo \in Int, NEW hi \in Int
  PROVE  IsFiniteSet(Cells(lo, hi)) /\ Cardinality(Cells(lo, hi)) = IF lo < hi THEN hi - lo ELSE 0
<1>1. hi - 1 \in Int
  OBVIOUS
<1> QED BY <1>1, FS_Interval DEF Cells

\* The first cells of a range.
Initial(D, C) == D \subseteq C /\ \A p \in D : \A q \in C : q < p => q \in D

\* They are as many as their number says.
LEMMA InitialCells ==
  ASSUME NEW lo \in Int, NEW hi \in Int, lo <= hi, NEW D, Initial(D, Cells(lo, hi))
  PROVE  /\ IsFiniteSet(D) /\ Cardinality(D) \in Nat /\ Cardinality(D) <= hi - lo
         /\ D = Cells(lo, lo + Cardinality(D))
<1> DEFINE C == Cells(lo, hi)
           n == Cardinality(D)
<1>1. IsFiniteSet(C) /\ Cardinality(C) = hi - lo
  BY CellsFinite
<1>2. D \in SUBSET C
  BY DEF Initial
<1>3. IsFiniteSet(D) /\ n <= hi - lo
  BY <1>1, <1>2, FS_Subset
<1>4. n \in Nat
  BY <1>3, FS_CardinalityType
<1>5. D \subseteq Cells(lo, lo + n)
  <2> SUFFICES ASSUME NEW p \in D PROVE p \in Cells(lo, lo + n)
    OBVIOUS
  <2>1. p \in Int /\ lo <= p /\ p < hi
    BY <1>2 DEF Cells
  <2>2. Cells(lo, p + 1) \in SUBSET D
    <3> SUFFICES ASSUME NEW q \in Cells(lo, p + 1) PROVE q \in D
      OBVIOUS
    <3>1. q \in Int /\ lo <= q /\ q <= p
      BY <2>1 DEF Cells
    <3>2. q \in C
      BY <2>1, <3>1 DEF Cells
    <3> QED BY <2>1, <3>1, <3>2 DEF Initial
  <2>3. Cardinality(Cells(lo, p + 1)) <= n
    BY <1>3, <2>2, FS_Subset
  <2>4. Cardinality(Cells(lo, p + 1)) = p + 1 - lo
    <3>1. p + 1 \in Int /\ lo < p + 1
      BY <2>1
    <3>2. Cardinality(Cells(lo, p + 1)) = IF lo < p + 1 THEN (p + 1) - lo ELSE 0
      BY <3>1, CellsFinite, Zenon
    <3> QED BY <2>1, <3>1, <3>2
  <2> QED BY <1>4, <2>1, <2>3, <2>4 DEF Cells
<1>6. IsFiniteSet(Cells(lo, lo + n)) /\ Cardinality(Cells(lo, lo + n)) = n
  <2>1. lo + n \in Int
    BY <1>4
  <2> QED BY <1>4, <2>1, CellsFinite
<1>7. D = Cells(lo, lo + n)
  BY <1>5, <1>6, FS_Subset
<1> QED BY <1>3, <1>4, <1>7

\* A bijection of C, and what it does with the parts of C.
LEMMA PartBijection ==
  ASSUME NEW C, NEW pi \in Bijection(C, C), NEW E \in SUBSET C
  PROVE  LET D == {p \in C : pi[p] \in E} IN [p \in D |-> pi[p]] \in Bijection(D, E)
<1> DEFINE D == {p \in C : pi[p] \in E}
           f == [p \in D |-> pi[p]]
<1>1. pi \in [C -> C] /\ (\A a, b \in C : pi[a] = pi[b] => a = b) /\ \A c \in C : \E a \in C : pi[a] = c
  BY DEF Bijection, Injection, Surjection, IsInjective
<1>2. f \in [D -> E]
  BY <1>1
<1>3. \A a, b \in D : f[a] = f[b] => a = b
  BY <1>1
<1>4. \A c \in E : \E a \in D : f[a] = c
  BY <1>1
<1>5. f \in Bijection(D, E)
  <2> HIDE DEF f, D
  <2> QED BY <1>2, <1>3, <1>4 DEF Bijection, Injection, Surjection, IsInjective
<1> QED BY <1>5

\* It moves equally many into a part as the part has.
LEMMA PartCount ==
  ASSUME NEW C, IsFiniteSet(C), NEW pi \in Bijection(C, C), NEW E \in SUBSET C
  PROVE  Cardinality({p \in C : pi[p] \in E}) = Cardinality(E)
<1> DEFINE D == {p \in C : pi[p] \in E}
<1>1. ExistsBijection(D, E)
  BY PartBijection DEF ExistsBijection
<1>2. IsFiniteSet(D)
  <2>1. D \in SUBSET C
    OBVIOUS
  <2> HIDE DEF D
  <2> QED BY <2>1, FS_Subset
<1> HIDE DEF D
<1>3. Cardinality(D) = Cardinality(E)
  BY <1>1, <1>2, FS_Bijection
<1> QED BY <1>3 DEF D

\* x holds the strings that g holds, moved by pi.
Moved(x, g, C, pi) == pi \in Bijection(C, C) /\ \A p \in C : x[p] = g[pi[p]]
Shuffled(x, g, C) == \E pi : Moved(x, g, C, pi)

\* If what is moved to the first cells are the first cells in the order of
\* both, they are the same.
LEMMA Cut ==
  ASSUME NEW lo \in Int, NEW hi \in Int, lo <= hi,
         NEW pi \in Bijection(Cells(lo, hi), Cells(lo, hi)),
         NEW D, NEW E, Initial(D, Cells(lo, hi)), Initial(E, Cells(lo, hi)),
         \A p \in Cells(lo, hi) : p \in D <=> pi[p] \in E
  PROVE  D = E
<1> DEFINE C == Cells(lo, hi)
<1>1. D = {p \in C : pi[p] \in E} /\ E \in SUBSET C
  BY DEF Initial
<1>2. Cardinality(D) = Cardinality(E)
  <2>1. IsFiniteSet(C)
    BY CellsFinite
  <2>2. Cardinality({p \in C : pi[p] \in E}) = Cardinality(E)
    BY <1>1, <2>1, PartCount
  <2> QED BY <1>1, <2>2
<1> QED BY <1>2, InitialCells

\* What stays in a part is shuffled in it.
LEMMA ShuffledPart ==
  ASSUME NEW x, NEW g, NEW C, NEW pi, Moved(x, g, C, pi), NEW B \in SUBSET C,
         \A p \in C : p \in B <=> pi[p] \in B
  PROVE  Shuffled(x, g, B)
<1> DEFINE f == [p \in B |-> pi[p]]
<1>1. B = {p \in C : pi[p] \in B} /\ pi \in Bijection(C, C)
  BY DEF Moved
<1>2. f \in Bijection(B, B)
  BY <1>1, PartBijection
<1>3. \A p \in B : x[p] = g[f[p]]
  BY DEF Moved
<1> HIDE DEF f
<1>4. Moved(x, g, B, f)
  BY <1>2, <1>3 DEF Moved
<1> QED BY <1>4 DEF Shuffled

\* Rearranging shuffled strings leaves them shuffled.
LEMMA ShuffledAgain ==
  ASSUME NEW x, NEW y, NEW z, NEW g, NEW C \in SUBSET Position,
         Shuffled(x, g, C), y \in Rearranged(x, z, C)
  PROVE  Shuffled(y, g, C) /\ Shuffled(y, x, C)
<1>1. PICK rho : Moved(x, g, C, rho)
  BY DEF Shuffled
<1>2. PICK pi \in Bijection(C, C) : y = [p \in Position |-> IF p \in C THEN x[pi[p]] ELSE z[p]]
  BY DEF Rearranged
<1>3. pi \in [C -> C] /\ rho \in Bijection(C, C)
  BY <1>1 DEF Moved, Bijection, Injection
<1> DEFINE f == [p \in C |-> rho[pi[p]]]
<1>4. f \in Bijection(C, C)
  BY <1>2, <1>3, Fun_BijTransitive
<1>5. \A p \in C : y[p] = x[pi[p]]
  BY <1>2
<1>6. \A p \in C : y[p] = g[f[p]]
  BY <1>1, <1>3, <1>5 DEF Moved
<1> HIDE DEF f
<1>7. Moved(y, g, C, f) /\ Moved(y, x, C, pi)
  BY <1>2, <1>4, <1>5, <1>6 DEF Moved
<1> QED BY <1>7 DEF Shuffled

\* What rearranging leaves alone.
LEMMA RearrangedElsewhere ==
  ASSUME NEW x, NEW y, NEW z, NEW C, y \in Rearranged(x, z, C)
  PROVE  DOMAIN y = Position /\ \A p \in Position \ C : y[p] = z[p]
BY DEF Rearranged

---------------------------------------------------------------------------
(* The result *)

\* The result is in order.
GoalOK == goal \in [Position -> Strings] /\ Sorted(goal, Position, 0)

\* The strings of the result for some cells agree below a depth, and none
\* ends above it.
Common(C, d) ==
  /\ d \in Nat
  /\ \A p \in C : d <= Len(goal[p])
  /\ \A p, q \in C : Alike(goal[p], goal[q], d)

LEMMA GoalString ==
  ASSUME GoalOK, NEW p \in Position
  PROVE  goal[p] \in String
BY RadixAssumption DEF GoalOK, String

\* Behind its common prefix the result is in order, too.
LEMMA GoalInOrder ==
  ASSUME GoalOK, NEW C \in SUBSET Position, NEW d, Common(C, d),
         NEW p \in C, NEW q \in C, p <= q
  PROVE  Leq(goal[p], goal[q], d) /\ CharAt(goal[p], d) <= CharAt(goal[q], d)
<1>1. goal[p] \in String /\ goal[q] \in String /\ d \in Nat
  BY GoalString DEF Common
<1>2. CASE p = q
  <2>1. EqualFrom(goal[p], goal[q], d)
    BY <1>2 DEF EqualFrom
  <2>2. CharAt(goal[p], d) \in Bkt
    BY <1>1, CharAtType
  <2>3. CharAt(goal[p], d) <= CharAt(goal[q], d)
    BY <1>2, <2>2, RadixAssumption DEF Bkt
  <2> QED BY <1>1, <2>1, <2>3, LeqWhenEqual
<1>3. CASE p # q
  <2>1. p < q
    BY <1>3, RadixAssumption DEF Position
  <2>2. Leq(goal[p], goal[q], 0) /\ Alike(goal[p], goal[q], d)
    BY <2>1 DEF GoalOK, Sorted, Common
  <2> QED BY <1>1, <2>2, LeqBehindPrefix
<1> QED BY <1>2, <1>3

\* p + 1 cells do not fit into p.
LEMMA NoSqueeze ==
  ASSUME NEW lo \in Int, NEW p \in Int, lo <= p, NEW f \in [Cells(lo, p + 1) -> Cells(lo, p)],
         \A a, b \in Cells(lo, p + 1) : f[a] = f[b] => a = b
  PROVE  FALSE
<1>1. p + 1 \in Int
  OBVIOUS
<1>2. IsFiniteSet(Cells(lo, p + 1)) /\ Cardinality(Cells(lo, p + 1)) = (p + 1) - lo
  <2>1. Cardinality(Cells(lo, p + 1)) = IF lo < p + 1 THEN (p + 1) - lo ELSE 0
    BY <1>1, CellsFinite, Zenon
  <2>2. IsFiniteSet(Cells(lo, p + 1))
    BY <1>1, CellsFinite, Zenon
  <2> QED BY <2>1, <2>2
<1>3. IsFiniteSet(Cells(lo, p)) /\ Cardinality(Cells(lo, p)) = p - lo
  BY CellsFinite
<1>4. Cardinality(Cells(lo, p)) < Cardinality(Cells(lo, p + 1))
  BY <1>2, <1>3
<1>5. PICK S, T : S = Cells(lo, p + 1) /\ T = Cells(lo, p)
  OBVIOUS
<1>6. f \in [S -> T] /\ IsFiniteSet(S) /\ IsFiniteSet(T) /\ Cardinality(T) < Cardinality(S)
  BY <1>2, <1>3, <1>4, <1>5
<1>7. \E a, b \in S : a # b /\ f[a] = f[b]
  BY <1>6, FS_PigeonHole
<1> QED BY <1>5, <1>7

\* There is only one order of the strings of a piece.
LEMMA OneOrder ==
  ASSUME NEW lo \in Int, NEW hi \in Int, Cells(lo, hi) \subseteq Position,
         GoalOK, NEW d, Common(Cells(lo, hi), d), NEW x,
         Shuffled(x, goal, Cells(lo, hi)), Sorted(x, Cells(lo, hi), d)
  PROVE  \A p \in Cells(lo, hi) : x[p] = goal[p]
<1> DEFINE C == Cells(lo, hi)
<1>0. d \in Nat /\ C \in SUBSET Position
  BY DEF Common
<1>1. PICK pi : Moved(x, goal, C, pi)
  BY DEF Shuffled
<1>2. /\ pi \in [C -> C]
      /\ \A a, b \in C : pi[a] = pi[b] => a = b
      /\ \A c \in C : \E a \in C : pi[a] = c
  BY <1>1 DEF Moved, Bijection, Injection, Surjection, IsInjective
<1>3. \A q \in C : x[q] = goal[pi[q]] /\ x[q] \in String /\ goal[q] \in String
  BY <1>0, <1>1, <1>2, GoalString DEF Moved
<1>4. \A p, q \in C : p <= q => Leq(x[p], x[q], d)
  <2> SUFFICES ASSUME NEW p \in C, NEW q \in C, p <= q PROVE Leq(x[p], x[q], d)
    OBVIOUS
  <2>1. CASE p < q
    BY <2>1 DEF Sorted
  <2>2. CASE p = q
    <3>1. EqualFrom(x[p], x[q], d)
      BY <2>2 DEF EqualFrom
    <3> QED BY <1>0, <1>3, <3>1, LeqWhenEqual
  <2> QED BY <2>1, <2>2 DEF Cells
<1>5. \A p, q \in C : p <= q => Leq(goal[p], goal[q], d)
  BY <1>0, GoalInOrder
<1> SUFFICES ASSUME NEW p \in C, x[p] # goal[p] PROVE FALSE
  OBVIOUS
<1>6. p \in Int /\ lo <= p /\ p < hi
  BY DEF Cells
<1>7. \A q \in Cells(lo, p + 1) : q \in C /\ q <= p /\ q \in Int
  BY <1>6 DEF Cells
<1>8. \A q \in C : q < p => q \in Cells(lo, p)
  BY <1>6 DEF Cells
<1>9. \A q \in C : q < p \/ p <= q
  BY <1>6 DEF Cells
<1>10. CASE ~ Leq(goal[p], x[p], d)
  <2>1. ASSUME NEW q \in Cells(lo, p + 1) PROVE pi[q] \in Cells(lo, p)
    <3>1. q \in C /\ pi[q] \in C
      BY <1>2, <1>7
    <3>2. ~ (p <= pi[q])
      <4> SUFFICES ASSUME p <= pi[q] PROVE FALSE
        OBVIOUS
      <4>1. Leq(goal[p], x[q], d) /\ Leq(x[q], x[p], d)
        BY <1>3, <1>4, <1>5, <1>7, <3>1
      <4> QED BY <1>0, <1>3, <1>10, <3>1, <4>1, LeqTransitive
    <3> QED BY <1>8, <1>9, <3>1, <3>2
  <2> DEFINE f == [q \in Cells(lo, p + 1) |-> pi[q]]
  <2>2. f \in [Cells(lo, p + 1) -> Cells(lo, p)]
    BY <2>1
  <2>3. \A a, b \in Cells(lo, p + 1) : f[a] = f[b] => a = b
    BY <1>2, <1>7
  <2> HIDE DEF f
  <2> QED BY <1>6, <2>2, <2>3, NoSqueeze
<1>11. CASE ~ Leq(x[p], goal[p], d)
  <2> DEFINE f == [r \in Cells(lo, p + 1) |-> CHOOSE q \in C : pi[q] = r]
  <2>1. ASSUME NEW r \in Cells(lo, p + 1)
        PROVE  f[r] \in C /\ pi[f[r]] = r /\ f[r] \in Cells(lo, p)
    <3>1. f[r] \in C /\ pi[f[r]] = r
      BY <1>2, <1>7
    <3> HIDE DEF f
    <3>2. ~ (p <= f[r])
      <4> SUFFICES ASSUME p <= f[r] PROVE FALSE
        OBVIOUS
      <4>1. Leq(x[p], x[f[r]], d) /\ x[f[r]] = goal[r] /\ Leq(goal[r], goal[p], d)
        BY <1>3, <1>4, <1>5, <1>7, <3>1
      <4>2. goal[r] \in String /\ goal[p] \in String /\ x[p] \in String
        BY <1>3, <1>7
      <4> QED BY <1>0, <1>11, <4>1, <4>2, LeqTransitive
    <3> QED BY <1>8, <1>9, <3>1, <3>2
  <2>2. f \in [Cells(lo, p + 1) -> Cells(lo, p)]
    BY <2>1
  <2>3. \A a, b \in Cells(lo, p + 1) : f[a] = f[b] => a = b
    <3> HIDE DEF f
    <3> QED BY <2>1
  <2> HIDE DEF f
  <2> QED BY <1>6, <2>2, <2>3, NoSqueeze
<1>12. CASE Leq(goal[p], x[p], d) /\ Leq(x[p], goal[p], d)
  <2>1. Alike(x[p], goal[p], d)
    BY <1>2, <1>3 DEF Common
  <2> QED BY <1>0, <1>3, <1>12, <2>1, LeqAntisymmetric
<1> QED BY <1>10, <1>11, <1>12

\* pi moves the first cells D to the first cells E.
CutBy(pi, C, D, E) == Initial(D, C) /\ Initial(E, C) /\ \A p \in C : p \in D <=> pi[p] \in E

\* The cells behind as many as E has, up to as many as G has.
Between(lo, E, G) == Cells(lo + Cardinality(E), lo + Cardinality(G))

LEMMA BetweenCells ==
  ASSUME NEW lo \in Int, NEW hi \in Int, lo <= hi,
         NEW E, Initial(E, Cells(lo, hi)), NEW G, Initial(G, Cells(lo, hi))
  PROVE  Between(lo, E, G) = G \ E
<1>1. /\ E = Cells(lo, lo + Cardinality(E)) /\ G = Cells(lo, lo + Cardinality(G))
      /\ Cardinality(E) \in Nat /\ Cardinality(G) \in Nat
  BY InitialCells
<1> DEFINE e == Cardinality(E)
           h == Cardinality(G)
<1>2. e \in Nat /\ h \in Nat
  BY <1>1
<1> HIDE DEF e, h
<1>3. Cells(lo + e, lo + h) = Cells(lo, lo + h) \ Cells(lo, lo + e)
  BY <1>2 DEF Cells
<1> USE DEF e, h
<1> QED BY <1>1, <1>3 DEF Between

\* What lies between two cuts of a range stays there.
LEMMA TwoCuts ==
  ASSUME NEW lo \in Int, NEW hi \in Int, lo <= hi,
         NEW x, NEW g, NEW pi, Moved(x, g, Cells(lo, hi), pi),
         NEW D, NEW E, CutBy(pi, Cells(lo, hi), D, E),
         NEW F, NEW G, CutBy(pi, Cells(lo, hi), F, G), E \subseteq G
  PROVE  Shuffled(x, g, G \ E)
<1> DEFINE C == Cells(lo, hi)
<1>1. pi \in Bijection(C, C)
  BY DEF Moved
<1>2. D = E /\ F = G
  BY <1>1, Cut DEF CutBy
<1>3. G \ E \in SUBSET C /\ \A p \in C : p \in G \ E <=> pi[p] \in G \ E
  BY <1>2 DEF Initial, CutBy
<1> QED BY <1>3, ShuffledPart

---------------------------------------------------------------------------
(* Buckets *)

\* A further character in common.
LEMMA CommonNext ==
  ASSUME GoalOK, NEW C \in SUBSET Position, NEW d, Common(C, d), NEW B \in SUBSET C,
         NEW b, b # 0, \A p \in B : CharAt(goal[p], d) = b
  PROVE  Common(B, d + 1)
<1>1. d \in Nat
  BY DEF Common
<1>2. ASSUME NEW p \in B PROVE d + 1 <= Len(goal[p])
  <2>1. goal[p] \in String /\ CharAt(goal[p], d) # 0
    BY GoalString
  <2>2. Len(goal[p]) \in Nat
    BY <2>1 DEF String
  <2> QED BY <1>1, <2>1, <2>2, CharAtType
<1>3. ASSUME NEW p \in B, NEW q \in B PROVE Alike(goal[p], goal[q], d + 1)
  <2> SUFFICES ASSUME NEW e \in 0 .. (d + 1) - 1 PROVE CharAt(goal[p], e) = CharAt(goal[q], e)
    BY DEF Alike
  <2>1. e = d \/ e \in 0 .. d - 1
    BY <1>1
  <2> QED BY <2>1 DEF Common, Alike
<1> QED BY <1>1, <1>2, <1>3 DEF Common

\* Strings that end at the depth they have in common are in place.
LEMMA EndedInPlace ==
  ASSUME GoalOK, NEW B \in SUBSET Position, NEW d, Common(B, d),
         \A p \in B : CharAt(goal[p], d) = 0, NEW x, Shuffled(x, goal, B)
  PROVE  \A p \in B : x[p] = goal[p]
<1> TAKE p \in B
<1>1. PICK pi : Moved(x, goal, B, pi)
  BY DEF Shuffled
<1>2. pi[p] \in B /\ x[p] = goal[pi[p]]
  BY <1>1 DEF Moved, Bijection, Injection
<1>3. goal[p] \in String /\ goal[pi[p]] \in String
  BY <1>2, GoalString
<1>4. d \in Nat /\ d <= Len(goal[p]) /\ d <= Len(goal[pi[p]]) /\ Alike(goal[pi[p]], goal[p], d)
  BY <1>2 DEF Common
<1> QED BY <1>2, <1>3, <1>4, SameString

\* A single string is in place.
LEMMA SingleInPlace ==
  ASSUME NEW B, \A p, q \in B : p = q, NEW x, Shuffled(x, goal, B)
  PROVE  \A p \in B : x[p] = goal[p]
<1> TAKE p \in B
<1>1. PICK pi : Moved(x, goal, B, pi)
  BY DEF Shuffled
<1>2. pi[p] \in B /\ x[p] = goal[pi[p]]
  BY <1>1 DEF Moved, Bijection, Injection
<1> QED BY <1>2

\* Shuffled strings are strings.
LEMMA ShuffledString ==
  ASSUME GoalOK, NEW C \in SUBSET Position, NEW x, Shuffled(x, goal, C)
  PROVE  \A p \in C : x[p] \in String
<1> TAKE p \in C
<1>1. PICK pi : Moved(x, goal, C, pi)
  BY DEF Shuffled
<1>2. pi[p] \in C /\ x[p] = goal[pi[p]]
  BY <1>1 DEF Moved, Bijection, Injection
<1> QED BY <1>2, GoalString

\* The cells below a character.
CharCut(g, C, d, b) == {p \in C : CharAt(g[p], d) < b}

\* Where a bucket of the result begins.
GoalBegin(lo, hi, d, b) == lo + Cardinality(CharCut(goal, Cells(lo, hi), d, b))

LEMMA CharCutInitial ==
  ASSUME NEW lo \in Int, NEW hi \in Int, NEW g, NEW d \in Nat, NEW b \in Int,
         \A p \in Cells(lo, hi) : g[p] \in String, InBuckets(g, Cells(lo, hi), d)
  PROVE  Initial(CharCut(g, Cells(lo, hi), d, b), Cells(lo, hi))
<1> SUFFICES ASSUME NEW p \in CharCut(g, Cells(lo, hi), d, b), NEW q \in Cells(lo, hi), q < p
             PROVE  q \in CharCut(g, Cells(lo, hi), d, b)
  BY DEF Initial, CharCut
<1>1. p \in Cells(lo, hi) /\ CharAt(g[p], d) < b
  BY DEF CharCut
<1>2. CharAt(g[q], d) <= CharAt(g[p], d)
  BY <1>1 DEF InBuckets
<1>3. CharAt(g[q], d) \in Int /\ CharAt(g[p], d) \in Int
  BY <1>1, CharAtType DEF Bkt
<1> QED BY <1>1, <1>2, <1>3 DEF CharCut

\* The result is in buckets, and has as many strings below a character as
\* its strings in any order.
LEMMA GoalInBuckets ==
  ASSUME GoalOK, NEW C \in SUBSET Position, NEW d, Common(C, d)
  PROVE  InBuckets(goal, C, d)
<1> SUFFICES ASSUME NEW p \in C, NEW q \in C, p < q
             PROVE  CharAt(goal[p], d) <= CharAt(goal[q], d)
  BY DEF InBuckets
<1>1. p <= q
  BY RadixAssumption DEF Position
<1> QED BY <1>1, GoalInOrder

LEMMA CharCutCount ==
  ASSUME NEW C, IsFiniteSet(C), NEW y, NEW g, NEW d, NEW b, Shuffled(y, g, C)
  PROVE  Cardinality(CharCut(y, C, d, b)) = Cardinality(CharCut(g, C, d, b))
<1>1. PICK pi : Moved(y, g, C, pi)
  BY DEF Shuffled
<1>2. pi \in Bijection(C, C) /\ \A p \in C : pi[p] \in C /\ y[p] = g[pi[p]]
  BY <1>1 DEF Moved, Bijection, Injection
<1>3. CharCut(g, C, d, b) \in SUBSET C
  BY DEF CharCut
<1>4. CharCut(y, C, d, b) = {p \in C : pi[p] \in CharCut(g, C, d, b)}
  BY <1>2 DEF CharCut
<1> QED BY <1>2, <1>3, <1>4, PartCount

\* The buckets of a level begin where those of the result begin.
LEMMA LevelOfGoal ==
  ASSUME NEW lo \in Int, NEW hi \in Int, NEW d, NEW a, Shuffled(a[0], goal, Cells(lo, hi))
  PROVE  Level(a, lo, hi, d) = [bkt |-> [b \in 0 .. MaxChar + 1 |-> GoalBegin(lo, hi, d, b)], idx |-> 0]
<1>1. IsFiniteSet(Cells(lo, hi))
  BY CellsFinite
<1>2. ASSUME NEW b
      PROVE  Cardinality({i \in Cells(lo, hi) : CharAt(a[0][i], d) < b})
               = Cardinality(CharCut(goal, Cells(lo, hi), d, b))
  <2>1. Cardinality(CharCut(a[0], Cells(lo, hi), d, b))
          = Cardinality(CharCut(goal, Cells(lo, hi), d, b))
    BY <1>1, CharCutCount
  <2> QED BY <2>1 DEF CharCut
<1> QED BY <1>2 DEF Level, GoalBegin

\* They begin in the range, in the order of their characters.
LEMMA GoalBeginOrder ==
  ASSUME NEW lo \in Int, NEW hi \in Int, lo <= hi, Cells(lo, hi) \subseteq Position,
         GoalOK, NEW d \in Nat, NEW b \in Int, NEW c \in Int, b <= c
  PROVE  /\ GoalBegin(lo, hi, d, b) \in lo .. hi
         /\ GoalBegin(lo, hi, d, b) <= GoalBegin(lo, hi, d, c)
<1> DEFINE C == Cells(lo, hi)
           B == CharCut(goal, C, d, b)
           D == CharCut(goal, C, d, c)
<1>1. IsFiniteSet(C) /\ Cardinality(C) = hi - lo
  BY CellsFinite
<1>2. D \in SUBSET C /\ B \in SUBSET C
  BY DEF CharCut
<1>3. B \in SUBSET D
  <2> SUFFICES ASSUME NEW p \in B PROVE p \in D
    OBVIOUS
  <2>1. p \in C /\ CharAt(goal[p], d) < b
    BY DEF CharCut
  <2>2. CharAt(goal[p], d) \in Int
    BY <2>1, GoalString, CharAtType DEF Bkt
  <2> QED BY <2>1, <2>2 DEF CharCut
<1> HIDE DEF B, D, C
<1>4. IsFiniteSet(D) /\ IsFiniteSet(B) /\ Cardinality(B) <= Cardinality(C)
  BY <1>1, <1>2, FS_Subset
<1>5. Cardinality(B) <= Cardinality(D)
  BY <1>3, <1>4, FS_Subset
<1>6. Cardinality(B) \in Nat /\ Cardinality(D) \in Nat
  BY <1>4, FS_CardinalityType
<1>7. lo + Cardinality(B) \in lo .. hi /\ lo + Cardinality(B) <= lo + Cardinality(D)
  BY <1>1, <1>4, <1>5, <1>6
<1> QED BY <1>7 DEF GoalBegin, B, C, D

\* A bucket holds the strings of the result for its cells.  They have a
\* character more in common, or are in place.
LEMMA CharBucket ==
  ASSUME NEW lo \in Int, NEW hi \in Int, lo <= hi, Cells(lo, hi) \subseteq Position,
         GoalOK, NEW d, Common(Cells(lo, hi), d),
         NEW x, Shuffled(x, goal, Cells(lo, hi)), InBuckets(x, Cells(lo, hi), d),
         NEW b \in Bkt
  PROVE  LET B == Cells(GoalBegin(lo, hi, d, b), GoalBegin(lo, hi, d, b + 1)) IN
         /\ B = {p \in Cells(lo, hi) : CharAt(goal[p], d) = b}
         /\ Shuffled(x, goal, B)
         /\ b # 0 => Common(B, d + 1)
         /\ b = 0 => \A p \in B : x[p] = goal[p]
<1> DEFINE C == Cells(lo, hi)
           D(v) == CharCut(x, C, d, v)
           E(v) == CharCut(goal, C, d, v)
           B == Cells(GoalBegin(lo, hi, d, b), GoalBegin(lo, hi, d, b + 1))
<1>1. d \in Nat /\ b \in Int /\ b + 1 \in Int /\ C \in SUBSET Position
  BY RadixAssumption DEF Common, Bkt
<1>2. PICK pi : Moved(x, goal, C, pi)
  BY DEF Shuffled
<1>3. \A p \in C : x[p] \in String /\ goal[p] \in String /\ pi[p] \in C /\ x[p] = goal[pi[p]]
  BY <1>1, <1>2, ShuffledString, GoalString DEF Moved, Bijection, Injection
<1>4. \A v \in Int : Initial(D(v), C)
  BY <1>1, <1>3, CharCutInitial
<1>5. \A v \in Int : Initial(E(v), C)
  BY <1>1, <1>3, CharCutInitial, GoalInBuckets
<1>6. \A v : \A p \in C : p \in D(v) <=> pi[p] \in E(v)
  BY <1>3 DEF CharCut
<1>7. \A p \in C : CharAt(goal[p], d) \in Int
  BY <1>1, <1>3, CharAtType DEF Bkt
<1>8. E(b) \subseteq E(b + 1) /\ E(b + 1) \ E(b) = {p \in C : CharAt(goal[p], d) = b}
  BY <1>1, <1>7 DEF CharCut
<1> DEFINE S == D(b)
           T == D(b + 1)
           U == E(b)
           V == E(b + 1)
<1>9. CutBy(pi, C, S, U) /\ CutBy(pi, C, T, V) /\ U \subseteq V
  <2>1. Initial(S, C) /\ Initial(T, C) /\ Initial(U, C) /\ Initial(V, C)
    BY <1>1, <1>4, <1>5
  <2> QED BY <1>6, <1>8, <2>1 DEF CutBy
<1>10. B = Between(lo, U, V)
  BY DEF GoalBegin, Between
<1>11. V \ U = {p \in C : CharAt(goal[p], d) = b}
  BY <1>8
<1> HIDE DEF S, T, U, V, B, D, E
<1>12. B = V \ U /\ Shuffled(x, goal, V \ U)
  <2>1. /\ Moved(x, goal, Cells(lo, hi), pi) /\ CutBy(pi, Cells(lo, hi), S, U)
        /\ CutBy(pi, Cells(lo, hi), T, V) /\ U \subseteq V
    BY <1>2, <1>9
  <2>2. Between(lo, U, V) = V \ U
    <3>1. Initial(U, Cells(lo, hi)) /\ Initial(V, Cells(lo, hi))
      BY <1>9 DEF CutBy
    <3> QED BY <3>1, BetweenCells
  <2>3. Shuffled(x, goal, V \ U)
    BY <2>1, TwoCuts
  <2> QED BY <1>10, <2>2, <2>3
<1>13. B = {p \in C : CharAt(goal[p], d) = b} /\ Shuffled(x, goal, B)
  BY <1>11, <1>12
<1>14. B \in SUBSET C /\ \A p \in B : CharAt(goal[p], d) = b
  BY <1>13
<1>15. b # 0 => Common(B, d + 1)
  BY <1>1, <1>14, CommonNext
<1>16. b = 0 => \A p \in B : x[p] = goal[p]
  <2> SUFFICES ASSUME b = 0 PROVE \A p \in B : x[p] = goal[p]
    OBVIOUS
  <2>1. Common(B, d)
    BY <1>14 DEF Common
  <2>2. B \in SUBSET Position
    BY <1>1, <1>14
  <2> QED BY <1>13, <1>14, <2>1, <2>2, EndedInPlace
<1> QED BY <1>13, <1>15, <1>16 DEF B

---------------------------------------------------------------------------
(* Buckets of the distribution *)

Pair == Nat \X Nat

\* Keys are pairs, and in a total order.
LEMMA KeyType ==
  ASSUME NEW s \in String, NEW d \in Nat
  PROVE  Key(s, d) \in Pair
<1>1. d + 1 \in Nat
  OBVIOUS
<1>2. CharAt(s, d) \in Nat /\ CharAt(s, d + 1) \in Nat
  BY <1>1, CharAtType, RadixAssumption DEF Bkt
<1> QED BY <1>2 DEF Key, Pair

LEMMA KeyOrder ==
  ASSUME NEW a \in Pair, NEW b \in Pair, NEW c \in Pair
  PROVE  /\ ~ KeyLess(a, b) /\ ~ KeyLess(b, a) => a = b
         /\ ~ KeyLess(a, a)
         /\ KeyLess(a, b) => ~ KeyLess(b, a)
         /\ ~ KeyLess(b, a) /\ KeyLess(b, c) => KeyLess(a, c)
         /\ ~ KeyLess(b, a) /\ ~ KeyLess(c, b) => ~ KeyLess(c, a)
<1>1. PICK a1, a2 \in Nat : a = <<a1, a2>>
  BY DEF Pair
<1>2. PICK b1, b2 \in Nat : b = <<b1, b2>>
  BY DEF Pair
<1>3. PICK c1, c2 \in Nat : c = <<c1, c2>>
  BY DEF Pair
<1> QED BY <1>1, <1>2, <1>3 DEF KeyLess

\* Cells in the order of their keys.
KeysInOrder(g, C, d) == \A p, q \in C : p < q => ~ KeyLess(Key(g[q], d), Key(g[p], d))
KeyBelow(g, C, d, key) == {p \in C : KeyLess(Key(g[p], d), key)}
KeyUpto(g, C, d, key) == {p \in C : ~ KeyLess(key, Key(g[p], d))}

LEMMA KeyCutsInitial ==
  ASSUME NEW C, NEW g, NEW d \in Nat, NEW key \in Pair,
         \A p \in C : g[p] \in String, KeysInOrder(g, C, d)
  PROVE  Initial(KeyBelow(g, C, d, key), C) /\ Initial(KeyUpto(g, C, d, key), C)
<1>1. \A p \in C : Key(g[p], d) \in Pair
  BY KeyType
<1>2. \A p, q \in C : q < p => ~ KeyLess(Key(g[p], d), Key(g[q], d))
  BY DEF KeysInOrder
<1>3. Initial(KeyBelow(g, C, d, key), C)
  <2> SUFFICES ASSUME NEW p \in KeyBelow(g, C, d, key), NEW q \in C, q < p
               PROVE  q \in KeyBelow(g, C, d, key)
    BY DEF Initial, KeyBelow
  <2>1. p \in C /\ KeyLess(Key(g[p], d), key)
    BY DEF KeyBelow
  <2>2. KeyLess(Key(g[q], d), key)
    BY <1>1, <1>2, <2>1, KeyOrder
  <2> QED BY <2>2 DEF KeyBelow
<1>4. Initial(KeyUpto(g, C, d, key), C)
  <2> SUFFICES ASSUME NEW p \in KeyUpto(g, C, d, key), NEW q \in C, q < p
               PROVE  q \in KeyUpto(g, C, d, key)
    BY DEF Initial, KeyUpto
  <2>1. p \in C /\ ~ KeyLess(key, Key(g[p], d))
    BY DEF KeyUpto
  <2>2. ~ KeyLess(key, Key(g[q], d))
    BY <1>1, <1>2, <2>1, KeyOrder
  <2> QED BY <2>2 DEF KeyUpto
<1> QED BY <1>3, <1>4

\* The result is in the order of its keys.
LEMMA GoalKeysInOrder ==
  ASSUME GoalOK, NEW C \in SUBSET Position, NEW d, Common(C, d)
  PROVE  KeysInOrder(goal, C, d)
<1> SUFFICES ASSUME NEW p \in C, NEW q \in C, p < q
             PROVE  ~ KeyLess(Key(goal[q], d), Key(goal[p], d))
  BY DEF KeysInOrder
<1>1. p <= q /\ d \in Nat /\ d + 1 \in Nat
  BY RadixAssumption DEF Position, Common
<1>2. CharAt(goal[p], d) <= CharAt(goal[q], d)
  BY <1>1, GoalInOrder
<1>3. goal[p] \in String /\ goal[q] \in String
  BY GoalString
<1>4. /\ CharAt(goal[p], d) \in Nat /\ CharAt(goal[q], d) \in Nat
      /\ CharAt(goal[p], d + 1) \in Nat /\ CharAt(goal[q], d + 1) \in Nat
  <2>1. ASSUME NEW s \in String, NEW e \in Nat PROVE CharAt(s, e) \in Nat
    BY CharAtType, RadixAssumption DEF Bkt
  <2> QED BY <1>1, <1>3, <2>1
<1>5. CharAt(goal[p], d) = CharAt(goal[q], d) => CharAt(goal[p], d + 1) <= CharAt(goal[q], d + 1)
  <2> SUFFICES ASSUME CharAt(goal[p], d) = CharAt(goal[q], d)
               PROVE  CharAt(goal[p], d + 1) <= CharAt(goal[q], d + 1)
    OBVIOUS
  <2>1. CASE CharAt(goal[p], d) = 0
    <3>1. CharAt(goal[p], d + 1) = 0
      <4>1. Len(goal[p]) \in Nat /\ d >= Len(goal[p])
        BY <1>1, <1>3, <2>1, CharAtType DEF String
      <4> QED BY <1>1, <1>3, <4>1, CharAtType
    <3> QED BY <1>4, <3>1
  <2>2. CASE CharAt(goal[p], d) # 0
    <3> DEFINE B == {p, q}
    <3>1. B \in SUBSET C /\ \A r \in B : CharAt(goal[r], d) = CharAt(goal[p], d)
      OBVIOUS
    <3> HIDE DEF B
    <3>2. Common(B, d + 1)
      BY <2>2, <3>1, CommonNext
    <3>3. p \in B /\ q \in B /\ B \in SUBSET Position
      BY <3>1 DEF B
    <3> QED BY <1>1, <3>2, <3>3, GoalInOrder
  <2> QED BY <2>1, <2>2
<1> QED BY <1>2, <1>4, <1>5 DEF KeyLess, Key

\* The counts of keys are those of the result.
LEMMA KeyCounts ==
  ASSUME NEW C, IsFiniteSet(C), NEW y, NEW g, NEW d, NEW key, Shuffled(y, g, C)
  PROVE  /\ Cardinality(KeyBelow(y, C, d, key)) = Cardinality(KeyBelow(g, C, d, key))
         /\ Cardinality(KeyUpto(y, C, d, key)) = Cardinality(KeyUpto(g, C, d, key))
<1>1. PICK pi : Moved(y, g, C, pi)
  BY DEF Shuffled
<1>2. pi \in Bijection(C, C) /\ \A p \in C : pi[p] \in C /\ y[p] = g[pi[p]]
  BY <1>1 DEF Moved, Bijection, Injection
<1>3. KeyBelow(g, C, d, key) \in SUBSET C /\ KeyUpto(g, C, d, key) \in SUBSET C
  BY DEF KeyBelow, KeyUpto
<1>4. /\ KeyBelow(y, C, d, key) = {p \in C : pi[p] \in KeyBelow(g, C, d, key)}
      /\ KeyUpto(y, C, d, key) = {p \in C : pi[p] \in KeyUpto(g, C, d, key)}
  BY <1>2 DEF KeyBelow, KeyUpto
<1>5. Cardinality({p \in C : pi[p] \in KeyBelow(g, C, d, key)}) = Cardinality(KeyBelow(g, C, d, key))
  BY <1>2, <1>3, PartCount
<1>6. Cardinality({p \in C : pi[p] \in KeyUpto(g, C, d, key)}) = Cardinality(KeyUpto(g, C, d, key))
  BY <1>2, <1>3, PartCount
<1> QED BY <1>4, <1>5, <1>6

\* A bucket of the distribution holds the strings of the result for its
\* cells.  They have the key in common, or are in place.
LEMMA KeyBucket ==
  ASSUME NEW lo \in Int, NEW hi \in Int, lo <= hi, Cells(lo, hi) \subseteq Position,
         GoalOK, keychars \in 1 .. 2, NEW d, Common(Cells(lo, hi), d),
         NEW x, Shuffled(x, goal, Cells(lo, hi)), KeysInOrder(x, Cells(lo, hi), d),
         NEW key \in Pair
  PROVE  LET B == Between(lo, KeyBelow(goal, Cells(lo, hi), d, key), KeyUpto(goal, Cells(lo, hi), d, key))
         IN
         /\ B = {p \in Cells(lo, hi) : Key(goal[p], d) = key}
         /\ B = {p \in Cells(lo, hi) : Key(x[p], d) = key}
         /\ Shuffled(x, goal, B)
         /\ ~ Finished(key) => Common(B, d + keychars)
         /\ Finished(key) => \A p \in B : x[p] = goal[p]
<1> DEFINE C == Cells(lo, hi)
           S == KeyBelow(x, C, d, key)
           T == KeyUpto(x, C, d, key)
           U == KeyBelow(goal, C, d, key)
           V == KeyUpto(goal, C, d, key)
           B == Between(lo, U, V)
<1>1. d \in Nat /\ C \in SUBSET Position
  BY DEF Common
<1>2. PICK pi : Moved(x, goal, C, pi)
  BY DEF Shuffled
<1>3. \A p \in C : x[p] \in String /\ goal[p] \in String /\ pi[p] \in C /\ x[p] = goal[pi[p]]
  BY <1>1, <1>2, ShuffledString, GoalString DEF Moved, Bijection, Injection
<1>4. Initial(S, C) /\ Initial(T, C)
  BY <1>1, <1>3, KeyCutsInitial
<1>5. Initial(U, C) /\ Initial(V, C)
  BY <1>1, <1>3, KeyCutsInitial, GoalKeysInOrder
<1>6. (\A p \in C : p \in S <=> pi[p] \in U) /\ (\A p \in C : p \in T <=> pi[p] \in V)
  BY <1>3 DEF KeyBelow, KeyUpto
<1>7. \A p \in C : Key(goal[p], d) \in Pair
  BY <1>1, <1>3, KeyType
<1>8. U \subseteq V /\ V \ U = {p \in C : Key(goal[p], d) = key}
  <2>1. ASSUME NEW p \in C PROVE (p \in U => p \in V) /\ (p \in V \ U <=> Key(goal[p], d) = key)
    BY <1>7, KeyOrder DEF KeyBelow, KeyUpto
  <2>2. U \subseteq C /\ V \subseteq C
    BY DEF KeyBelow, KeyUpto
  <2> HIDE DEF U, V
  <2> QED BY <2>1, <2>2
<1>9. CutBy(pi, C, S, U) /\ CutBy(pi, C, T, V)
  BY <1>4, <1>5, <1>6 DEF CutBy
<1> HIDE DEF S, T, U, V, B
<1>10. B = V \ U
  BY <1>5, BetweenCells DEF B
<1>11. Shuffled(x, goal, V \ U)
  BY <1>2, <1>8, <1>9, TwoCuts
<1>12. B = {p \in C : Key(goal[p], d) = key} /\ Shuffled(x, goal, B) /\ B \in SUBSET C
  BY <1>8, <1>10, <1>11
<1>13. B = {p \in C : Key(x[p], d) = key}
  <2>1. S = U /\ T = V
    BY <1>2, <1>9, Cut DEF CutBy, Moved
  <2>2. \A p \in C : Key(x[p], d) \in Pair
    BY <1>1, <1>3, KeyType
  <2>3. ASSUME NEW p \in C PROVE p \in T \ S <=> Key(x[p], d) = key
    BY <2>2, KeyOrder DEF S, T, KeyBelow, KeyUpto
  <2> QED BY <1>10, <1>12, <2>1, <2>3
<1>14. /\ \A p \in B : CharAt(goal[p], d) = key[1]
       /\ keychars = 2 => \A p \in B : CharAt(goal[p], d + 1) = key[2]
       /\ keychars = 1 /\ B # {} => key[2] = 1
  BY <1>12 DEF Key
<1>15. B \in SUBSET Position /\ Common(B, d)
  BY <1>1, <1>12 DEF Common
<1>16. key[1] # 0 => Common(B, d + 1)
  BY <1>1, <1>12, <1>14, CommonNext
<1>17. ~ Finished(key) => Common(B, d + keychars)
  <2> SUFFICES ASSUME ~ Finished(key) PROVE Common(B, d + keychars)
    OBVIOUS
  <2>1. key[1] # 0 /\ key[2] # 0
    BY DEF Finished
  <2>2. CASE keychars = 1
    BY <1>16, <2>1, <2>2
  <2>3. CASE keychars = 2
    <3>1. Common(B, (d + 1) + 1)
      <4>1. Common(B, d + 1) /\ \A p \in B : CharAt(goal[p], d + 1) = key[2]
        BY <1>14, <1>16, <2>1, <2>3
      <4> QED BY <1>15, <2>1, <4>1, CommonNext
    <3>2. (d + 1) + 1 = d + keychars
      BY <1>1, <2>3
    <3> QED BY <3>1, <3>2
  <2> QED BY <2>2, <2>3
<1>18. Finished(key) => \A p \in B : x[p] = goal[p]
  <2> SUFFICES ASSUME Finished(key), B # {} PROVE \A p \in B : x[p] = goal[p]
    OBVIOUS
  <2>1. CASE key[1] = 0
    BY <1>12, <1>14, <1>15, <2>1, EndedInPlace
  <2>2. CASE key[1] # 0
    <3>1. key[2] = 0 /\ keychars = 2
      BY <1>14, <2>2 DEF Finished
    <3> QED BY <1>12, <1>14, <1>15, <1>16, <2>2, <3>1, EndedInPlace
  <2> QED BY <2>1, <2>2
<1> QED BY <1>12, <1>13, <1>17, <1>18 DEF B, U, V

---------------------------------------------------------------------------
(* Claims: what is still to be sorted, from where and behind which prefix *)

\* A claim on some cells: they hold the strings of the result for them, in
\* the array the claim names, and those agree below its depth.
ClaimOK(x, a) ==
  /\ x.cells \subseteq Position /\ x.flip \in 0 .. 1
  /\ Shuffled(a[x.flip], goal, x.cells)
  /\ Common(x.cells, x.depth)

Sound(P, a) == \A x \in P : ClaimOK(x, a)
Disjoint(P) == \A x, y \in P : x # y => x.cells \cap y.cells = {}
Settled(P, a) == \A p \in Position : (\A x \in P : p \notin x.cells) => a[0][p] = goal[p]

ClaimsOK(P, a) == Sound(P, a) /\ Disjoint(P) /\ Settled(P, a)

\* b differs from a only where a claim of R is.
SameOutside(a, b, R) ==
  \A f \in 0 .. 1 : \A p \in Position : (\A x \in R : p \notin x.cells) => b[f][p] = a[f][p]

\* What replaces the claims R: claims on some of their cells, and the result
\* in the other ones.
Replaces(Q, R, b) ==
  /\ Sound(Q, b) /\ Disjoint(Q)
  /\ \A y \in Q : \E x \in R : y.cells \subseteq x.cells
  /\ \A x \in R : \A p \in x.cells : (\A y \in Q : p \notin y.cells) => b[0][p] = goal[p]

LEMMA ReplaceClaims ==
  ASSUME NEW P, NEW R \in SUBSET P, NEW Q, NEW a, NEW b,
         ClaimsOK(P, a), SameOutside(a, b, R), Replaces(Q, R, b)
  PROVE  ClaimsOK((P \ R) \cup Q, b)
<1> DEFINE S == (P \ R) \cup Q
<1>1. ASSUME NEW z \in P \ R PROVE \A x \in R : z.cells \cap x.cells = {}
  BY DEF ClaimsOK, Disjoint
<1>2. Sound(S, b)
  <2> SUFFICES ASSUME NEW z \in P \ R PROVE ClaimOK(z, b)
    BY DEF Replaces, Sound
  <2>1. ClaimOK(z, a)
    BY DEF ClaimsOK, Sound
  <2>2. \A p \in z.cells : b[z.flip][p] = a[z.flip][p]
    BY <1>1, <2>1 DEF ClaimOK, SameOutside
  <2>3. PICK pi : Moved(a[z.flip], goal, z.cells, pi)
    BY <2>1 DEF ClaimOK, Shuffled
  <2>4. Moved(b[z.flip], goal, z.cells, pi)
    BY <2>2, <2>3 DEF Moved
  <2>5. Shuffled(b[z.flip], goal, z.cells)
    BY <2>4 DEF Shuffled
  <2> QED BY <2>1, <2>5 DEF ClaimOK
<1>3. Disjoint(S)
  <2>1. ASSUME NEW z \in P \ R, NEW y \in Q PROVE z.cells \cap y.cells = {}
    BY <1>1 DEF Replaces
  <2>2. ASSUME NEW y \in P \ R, NEW z \in P \ R, y # z PROVE z.cells \cap y.cells = {}
    BY <2>2 DEF ClaimsOK, Disjoint
  <2>3. ASSUME NEW y \in Q, NEW z \in Q, y # z PROVE z.cells \cap y.cells = {}
    BY <2>3 DEF Replaces, Disjoint
  <2> SUFFICES ASSUME NEW y \in S, NEW z \in S, y # z PROVE y.cells \cap z.cells = {}
    BY DEF Disjoint
  <2> QED BY <2>1, <2>2, <2>3
<1>4. Settled(S, b)
  <2> SUFFICES ASSUME NEW p \in Position, \A z \in S : p \notin z.cells PROVE b[0][p] = goal[p]
    BY DEF Settled
  <2>1. CASE \E x \in R : p \in x.cells
    BY <2>1 DEF Replaces
  <2>2. CASE \A x \in R : p \notin x.cells
    <3>1. \A x \in P : p \notin x.cells
      BY <2>2
    <3>2. a[0][p] = goal[p]
      BY <3>1 DEF ClaimsOK, Settled
    <3>3. 0 \in 0 .. 1
      OBVIOUS
    <3> QED BY <2>2, <3>2, <3>3 DEF SameOutside
  <2> QED BY <2>1, <2>2
<1> QED BY <1>2, <1>3, <1>4 DEF ClaimsOK

\* A shorter prefix is common, too, and so is that of fewer cells.
LEMMA CommonLess ==
  ASSUME NEW C, NEW d \in Nat, Common(C, d + 1)
  PROVE  Common(C, d)
<1>1. \A e \in 0 .. d - 1 : e \in 0 .. (d + 1) - 1
  OBVIOUS
<1>2. \A p, q \in C : Alike(goal[p], goal[q], d)
  BY <1>1 DEF Common, Alike
<1>3. \A p \in C : d <= Len(goal[p])
  <2> TAKE p \in C
  <2>1. d + 1 <= Len(goal[p])
    BY DEF Common
  <2> QED BY <2>1
<1> QED BY <1>2, <1>3 DEF Common

---------------------------------------------------------------------------
(* The claims of a state *)

JobClaim(j) == [id |-> <<"job", j>>, cells |-> Cells(j.lo, j.hi), flip |-> j.flip, depth |-> j.depth]

BucketClaim(w, t, k, b) ==
  [id |-> <<"bucket", <<t, k, b>>>>,
   cells |-> Cells(w.stack[k].bkt[b], w.stack[k].bkt[b + 1]), flip |-> 0, depth |-> w.depth + k]

LevelClaims(w, t, k) == {BucketClaim(w, t, k, b) : b \in Left(w.stack[k])}
Live(w) == {k \in DOMAIN w.stack : k > w.front}
WorkerClaims(w, t) == IF w.busy THEN UNION {LevelClaims(w, t, k) : k \in Live(w)} ELSE {}

JobClaims == {JobClaim(j) : j \in jobs}
Claims == JobClaims \cup UNION {WorkerClaims(thr[t], t) : t \in Thread}

\* Types
LevelSet ==
  {l \in [bkt : [0 .. MaxChar + 1 -> 0 .. N], idx : Bkt] :
     \A b, c \in 0 .. MaxChar + 1 : b <= c => l.bkt[b] <= l.bkt[c]}
Busy == {w \in [busy : {TRUE}, depth : Nat, front : Nat, stack : Seq(LevelSet), check : BOOLEAN] :
           w.front <= Len(w.stack)}
JobSet == {j \in [lo : Nat, hi : Nat, depth : Nat, flip : 0 .. 1, big : BOOLEAN] :
             j.lo < j.hi /\ j.hi <= N}
ArrOK(a) == a \in [0 .. 1 -> [Position -> Strings \cup {<<>>}]]

Types ==
  /\ keychars \in 1 .. 2
  /\ threshold \in Nat
  /\ ArrOK(arr)
  /\ jobs \subseteq JobSet
  /\ thr \in [Thread -> {Idle} \cup Busy]

IInv == Types /\ GoalOK /\ ClaimsOK(Claims, arr)

---------------------------------------------------------------------------
(* What the sorters of small ranges do *)

\* b differs from a only in some cells of the output.
ChangedIn(a, b, C) ==
  /\ ArrOK(b) /\ b[1] = a[1]
  /\ \A p \in Position \ C : b[0][p] = a[0][p]

RowOK(x) == x \in [Position -> Strings \cup {<<>>}]

LEMMA RearrangedType ==
  ASSUME NEW x, RowOK(x), NEW z, RowOK(z), NEW C \in SUBSET Position,
         NEW y \in Rearranged(x, z, C)
  PROVE  RowOK(y) /\ \A p \in Position \ C : y[p] = z[p]
<1>1. PICK pi \in Bijection(C, C) : y = [p \in Position |-> IF p \in C THEN x[pi[p]] ELSE z[p]]
  BY DEF Rearranged
<1>2. \A p \in C : pi[p] \in C
  BY <1>1 DEF Bijection, Injection
<1> QED BY <1>1, <1>2 DEF RowOK

LEMMA ChangedByRearranging ==
  ASSUME NEW C \in SUBSET Position, NEW a, ArrOK(a), NEW y \in Rearranged(a[0], a[0], C)
  PROVE  ChangedIn(a, [a EXCEPT ![0] = y], C) /\ [a EXCEPT ![0] = y][0] = y
<1>1. RowOK(y) /\ \A p \in Position \ C : y[p] = a[0][p]
  <2>1. RowOK(a[0])
    BY DEF ArrOK, RowOK
  <2> QED BY <2>1, RearrangedType
<1> QED BY <1>1 DEF ChangedIn, ArrOK, RowOK

\* The insertion sort leaves the result in its range.
LEMMA InsSortResult ==
  ASSUME NEW lo \in Int, NEW hi \in Int, Cells(lo, hi) \subseteq Position, GoalOK,
         NEW d, Common(Cells(lo, hi), d), NEW a, ArrOK(a), Shuffled(a[0], goal, Cells(lo, hi)),
         NEW b \in InsSort(a, lo, hi, d)
  PROVE  ChangedIn(a, b, Cells(lo, hi)) /\ \A p \in Cells(lo, hi) : b[0][p] = goal[p]
<1> DEFINE C == Cells(lo, hi)
<1>1. PICK y \in Rearranged(a[0], a[0], C) : Sorted(y, C, d) /\ b = [a EXCEPT ![0] = y]
  BY DEF InsSort
<1>2. ChangedIn(a, b, C) /\ b[0] = y
  BY <1>1, ChangedByRearranging
<1>3. Shuffled(y, goal, C)
  BY <1>1, ShuffledAgain
<1>4. \A p \in C : y[p] = goal[p]
  BY <1>1, <1>3, OneOrder
<1> QED BY <1>2, <1>4

\* A level, and what an array holds for it: the buckets it has not started
\* have a character more in common, the others are in place.
BktCells(l, b) == Cells(l.bkt[b], l.bkt[b + 1])
LevelFits(l, x, C, d) ==
  /\ l \in LevelSet
  /\ \A b \in Left(l) : BktCells(l, b) \subseteq C /\ Shuffled(x, goal, BktCells(l, b))
                        /\ Common(BktCells(l, b), d + 1)
  /\ \A p \in C : (\A b \in Left(l) : p \notin BktCells(l, b)) => x[p] = goal[p]

LEMMA NewLevel ==
  ASSUME NEW lo \in Int, NEW hi \in Int, lo <= hi, Cells(lo, hi) \subseteq Position,
         lo \in 0 .. N, hi \in 0 .. N, GoalOK,
         NEW d, Common(Cells(lo, hi), d), NEW a, ArrOK(a), Shuffled(a[0], goal, Cells(lo, hi)),
         NEW b \in Grouped(a, lo, hi, d)
  PROVE  ChangedIn(a, b, Cells(lo, hi)) /\ LevelFits(Level(a, lo, hi, d), b[0], Cells(lo, hi), d)
<1> DEFINE C == Cells(lo, hi)
           l == Level(a, lo, hi, d)
           G(c) == GoalBegin(lo, hi, d, c)
<1>0. d \in Nat /\ MaxChar \in Nat /\ N \in Nat
  BY RadixAssumption DEF Common
<1>1. PICK y \in Rearranged(a[0], a[0], C) : InBuckets(y, C, d) /\ b = [a EXCEPT ![0] = y]
  BY DEF Grouped
<1>2. ChangedIn(a, b, C) /\ b[0] = y
  BY <1>1, ChangedByRearranging
<1>3. Shuffled(y, goal, C)
  BY <1>1, ShuffledAgain
<1>4. l = [bkt |-> [c \in 0 .. MaxChar + 1 |-> G(c)], idx |-> 0]
  BY LevelOfGoal
<1>5. ASSUME NEW c \in 0 .. MaxChar + 1, NEW e \in 0 .. MaxChar + 1, c <= e
      PROVE  G(c) \in lo .. hi /\ G(c) <= G(e)
  <2>1. c \in Int /\ e \in Int
    BY <1>0
  <2> QED BY <1>0, <1>5, <2>1, GoalBeginOrder
<1>6. \A c \in 0 .. MaxChar + 1 : G(c) \in 0 .. N
  <2> TAKE c \in 0 .. MaxChar + 1
  <2>1. G(c) \in lo .. hi
    BY <1>0, <1>5
  <2> QED BY <1>0, <2>1
<1>7. ASSUME NEW c \in Bkt
      PROVE  LET B == Cells(G(c), G(c + 1)) IN
             /\ B = {p \in C : CharAt(goal[p], d) = c}
             /\ Shuffled(y, goal, B)
             /\ c # 0 => Common(B, d + 1)
             /\ c = 0 => \A p \in B : y[p] = goal[p]
  BY <1>1, <1>3, CharBucket
<1> HIDE DEF G
<1>8. l \in LevelSet
  BY <1>0, <1>4, <1>5, <1>6 DEF LevelSet, Bkt
<1>9. \A c \in Bkt : BktCells(l, c) = Cells(G(c), G(c + 1))
  BY <1>0, <1>4 DEF BktCells, Bkt
<1>10. \A c \in Left(l) : c \in Bkt /\ c # 0
  BY <1>0, <1>4 DEF Left, Bkt
<1>11. ASSUME NEW c \in Left(l)
       PROVE  BktCells(l, c) \subseteq C /\ Shuffled(y, goal, BktCells(l, c))
              /\ Common(BktCells(l, c), d + 1)
  BY <1>7, <1>9, <1>10
<1>12. ASSUME NEW p \in C, \A c \in Left(l) : p \notin BktCells(l, c) PROVE y[p] = goal[p]
  <2> DEFINE c == CharAt(goal[p], d)
  <2>1. c \in Bkt
    BY <1>0, GoalString, CharAtType
  <2>2. p \in Cells(G(c), G(c + 1))
    BY <1>7, <2>1
  <2>3. CASE c = 0
    BY <1>7, <2>1, <2>2, <2>3
  <2>4. CASE c # 0
    <3> HIDE DEF c
    <3>1. c \in 1 .. MaxChar /\ c + 1 \in 0 .. MaxChar + 1 /\ c \in 0 .. MaxChar + 1
      BY <1>0, <2>1, <2>4 DEF Bkt
    <3>2. l.bkt[c] = G(c) /\ l.bkt[c + 1] = G(c + 1) /\ l.idx = 0
      BY <1>4, <3>1
    <3>3. G(c + 1) > G(c)
      BY <1>6, <2>2, <3>1 DEF Cells
    <3>4. c \in Left(l)
      BY <3>1, <3>2, <3>3 DEF Left
    <3> QED BY <1>9, <1>12, <2>1, <2>2, <3>4
  <2> QED BY <2>3, <2>4
<1> HIDE DEF l
<1>13. LevelFits(l, y, C, d)
  BY <1>8, <1>11, <1>12 DEF LevelFits
<1> QED BY <1>2, <1>13 DEF l

\* The buckets of a level do not meet.
LEMMA LevelDisjoint ==
  ASSUME NEW l \in LevelSet, NEW b \in Left(l), NEW c \in Left(l), b # c
  PROVE  BktCells(l, b) \cap BktCells(l, c) = {}
<1>1. /\ MaxChar \in Nat
      /\ b \in Int /\ b + 1 \in 0 .. MaxChar + 1 /\ b \in 0 .. MaxChar + 1
      /\ c \in Int /\ c + 1 \in 0 .. MaxChar + 1 /\ c \in 0 .. MaxChar + 1
  BY RadixAssumption DEF LevelSet, Left, Bkt
<1>2. l.bkt[b + 1] <= l.bkt[c] \/ l.bkt[c + 1] <= l.bkt[b]
  <2>1. b + 1 <= c \/ c + 1 <= b
    BY <1>1
  <2> QED BY <1>1, <2>1 DEF LevelSet
<1>3. l.bkt[b] \in Int /\ l.bkt[b + 1] \in Int /\ l.bkt[c] \in Int /\ l.bkt[c + 1] \in Int
  BY <1>1, RadixAssumption DEF LevelSet
<1> QED BY <1>2, <1>3 DEF BktCells, Cells

\* A new level replaces the claim on its range.
LEMMA LevelReplaces ==
  ASSUME NEW w, NEW t, NEW k \in Nat, w.depth \in Nat, NEW x, NEW b, NEW d \in Nat,
         LevelFits(w.stack[k], b[0], x.cells, d), x.cells \subseteq Position, w.depth + k = d + 1
  PROVE  Replaces(LevelClaims(w, t, k), {x}, b)
<1> DEFINE l == w.stack[k]
           Q == LevelClaims(w, t, k)
<1>1. ASSUME NEW c \in Left(l)
      PROVE  /\ BucketClaim(w, t, k, c) \in Q
             /\ BucketClaim(w, t, k, c).cells = BktCells(l, c)
             /\ BucketClaim(w, t, k, c).flip = 0
             /\ BucketClaim(w, t, k, c).depth = d + 1
  BY DEF LevelClaims, BucketClaim, BktCells
<1>2. ASSUME NEW y \in Q PROVE \E c \in Left(l) : y = BucketClaim(w, t, k, c)
  BY DEF LevelClaims
<1> HIDE DEF Q, l
<1>3. LevelFits(l, b[0], x.cells, d)
  BY DEF l
<1>4. Sound(Q, b)
  <2> SUFFICES ASSUME NEW y \in Q PROVE ClaimOK(y, b)
    BY DEF Sound
  <2>1. PICK c \in Left(l) : y = BucketClaim(w, t, k, c)
    BY <1>2
  <2>2. y.cells = BktCells(l, c) /\ y.flip = 0 /\ y.depth = d + 1
    BY <1>1, <2>1
  <2>3. y.cells \subseteq x.cells /\ Shuffled(b[0], goal, y.cells) /\ Common(y.cells, d + 1)
    BY <1>3, <2>2 DEF LevelFits
  <2> QED BY <2>2, <2>3 DEF ClaimOK
<1>5. Disjoint(Q)
  <2> SUFFICES ASSUME NEW y \in Q, NEW z \in Q, y # z PROVE y.cells \cap z.cells = {}
    BY DEF Disjoint
  <2>1. PICK c \in Left(l) : y = BucketClaim(w, t, k, c)
    BY <1>2
  <2>2. PICK e \in Left(l) : z = BucketClaim(w, t, k, e)
    BY <1>2
  <2>3. c # e /\ y.cells = BktCells(l, c) /\ z.cells = BktCells(l, e)
    BY <1>1, <2>1, <2>2
  <2> QED BY <1>3, <2>3, LevelDisjoint DEF LevelFits
<1>6. \A y \in Q : \E z \in {x} : y.cells \subseteq z.cells
  <2> TAKE y \in Q
  <2>1. PICK c \in Left(l) : y = BucketClaim(w, t, k, c)
    BY <1>2
  <2>2. y.cells = BktCells(l, c)
    BY <1>1, <2>1
  <2> QED BY <1>3, <2>2 DEF LevelFits
<1>7. \A z \in {x} : \A p \in z.cells : (\A y \in Q : p \notin y.cells) => b[0][p] = goal[p]
  <2> SUFFICES ASSUME NEW p \in x.cells, \A y \in Q : p \notin y.cells PROVE b[0][p] = goal[p]
    OBVIOUS
  <2>1. \A c \in Left(l) : p \notin BktCells(l, c)
    BY <1>1
  <2> QED BY <1>3, <2>1 DEF LevelFits
<1> QED BY <1>4, <1>5, <1>6, <1>7 DEF Replaces, Q

\* Nothing replaces a claim whose cells hold the result.
LEMMA NothingReplaces ==
  ASSUME NEW x, NEW b, \A p \in x.cells : b[0][p] = goal[p]
  PROVE  Replaces({}, {x}, b)
BY DEF Replaces, Sound, Disjoint

---------------------------------------------------------------------------
(* Steps *)

\* A claim on some of the changed cells covers what a sorter changed.
LEMMA ChangedSame ==
  ASSUME NEW a, NEW b, NEW x, ChangedIn(a, b, x.cells), NEW R, x \in R
  PROVE  SameOutside(a, b, R)
<1> SUFFICES ASSUME NEW f \in 0 .. 1, NEW p \in Position, \A y \in R : p \notin y.cells
             PROVE  b[f][p] = a[f][p]
  BY DEF SameOutside
<1>1. p \in Position \ x.cells
  OBVIOUS
<1> QED BY <1>1 DEF ChangedIn

LEMMA ChangedTwice ==
  ASSUME NEW a, NEW b, NEW c, NEW C, ChangedIn(a, b, C), ChangedIn(b, c, C)
  PROVE  ChangedIn(a, c, C)
BY DEF ChangedIn

LEMMA ShuffledSame ==
  ASSUME NEW x, NEW y, NEW g, NEW C, Shuffled(x, g, C), \A p \in C : y[p] = x[p]
  PROVE  Shuffled(y, g, C)
<1>1. PICK pi : Moved(x, g, C, pi)
  BY DEF Shuffled
<1>2. Moved(y, g, C, pi)
  BY <1>1 DEF Moved
<1> QED BY <1>2 DEF Shuffled

\* copy_back() changes the output in the range only, to what the range holds.
LEMMA CopyBackResult ==
  ASSUME NEW a, ArrOK(a), NEW f \in 0 .. 1, NEW C \in SUBSET Position
  PROVE  ChangedIn(a, CopyBack(a, f, C), C) /\ \A p \in C : CopyBack(a, f, C)[0][p] = a[f][p]
<1>1. CASE f = 1
  BY <1>1 DEF CopyBack, ChangedIn, ArrOK
<1>2. CASE f = 0
  BY <1>2 DEF CopyBack, ChangedIn, ArrOK
<1> QED BY <1>1, <1>2

LEMMA JobInside ==
  ASSUME NEW j \in JobSet
  PROVE  /\ j.lo \in Int /\ j.hi \in Int /\ j.lo < j.hi /\ j.lo \in 0 .. N /\ j.hi \in 0 .. N
         /\ Cells(j.lo, j.hi) \subseteq Position
BY RadixAssumption DEF JobSet, Cells, Position

\* Whose claim it is can be told from its name.
LEMMA ClaimNames ==
  ASSUME NEW w, NEW t
  PROVE  \A z \in WorkerClaims(w, t) : z.id[1] = "bucket" /\ z.id[2][1] = t
<1> SUFFICES ASSUME NEW z \in WorkerClaims(w, t) PROVE z.id[1] = "bucket" /\ z.id[2][1] = t
  OBVIOUS
<1>1. PICK k \in Live(w) : z \in LevelClaims(w, t, k)
  BY DEF WorkerClaims
<1>2. PICK b \in Left(w.stack[k]) : z = BucketClaim(w, t, k, b)
  BY <1>1 DEF LevelClaims
<1> QED BY <1>2 DEF BucketClaim

LEMMA JobClaimNames == \A j : JobClaim(j).id = <<"job", j>> /\ JobClaim(j).id[1] = "job"
BY DEF JobClaim

\* P becomes T when Q is put in the place of its part R.
Swaps(P, T, R, Q) == R \subseteq P /\ T = (P \ R) \cup Q

\* A worker's step replaces claims of its own, and jobs.
LEMMA ClaimsChange ==
  ASSUME NEW t \in Thread, thr \in [Thread -> {Idle} \cup Busy], NEW w, thr' = [thr EXCEPT ![t] = w],
         NEW RJ, NEW QJ, Swaps(JobClaims, JobClaims', RJ, QJ),
         NEW RW, NEW QW, Swaps(WorkerClaims(thr[t], t), WorkerClaims(w, t), RW, QW)
  PROVE  Swaps(Claims, Claims', RJ \cup RW, QJ \cup QW)
<1>0. /\ RJ \subseteq JobClaims /\ JobClaims' = (JobClaims \ RJ) \cup QJ
      /\ RW \subseteq WorkerClaims(thr[t], t)
      /\ WorkerClaims(w, t) = (WorkerClaims(thr[t], t) \ RW) \cup QW
  BY DEF Swaps
<1>1. /\ thr'[t] = w /\ \A u \in Thread : u # t => thr'[u] = thr[u]
  OBVIOUS
<1> DEFINE O == UNION {WorkerClaims(thr[u], u) : u \in Thread \ {t}}
<1>2. UNION {WorkerClaims(thr'[u], u) : u \in Thread} = WorkerClaims(w, t) \cup O
  <2>1. \A u \in Thread : u # t => WorkerClaims(thr'[u], u) = WorkerClaims(thr[u], u)
    BY <1>1
  <2> QED BY <1>1, <2>1
<1>3. UNION {WorkerClaims(thr[u], u) : u \in Thread} = WorkerClaims(thr[t], t) \cup O
  OBVIOUS
<1>4. Claims' = JobClaims' \cup (WorkerClaims(w, t) \cup O)
  <2>1. Claims' = JobClaims' \cup UNION {WorkerClaims(thr'[u], u) : u \in Thread}
    BY DEF Claims
  <2> QED BY <1>2, <2>1
<1>5. Claims = JobClaims \cup (WorkerClaims(thr[t], t) \cup O)
  BY <1>3 DEF Claims
<1>6. \A z \in RJ : z \notin WorkerClaims(thr[t], t) /\ z \notin O
  <2> TAKE z \in RJ
  <2>1. z.id[1] = "job"
    <3>1. PICK j \in jobs : z = JobClaim(j)
      BY <1>0 DEF JobClaims
    <3> QED BY <3>1, JobClaimNames
  <2>2. ASSUME NEW u \in Thread, z \in WorkerClaims(thr[u], u) PROVE FALSE
    <3>1. z.id[1] = "bucket"
      BY <2>2, ClaimNames
    <3> QED BY <2>1, <3>1
  <2> QED BY <2>2
<1>7. \A z \in RW : z \notin JobClaims /\ z \notin O
  <2> TAKE z \in RW
  <2>1. z.id[1] = "bucket" /\ z.id[2][1] = t
    BY <1>0, ClaimNames
  <2>2. z \notin JobClaims
    <3> SUFFICES ASSUME NEW j \in jobs, z = JobClaim(j) PROVE FALSE
      BY DEF JobClaims
    <3> QED BY <2>1, JobClaimNames
  <2>3. ASSUME NEW u \in Thread \ {t}, z \in WorkerClaims(thr[u], u) PROVE FALSE
    <3>1. z.id[2][1] = u
      BY <2>3, ClaimNames
    <3> QED BY <2>1, <3>1
  <2> QED BY <2>2, <2>3
<1> HIDE DEF O
<1> QED BY <1>0, <1>4, <1>5, <1>6, <1>7 DEF Swaps

\* What a step that replaces claims has to show.
LEMMA StepByClaims ==
  ASSUME IInv, Types', goal' = goal, NEW R, NEW Q, Swaps(Claims, Claims', R, Q),
         SameOutside(arr, arr', R), Replaces(Q, R, arr')
  PROVE  IInv'
<1>1. ClaimsOK(Claims, arr)
  BY DEF IInv
<1>2. ClaimsOK((Claims \ R) \cup Q, arr')
  BY <1>1, ReplaceClaims DEF Swaps
<1>3. ClaimsOK(Claims', arr')
  BY <1>2 DEF Swaps
<1>4. ClaimsOK(Claims, arr)'
  BY <1>3 DEF ClaimsOK, Sound, ClaimOK, Common, Disjoint, Settled
<1>5. GoalOK'
  BY DEF IInv, GoalOK
<1> QED BY <1>4, <1>5 DEF IInv

\* A job is claimed.
LEMMA JobIsClaimed ==
  ASSUME IInv, NEW j \in jobs
  PROVE  /\ j \in JobSet /\ JobClaim(j) \in JobClaims /\ ClaimOK(JobClaim(j), arr)
         /\ Shuffled(arr[j.flip], goal, Cells(j.lo, j.hi)) /\ Common(Cells(j.lo, j.hi), j.depth)
         /\ j.flip \in 0 .. 1 /\ j.depth \in Nat
<1>1. j \in JobSet /\ JobClaim(j) \in JobClaims
  BY DEF IInv, Types, JobClaims
<1>2. ClaimOK(JobClaim(j), arr)
  BY <1>1 DEF IInv, ClaimsOK, Sound, Claims
<1> QED BY <1>1, <1>2 DEF ClaimOK, JobClaim, JobSet

LEMMA JobClaimsMinus ==
  ASSUME NEW j \in jobs, NEW J, jobs' = (jobs \ {j}) \cup J
  PROVE  Swaps(JobClaims, JobClaims', {JobClaim(j)}, {JobClaim(i) : i \in J})
<1>1. JobClaims' = {JobClaim(i) : i \in jobs'}
  BY DEF JobClaims
<1>2. \A i \in jobs : JobClaim(i) = JobClaim(j) => i = j
  BY JobClaimNames
<1> QED BY <1>1, <1>2 DEF JobClaims, Swaps

\* A worker that starts with one level.
LEMMA FirstLevelClaims ==
  ASSUME NEW l, NEW d, NEW c, NEW t
  PROVE  LET w == [busy |-> TRUE, depth |-> d, front |-> 0, stack |-> <<l>>, check |-> c]
         IN  WorkerClaims(w, t) = LevelClaims(w, t, 1) /\ w.stack[1] = l
<1> DEFINE w == [busy |-> TRUE, depth |-> d, front |-> 0, stack |-> <<l>>, check |-> c]
<1>1. Live(w) = {1}
  BY DEF Live
<1>2. w.busy = TRUE /\ w.stack[1] = l
  OBVIOUS
<1> HIDE DEF w
<1> QED BY <1>1, <1>2 DEF WorkerClaims, w

\* The types and claims after the first part of a small sort.
LEMMA StartSmallIInv ==
  ASSUME IInv, NEW t \in Thread, StartSmall(t)
  PROVE  IInv'
<1>1. PICK j \in jobs :
        LET here == CopyBack(arr, j.flip, Cells(j.lo, j.hi)) IN
        /\ jobs' = jobs \ {j}
        /\ IF j.hi - j.lo < InsThreshold
           THEN arr' \in InsSort(here, j.lo, j.hi, j.depth) /\ thr' = thr
           ELSE /\ arr' \in Grouped(here, j.lo, j.hi, j.depth)
                /\ thr' = [thr EXCEPT ![t] = [busy |-> TRUE, depth |-> j.depth, front |-> 0,
                             stack |-> <<Level(here, j.lo, j.hi, j.depth)>>, check |-> FALSE]]
  BY DEF StartSmall
<1> DEFINE C == Cells(j.lo, j.hi)
           here == CopyBack(arr, j.flip, C)
           x == JobClaim(j)
<1>2. Types /\ GoalOK /\ ArrOK(arr) /\ thr[t] = Idle /\ thr \in [Thread -> {Idle} \cup Busy]
      /\ goal' = goal /\ keychars' = keychars /\ threshold' = threshold
  BY DEF IInv, Types, StartSmall, setup
<1>3. /\ j \in JobSet /\ x \in JobClaims /\ Shuffled(arr[j.flip], goal, C) /\ Common(C, j.depth)
      /\ j.flip \in 0 .. 1 /\ j.depth \in Nat
  BY JobIsClaimed
<1>4. /\ j.lo \in Int /\ j.hi \in Int /\ j.lo < j.hi /\ j.lo \in 0 .. N /\ j.hi \in 0 .. N
      /\ C \subseteq Position
  BY <1>3, JobInside
<1>5. ChangedIn(arr, here, C) /\ ArrOK(here) /\ Shuffled(here[0], goal, C)
  <2>1. ChangedIn(arr, here, C) /\ \A p \in C : here[0][p] = arr[j.flip][p]
    BY <1>2, <1>3, <1>4, CopyBackResult
  <2> HIDE DEF here
  <2> QED BY <1>3, <2>1, ShuffledSame DEF ChangedIn
<1>6. x.cells = C /\ jobs' \subseteq JobSet
  BY <1>1, <1>2 DEF JobClaim, Types
<1>7. Swaps(JobClaims, JobClaims', {x}, {})
  <2>1. jobs' = (jobs \ {j}) \cup {}
    BY <1>1
  <2>2. Swaps(JobClaims, JobClaims', {x}, {JobClaim(i) : i \in {}})
    BY <2>1, JobClaimsMinus
  <2> QED BY <2>2
<1>8. WorkerClaims(thr[t], t) = {}
  BY <1>2 DEF WorkerClaims, Idle
<1> HIDE DEF here, x, C
<1>10. CASE j.hi - j.lo < InsThreshold
  <2>1. arr' \in InsSort(here, j.lo, j.hi, j.depth) /\ thr' = thr
    BY <1>1, <1>10 DEF here, C
  <2>2. ChangedIn(here, arr', C) /\ \A p \in C : arr'[0][p] = goal[p]
    BY <1>2, <1>3, <1>4, <1>5, <2>1, InsSortResult DEF C
  <2>3. ChangedIn(arr, arr', C)
    BY <1>5, <2>2, ChangedTwice
  <2>4. Types'
    BY <1>2, <1>6, <2>1, <2>3 DEF Types, ChangedIn, ArrOK
  <2>5. SameOutside(arr, arr', {x})
    BY <1>6, <2>3, ChangedSame
  <2>6. Replaces({}, {x}, arr')
    BY <1>6, <2>2, NothingReplaces
  <2>7. Swaps(Claims, Claims', {x} \cup {}, {} \cup {})
    <3>1. thr' = [thr EXCEPT ![t] = thr[t]]
      BY <1>2, <2>1
    <3>2. Swaps(WorkerClaims(thr[t], t), WorkerClaims(thr[t], t), {}, {})
      BY DEF Swaps
    <3> QED BY <1>2, <1>7, <3>1, <3>2, ClaimsChange
  <2> QED BY <1>2, <2>4, <2>5, <2>6, <2>7, StepByClaims
<1>11. CASE ~ (j.hi - j.lo < InsThreshold)
  <2> DEFINE l == Level(here, j.lo, j.hi, j.depth)
             w == [busy |-> TRUE, depth |-> j.depth, front |-> 0, stack |-> <<l>>, check |-> FALSE]
             Q == LevelClaims(w, t, 1)
  <2>1. arr' \in Grouped(here, j.lo, j.hi, j.depth) /\ thr' = [thr EXCEPT ![t] = w]
    BY <1>1, <1>11 DEF here, C
  <2>2. ChangedIn(here, arr', C) /\ LevelFits(l, arr'[0], C, j.depth)
    <3>1. j.lo <= j.hi
      BY <1>4
    <3> HIDE DEF l
    <3> QED BY <1>2, <1>3, <1>4, <1>5, <2>1, <3>1, NewLevel DEF C, l
  <2>3. ChangedIn(arr, arr', C)
    BY <1>5, <2>2, ChangedTwice
  <2>4. WorkerClaims(w, t) = Q /\ w.stack[1] = l
    BY FirstLevelClaims
  <2>5. w \in Busy /\ w.depth = j.depth
    <3>1. l \in LevelSet
      BY <2>2 DEF LevelFits
    <3> HIDE DEF l
    <3> QED BY <1>3, <3>1 DEF Busy
  <2> HIDE DEF w, l, Q
  <2>6. Types'
    BY <1>2, <1>6, <2>1, <2>3, <2>5 DEF Types, ChangedIn, ArrOK
  <2>7. SameOutside(arr, arr', {x})
    BY <1>6, <2>3, ChangedSame
  <2>8. Replaces(Q, {x}, arr')
    <3>1. w.depth \in Nat /\ w.depth + 1 = j.depth + 1 /\ 1 \in Nat
      BY <1>3, <2>5
    <3>2. LevelFits(w.stack[1], arr'[0], x.cells, j.depth) /\ x.cells \subseteq Position
      BY <1>4, <1>6, <2>2, <2>4
    <3> QED BY <1>3, <3>1, <3>2, LevelReplaces DEF Q
  <2>9. Swaps(Claims, Claims', {x} \cup {}, {} \cup Q)
    <3>1. Swaps(WorkerClaims(thr[t], t), WorkerClaims(w, t), {}, Q)
      BY <1>8, <2>4 DEF Swaps
    <3> QED BY <1>2, <1>7, <2>1, <3>1, ClaimsChange
  <2> QED BY <1>2, <2>6, <2>7, <2>8, <2>9, StepByClaims
<1> QED BY <1>10, <1>11

\* The buckets of a distributed range, as the code counts them.
KeyCells(x, j, key) == Cells(BktBegin(x, j, key), BktEnd(x, j, key))

\* An array that holds a job's strings in the order of their keys.
InKeyOrder(x, j) ==
  /\ j \in JobSet
  /\ Common(Cells(j.lo, j.hi), j.depth)
  /\ Shuffled(x, goal, Cells(j.lo, j.hi))
  /\ KeysInOrder(x, Cells(j.lo, j.hi), j.depth)

LEMMA CountedBucket ==
  ASSUME GoalOK, keychars \in 1 .. 2, NEW x, NEW j, InKeyOrder(x, j), NEW key \in Pair
  PROVE  /\ KeyCells(x, j, key) = {p \in Cells(j.lo, j.hi) : Key(goal[p], j.depth) = key}
         /\ KeyCells(x, j, key) = {p \in Cells(j.lo, j.hi) : Key(x[p], j.depth) = key}
         /\ Shuffled(x, goal, KeyCells(x, j, key))
         /\ ~ Finished(key) => Common(KeyCells(x, j, key), j.depth + keychars)
         /\ Finished(key) => \A p \in KeyCells(x, j, key) : x[p] = goal[p]
         /\ BktBegin(x, j, key) \in j.lo .. j.hi /\ BktEnd(x, j, key) \in j.lo .. j.hi
<1> DEFINE C == Cells(j.lo, j.hi)
           d == j.depth
           U == KeyBelow(goal, C, d, key)
           V == KeyUpto(goal, C, d, key)
<1>1. /\ j.lo \in Int /\ j.hi \in Int /\ j.lo <= j.hi /\ C \subseteq Position
      /\ Common(C, d) /\ Shuffled(x, goal, C) /\ KeysInOrder(x, C, d)
  BY JobInside DEF InKeyOrder
<1>2. IsFiniteSet(C) /\ Cardinality(C) = j.hi - j.lo
  BY <1>1, CellsFinite
<1>3. BktBegin(x, j, key) = j.lo + Cardinality(U) /\ BktEnd(x, j, key) = j.lo + Cardinality(V)
  <2>1. /\ Cardinality(KeyBelow(x, C, d, key)) = Cardinality(U)
        /\ Cardinality(KeyUpto(x, C, d, key)) = Cardinality(V)
    BY <1>1, <1>2, KeyCounts
  <2> QED BY <2>1 DEF BktBegin, BktEnd, KeyBelow, KeyUpto
<1>4. U \in SUBSET C /\ V \in SUBSET C
  BY DEF KeyBelow, KeyUpto
<1>5. KeyCells(x, j, key) = Between(j.lo, U, V)
  BY <1>3 DEF KeyCells, Between
<1>6. LET B == Between(j.lo, U, V) IN
      /\ B = {p \in C : Key(goal[p], d) = key}
      /\ B = {p \in C : Key(x[p], d) = key}
      /\ Shuffled(x, goal, B)
      /\ ~ Finished(key) => Common(B, d + keychars)
      /\ Finished(key) => \A p \in B : x[p] = goal[p]
  BY <1>1, KeyBucket
<1>7. BktBegin(x, j, key) \in j.lo .. j.hi /\ BktEnd(x, j, key) \in j.lo .. j.hi
  <2> HIDE DEF U, V, C
  <2>1. /\ Cardinality(U) \in Nat /\ Cardinality(V) \in Nat
        /\ Cardinality(U) <= Cardinality(C) /\ Cardinality(V) <= Cardinality(C)
    <3>1. IsFiniteSet(U) /\ IsFiniteSet(V)
      BY <1>2, <1>4, FS_Subset
    <3> QED BY <1>2, <1>4, <3>1, FS_Subset, FS_CardinalityType
  <2> QED BY <1>1, <1>2, <1>3, <2>1
<1> HIDE DEF U, V
<1> QED BY <1>5, <1>6, <1>7

\* The jobs a radix step makes, and what they leave.
StepJobs(x, j, to) ==
  {Enqueue(BktBegin(x, j, key), BktEnd(x, j, key), j.depth + keychars, to) : key \in Deeper(x, j)}

LEMMA StepJobsReplace ==
  ASSUME IInv, NEW x, NEW j, InKeyOrder(x, j), NEW to \in 0 .. 1,
         NEW b, \A p \in Position : b[to][p] = x[p], \A p \in Ready(x, j) : b[0][p] = x[p]
  PROVE  StepJobs(x, j, to) \subseteq JobSet
         /\ Replaces({JobClaim(i) : i \in StepJobs(x, j, to)}, {JobClaim(j)}, b)
<1> DEFINE C == Cells(j.lo, j.hi)
           J == StepJobs(x, j, to)
           Q == {JobClaim(i) : i \in J}
           job(key) == Enqueue(BktBegin(x, j, key), BktEnd(x, j, key), j.depth + keychars, to)
<1>1. /\ GoalOK /\ keychars \in 1 .. 2 /\ threshold \in Nat /\ N \in Nat
      /\ j \in JobSet /\ j.lo \in Nat /\ j.hi \in Nat /\ j.hi <= N /\ j.depth \in Nat
      /\ C \subseteq Position /\ j.lo \in Int /\ j.hi \in Int
  BY JobInside, RadixAssumption DEF IInv, Types, InKeyOrder, JobSet
<1>2. \A p \in C : x[p] \in String
  BY <1>1, ShuffledString DEF InKeyOrder
<1>3. \A p \in C : Key(x[p], j.depth) \in Pair
  BY <1>1, <1>2, KeyType
<1>4. \A key \in Deeper(x, j) :
        /\ key \in Pair /\ ~ Finished(key) /\ BktEnd(x, j, key) > BktBegin(x, j, key) + 1
  BY <1>3 DEF Deeper
<1>5. ASSUME NEW key \in Deeper(x, j)
      PROVE  /\ job(key) \in JobSet
             /\ JobClaim(job(key)).cells = KeyCells(x, j, key)
             /\ JobClaim(job(key)).flip = to
             /\ JobClaim(job(key)).depth = j.depth + keychars
  <2>1. BktBegin(x, j, key) \in j.lo .. j.hi /\ BktEnd(x, j, key) \in j.lo .. j.hi
    BY <1>1, <1>4, CountedBucket
  <2> DEFINE p == BktBegin(x, j, key)
             q == BktEnd(x, j, key)
  <2>2. q > p + 1
    BY <1>4
  <2> HIDE DEF p, q
  <2>3. p \in Nat /\ q \in Nat /\ p < q /\ q <= N
    BY <1>1, <2>1, <2>2 DEF p, q
  <2>4. Enqueue(p, q, j.depth + keychars, to) \in JobSet
    BY <1>1, <2>3 DEF Enqueue, JobOf, JobSet
  <2> QED BY <2>4 DEF p, q, Enqueue, JobOf, JobClaim, KeyCells
<1>6. J = {job(key) : key \in Deeper(x, j)}
  BY DEF StepJobs
<1>7. ASSUME NEW key \in Deeper(x, j)
      PROVE  /\ KeyCells(x, j, key) = {p \in C : Key(goal[p], j.depth) = key}
             /\ Shuffled(x, goal, KeyCells(x, j, key))
             /\ Common(KeyCells(x, j, key), j.depth + keychars)
  BY <1>1, <1>4, CountedBucket
<1>8. ASSUME NEW y \in Q
      PROVE  \E key \in Deeper(x, j) : /\ y = JobClaim(job(key))
                                       /\ y.cells = KeyCells(x, j, key)
                                       /\ y.flip = to /\ y.depth = j.depth + keychars
  BY <1>5, <1>6
<1>9. \A key \in Deeper(x, j) : JobClaim(job(key)) \in Q
  BY <1>6
<1>10. J \subseteq JobSet
  BY <1>5, <1>6
<1> HIDE DEF job, J, Q
<1>11. Sound(Q, b)
  <2> SUFFICES ASSUME NEW y \in Q PROVE ClaimOK(y, b)
    BY DEF Sound
  <2>1. PICK key \in Deeper(x, j) : y.cells = KeyCells(x, j, key) /\ y.flip = to /\ y.depth = j.depth + keychars
    BY <1>8
  <2>2. y.cells \subseteq Position /\ Common(y.cells, y.depth) /\ Shuffled(x, goal, y.cells)
    BY <1>1, <1>7, <2>1
  <2>3. Shuffled(b[to], goal, y.cells)
    BY <2>2, ShuffledSame
  <2> QED BY <2>1, <2>2, <2>3 DEF ClaimOK
<1>12. Disjoint(Q)
  <2> SUFFICES ASSUME NEW y \in Q, NEW z \in Q, y # z PROVE y.cells \cap z.cells = {}
    BY DEF Disjoint
  <2>1. PICK key \in Deeper(x, j) : y = JobClaim(job(key)) /\ y.cells = KeyCells(x, j, key)
    BY <1>8
  <2>2. PICK other \in Deeper(x, j) : z = JobClaim(job(other)) /\ z.cells = KeyCells(x, j, other)
    BY <1>8
  <2>3. key # other
    BY <2>1, <2>2
  <2> QED BY <1>7, <2>1, <2>2, <2>3
<1>13. JobClaim(j).cells = C
  BY DEF JobClaim
<1>14. \A y \in Q : \E z \in {JobClaim(j)} : y.cells \subseteq z.cells
  <2> TAKE y \in Q
  <2>1. PICK key \in Deeper(x, j) : y.cells = KeyCells(x, j, key)
    BY <1>8
  <2> QED BY <1>7, <1>13, <2>1
<1>15. ASSUME NEW p \in C, \A y \in Q : p \notin y.cells PROVE b[0][p] = goal[p]
  <2> DEFINE key == Key(x[p], j.depth)
             B == KeyCells(x, j, key)
  <2>1. key \in Pair
    BY <1>3
  <2>2. \A k \in Deeper(x, j) : p \notin KeyCells(x, j, k)
    BY <1>5, <1>9, <1>15
  <2>3. p \in Ready(x, j)
    BY <2>2 DEF Ready, KeyCells
  <2>4. p \in B /\ Shuffled(x, goal, B) /\ (Finished(key) => x[p] = goal[p])
        /\ BktBegin(x, j, key) \in j.lo .. j.hi /\ BktEnd(x, j, key) \in j.lo .. j.hi
    <3>1. B = {q \in C : Key(x[q], j.depth) = key}
      BY <1>1, <2>1, CountedBucket
    <3>2. p \in B
      BY <3>1
    <3> QED BY <1>1, <2>1, <3>2, CountedBucket
  <2>5. key \notin Deeper(x, j)
    BY <2>2, <2>4
  <2>6. Finished(key) \/ ~ (BktEnd(x, j, key) > BktBegin(x, j, key) + 1)
    BY <2>5 DEF Deeper
  <2>7. x[p] = goal[p]
    <3>1. CASE ~ (BktEnd(x, j, key) > BktBegin(x, j, key) + 1)
      <4>1. \A q, r \in B : q = r
        BY <1>1, <2>4, <3>1 DEF KeyCells, Cells
      <4> HIDE DEF B
      <4> QED BY <2>4, <4>1, SingleInPlace
    <3> QED BY <2>4, <2>6, <3>1
  <2> QED BY <2>3, <2>7
<1> QED BY <1>10, <1>11, <1>12, <1>13, <1>14, <1>15 DEF Replaces, J, Q

\* What distribute() and the copying back leave in the arrays.
LEMMA DistributedResult ==
  ASSUME ArrOK(arr), NEW j \in JobSet, NEW C, C = Cells(j.lo, j.hi),
         NEW a \in Distributed(j), NEW to, to = 1 - j.flip,
         NEW b, b = CopyBack(a, to, Ready(a[to], j))
  PROVE  /\ a[to] \in Rearranged(arr[j.flip], arr[to], C)
         /\ KeysInOrder(a[to], C, j.depth)
         /\ ArrOK(b)
         /\ \A p \in Position : b[to][p] = a[to][p]
         /\ \A p \in Ready(a[to], j) : b[0][p] = a[to][p]
         /\ \A f \in 0 .. 1 : \A p \in Position \ C : b[f][p] = arr[f][p]
<1>1. j.flip \in 0 .. 1 /\ to \in 0 .. 1 /\ C \in SUBSET Position
  BY JobInside DEF JobSet
<1>2. PICK x \in Rearranged(arr[j.flip], arr[to], C) :
        KeysInOrder(x, C, j.depth) /\ a = [arr EXCEPT ![to] = x]
  BY DEF Distributed, KeysInOrder
<1>3. RowOK(x) /\ \A p \in Position \ C : x[p] = arr[to][p]
  <2>1. RowOK(arr[j.flip]) /\ RowOK(arr[to])
    BY <1>1 DEF ArrOK, RowOK
  <2> QED BY <1>1, <1>2, <2>1, RearrangedType
<1>4. a[to] = x /\ ArrOK(a) /\ \A f \in 0 .. 1 : f # to => a[f] = arr[f]
  BY <1>1, <1>2, <1>3 DEF ArrOK, RowOK
<1>5. \A f \in 0 .. 1 : \A p \in Position \ C : a[f][p] = arr[f][p]
  BY <1>3, <1>4
<1> DEFINE R == Ready(a[to], j)
<1>6. R \in SUBSET Position /\ R \subseteq C
  BY <1>1 DEF Ready
<1> HIDE DEF R
<1>7. ChangedIn(a, b, R) /\ \A p \in R : b[0][p] = a[to][p]
  BY <1>1, <1>4, <1>6, CopyBackResult DEF R
<1>8. \A p \in Position : b[to][p] = a[to][p]
  <2>1. CASE to = 1
    BY <1>7, <2>1 DEF ChangedIn
  <2>2. CASE to = 0
    <3>1. \A p \in Position \ R : b[0][p] = a[0][p]
      BY <1>7 DEF ChangedIn
    <3> QED BY <1>7, <2>2, <3>1
  <2> QED BY <1>1, <2>1, <2>2
<1>9. \A f \in 0 .. 1 : \A p \in Position \ C : b[f][p] = arr[f][p]
  BY <1>5, <1>6, <1>7 DEF ChangedIn
<1> QED BY <1>2, <1>4, <1>7, <1>8, <1>9 DEF ChangedIn, R

LEMMA RadixStepIInv ==
  ASSUME IInv, NEW t \in Thread, RadixStep(t)
  PROVE  IInv'
<1>1. PICK j \in jobs : \E a \in Distributed(j) :
        /\ arr' = CopyBack(a, 1 - j.flip, Ready(a[1 - j.flip], j))
        /\ jobs' = (jobs \ {j}) \cup StepJobs(a[1 - j.flip], j, 1 - j.flip)
  BY DEF RadixStep, StepJobs
<1> DEFINE C == Cells(j.lo, j.hi)
           to == 1 - j.flip
<1>2. PICK a \in Distributed(j) : /\ arr' = CopyBack(a, to, Ready(a[to], j))
                                  /\ jobs' = (jobs \ {j}) \cup StepJobs(a[to], j, to)
  BY <1>1
<1>3. /\ Types /\ GoalOK /\ ArrOK(arr) /\ thr \in [Thread -> {Idle} \cup Busy]
      /\ goal' = goal /\ keychars' = keychars /\ threshold' = threshold /\ thr' = thr
  BY DEF IInv, Types, RadixStep, setup
<1>4. /\ j \in JobSet /\ Shuffled(arr[j.flip], goal, C) /\ Common(C, j.depth)
      /\ JobClaim(j) \in JobClaims /\ JobClaim(j).cells = C
      /\ C \subseteq Position /\ to \in 0 .. 1
  BY JobIsClaimed, JobInside DEF JobClaim
<1> DEFINE x == a[to]
           J == StepJobs(x, j, to)
           Q == {JobClaim(i) : i \in J}
<1>5. /\ x \in Rearranged(arr[j.flip], arr[to], C)
      /\ KeysInOrder(x, C, j.depth)
      /\ ArrOK(arr')
      /\ \A p \in Position : arr'[to][p] = x[p]
      /\ \A p \in Ready(x, j) : arr'[0][p] = x[p]
      /\ \A f \in 0 .. 1 : \A p \in Position \ C : arr'[f][p] = arr[f][p]
  BY <1>2, <1>3, <1>4, DistributedResult
<1>6. jobs' = (jobs \ {j}) \cup J
  BY <1>2
<1> HIDE DEF x, to, C
<1>7. Shuffled(x, goal, C)
  BY <1>4, <1>5, ShuffledAgain
<1>8. InKeyOrder(x, j)
  BY <1>4, <1>5, <1>7 DEF InKeyOrder, C
<1>9. J \subseteq JobSet /\ Replaces(Q, {JobClaim(j)}, arr')
  BY <1>4, <1>5, <1>8, StepJobsReplace
<1>10. Swaps(JobClaims, JobClaims', {JobClaim(j)}, Q)
  BY <1>6, JobClaimsMinus
<1> HIDE DEF J, Q
<1>11. Types'
  BY <1>3, <1>5, <1>6, <1>9 DEF Types
<1>12. SameOutside(arr, arr', {JobClaim(j)})
  BY <1>4, <1>5 DEF SameOutside
<1>13. Swaps(Claims, Claims', {JobClaim(j)} \cup {}, Q \cup {})
  <2>1. thr' = [thr EXCEPT ![t] = thr[t]]
    BY <1>3
  <2>2. Swaps(WorkerClaims(thr[t], t), WorkerClaims(thr[t], t), {}, {})
    BY DEF Swaps
  <2> QED BY <1>3, <1>10, <2>1, <2>2, ClaimsChange
<1> QED BY <1>3, <1>9, <1>11, <1>12, <1>13, StepByClaims

\* What a worker is made of.
Parts(w, b, d, f, s, c) == w = [busy |-> b, depth |-> d, front |-> f, stack |-> s, check |-> c]

LEMMA PartsAre ==
  ASSUME NEW w, NEW b, NEW d, NEW f, NEW s, NEW c, Parts(w, b, d, f, s, c)
  PROVE  w.busy = b /\ w.depth = d /\ w.front = f /\ w.stack = s
BY DEF Parts

LEMMA BusyParts ==
  ASSUME NEW w \in Busy
  PROVE  /\ Parts(w, w.busy, w.depth, w.front, w.stack, w.check)
         /\ w.busy /\ w.check \in BOOLEAN
         /\ w.stack \in Seq(LevelSet) /\ w.front \in Nat /\ w.depth \in Nat
         /\ w.front <= Len(w.stack)
<1>1. w \in [busy : {TRUE}, depth : Nat, front : Nat, stack : Seq(LevelSet), check : BOOLEAN]
  BY DEF Busy
<1>2. w.busy = TRUE /\ w.check \in BOOLEAN
  BY <1>1, Zenon
<1>3. w.stack \in Seq(LevelSet) /\ w.front \in Nat /\ w.depth \in Nat /\ w.front <= Len(w.stack)
  BY <1>1 DEF Busy
<1>4. Parts(w, w.busy, w.depth, w.front, w.stack, w.check)
  BY <1>1 DEF Parts
<1> QED BY <1>2, <1>3, <1>4, Zenon

LEMMA BusyMade ==
  ASSUME NEW w, NEW b, b = TRUE, NEW d \in Nat, NEW f \in Nat, NEW s \in Seq(LevelSet),
         NEW c \in BOOLEAN, f <= Len(s), Parts(w, b, d, f, s, c)
  PROVE  w \in Busy
<1>1. [busy |-> TRUE, depth |-> d, front |-> f, stack |-> s, check |-> c] \in Busy
  BY DEF Busy
<1> QED BY <1>1, Zenon DEF Parts

\* What a worker becomes: its top level goes on, it gets a level, shares its
\* oldest level, loses its newest one.
GoneOn(w, n, i, k) == [w EXCEPT !.stack[n].idx = i, !.check = k]
Pushed(w, l) == [w EXCEPT !.stack = Append(@, l)]
Shared(w, n, i, k) == [w EXCEPT !.stack[n].idx = i, !.front = @ + 1, !.check = k]
Popped(w, s, k) == [w EXCEPT !.stack = s, !.check = k]

LEMMA GoneOnParts ==
  ASSUME NEW w, NEW b, NEW d, NEW f, NEW s, NEW c, Parts(w, b, d, f, s, c), NEW n, NEW i, NEW k
  PROVE  Parts(GoneOn(w, n, i, k), b, d, f, [s EXCEPT ![n].idx = i], k)
<1> PICK x : x = GoneOn(w, n, i, k)
  OBVIOUS
<1>1. x = [busy |-> b, depth |-> d, front |-> f, stack |-> [s EXCEPT ![n].idx = i], check |-> k]
  BY DEF Parts, GoneOn
<1> QED BY <1>1, Zenon DEF Parts

LEMMA PushedParts ==
  ASSUME NEW w, NEW b, NEW d, NEW f, NEW s, NEW c, Parts(w, b, d, f, s, c), NEW l
  PROVE  Parts(Pushed(w, l), b, d, f, Append(s, l), c)
<1> PICK x : x = Pushed(w, l)
  OBVIOUS
<1>1. x = [busy |-> b, depth |-> d, front |-> f, stack |-> Append(s, l), check |-> c]
  BY DEF Parts, Pushed
<1> QED BY <1>1, Zenon DEF Parts

LEMMA SharedParts ==
  ASSUME NEW w, NEW b, NEW d, NEW f, NEW s, NEW c, Parts(w, b, d, f, s, c), NEW n, NEW i, NEW k
  PROVE  Parts(Shared(w, n, i, k), b, d, f + 1, [s EXCEPT ![n].idx = i], k)
<1> PICK x : x = Shared(w, n, i, k)
  OBVIOUS
<1>1. x = [busy |-> b, depth |-> d, front |-> f + 1, stack |-> [s EXCEPT ![n].idx = i], check |-> k]
  BY DEF Parts, Shared
<1> QED BY <1>1, Zenon DEF Parts

LEMMA PoppedParts ==
  ASSUME NEW w, NEW b, NEW d, NEW f, NEW s, NEW c, Parts(w, b, d, f, s, c), NEW r, NEW k
  PROVE  Parts(Popped(w, r, k), b, d, f, r, k)
<1> PICK x : x = Popped(w, r, k)
  OBVIOUS
<1>1. x = [busy |-> b, depth |-> d, front |-> f, stack |-> r, check |-> k]
  BY DEF Parts, Popped
<1> QED BY <1>1, Zenon DEF Parts

\* A bucket's claim names the bucket.
LEMMA BucketClaimNames ==
  \A w, v, t, k, c, n, b : BucketClaim(w, t, k, c) = BucketClaim(v, t, n, b) => k = n /\ c = b
<1> SUFFICES ASSUME NEW w, NEW v, NEW t, NEW k, NEW c, NEW n, NEW b,
                    BucketClaim(w, t, k, c) = BucketClaim(v, t, n, b)
             PROVE  k = n /\ c = b
  OBVIOUS
<1>1. BucketClaim(w, t, k, c).id[2] = <<t, k, c>> /\ BucketClaim(v, t, n, b).id[2] = <<t, n, b>>
  BY DEF BucketClaim
<1>2. <<t, k, c>> = <<t, n, b>>
  BY <1>1
<1> QED BY <1>2

\* A level that goes on to a bucket.
LEMMA NextLevel ==
  ASSUME NEW l \in LevelSet, NEW b, b = l.idx + 1, l.idx < MaxChar
  PROVE  LET m == [l EXCEPT !.idx = b]
         IN  /\ b \in Bkt /\ m \in LevelSet /\ m.bkt = l.bkt
             /\ Left(m) = Left(l) \ {b} /\ (b \in Left(l) <=> l.bkt[b + 1] > l.bkt[b])
<1> DEFINE m == [l EXCEPT !.idx = b]
<1>1. MaxChar \in Nat /\ l.idx \in Bkt
  BY RadixAssumption DEF LevelSet
<1>2. b \in Bkt
  BY <1>1 DEF Bkt
<1>3. m \in LevelSet /\ m.bkt = l.bkt /\ m.idx = b
  BY <1>1, <1>2 DEF LevelSet
<1>4. Left(m) = Left(l) \ {b} /\ (b \in Left(l) <=> l.bkt[b + 1] > l.bkt[b])
  BY <1>1, <1>2, <1>3 DEF Left, Bkt
<1> QED BY <1>2, <1>3, <1>4

\* An element of a sequence is replaced.
LEMMA SeqPut ==
  ASSUME NEW S, NEW q \in Seq(S), NEW n \in DOMAIN q, NEW m \in S, NEW s, s = [q EXCEPT ![n] = m]
  PROVE  /\ s \in Seq(S) /\ Len(s) = Len(q) /\ DOMAIN s = DOMAIN q
         /\ \A k \in DOMAIN s : (k = n => s[k] = m) /\ (k # n => s[k] = q[k])
OBVIOUS

\* The level on top of a stack, and its next bucket.
OnLevel(w, n, l, b) ==
  /\ n = Len(w.stack) /\ n > w.front
  /\ l = w.stack[n] /\ l.idx < MaxChar /\ b = l.idx + 1

\* What going on to it changes: the claim on it is given up, if there is one.
AdvanceOK(w, w1, t, n, l, b) ==
  /\ w1 \in Busy /\ w1.depth = w.depth /\ w1.front = w.front /\ Len(w1.stack) = n /\ b \in Bkt
  /\ l.bkt[b + 1] > l.bkt[b] =>
       Swaps(WorkerClaims(w, t), WorkerClaims(w1, t), {BucketClaim(w, t, n, b)}, {})
  /\ ~ (l.bkt[b + 1] > l.bkt[b]) => WorkerClaims(w1, t) = WorkerClaims(w, t)

LEMMA Advance ==
  ASSUME NEW w \in Busy, NEW t, NEW n, NEW l, NEW b, OnLevel(w, n, l, b), NEW c \in BOOLEAN
  PROVE  AdvanceOK(w, GoneOn(w, n, b, c), t, n, l, b)
<1> PICK w1, x : w1 = GoneOn(w, n, b, c) /\ x = BucketClaim(w, t, n, b)
  OBVIOUS
<1>a. /\ n = Len(w.stack) /\ n > w.front
      /\ l = w.stack[n] /\ l.idx < MaxChar /\ b = l.idx + 1
  BY DEF OnLevel
<1>0. w.busy /\ Parts(w, w.busy, w.depth, w.front, w.stack, w.check)
  BY BusyParts, Zenon
<1>1. /\ w.stack \in Seq(LevelSet) /\ n \in Nat /\ n >= 1 /\ w.front \in Nat /\ w.front <= n
      /\ w.depth \in Nat /\ n \in DOMAIN w.stack
  <2>1. w.stack \in Seq(LevelSet) /\ w.front \in Nat /\ w.depth \in Nat
    BY BusyParts, Zenon
  <2> QED BY <1>a, <2>1
<1> DEFINE m == [l EXCEPT !.idx = b]
<1>2. l \in LevelSet
  BY <1>1, <1>a
<1>3. /\ b \in Bkt /\ m \in LevelSet /\ m.bkt = l.bkt
      /\ Left(m) = Left(l) \ {b} /\ (b \in Left(l) <=> l.bkt[b + 1] > l.bkt[b])
  BY <1>2, <1>a, NextLevel
<1> DEFINE s == [w.stack EXCEPT ![n].idx = b]
<1>4. s = [w.stack EXCEPT ![n] = m]
  BY <1>1, <1>a
<1> HIDE DEF m
<1>5. /\ s \in Seq(LevelSet) /\ Len(s) = n /\ DOMAIN s = DOMAIN w.stack
      /\ \A k \in DOMAIN s : (k = n => s[k] = m) /\ (k # n => s[k] = w.stack[k])
  <2> HIDE DEF s
  <2> QED BY <1>1, <1>3, <1>4, <1>a, SeqPut
<1>6. Parts(w1, w.busy, w.depth, w.front, s, c)
  BY <1>0, GoneOnParts, Zenon
<1> HIDE DEF s
<1>7. w1.busy /\ w1.depth = w.depth /\ w1.front = w.front /\ w1.stack = s
  <2>1. w1.busy = w.busy /\ w1.depth = w.depth /\ w1.front = w.front /\ w1.stack = s
    BY <1>6, PartsAre, Zenon
  <2>2. w1.busy
    BY <1>0, <2>1, Zenon
  <2> QED BY <2>1, <2>2, Zenon
<1>8. w1 \in Busy
  <2>1. w.busy = TRUE
    BY <1>0, Zenon
  <2>2. w.front <= Len(s)
    BY <1>1, <1>5
  <2> QED BY <1>1, <1>5, <1>6, <2>1, <2>2, BusyMade, Zenon
<1>9. Live(w1) = Live(w) /\ n \in Live(w)
  BY <1>1, <1>5, <1>7, <1>a DEF Live
<1>10. \A k \in Live(w) : \A e : BucketClaim(w1, t, k, e) = BucketClaim(w, t, k, e)
  <2>1. \A k \in Live(w) : w1.stack[k].bkt = w.stack[k].bkt
    BY <1>3, <1>5, <1>7, <1>a DEF Live
  <2> QED BY <1>7, <2>1 DEF BucketClaim
<1>11. \A k \in Live(w) : \A e : e \in Left(w1.stack[k]) <=> e \in Left(w.stack[k]) /\ ~ (k = n /\ e = b)
  <2> TAKE k \in Live(w)
  <2>1. k \in DOMAIN s
    BY <1>5 DEF Live
  <2>2. CASE k = n
    BY <1>3, <1>5, <1>7, <1>a, <2>1, <2>2
  <2>3. CASE k # n
    BY <1>5, <1>7, <2>1, <2>3
  <2> QED BY <2>2, <2>3
<1>12. \A z : z \in WorkerClaims(w1, t) <=>
         \E k \in Live(w) : \E e \in Left(w1.stack[k]) : z = BucketClaim(w, t, k, e)
  BY <1>7, <1>9, <1>10 DEF WorkerClaims, LevelClaims
<1>13. \A z : z \in WorkerClaims(w, t) <=>
         \E k \in Live(w) : \E e \in Left(w.stack[k]) : z = BucketClaim(w, t, k, e)
  BY <1>0 DEF WorkerClaims, LevelClaims
<1>14. \A k, e : BucketClaim(w, t, k, e) = x => k = n /\ e = b
  BY BucketClaimNames
<1>15. \A z : z \in WorkerClaims(w1, t) => z \in WorkerClaims(w, t)
  BY <1>11, <1>12, <1>13
<1>16. x \notin WorkerClaims(w1, t)
  <2> SUFFICES ASSUME x \in WorkerClaims(w1, t) PROVE FALSE
    OBVIOUS
  <2>1. PICK k \in Live(w) : \E e \in Left(w1.stack[k]) : x = BucketClaim(w, t, k, e)
    BY <1>12
  <2>2. PICK e \in Left(w1.stack[k]) : x = BucketClaim(w, t, k, e)
    BY <2>1
  <2>3. k = n /\ e = b
    BY <1>14, <2>2
  <2> QED BY <1>11, <2>2, <2>3
<1>17. \A z : z \in WorkerClaims(w, t) /\ z # x => z \in WorkerClaims(w1, t)
  <2> SUFFICES ASSUME NEW z, z \in WorkerClaims(w, t), z # x PROVE z \in WorkerClaims(w1, t)
    OBVIOUS
  <2>1. PICK k \in Live(w) : \E e \in Left(w.stack[k]) : z = BucketClaim(w, t, k, e)
    BY <1>13
  <2>2. PICK e \in Left(w.stack[k]) : z = BucketClaim(w, t, k, e)
    BY <2>1
  <2>3. ~ (k = n /\ e = b)
    BY <2>2
  <2>4. e \in Left(w1.stack[k])
    BY <1>11, <2>3
  <2> QED BY <1>12, <2>2, <2>4
<1>18. x \in WorkerClaims(w, t) <=> l.bkt[b + 1] > l.bkt[b]
  <2>1. ASSUME b \in Left(l) PROVE x \in WorkerClaims(w, t)
    BY <1>9, <1>13, <1>a, <2>1
  <2>2. ASSUME b \notin Left(l), x \in WorkerClaims(w, t) PROVE FALSE
    <3>1. PICK k \in Live(w) : \E e \in Left(w.stack[k]) : x = BucketClaim(w, t, k, e)
      BY <1>13, <2>2
    <3>2. PICK e \in Left(w.stack[k]) : x = BucketClaim(w, t, k, e)
      BY <3>1
    <3>3. k = n /\ e = b
      BY <1>14, <3>2
    <3> QED BY <1>a, <2>2, <3>2, <3>3
  <2> QED BY <1>3, <2>1, <2>2
<1>19. l.bkt[b + 1] > l.bkt[b] => Swaps(WorkerClaims(w, t), WorkerClaims(w1, t), {x}, {})
  <2> SUFFICES ASSUME x \in WorkerClaims(w, t)
               PROVE  WorkerClaims(w1, t) = (WorkerClaims(w, t) \ {x}) \cup {}
    BY <1>18 DEF Swaps
  <2> QED BY <1>15, <1>16, <1>17
<1>20. ~ (l.bkt[b + 1] > l.bkt[b]) => WorkerClaims(w1, t) = WorkerClaims(w, t)
  BY <1>15, <1>17, <1>18
<1> QED BY <1>3, <1>5, <1>7, <1>8, <1>19, <1>20 DEF AdvanceOK

\* A level is put on top.
LEMMA PushLevel ==
  ASSUME NEW w \in Busy, NEW t, NEW n, n = Len(w.stack), NEW m \in LevelSet,
         NEW w2, w2 = Pushed(w, m)
  PROVE  /\ w2 \in Busy /\ w2.depth = w.depth /\ w2.stack[n + 1] = m
         /\ Swaps(WorkerClaims(w, t), WorkerClaims(w2, t), {}, LevelClaims(w2, t, n + 1))
<1>0. w.busy /\ w.check \in BOOLEAN /\ Parts(w, w.busy, w.depth, w.front, w.stack, w.check)
  BY BusyParts, Zenon
<1>1. /\ w.stack \in Seq(LevelSet) /\ n \in Nat /\ w.front \in Nat /\ w.front <= n /\ w.depth \in Nat
  <2>1. w.stack \in Seq(LevelSet) /\ w.front \in Nat /\ w.depth \in Nat /\ w.front <= Len(w.stack)
    BY BusyParts, Zenon
  <2> QED BY <2>1
<1> DEFINE s == Append(w.stack, m)
<1>2. /\ s \in Seq(LevelSet) /\ Len(s) = n + 1 /\ s[n + 1] = m
      /\ \A k \in 1 .. n : s[k] = w.stack[k]
  BY <1>1
<1>3. Parts(w2, w.busy, w.depth, w.front, s, w.check)
  BY <1>0, PushedParts, Zenon
<1> HIDE DEF s
<1>4. w2.busy /\ w2.depth = w.depth /\ w2.front = w.front /\ w2.stack = s
  BY <1>0, <1>3, PartsAre, Zenon
<1>5. w2 \in Busy
  <2>1. w.busy = TRUE
    BY <1>0, Zenon
  <2>2. w.front <= Len(s)
    BY <1>1, <1>2
  <2> QED BY <1>0, <1>1, <1>2, <1>3, <2>1, <2>2, BusyMade, Zenon
<1> DEFINE k1 == n + 1
<1>6. Live(w2) = Live(w) \cup {k1} /\ \A k \in Live(w) : k \in 1 .. n
  BY <1>1, <1>2, <1>4 DEF Live
<1>7. \A k \in Live(w) : LevelClaims(w2, t, k) = LevelClaims(w, t, k)
  BY <1>2, <1>4, <1>6 DEF LevelClaims, BucketClaim
<1> HIDE DEF k1
<1>8. WorkerClaims(w2, t) = WorkerClaims(w, t) \cup LevelClaims(w2, t, k1)
  <2>1. WorkerClaims(w2, t) = UNION {LevelClaims(w2, t, k) : k \in Live(w2)}
    BY <1>4 DEF WorkerClaims
  <2>2. WorkerClaims(w, t) = UNION {LevelClaims(w, t, k) : k \in Live(w)}
    BY <1>0 DEF WorkerClaims
  <2> HIDE DEF Live, LevelClaims
  <2>3. ASSUME NEW z, z \in WorkerClaims(w2, t) PROVE z \in WorkerClaims(w, t) \cup LevelClaims(w2, t, k1)
    <3>1. PICK k \in Live(w2) : z \in LevelClaims(w2, t, k)
      BY <2>1, <2>3
    <3> QED BY <1>6, <1>7, <2>2, <3>1
  <2>4. ASSUME NEW z, z \in WorkerClaims(w, t) \cup LevelClaims(w2, t, k1) PROVE z \in WorkerClaims(w2, t)
    <3>1. CASE z \in LevelClaims(w2, t, k1)
      BY <1>6, <2>1, <3>1
    <3>2. CASE z \in WorkerClaims(w, t)
      <4>1. PICK k \in Live(w) : z \in LevelClaims(w, t, k)
        BY <2>2, <3>2
      <4> QED BY <1>6, <1>7, <2>1, <4>1
    <3> QED BY <2>4, <3>1, <3>2
  <2> QED BY <2>3, <2>4
<1> QED BY <1>2, <1>4, <1>5, <1>8 DEF Swaps, k1

\* A busy thread, and the level on top of its stack.
LEMMA NotIdle ==
  ASSUME NEW w \in {Idle} \cup Busy, w.busy
  PROVE  w \in Busy
<1>1. w # Idle
  BY DEF Idle
<1> QED BY <1>1

LEMMA HasTop ==
  ASSUME NEW w \in Busy, Len(w.stack) > w.front
  PROVE  Len(w.stack) \in Nat /\ Len(w.stack) > 0
<1>1. w.stack \in Seq(LevelSet) /\ w.front \in Nat
  BY BusyParts, Zenon
<1> QED BY <1>1

LEMMA OnTop ==
  ASSUME NEW w \in Busy, NEW n, n = Len(w.stack), n > 0
  PROVE  n \in DOMAIN w.stack /\ w.stack[n] \in LevelSet /\ Last(w.stack) = w.stack[n]
<1>1. w.stack \in Seq(LevelSet)
  BY BusyParts, Zenon
<1> QED BY <1>1 DEF Last

\* What the step to the next bucket does.
NextOf(t, w, n, l, b) == w = thr[t] /\ n = Len(w.stack) /\ l = w.stack[n] /\ b = l.idx + 1
NextAt(w, n, l, b, lo, hi, d) == lo = l.bkt[b] /\ hi = l.bkt[b + 1] /\ d = w.depth + n
NextDone(t, w, n, l, lo, hi, d, w1) ==
  /\ w \in Busy /\ n \in Nat /\ n > w.front /\ l \in LevelSet /\ l.idx < MaxChar
  /\ \/ hi = lo /\ thr' = [thr EXCEPT ![t] = w1] /\ arr' = arr
     \/ hi > lo /\ thr' = [thr EXCEPT ![t] = w1] /\ arr' \in InsSort(arr, lo, hi, d)
     \/ /\ ~ (hi = lo) /\ thr' = [thr EXCEPT ![t] = Pushed(w1, Level(arr, lo, hi, d))]
        /\ arr' \in Grouped(arr, lo, hi, d)

LEMMA NextBucketDoes ==
  ASSUME Types, NEW t \in Thread, NextBucket(t), NEW w, NEW n, NEW l, NEW b, NextOf(t, w, n, l, b),
         NEW lo, NEW hi, NEW d, NextAt(w, n, l, b, lo, hi, d)
  PROVE  NextDone(t, w, n, l, lo, hi, d, GoneOn(w, n, b, AsksIdle(lo, hi)))
<1>0. /\ w = thr[t] /\ n = Len(w.stack) /\ l = w.stack[n] /\ b = l.idx + 1
      /\ lo = l.bkt[b] /\ hi = l.bkt[b + 1] /\ d = w.depth + n
  BY DEF NextOf, NextAt
<1> DEFINE w1 == GoneOn(w, n, b, AsksIdle(lo, hi))
<1>1. thr \in [Thread -> {Idle} \cup Busy] /\ w \in {Idle} \cup Busy
  BY <1>0 DEF Types
<1>2. w.busy /\ Len(w.stack) > w.front
  BY <1>0 DEF NextBucket, InLoop
<1>3. w \in Busy
  BY <1>1, <1>2, NotIdle, Zenon
<1>4. n \in Nat /\ n > 0 /\ n > w.front
  <2>1. Len(w.stack) \in Nat /\ Len(w.stack) > 0
    BY <1>2, <1>3, HasTop, Zenon
  <2> QED BY <1>0, <1>2, <2>1
<1>5. l \in LevelSet /\ Last(w.stack) = l
  BY <1>0, <1>3, <1>4, OnTop
<1> DEFINE moved == [thr EXCEPT ![t].stack[n].idx = b, ![t].check = AsksIdle(lo, hi)]
<1>6. moved = [thr EXCEPT ![t] = w1]
  <2> DEFINE q == AsksIdle(lo, hi)
             S == {Idle} \cup Busy
  <2> HIDE DEF q, S
  <2>1. thr \in [Thread -> S]
    BY <1>1 DEF S
  <2>2. [thr EXCEPT ![t].stack[n].idx = b, ![t].check = q] = [thr EXCEPT ![t] = GoneOn(thr[t], n, b, q)]
    BY <2>1 DEF GoneOn
  <2> QED BY <1>0, <2>2 DEF q
<1>7. [moved EXCEPT ![t].stack = Append(@, Level(arr, lo, hi, d))]
        = [thr EXCEPT ![t] = Pushed(w1, Level(arr, lo, hi, d))]
  <2> DEFINE m == Level(arr, lo, hi, d)
             s == {Idle} \cup Busy
  <2> HIDE DEF m, s, moved
  <2>1. thr \in [Thread -> s]
    BY <1>1 DEF s
  <2>2. [[thr EXCEPT ![t] = w1] EXCEPT ![t].stack = Append(@, m)] = [thr EXCEPT ![t] = Pushed(w1, m)]
    BY <2>1 DEF Pushed
  <2>3. [moved EXCEPT ![t].stack = Append(@, m)] = [thr EXCEPT ![t] = Pushed(w1, m)]
    BY <1>6, <2>2, Zenon
  <2> QED BY <2>3 DEF m
<1>8. /\ l.idx < MaxChar
      /\ \/ hi = lo /\ thr' = moved /\ arr' = arr
         \/ hi > lo /\ thr' = moved /\ arr' \in InsSort(arr, lo, hi, d)
         \/ /\ ~ (hi = lo) /\ thr' = [moved EXCEPT ![t].stack = Append(@, Level(arr, lo, hi, d))]
            /\ arr' \in Grouped(arr, lo, hi, d)
  BY <1>0, <1>5 DEF NextBucket
<1> QED BY <1>3, <1>4, <1>5, <1>6, <1>7, <1>8, Zenon DEF NextDone

\* Claims given up, and then claims made.
LEMMA SwapsTwice ==
  ASSUME NEW A, NEW B, NEW D, NEW R, NEW Q, Swaps(A, B, R, {}), Swaps(B, D, {}, Q)
  PROVE  Swaps(A, D, R, Q)
BY DEF Swaps

\* A bucket of a worker is claimed.
LEMMA BucketIsClaimed ==
  ASSUME IInv, NEW t \in Thread, NEW x \in WorkerClaims(thr[t], t), x.flip = 0
  PROVE  x.cells \subseteq Position /\ Shuffled(arr[0], goal, x.cells) /\ Common(x.cells, x.depth)
<1>1. x \in Claims
  BY DEF Claims
<1> QED BY <1>1 DEF IInv, ClaimsOK, Sound, ClaimOK

\* The step to the next bucket.
LEMMA NextBucketIInv ==
  ASSUME IInv, NEW t \in Thread, NextBucket(t)
  PROVE  IInv'
<1>1. /\ Types /\ GoalOK /\ ArrOK(arr) /\ thr \in [Thread -> {Idle} \cup Busy] /\ jobs' = jobs
      /\ goal' = goal /\ keychars' = keychars /\ threshold' = threshold
  BY DEF IInv, Types, NextBucket, setup
<1>2. PICK w, n, l, b : w = thr[t] /\ n = Len(w.stack) /\ l = w.stack[n] /\ b = l.idx + 1
  OBVIOUS
<1>3. PICK lo, hi, d : lo = l.bkt[b] /\ hi = l.bkt[b + 1] /\ d = w.depth + n
  OBVIOUS
<1> DEFINE w1 == GoneOn(w, n, b, AsksIdle(lo, hi))
           w2 == Pushed(w1, Level(arr, lo, hi, d))
           x == BucketClaim(w, t, n, b)
<1>4. /\ w \in Busy /\ n \in Nat /\ n > w.front /\ l \in LevelSet /\ l.idx < MaxChar
      /\ \/ hi = lo /\ thr' = [thr EXCEPT ![t] = w1] /\ arr' = arr
         \/ hi > lo /\ thr' = [thr EXCEPT ![t] = w1] /\ arr' \in InsSort(arr, lo, hi, d)
         \/ /\ ~ (hi = lo) /\ thr' = [thr EXCEPT ![t] = w2] /\ arr' \in Grouped(arr, lo, hi, d)
  <2>1. NextOf(t, w, n, l, b) /\ NextAt(w, n, l, b, lo, hi, d)
    BY <1>2, <1>3 DEF NextOf, NextAt
  <2>2. NextDone(t, w, n, l, lo, hi, d, w1)
    BY <1>1, <2>1, NextBucketDoes
  <2> QED BY <2>2 DEF NextDone
<1>5. AsksIdle(lo, hi) \in BOOLEAN
  BY DEF AsksIdle
<1>6. x.cells = Cells(lo, hi) /\ x.flip = 0 /\ x.depth = d
  BY <1>2, <1>3 DEF BucketClaim
<1> HIDE DEF w1, w2, x
<1>7. /\ w1 \in Busy /\ w1.depth = w.depth /\ Len(w1.stack) = n /\ b \in Bkt
      /\ hi > lo => Swaps(WorkerClaims(w, t), WorkerClaims(w1, t), {x}, {})
      /\ ~ (hi > lo) => WorkerClaims(w1, t) = WorkerClaims(w, t)
  <2> PICK q : q = AsksIdle(lo, hi)
    OBVIOUS
  <2>1. q \in BOOLEAN /\ w1 = GoneOn(w, n, b, q) /\ x = BucketClaim(w, t, n, b)
    BY <1>5 DEF w1, x
  <2>2. OnLevel(w, n, l, b)
    BY <1>2, <1>4 DEF OnLevel
  <2>3. AdvanceOK(w, w1, t, n, l, b)
    BY <1>4, <2>1, <2>2, Advance
  <2> QED BY <1>3, <2>1, <2>3 DEF AdvanceOK
<1>8. lo \in 0 .. N /\ hi \in 0 .. N /\ lo <= hi /\ lo \in Int /\ hi \in Int
      /\ w.depth \in Nat /\ d \in Nat
  <2>1. w.depth \in Nat
    BY <1>4, BusyParts, Zenon
  <2>2. b \in 0 .. MaxChar + 1 /\ b + 1 \in 0 .. MaxChar + 1 /\ b <= b + 1 /\ N \in Nat
    BY <1>7, RadixAssumption DEF Bkt
  <2>3. lo \in 0 .. N /\ hi \in 0 .. N /\ lo <= hi
    BY <1>3, <1>4, <2>2 DEF LevelSet
  <2> QED BY <1>3, <1>4, <2>1, <2>2, <2>3
<1> DEFINE C == Cells(lo, hi)
<1>9. C \subseteq Position
  BY <1>8, RadixAssumption DEF Cells, Position
<1>10. Swaps(JobClaims, JobClaims', {}, {})
  BY <1>1 DEF Swaps, JobClaims
<1>11. ASSUME hi > lo
       PROVE  Shuffled(arr[0], goal, C) /\ Common(C, d)
  <2>1. x \in WorkerClaims(thr[t], t)
    BY <1>2, <1>7, <1>11 DEF Swaps
  <2> QED BY <1>6, <2>1, BucketIsClaimed
<1>12. CASE hi = lo /\ thr' = [thr EXCEPT ![t] = w1] /\ arr' = arr
  <2>1. Types'
    BY <1>1, <1>7, <1>12 DEF Types
  <2>2. Swaps(WorkerClaims(thr[t], t), WorkerClaims(w1, t), {}, {})
    BY <1>2, <1>7, <1>8, <1>12 DEF Swaps
  <2>3. Swaps(Claims, Claims', {} \cup {}, {} \cup {})
    BY <1>1, <1>10, <1>12, <2>2, ClaimsChange
  <2>4. SameOutside(arr, arr', {}) /\ Replaces({}, {}, arr') /\ {} \cup {} = {}
    BY <1>12 DEF SameOutside, Replaces, Sound, Disjoint
  <2> QED BY <1>1, <2>1, <2>3, <2>4, StepByClaims
<1>13. CASE hi > lo /\ thr' = [thr EXCEPT ![t] = w1] /\ arr' \in InsSort(arr, lo, hi, d)
  <2>1. ChangedIn(arr, arr', C) /\ \A p \in C : arr'[0][p] = goal[p]
    BY <1>1, <1>8, <1>9, <1>11, <1>13, InsSortResult
  <2>2. Types'
    <3>1. ArrOK(arr')
      BY <2>1 DEF ChangedIn
    <3> QED BY <1>1, <1>7, <1>13, <3>1 DEF Types
  <2>3. Swaps(WorkerClaims(thr[t], t), WorkerClaims(w1, t), {x}, {})
    BY <1>2, <1>7, <1>13
  <2>4. Swaps(Claims, Claims', {} \cup {x}, {} \cup {})
    BY <1>1, <1>10, <1>13, <2>3, ClaimsChange
  <2>5. SameOutside(arr, arr', {} \cup {x})
    BY <1>6, <2>1, ChangedSame
  <2>6. Replaces({} \cup {}, {} \cup {x}, arr')
    <3>1. Replaces({}, {x}, arr')
      BY <1>6, <2>1, NothingReplaces
    <3> QED BY <3>1
  <2> QED BY <1>1, <2>2, <2>4, <2>5, <2>6, StepByClaims
<1>14. CASE ~ (hi = lo) /\ thr' = [thr EXCEPT ![t] = w2] /\ arr' \in Grouped(arr, lo, hi, d)
  <2> DEFINE m == Level(arr, lo, hi, d)
             Q == LevelClaims(w2, t, n + 1)
  <2>1. hi > lo
    BY <1>8, <1>14
  <2>2. ChangedIn(arr, arr', C) /\ LevelFits(m, arr'[0], C, d)
    BY <1>1, <1>8, <1>9, <1>11, <1>14, <2>1, NewLevel
  <2> HIDE DEF m
  <2>3. /\ w2 \in Busy /\ w2.depth = w.depth /\ w2.stack[n + 1] = m
        /\ Swaps(WorkerClaims(w1, t), WorkerClaims(w2, t), {}, Q)
    <3>1. m \in LevelSet
      BY <2>2 DEF LevelFits
    <3> QED BY <1>7, <3>1, PushLevel DEF w2, m
  <2>4. Types'
    <3>1. ArrOK(arr')
      BY <2>2 DEF ChangedIn
    <3> QED BY <1>1, <1>14, <2>3, <3>1 DEF Types
  <2>5. Replaces(Q, {x}, arr')
    <3>1. LevelFits(w2.stack[n + 1], arr'[0], x.cells, d) /\ x.cells \subseteq Position
      BY <1>6, <1>9, <2>2, <2>3
    <3>2. n + 1 \in Nat /\ w2.depth \in Nat /\ w2.depth + (n + 1) = d + 1
      BY <1>3, <1>4, <1>8, <2>3
    <3> QED BY <1>8, <3>1, <3>2, LevelReplaces
  <2> HIDE DEF Q
  <2>6. Swaps(WorkerClaims(thr[t], t), WorkerClaims(w2, t), {x}, Q)
    BY <1>2, <1>7, <2>1, <2>3, SwapsTwice
  <2>7. Swaps(Claims, Claims', {} \cup {x}, {} \cup Q)
    BY <1>1, <1>10, <1>14, <2>6, ClaimsChange
  <2>8. SameOutside(arr, arr', {} \cup {x})
    BY <1>6, <2>2, ChangedSame
  <2>9. Replaces({} \cup Q, {} \cup {x}, arr')
    BY <2>5
  <2> QED BY <1>1, <2>4, <2>7, <2>8, <2>9, StepByClaims
<1> QED BY <1>4, <1>12, <1>13, <1>14

\* Sharing leaves the oldest level to jobs.
LEMMA ShareLevel ==
  ASSUME NEW w \in Busy, NEW t, NEW k, k = w.front + 1, w.front < Len(w.stack)
  PROVE  /\ Shared(w, k, MaxChar, FALSE) \in Busy
         /\ Swaps(WorkerClaims(w, t), WorkerClaims(Shared(w, k, MaxChar, FALSE), t),
                  LevelClaims(w, t, k), {})
<1> PICK w1, c : w1 = Shared(w, k, MaxChar, c) /\ c = FALSE
  OBVIOUS
<1>0. w.busy /\ Parts(w, w.busy, w.depth, w.front, w.stack, w.check)
  BY BusyParts, Zenon
<1>1. /\ w.stack \in Seq(LevelSet) /\ w.front \in Nat /\ w.depth \in Nat /\ k \in Nat
      /\ k \in DOMAIN w.stack /\ MaxChar \in Nat /\ MaxChar \in Bkt
  <2>1. w.stack \in Seq(LevelSet) /\ w.front \in Nat /\ w.depth \in Nat
    BY BusyParts, Zenon
  <2> QED BY <2>1, RadixAssumption DEF Bkt
<1> DEFINE s == [w.stack EXCEPT ![k].idx = MaxChar]
           m == [w.stack[k] EXCEPT !.idx = MaxChar]
<1>2. w.stack[k] \in LevelSet
  BY <1>1
<1>3. m \in LevelSet /\ Left(m) = {}
  <2>1. m.idx = MaxChar /\ m.bkt = w.stack[k].bkt
    BY <1>2 DEF LevelSet
  <2>2. m \in LevelSet
    BY <1>1, <1>2 DEF LevelSet
  <2> HIDE DEF m
  <2>3. Left(m) = {}
    BY <1>1, <2>1 DEF Left
  <2> QED BY <2>2, <2>3
<1>4. s = [w.stack EXCEPT ![k] = m]
  BY <1>1
<1> HIDE DEF m
<1>5. /\ s \in Seq(LevelSet) /\ Len(s) = Len(w.stack) /\ DOMAIN s = DOMAIN w.stack
      /\ \A i \in DOMAIN s : (i = k => s[i] = m) /\ (i # k => s[i] = w.stack[i])
  BY <1>1, <1>3, <1>4
<1>6. Parts(w1, w.busy, w.depth, w.front + 1, s, c)
  BY <1>0, SharedParts, Zenon
<1> HIDE DEF s
<1>7. w1.busy /\ w1.depth = w.depth /\ w1.front = w.front + 1 /\ w1.stack = s
  <2>1. Parts(w1, w.busy, w.depth, k, s, c)
    BY <1>6, Zenon
  <2>2. w1.busy = w.busy /\ w1.depth = w.depth /\ w1.front = k /\ w1.stack = s
    BY <2>1, PartsAre
  <2>3. w1.busy
    BY <1>0, <2>2, Zenon
  <2> QED BY <2>2, <2>3, Zenon
<1>8. w1 \in Busy
  <2>1. w.busy = TRUE
    BY <1>0, Zenon
  <2>2. w.front + 1 <= Len(s) /\ w.front + 1 \in Nat
    BY <1>1, <1>5
  <2>3. c \in BOOLEAN
    OBVIOUS
  <2> QED BY <1>1, <1>5, <1>6, <2>1, <2>2, <2>3, BusyMade, Zenon
<1>9. Live(w) = Live(w1) \cup {k} /\ k \notin Live(w1)
  BY <1>1, <1>5, <1>7 DEF Live
<1>10. \A i \in Live(w1) : LevelClaims(w1, t, i) = LevelClaims(w, t, i)
  BY <1>5, <1>7, <1>9 DEF LevelClaims, BucketClaim, Live
<1>11. WorkerClaims(w, t) = UNION {LevelClaims(w, t, i) : i \in Live(w)}
  BY <1>0 DEF WorkerClaims
<1>12. WorkerClaims(w1, t) = UNION {LevelClaims(w1, t, i) : i \in Live(w1)}
  BY <1>7 DEF WorkerClaims
<1>13. LevelClaims(w, t, k) \subseteq WorkerClaims(w, t)
  BY <1>9, <1>11
<1>14. ASSUME NEW z \in WorkerClaims(w1, t)
       PROVE  z \in WorkerClaims(w, t) /\ z \notin LevelClaims(w, t, k)
  <2>1. PICK i \in Live(w1) : z \in LevelClaims(w, t, i)
    BY <1>10, <1>12, <1>14
  <2>2. ASSUME z \in LevelClaims(w, t, k) PROVE FALSE
    <3>1. PICK b : z = BucketClaim(w, t, i, b)
      BY <2>1 DEF LevelClaims
    <3>2. PICK e : z = BucketClaim(w, t, k, e)
      BY <2>2 DEF LevelClaims
    <3>3. z.id[2][2] = i
      BY <3>1 DEF BucketClaim
    <3>4. z.id[2][2] = k
      BY <3>2 DEF BucketClaim
    <3> QED BY <1>9, <3>3, <3>4
  <2> QED BY <1>9, <1>11, <2>1, <2>2
<1>15. ASSUME NEW z \in WorkerClaims(w, t), z \notin LevelClaims(w, t, k)
       PROVE  z \in WorkerClaims(w1, t)
  <2>1. PICK i \in Live(w) : z \in LevelClaims(w, t, i)
    BY <1>11
  <2>2. i \in Live(w1)
    BY <1>9, <1>15, <2>1
  <2> QED BY <1>10, <1>12, <2>1, <2>2
<1>16. Swaps(WorkerClaims(w, t), WorkerClaims(w1, t), LevelClaims(w, t, k), {})
  BY <1>13, <1>14, <1>15 DEF Swaps
<1> QED BY <1>8, <1>16

\* The jobs a level becomes claim what the level claimed, one character less
\* of it to be in common.
GivenJobs(w, k, l) ==
  {JobOf(l.bkt[b], l.bkt[b + 1], w.depth + (k - 1), 0, FALSE) : b \in Left(l)}

IsGiven(j, l, b, d) == j = JobOf(l.bkt[b], l.bkt[b + 1], d, 0, FALSE)

LEMMA GivenJob ==
  ASSUME NEW l \in LevelSet, NEW b \in Left(l), NEW d \in Nat,
         NEW j, IsGiven(j, l, b, d)
  PROVE  /\ j \in JobSet /\ JobClaim(j).cells = BktCells(l, b) /\ JobClaim(j).flip = 0
         /\ JobClaim(j).depth = d
<1>2. MaxChar \in Nat /\ N \in Nat
  BY RadixAssumption
<1>3. b \in 0 .. MaxChar + 1 /\ b + 1 \in 0 .. MaxChar + 1 /\ l.bkt[b + 1] > l.bkt[b]
  BY <1>2 DEF LevelSet, Left, Bkt
<1>4. l.bkt[b] \in 0 .. N /\ l.bkt[b + 1] \in 0 .. N
  BY <1>3 DEF LevelSet
<1> QED BY <1>2, <1>3, <1>4 DEF IsGiven, JobOf, JobSet, JobClaim, BktCells

LEMMA GivenReplace ==
  ASSUME IInv, NEW t \in Thread, NEW w \in Busy, w = thr[t], NEW k \in Nat \ {0}, NEW l \in LevelSet,
         l = w.stack[k], LevelClaims(w, t, k) \subseteq Claims
  PROVE  /\ GivenJobs(w, k, l) \subseteq JobSet
         /\ Replaces({JobClaim(i) : i \in GivenJobs(w, k, l)}, LevelClaims(w, t, k), arr)
<1> DEFINE J == GivenJobs(w, k, l)
           Q == {JobClaim(i) : i \in J}
           R == LevelClaims(w, t, k)
           D == w.depth + (k - 1)
<1>1. \A i \in J : \E b \in Left(l) : i = JobOf(l.bkt[b], l.bkt[b + 1], D, 0, FALSE)
  BY DEF GivenJobs
<1>2. \A b \in Left(l) : JobOf(l.bkt[b], l.bkt[b + 1], D, 0, FALSE) \in J
  BY DEF GivenJobs
<1>3. D \in Nat /\ w.depth + k = D + 1
  <2>1. w.depth \in Nat
    BY BusyParts, Zenon
  <2> QED BY <2>1
<1> HIDE DEF J, D
<1>4. ASSUME NEW i \in J
      PROVE  \E b \in Left(l) : /\ i = JobOf(l.bkt[b], l.bkt[b + 1], D, 0, FALSE)
                                /\ i \in JobSet /\ JobClaim(i).cells = BktCells(l, b)
                                /\ JobClaim(i).flip = 0 /\ JobClaim(i).depth = D
  <2>1. PICK b \in Left(l) : i = JobOf(l.bkt[b], l.bkt[b + 1], D, 0, FALSE)
    BY <1>1
  <2>2. i \in JobSet /\ JobClaim(i).cells = BktCells(l, b) /\ JobClaim(i).flip = 0 /\ JobClaim(i).depth = D
    <3>1. IsGiven(i, l, b, D)
      BY <2>1 DEF IsGiven
    <3> QED BY <1>3, <3>1, GivenJob
  <2> QED BY <2>1, <2>2, Zenon
<1>5. ASSUME NEW b \in Left(l)
      PROVE  /\ BucketClaim(w, t, k, b) \in R
             /\ BucketClaim(w, t, k, b).cells = BktCells(l, b)
             /\ BktCells(l, b) \subseteq Position
             /\ Shuffled(arr[0], goal, BktCells(l, b)) /\ Common(BktCells(l, b), D)
  <2> DEFINE x == BucketClaim(w, t, k, b)
  <2>1. x \in R /\ x.cells = BktCells(l, b) /\ x.flip = 0 /\ x.depth = D + 1
    BY <1>3 DEF LevelClaims, BucketClaim, BktCells
  <2> HIDE DEF x
  <2>2. ClaimOK(x, arr)
    BY <2>1 DEF IInv, ClaimsOK, Sound
  <2>3. x.cells \subseteq Position /\ Shuffled(arr[0], goal, x.cells) /\ Common(x.cells, D + 1)
    BY <2>1, <2>2 DEF ClaimOK
  <2>4. Common(x.cells, D)
    BY <1>3, <2>3, CommonLess
  <2> QED BY <2>1, <2>3, <2>4 DEF x
<1>6. Sound(Q, arr)
  <2> SUFFICES ASSUME NEW i \in J PROVE ClaimOK(JobClaim(i), arr)
    BY DEF Sound
  <2>1. PICK b \in Left(l) : /\ JobClaim(i).cells = BktCells(l, b)
                             /\ JobClaim(i).flip = 0 /\ JobClaim(i).depth = D
    BY <1>4
  <2> QED BY <1>5, <2>1 DEF ClaimOK
<1>7. Disjoint(Q)
  <2> SUFFICES ASSUME NEW i \in J, NEW j \in J, JobClaim(i) # JobClaim(j)
               PROVE  JobClaim(i).cells \cap JobClaim(j).cells = {}
    BY DEF Disjoint
  <2>1. PICK b \in Left(l) : /\ i = JobOf(l.bkt[b], l.bkt[b + 1], D, 0, FALSE)
                             /\ JobClaim(i).cells = BktCells(l, b)
    BY <1>4
  <2>2. PICK c \in Left(l) : /\ j = JobOf(l.bkt[c], l.bkt[c + 1], D, 0, FALSE)
                             /\ JobClaim(j).cells = BktCells(l, c)
    BY <1>4
  <2>3. b # c
    BY <2>1, <2>2
  <2>4. BktCells(l, b) \cap BktCells(l, c) = {}
    BY <2>3, LevelDisjoint
  <2> QED BY <2>1, <2>2, <2>4
<1>8. \A y \in Q : \E x \in R : y.cells \subseteq x.cells
  <2> SUFFICES ASSUME NEW i \in J PROVE \E x \in R : JobClaim(i).cells \subseteq x.cells
    OBVIOUS
  <2>1. PICK b \in Left(l) : JobClaim(i).cells = BktCells(l, b)
    BY <1>4
  <2> QED BY <1>5, <2>1
<1>9. \A x \in R : \A p \in x.cells : (\A y \in Q : p \notin y.cells) => arr[0][p] = goal[p]
  <2> SUFFICES ASSUME NEW x \in R, NEW p \in x.cells PROVE \E y \in Q : p \in y.cells
    OBVIOUS
  <2>1. PICK b \in Left(l) : x = BucketClaim(w, t, k, b)
    BY DEF LevelClaims
  <2> DEFINE i == JobOf(l.bkt[b], l.bkt[b + 1], D, 0, FALSE)
  <2>2. i \in J
    BY <1>2
  <2>3. JobClaim(i).cells = BktCells(l, b)
    BY DEF JobClaim, JobOf, BktCells
  <2> HIDE DEF i
  <2>4. p \in JobClaim(i).cells
    BY <1>5, <2>1, <2>3
  <2> QED BY <2>2, <2>4
<1>10. J \subseteq JobSet
  BY <1>4
<1> QED BY <1>6, <1>7, <1>8, <1>9, <1>10 DEF Replaces, J

\* has_idle() gives the oldest level away.
LEMMA ShareIInv ==
  ASSUME IInv, NEW t \in Thread, Share(t)
  PROVE  IInv'
<1>1. /\ Types /\ ArrOK(arr) /\ thr \in [Thread -> {Idle} \cup Busy] /\ arr' = arr
      /\ goal' = goal /\ keychars' = keychars /\ threshold' = threshold
  BY DEF IInv, Types, Share, setup
<1>2. PICK w, k, l : w = thr[t] /\ k = w.front + 1 /\ l = w.stack[k]
  OBVIOUS
<1>3. w.busy /\ Len(w.stack) > w.front
  BY <1>2 DEF Share, InLoop
<1>4. w \in Busy
  <2>1. w # Idle
    BY <1>3 DEF Idle
  <2> QED BY <1>1, <1>2, <2>1
<1>5. /\ w.front \in Nat /\ k \in Nat \ {0} /\ l \in LevelSet /\ w.front < Len(w.stack)
      /\ w.front = k - 1 /\ k \in Live(w)
  <2>1. w.front \in Nat /\ w.stack \in Seq(LevelSet)
    BY <1>4, BusyParts, Zenon
  <2> QED BY <1>2, <1>3, <2>1 DEF Live
<1> DEFINE w1 == Shared(w, k, MaxChar, FALSE)
           J == GivenJobs(w, k, l)
           Q == {JobClaim(i) : i \in J}
           R == LevelClaims(w, t, k)
<1>6. thr' = [thr EXCEPT ![t] = w1]
  <2> PICK c : c = FALSE
    OBVIOUS
  <2> DEFINE S == {Idle} \cup Busy
  <2> HIDE DEF S
  <2>1. thr \in [Thread -> S]
    BY <1>1 DEF S
  <2>2. [thr EXCEPT ![t].stack[k].idx = MaxChar, ![t].front = @ + 1, ![t].check = c]
          = [thr EXCEPT ![t] = Shared(thr[t], k, MaxChar, c)]
    BY <2>1 DEF Shared
  <2>3. thr' = [thr EXCEPT ![t].stack[k].idx = MaxChar, ![t].front = @ + 1, ![t].check = c]
    BY <1>2 DEF Share
  <2> QED BY <1>2, <2>2, <2>3
<1>7. jobs' = jobs \cup J
  BY <1>2, <1>5 DEF Share, Given, GivenJobs
<1>8. w1 \in Busy /\ Swaps(WorkerClaims(w, t), WorkerClaims(w1, t), R, {})
  BY <1>2, <1>4, <1>5, ShareLevel
<1> HIDE DEF w1
<1>9. R \subseteq Claims
  <2>1. R \subseteq WorkerClaims(thr[t], t)
    BY <1>2, <1>8 DEF Swaps
  <2> QED BY <2>1 DEF Claims
<1>10. J \subseteq JobSet /\ Replaces(Q, R, arr')
  BY <1>1, <1>2, <1>4, <1>5, <1>9, GivenReplace
<1> HIDE DEF J
<1>11. Swaps(JobClaims, JobClaims', {}, Q)
  <2>1. JobClaims' = {JobClaim(i) : i \in jobs'}
    BY DEF JobClaims
  <2> QED BY <1>7, <2>1 DEF JobClaims, Swaps
<1>12. Types'
  BY <1>1, <1>6, <1>7, <1>8, <1>10 DEF Types
<1> HIDE DEF Q, R
<1>13. Swaps(Claims, Claims', {} \cup R, Q \cup {})
  <2>1. Swaps(WorkerClaims(thr[t], t), WorkerClaims(w1, t), R, {})
    BY <1>2, <1>8
  <2> QED BY <1>1, <1>6, <1>11, <2>1, ClaimsChange
<1>14. SameOutside(arr, arr', {} \cup R) /\ Replaces(Q \cup {}, {} \cup R, arr')
  BY <1>1, <1>10 DEF SameOutside
<1> QED BY <1>1, <1>12, <1>13, <1>14, StepByClaims

\* A level that has started all its buckets claims nothing.
LEMMA NothingLeft ==
  ASSUME NEW w, NEW t, NEW k, w.stack[k].idx = MaxChar
  PROVE  LevelClaims(w, t, k) = {}
<1>1. Left(w.stack[k]) = {}
  BY RadixAssumption DEF Left
<1> QED BY <1>1 DEF LevelClaims

\* Such a level can be dropped, or the worker be done when it is the last.
LEMMA PopClaims ==
  ASSUME NEW w \in Busy, NEW t, NEW n, n = Len(w.stack), n > 0, w.stack[n].idx = MaxChar
  PROVE  /\ n - 1 > w.front =>
              /\ Popped(w, Front(w.stack), FALSE) \in Busy
              /\ WorkerClaims(Popped(w, Front(w.stack), FALSE), t) = WorkerClaims(w, t)
         /\ ~ (n - 1 > w.front) => WorkerClaims(w, t) = {}
<1>0. w.busy /\ Parts(w, w.busy, w.depth, w.front, w.stack, w.check)
  BY BusyParts, Zenon
<1>1. w.stack \in Seq(LevelSet) /\ w.front \in Nat /\ w.depth \in Nat /\ n \in Nat
  <2>1. w.stack \in Seq(LevelSet) /\ w.front \in Nat /\ w.depth \in Nat
    BY BusyParts, Zenon
  <2> QED BY <2>1
<1>2. WorkerClaims(w, t) = UNION {LevelClaims(w, t, i) : i \in Live(w)}
  BY <1>0 DEF WorkerClaims
<1>3. LevelClaims(w, t, n) = {}
  BY NothingLeft
<1>4. CASE n - 1 > w.front
  <2> PICK w1, c : w1 = Popped(w, Front(w.stack), c) /\ c = FALSE
    OBVIOUS
  <2> DEFINE s == Front(w.stack)
  <2>1. s \in Seq(LevelSet) /\ Len(s) = n - 1 /\ \A i \in 1 .. n - 1 : s[i] = w.stack[i]
    BY <1>1 DEF Front
  <2> HIDE DEF s
  <2>2. Parts(w1, w.busy, w.depth, w.front, s, c)
    BY <1>0, PoppedParts, Zenon DEF s
  <2>3. w1.busy = w.busy /\ w1.depth = w.depth /\ w1.front = w.front /\ w1.stack = s
    BY <2>2, PartsAre
  <2>4. w1.busy
    BY <1>0, <2>3, Zenon
  <2>5. w1 \in Busy
    <3>1. w.busy = TRUE
      BY <1>0, Zenon
    <3>2. w.front <= Len(s)
      BY <1>1, <1>4, <2>1
    <3>3. c \in BOOLEAN
      OBVIOUS
    <3> QED BY <1>1, <2>1, <2>2, <3>1, <3>2, <3>3, BusyMade, Zenon
  <2>6. Live(w) = Live(w1) \cup {n}
    BY <1>1, <1>4, <2>1, <2>3 DEF Live
  <2>7. \A i \in Live(w1) : LevelClaims(w1, t, i) = LevelClaims(w, t, i)
    BY <2>1, <2>3 DEF LevelClaims, BucketClaim, Live
  <2>8. WorkerClaims(w1, t) = UNION {LevelClaims(w1, t, i) : i \in Live(w1)}
    BY <2>4 DEF WorkerClaims
  <2>9. WorkerClaims(w1, t) = WorkerClaims(w, t)
    <3>1. ASSUME NEW z \in WorkerClaims(w1, t) PROVE z \in WorkerClaims(w, t)
      <4>1. PICK i \in Live(w1) : z \in LevelClaims(w1, t, i)
        BY <2>8, <3>1
      <4> QED BY <1>2, <2>6, <2>7, <4>1
    <3>2. ASSUME NEW z \in WorkerClaims(w, t) PROVE z \in WorkerClaims(w1, t)
      <4>1. PICK i \in Live(w) : z \in LevelClaims(w, t, i)
        BY <1>2, <3>2
      <4>2. i \in Live(w1)
        BY <1>3, <2>6, <4>1
      <4> QED BY <2>7, <2>8, <4>1, <4>2
    <3> QED BY <3>1, <3>2
  <2> QED BY <1>4, <2>5, <2>9
<1>5. CASE ~ (n - 1 > w.front)
  <2>1. \A i \in Live(w) : i = n
    BY <1>1, <1>5 DEF Live
  <2>2. WorkerClaims(w, t) = {}
    BY <1>2, <1>3, <2>1
  <2> QED BY <1>5, <2>2
<1> QED BY <1>4, <1>5

\* The newest level ends, or the job.
LEMMA PopLevelIInv ==
  ASSUME IInv, NEW t \in Thread, PopLevel(t)
  PROVE  IInv'
<1>1. /\ Types /\ thr \in [Thread -> {Idle} \cup Busy] /\ arr' = arr /\ jobs' = jobs
      /\ goal' = goal /\ keychars' = keychars /\ threshold' = threshold
  BY DEF IInv, Types, PopLevel, setup
<1>2. PICK w, n : w = thr[t] /\ n = Len(w.stack)
  OBVIOUS
<1>3. w.busy /\ w.stack # <<>> /\ Last(w.stack).idx = MaxChar
  BY <1>2 DEF PopLevel
<1>4. w \in Busy
  <2>1. w # Idle
    BY <1>3 DEF Idle
  <2> QED BY <1>1, <1>2, <2>1
<1>5. n > 0 /\ w.stack[n].idx = MaxChar
  <2>1. w.stack \in Seq(LevelSet)
    BY <1>4, BusyParts, Zenon
  <2> QED BY <1>2, <1>3, <2>1 DEF Last
<1> DEFINE w1 == IF n - 1 > w.front THEN Popped(w, Front(w.stack), FALSE) ELSE Idle
<1>6. thr' = [thr EXCEPT ![t] = w1]
  BY <1>1, <1>2 DEF PopLevel, Popped
<1>7. w1 \in {Idle} \cup Busy /\ WorkerClaims(w1, t) = WorkerClaims(w, t)
  <2>1. WorkerClaims(Idle, t) = {}
    BY DEF WorkerClaims, Idle
  <2> QED BY <1>2, <1>4, <1>5, <2>1, PopClaims
<1> HIDE DEF w1
<1>8. Types'
  BY <1>1, <1>6, <1>7 DEF Types
<1>9. Swaps(WorkerClaims(thr[t], t), WorkerClaims(w1, t), {}, {})
  BY <1>2, <1>7 DEF Swaps
<1>10. Swaps(JobClaims, JobClaims', {}, {})
  BY <1>1 DEF Swaps, JobClaims
<1>11. Swaps(Claims, Claims', {} \cup {}, {} \cup {})
  BY <1>1, <1>6, <1>9, <1>10, ClaimsChange
<1>12. SameOutside(arr, arr', {}) /\ Replaces({}, {}, arr') /\ {} \cup {} = {}
  BY <1>1 DEF SameOutside, Replaces, Sound, Disjoint
<1> QED BY <1>1, <1>8, <1>11, <1>12, StepByClaims

---------------------------------------------------------------------------
(* The invariant *)

\* A rearrangement can be undone.
LEMMA ShuffledBack ==
  ASSUME NEW x, NEW g, NEW C, Shuffled(x, g, C)
  PROVE  Shuffled(g, x, C)
<1>1. PICK pi \in Bijection(C, C) : \A p \in C : x[p] = g[pi[p]]
  BY DEF Shuffled, Moved
<1> DEFINE rho == Inverse(pi, C, C)
<1>2. rho \in Bijection(C, C) /\ Inverse(rho, C, C) = pi
  BY <1>1, Fun_BijInverse
<1>3. \A p \in C : Inverse(rho, C, C)[rho[p]] = p /\ rho[p] \in C
  <2>1. \A p \in C : Inverse(rho, C, C)[rho[p]] = p
    BY <1>2, Fun_BijInverse
  <2>2. \A p \in C : rho[p] \in C
    BY <1>2 DEF Bijection, Injection
  <2> QED BY <2>1, <2>2
<1> HIDE DEF rho
<1>4. \A p \in C : g[p] = x[rho[p]]
  BY <1>1, <1>2, <1>3
<1>5. Moved(g, x, C, rho)
  BY <1>2, <1>4 DEF Moved
<1> QED BY <1>5 DEF Shuffled

\* At first there is one job, on everything.
LEMMA InitIInv ==
  ASSUME Init
  PROVE  IInv
<1>0. N \in Nat /\ N > 0 /\ Cells(0, N) = Position
  BY RadixAssumption DEF Cells, Position
<1>1. PICK in \in [Position -> Strings] :
        arr = [f \in 0 .. 1 |-> [p \in Position |-> IF f = 0 THEN in[p] ELSE <<>>]]
  BY DEF Init
<1>2. ArrOK(arr) /\ arr[0] \in [Position -> Strings]
  BY <1>1 DEF ArrOK
<1>3. PICK pi \in Bijection(Position, Position) :
        goal = [p \in Position |-> IF p \in Position THEN arr[0][pi[p]] ELSE arr[0][p]]
  BY DEF Init, Rearranged
<1>4. \A p \in Position : goal[p] = arr[0][pi[p]] /\ pi[p] \in Position
  BY <1>3 DEF Bijection, Injection
<1>5. GoalOK
  <2>1. goal \in [Position -> Strings]
    BY <1>2, <1>3, <1>4
  <2> QED BY <2>1 DEF GoalOK, Init
<1>6. Shuffled(arr[0], goal, Position)
  <2>1. Moved(goal, arr[0], Position, pi)
    BY <1>4 DEF Moved
  <2>2. Shuffled(goal, arr[0], Position)
    BY <2>1 DEF Shuffled
  <2> QED BY <2>2, ShuffledBack
<1>7. Common(Position, 0)
  <2>1. \A p \in Position : 0 <= Len(goal[p])
    <3> TAKE p \in Position
    <3>1. Len(goal[p]) \in Nat
      BY <1>5, GoalString DEF String
    <3> QED BY <3>1
  <2> QED BY <2>1 DEF Common, Alike
<1> DEFINE j == Enqueue(0, N, 0, 0)
<1>8. j \in JobSet
  BY <1>0 DEF Enqueue, JobOf, JobSet
<1>9. JobClaim(j).cells = Position /\ JobClaim(j).flip = 0 /\ JobClaim(j).depth = 0
  BY <1>0 DEF Enqueue, JobOf, JobClaim
<1>10. jobs = {j} /\ thr = [t \in Thread |-> Idle]
  BY DEF Init
<1> HIDE DEF j
<1>11. Types
  BY <1>2, <1>8, <1>10, RadixAssumption DEF Types, Init
<1>12. Claims = {JobClaim(j)}
  <2>1. \A t \in Thread : WorkerClaims(thr[t], t) = {}
    BY <1>10 DEF WorkerClaims, Idle
  <2>2. JobClaims = {JobClaim(j)}
    BY <1>10 DEF JobClaims
  <2> QED BY <2>1, <2>2 DEF Claims
<1>13. ClaimsOK({JobClaim(j)}, arr)
  BY <1>6, <1>7, <1>9 DEF ClaimsOK, Sound, ClaimOK, Disjoint, Settled
<1> QED BY <1>5, <1>11, <1>12, <1>13 DEF IInv

\* No step breaks it.
LEMMA StepIInv ==
  ASSUME IInv, [Next]_vars
  PROVE  IInv'
<1>1. CASE UNCHANGED vars
  BY <1>1 DEF vars, setup, IInv, Types, GoalOK, ClaimsOK, Sound, ClaimOK, Common, Disjoint, Settled,
              Claims, JobClaims
<1>2. ASSUME NEW t \in Thread, Work(t) \/ Share(t) PROVE IInv'
  BY <1>2, RadixStepIInv, StartSmallIInv, NextBucketIInv, PopLevelIInv, ShareIInv DEF Work
<1> QED BY <1>1, <1>2 DEF Next, Returned

\* The invariant the other theorems follow from: jobs and buckets that are
\* not started claim cells, no two the same; a claim's cells hold the strings
\* of the result for them, behind a prefix they share; what no claim has is
\* the result.
THEOREM RadixInvariant == Spec => []IInv
<1>1. Init => IInv
  BY InitIInv
<1>2. IInv /\ [Next]_vars => IInv'
  BY StepIInv
<1> QED BY <1>1, <1>2, PTL DEF Spec

---------------------------------------------------------------------------
(* What it implies *)

\* The arrays hold strings, and jobs, levels and pop_front are in bounds.
THEOREM RadixTypes == Spec => []TypeOK
<1>1. ASSUME IInv PROVE TypeOK
  <2>1. Types
    BY <1>1 DEF IInv
  <2>2. \A j \in jobs : 0 <= j.lo /\ j.lo < j.hi /\ j.hi <= N
    BY <2>1 DEF Types, JobSet
  <2>3. ASSUME NEW t \in Thread, thr[t].busy
        PROVE  /\ thr[t].front \in 0 .. Len(thr[t].stack)
               /\ \A k \in DOMAIN thr[t].stack : thr[t].stack[k].idx \in 0 .. MaxChar
    <3> PICK w : w = thr[t]
      OBVIOUS
    <3>1. w # Idle
      BY <2>3 DEF Idle
    <3>2. w \in Busy
      BY <2>1, <3>1 DEF Types
    <3>3. w.stack \in Seq(LevelSet) /\ w.front \in Nat /\ w.front <= Len(w.stack)
      BY <3>2, BusyParts, Zenon
    <3>4. w.front \in 0 .. Len(w.stack)
      BY <3>3
    <3>5. \A k \in DOMAIN w.stack : w.stack[k].idx \in 0 .. MaxChar
      BY <3>3 DEF LevelSet, Bkt
    <3> QED BY <3>4, <3>5
  <2> QED BY <2>1, <2>2, <2>3 DEF TypeOK, Types, ArrOK
<1> QED BY <1>1, RadixInvariant, PTL

\* Pieces and claims are the same.
LEMMA PieceClaims ==
  ASSUME IInv
  PROVE  /\ \A x \in Pieces : \E z \in Claims : z.cells = x[3] /\ z.id = <<x[1], x[2]>>
         /\ \A x \in Pieces : x = <<x[1], x[2], x[3]>>
         /\ \A z \in Claims : \E x \in Pieces : z.cells = x[3]
<1>1. ASSUME NEW t \in Thread, thr[t].busy
      PROVE  /\ Live(thr[t]) = thr[t].front + 1 .. Len(thr[t].stack)
             /\ WorkerClaims(thr[t], t) = UNION {LevelClaims(thr[t], t, k) : k \in Live(thr[t])}
  <2> PICK w : w = thr[t]
    OBVIOUS
  <2>1. w # Idle
    BY <1>1 DEF Idle
  <2>2. w \in Busy
    BY <2>1 DEF IInv, Types
  <2>3. w.stack \in Seq(LevelSet) /\ w.front \in Nat
    BY <2>2, BusyParts, Zenon
  <2>4. Live(w) = w.front + 1 .. Len(w.stack)
    BY <2>3 DEF Live
  <2>5. WorkerClaims(w, t) = UNION {LevelClaims(w, t, k) : k \in Live(w)}
    BY <1>1 DEF WorkerClaims
  <2> QED BY <2>4, <2>5
<1>2. ASSUME NEW x \in Pieces
      PROVE  /\ x = <<x[1], x[2], x[3]>>
             /\ \E z \in Claims : z.cells = x[3] /\ z.id = <<x[1], x[2]>>
  <2>1. CASE x \in JobPieces
    <3>1. PICK j \in jobs : x = <<"job", j, Cells(j.lo, j.hi)>>
      BY <2>1 DEF JobPieces
    <3>2. JobClaim(j) \in Claims
      BY DEF Claims, JobClaims
    <3>3. x[1] = "job" /\ x[2] = j /\ x[3] = Cells(j.lo, j.hi) /\ x = <<x[1], x[2], x[3]>>
      BY <3>1
    <3> QED BY <3>2, <3>3 DEF JobClaim
  <2>2. CASE x \notin JobPieces
    <3>1. PICK t \in Thread : thr[t].busy /\
            x \in UNION {LevelPieces(t, k) : k \in thr[t].front + 1 .. Len(thr[t].stack)}
      BY <2>2 DEF Pieces
    <3>2. PICK k \in Live(thr[t]) : x \in LevelPieces(t, k)
      BY <1>1, <3>1
    <3>3. PICK b \in Left(thr[t].stack[k]) :
            x = <<"bucket", <<t, k, b>>, Cells(thr[t].stack[k].bkt[b], thr[t].stack[k].bkt[b + 1])>>
      BY <3>2 DEF LevelPieces
    <3>4. BucketClaim(thr[t], t, k, b) \in Claims
      <4>1. BucketClaim(thr[t], t, k, b) \in LevelClaims(thr[t], t, k)
        BY DEF LevelClaims
      <4>2. BucketClaim(thr[t], t, k, b) \in WorkerClaims(thr[t], t)
        BY <1>1, <3>1, <4>1
      <4> QED BY <4>2 DEF Claims
    <3>5. /\ x[1] = "bucket" /\ x[2] = <<t, k, b>> /\ x = <<x[1], x[2], x[3]>>
          /\ x[3] = Cells(thr[t].stack[k].bkt[b], thr[t].stack[k].bkt[b + 1])
      BY <3>3
    <3> QED BY <3>4, <3>5 DEF BucketClaim
  <2> QED BY <2>1, <2>2
<1>3. ASSUME NEW z \in Claims PROVE \E x \in Pieces : z.cells = x[3]
  <2>1. CASE z \in JobClaims
    <3>1. PICK j \in jobs : z = JobClaim(j)
      BY <2>1 DEF JobClaims
    <3>2. <<"job", j, Cells(j.lo, j.hi)>> \in Pieces
      BY DEF Pieces, JobPieces
    <3> QED BY <3>1, <3>2 DEF JobClaim
  <2>2. CASE z \notin JobClaims
    <3>1. PICK t \in Thread : z \in WorkerClaims(thr[t], t)
      BY <2>2 DEF Claims
    <3>2. thr[t].busy
      BY <3>1 DEF WorkerClaims
    <3>3. PICK k \in Live(thr[t]) : z \in LevelClaims(thr[t], t, k)
      BY <1>1, <3>1, <3>2
    <3>4. PICK b \in Left(thr[t].stack[k]) : z = BucketClaim(thr[t], t, k, b)
      BY <3>3 DEF LevelClaims
    <3> DEFINE x == <<"bucket", <<t, k, b>>,
                      Cells(thr[t].stack[k].bkt[b], thr[t].stack[k].bkt[b + 1])>>
    <3>5. x \in LevelPieces(t, k) /\ z.cells = x[3]
      BY <3>4 DEF LevelPieces, BucketClaim
    <3> HIDE DEF x
    <3>6. x \in Pieces
      <4>1. k \in thr[t].front + 1 .. Len(thr[t].stack)
        BY <1>1, <3>2
      <4>2. x \in UNION {LevelPieces(t, i) : i \in thr[t].front + 1 .. Len(thr[t].stack)}
        BY <3>5, <4>1
      <4> QED BY <3>2, <4>2 DEF Pieces
    <3> QED BY <3>5, <3>6
  <2> QED BY <2>1, <2>2
<1> QED BY <1>2, <1>3

\* No string is in two jobs or buckets still to be sorted, whatever is shared.
THEOREM RadixOneOwner == Spec => []OneOwner
<1>1. ASSUME IInv PROVE OneOwner
  <2> SUFFICES ASSUME NEW x \in Pieces, NEW y \in Pieces, x # y PROVE x[3] \cap y[3] = {}
    BY DEF OneOwner
  <2>1. PICK z \in Claims : z.cells = x[3] /\ z.id = <<x[1], x[2]>>
    BY <1>1, PieceClaims
  <2>2. PICK v \in Claims : v.cells = y[3] /\ v.id = <<y[1], y[2]>>
    BY <1>1, PieceClaims
  <2>3. z # v
    <3> SUFFICES ASSUME z = v PROVE FALSE
      OBVIOUS
    <3>1. x[1] = y[1] /\ x[2] = y[2] /\ x[3] = y[3]
      <4>1. <<x[1], x[2]>> = <<y[1], y[2]>>
        BY <2>1, <2>2
      <4> QED BY <2>1, <2>2, <4>1
    <3>2. x = <<x[1], x[2], x[3]>> /\ y = <<y[1], y[2], y[3]>>
      BY <1>1, PieceClaims
    <3> QED BY <3>1, <3>2, Zenon
  <2> QED BY <1>1, <2>1, <2>2, <2>3 DEF IInv, ClaimsOK, Disjoint
<1> QED BY <1>1, RadixInvariant, PTL

\* Whatever nobody will sort again is final and in the output, not the shadow.
THEOREM RadixSettled == Spec => []SettledIsFinal
<1>1. ASSUME IInv PROVE SettledIsFinal
  <2> SUFFICES ASSUME NEW p \in Position, \A x \in Pieces : p \notin x[3]
               PROVE  arr[0][p] = goal[p]
    BY DEF SettledIsFinal
  <2>1. \A z \in Claims : p \notin z.cells
    BY <1>1, PieceClaims
  <2> QED BY <1>1, <2>1 DEF IInv, ClaimsOK, Settled
<1> QED BY <1>1, RadixInvariant, PTL

\* No string is read behind its terminator, and those of a job agree up to
\* the depth it is sorted from.
THEOREM RadixDepth == Spec => []DepthIsCommon
<1>1. ASSUME IInv PROVE DepthIsCommon
  <2> SUFFICES ASSUME NEW j \in jobs, NEW p \in Cells(j.lo, j.hi), NEW q \in Cells(j.lo, j.hi)
               PROVE  /\ j.depth <= Len(arr[j.flip][p])
                      /\ \A d \in 0 .. j.depth - 1 :
                           CharAt(arr[j.flip][p], d) = CharAt(arr[j.flip][q], d)
    BY DEF DepthIsCommon
  <2> DEFINE C == Cells(j.lo, j.hi)
  <2>1. Shuffled(arr[j.flip], goal, C) /\ Common(C, j.depth)
    BY <1>1, JobIsClaimed
  <2>2. PICK pi : Moved(arr[j.flip], goal, C, pi)
    BY <2>1 DEF Shuffled
  <2>3. pi[p] \in C /\ pi[q] \in C /\ arr[j.flip][p] = goal[pi[p]] /\ arr[j.flip][q] = goal[pi[q]]
    BY <2>2 DEF Moved, Bijection, Injection
  <2> QED BY <2>1, <2>3 DEF Common, Alike
<1> QED BY <1>1, RadixInvariant, PTL

\* When nothing is left to do, the output is the result, and so is sorted.
SortedAtEnd == Quiet => (\A p \in Position : arr[0][p] = goal[p]) /\ Sorted(arr[0], Position, 0)

THEOREM RadixSorted == Spec => []SortedAtEnd
<1>1. ASSUME IInv PROVE SortedAtEnd
  <2> SUFFICES ASSUME Quiet
               PROVE  (\A p \in Position : arr[0][p] = goal[p]) /\ Sorted(arr[0], Position, 0)
    BY DEF SortedAtEnd
  <2>1. Claims = {}
    <3>1. \A t \in Thread : WorkerClaims(thr[t], t) = {}
      BY DEF Quiet, WorkerClaims, Idle
    <3>2. JobClaims = {}
      BY DEF Quiet, JobClaims
    <3> QED BY <3>1, <3>2 DEF Claims
  <2>2. \A p \in Position : arr[0][p] = goal[p]
    BY <1>1, <2>1 DEF IInv, ClaimsOK, Settled
  <2> QED BY <1>1, <2>2 DEF IInv, GoalOK, Sorted
<1> QED BY <1>1, RadixInvariant, PTL

=============================================================================
