------------------------- MODULE DistributionProofs -------------------------
(***************************************************************************)
(* Proofs about Distribution for every number of strings, parts and        *)
(* buckets: no cell of bkt passes below zero, no slot of the shadow array  *)
(* is written twice, and what distribute_finished() finds is the strings   *)
(* grouped by bucket with the boundaries in bkt[0].                        *)
(*                                                                         *)
(* A cell of the prefix sum is the number of strings Before its window's   *)
(* end (PrefixCount), and while part p distributes, bkt[p][b] is the       *)
(* number of strings before those it has still to move.  So the slot of a  *)
(* string is the number of strings before it in a total order (SlotOf),    *)
(* and the windows of two parts cannot meet.                               *)
(***************************************************************************)
EXTENDS Distribution, FiniteSetTheorems, FunctionTheorems, WellFoundedInduction, TLAPS

\* The sizes that the proofs assume.
SizesOK == N \in Nat \ {0} /\ Parts \in Nat \ {0} /\ BktNum \in Nat \ {0}

Cell == Part \X Bkt

\* String j belongs to part p.
In(j, p) == strB(p) <= j /\ j < strE(p)

\* The strings whose slots come before those of the strings of bucket b that
\* part p has before string x.
Before(p, b, x) ==
  {j \in Position : key[j] < b \/ (key[j] = b /\ (j < strB(p) \/ (x <= j /\ j < strE(p))))}

\* How many strings of bucket b there are in part p.
Here(p, b) == Cardinality({j \in strB(p) .. strE(p) - 1 : key[j] = b})

\* The strings of the bucket and part of some cell of T.
Filling(T) == {j \in Position : \E c \in T : key[j] = c[2] /\ In(j, c[1])}

---------------------------------------------------------------------------
(* Parts *)

\* There are enough parts.
LEMMA PartSize == ASSUME SizesOK PROVE psize \in Nat \ {0} /\ psize * Parts >= N
<1>1. PICK P \in Nat \ {0} : P = Parts
  BY DEF SizesOK
<1>2. PICK x \in Nat : x = (N + P - 1) \div P /\ x * P >= N
  BY DEF SizesOK
<1>3. x # 0
  BY <1>1, <1>2 DEF SizesOK
<1> QED BY <1>1, <1>2, <1>3 DEF psize

\* The parts follow one another and cover the strings; the first begins at 0.
LEMMA PartFacts ==
  ASSUME SizesOK
  PROVE  /\ 0 \in Part /\ strB(0) = 0
         /\ \A p \in Part : /\ strB(p) \in Nat /\ strE(p) \in Nat
                            /\ strB(p) <= strE(p) /\ (strE(p) <= N \/ strE(p) = strB(p))
         /\ \A p, q \in Part : p < q => strE(p) <= strB(q)
         /\ \A j \in Position : \E p \in Part : In(j, p)
<1>1. PICK x \in Nat \ {0}, P \in Nat \ {0}, n \in Nat \ {0} : x = psize /\ P = Parts /\ n = N /\ x * P >= n
  BY PartSize DEF SizesOK
<1>2. \A p \in Part : p \in Nat /\ p < P
  BY <1>1 DEF Part
<1>3. \A p : /\ strB(p) = p * x
             /\ strE(p) = LET e == IF (p + 1) * x < n THEN (p + 1) * x ELSE n
                          IN  IF e < p * x THEN p * x ELSE e
  BY <1>1 DEF strB, strE, Low
<1>4. \A p \in Nat : p * x \in Nat /\ (p + 1) * x = p * x + x
  BY <1>1
<1>5. ASSUME NEW p \in Nat
      PROVE  /\ strB(p) \in Nat /\ strE(p) \in Nat /\ strB(p) <= strE(p)
             /\ strE(p) <= n \/ strE(p) = strB(p)
             /\ strE(p) <= (p + 1) * x
             /\ \A j \in Nat : p * x <= j /\ j < (p + 1) * x /\ j < n => In(j, p)
  <2>1. PICK a \in Nat, b \in Nat : a = p * x /\ b = (p + 1) * x /\ b = a + x
    BY <1>4, <1>5
  <2>2. strB(p) = a /\ strE(p) = LET e == IF b < n THEN b ELSE n IN IF e < a THEN a ELSE e
    BY <1>3, <2>1
  <2>3. PICK e \in Nat : e = strE(p) /\ a <= e /\ (e <= n \/ e = a) /\ e <= b
                         /\ \A j \in Nat : a <= j /\ j < b /\ j < n => j < e
    BY <1>1, <2>1, <2>2
  <2> QED BY <2>1, <2>2, <2>3 DEF In
<1>6. ASSUME NEW p \in Nat, NEW q \in Nat, p < q PROVE (p + 1) * x <= q * x
  <2>1. PICK d \in Nat : q = p + 1 + d
    <3>1. q - (p + 1) \in Nat /\ q = p + 1 + (q - (p + 1))
      BY <1>6
    <3> QED BY <3>1
  <2>2. q * x = (p + 1) * x + d * x /\ d * x \in Nat /\ (p + 1) * x \in Nat
    BY <1>1, <2>1
  <2> QED BY <2>2
<1>7. ASSUME NEW j \in Position PROVE \E p \in Part : In(j, p)
  <2>1. j \in Nat /\ j < n
    BY <1>1 DEF Position
  <2>2. PICK p \in Nat : p = j \div x /\ p * x <= j /\ j < (p + 1) * x
    BY <1>1, <2>1
  <2>3. p < P
    <3>1. SUFFICES ASSUME P <= p PROVE FALSE
      BY <1>1, <2>2
    <3>2. P * x <= p * x
      <4>1. PICK d \in Nat : p = P + d
        <5>1. p - P \in Nat /\ p = P + (p - P)
          BY <1>1, <2>2, <3>1
        <5> QED BY <5>1
      <4>2. p * x = P * x + d * x /\ d * x \in Nat /\ P * x \in Nat
        BY <1>1, <4>1
      <4> QED BY <4>2
    <3>3. P * x = x * P
      BY <1>1
    <3>4. PICK u \in Nat, v \in Nat : u = p * x /\ v = x * P
      BY <1>1, <2>2
    <3> QED BY <1>1, <2>1, <2>2, <3>2, <3>3, <3>4
  <2>4. In(j, p)
    BY <1>5, <2>1, <2>2
  <2>5. p \in Part
    BY <1>1, <2>3 DEF Part
  <2> QED BY <2>4, <2>5
<1>8. 0 \in Part /\ strB(0) = 0
  BY <1>1, <1>3 DEF Part
<1>9. ASSUME NEW p \in Part, NEW q \in Part, p < q PROVE strE(p) <= strB(q)
  <2>1. p \in Nat /\ q \in Nat
    BY <1>2
  <2>2. PICK a \in Nat, b \in Nat, c \in Nat : a = strE(p) /\ b = (p + 1) * x /\ c = q * x
    BY <2>1, <1>4, <1>5
  <2>3. a <= b /\ b <= c /\ strB(q) = c
    BY <1>3, <1>5, <1>6, <1>9, <2>1, <2>2
  <2> QED BY <2>2, <2>3
<1> QED BY <1>1, <1>2, <1>5, <1>7, <1>8, <1>9

\* A string belongs to one part only.
LEMMA OnePart ==
  ASSUME SizesOK, NEW j \in Nat, NEW p \in Part, NEW q \in Part, In(j, p)
  PROVE  /\ In(j, q) => p = q
         /\ j < strE(q) <=> p <= q
         /\ j < strB(q) <=> p < q
         /\ j \in Position
<1>1. p \in Nat /\ q \in Nat
  BY DEF Part
<1>2. PICK a \in Nat, b \in Nat, c \in Nat, d \in Nat :
        /\ a = strB(p) /\ b = strE(p) /\ c = strB(q) /\ d = strE(q)
        /\ a <= j /\ j < b /\ c <= d /\ (b <= N \/ b = a)
  BY PartFacts DEF In
<1>3. (p < q => b <= c) /\ (q < p => d <= a)
  BY <1>2, PartFacts
<1>4. p = q => a = c /\ b = d
  BY <1>2
<1>5. N \in Nat
  BY DEF SizesOK
<1>6. j \in Position
  BY <1>2, <1>5 DEF Position
<1>7. j < d <=> p <= q
  BY <1>1, <1>2, <1>3, <1>4
<1>8. j < c <=> p < q
  BY <1>1, <1>2, <1>3, <1>4
<1>9. c <= j /\ j < d => p = q
  BY <1>1, <1>2, <1>3
<1> QED BY <1>2, <1>6, <1>7, <1>8, <1>9 DEF In

\* Sets of strings are finite.
LEMMA CountFacts ==
  ASSUME SizesOK, NEW S \in SUBSET Position
  PROVE  /\ IsFiniteSet(S) /\ Cardinality(S) \in 0 .. N
         /\ \A T \in SUBSET S : Cardinality(T) <= Cardinality(S)
         /\ \A T \in SUBSET S, j \in S : j \notin T => Cardinality(T) < Cardinality(S)
<1>1. IsFiniteSet(Position) /\ Cardinality(Position) = N
  <2>1. 0 \in Int /\ N - 1 \in Int /\ 0 <= N - 1
    BY DEF SizesOK
  <2> QED BY <2>1, FS_Interval DEF Position, SizesOK
<1>2. IsFiniteSet(S) /\ Cardinality(S) <= N
  BY <1>1, FS_Subset
<1>3. Cardinality(S) \in Nat
  BY <1>2, FS_CardinalityType
<1>4. ASSUME NEW T \in SUBSET S
      PROVE  /\ Cardinality(T) <= Cardinality(S) /\ Cardinality(T) \in Nat
             /\ \A j \in S : j \notin T => Cardinality(T) < Cardinality(S)
  <2>1. /\ IsFiniteSet(T) /\ Cardinality(T) <= Cardinality(S)
        /\ Cardinality(S) = Cardinality(T) => S = T
    BY <1>2, FS_Subset
  <2>2. Cardinality(T) \in Nat
    BY <2>1, FS_CardinalityType
  <2> QED BY <1>3, <2>1, <2>2
<1> QED BY <1>2, <1>3, <1>4 DEF SizesOK

---------------------------------------------------------------------------
(* The prefix sum *)

\* A nonempty set of naturals has a least element.
LEMMA NatLeast ==
  ASSUME NEW T, T \subseteq Nat, T # {}
  PROVE  \E x \in T : \A y \in T : x <= y
<1> DEFINE LT == {p \in Nat \X Nat : p[1] < p[2]}
<1>1. IsWellFoundedOn(LT, Nat)
  BY NatLessThanWellFounded, Zenon DEF OpToRel
<1> HIDE DEF LT
<1>2. PICK x \in T : \A y \in T : ~(<<y, x>> \in LT)
  BY <1>1, WFMin
<1>3. \A y \in T : ~(y < x)
  BY <1>2 DEF LT
<1> QED BY <1>3

\* s gives the sum of the cells of every subset of S.
Folds(S, s) ==
  s = [T \in SUBSET S |->
        IF T = {} THEN 0 ELSE LET c == CHOOSE c \in T : TRUE IN bkt[c[1]][c[2]] + s[T \ {c}]]

\* What has been counted in the cells S is what is there.
Counted(S) ==
  \A c \in S : bkt[c[1]][c[2]] = Cardinality({j \in strB(c[1]) .. strE(c[1]) - 1 : key[j] = c[2]})

\* A cell counts the strings that will fill it.
LEMMA CellCount ==
  ASSUME SizesOK, NEW c \in Cell
  PROVE  {j \in strB(c[1]) .. strE(c[1]) - 1 : key[j] = c[2]} = Filling({c})
<1>1. PICK p \in Part, b \in Bkt : c = <<p, b>>
  BY DEF Cell
<1>2. strB(p) \in Nat /\ strE(p) \in Nat
  BY <1>1, PartFacts
<1>3. \A j : j \in strB(p) .. strE(p) - 1 <=> j \in Nat /\ In(j, p)
  BY <1>2 DEF In
<1>4. \A j \in Nat : In(j, p) => j \in Position
  BY <1>1, OnePart
<1>5. \A j \in Position : j \in Nat
  BY DEF Position, SizesOK
<1>6. Filling({c}) = {j \in Position : key[j] = b /\ In(j, p)}
  BY <1>1 DEF Filling
<1> QED BY <1>1, <1>3, <1>4, <1>5, <1>6

\* Taking a cell out of a set takes out what fills it.
LEMMA CellOut ==
  ASSUME SizesOK, NEW T \in SUBSET Cell, NEW c \in T, Counted(T)
  PROVE  Cardinality(Filling(T)) = bkt[c[1]][c[2]] + Cardinality(Filling(T \ {c}))
<1>1. /\ Filling(T) = Filling({c}) \cup Filling(T \ {c})
      /\ Filling({c}) \in SUBSET Position /\ Filling(T \ {c}) \in SUBSET Position
  BY DEF Filling
<1>2. Filling({c}) \cap Filling(T \ {c}) = {}
  <2>1. SUFFICES ASSUME NEW j \in Position, NEW d \in T \ {c}, key[j] = c[2], In(j, c[1]),
                        key[j] = d[2], In(j, d[1])
                 PROVE  FALSE
    BY DEF Filling
  <2>2. j \in Nat
    BY DEF Position, SizesOK
  <2>3. PICK p \in Part, b \in Bkt : c = <<p, b>>
    BY DEF Cell
  <2>4. PICK q \in Part, e \in Bkt : d = <<q, e>>
    BY DEF Cell
  <2>5. p = q
    BY <2>1, <2>2, <2>3, <2>4, OnePart
  <2> QED BY <2>1, <2>3, <2>4, <2>5
<1>3. bkt[c[1]][c[2]] = Cardinality(Filling({c}))
  BY CellCount DEF Counted
<1>4. PICK A \in SUBSET Position : A = Filling({c})
  BY <1>1
<1>5. PICK B \in SUBSET Position : B = Filling(T \ {c})
  BY <1>1
<1>6. Cardinality(A) \in Nat /\ Cardinality(B) \in Nat /\ IsFiniteSet(A) /\ IsFiniteSet(B)
  BY CountFacts
<1>7. Cardinality(A \cup B) = Cardinality(A) + Cardinality(B) - Cardinality(A \cap B)
  BY <1>6, FS_Union
<1>8. A \cap B = {} /\ Cardinality({}) = 0
  BY <1>2, <1>4, <1>5, FS_EmptySet
<1>9. Cardinality(A \cup B) = Cardinality(A) + Cardinality(B)
  <2>1. PICK a \in Nat, b \in Nat : a = Cardinality(A) /\ b = Cardinality(B)
    BY <1>6
  <2>2. Cardinality(A \cap B) = 0
    BY <1>8
  <2>3. Cardinality(A \cup B) = a + b - 0
    BY <1>7, <2>1, <2>2
  <2> QED BY <2>1, <2>3
<1> QED BY <1>1, <1>3, <1>4, <1>5, <1>9

\* The sums have a solution: the number of strings that fill the cells.
LEMMA FoldsExist ==
  ASSUME SizesOK, NEW S \in SUBSET Cell, Counted(S)
  PROVE  Folds(S, [T \in SUBSET S |-> Cardinality(Filling(T))])
<1> DEFINE g == [T \in SUBSET S |-> Cardinality(Filling(T))]
           Pick(T) == CHOOSE c \in T : TRUE
<1>1. ASSUME NEW T \in SUBSET S
      PROVE  g[T] = IF T = {} THEN 0 ELSE bkt[Pick(T)[1]][Pick(T)[2]] + g[T \ {Pick(T)}]
  <2>1. CASE T = {}
    <3>1. Filling(T) = {}
      BY <2>1 DEF Filling
    <3> QED BY <2>1, <3>1, FS_EmptySet
  <2>2. CASE T # {}
    <3>1. PICK c : c = Pick(T) /\ c \in T
      BY <2>2
    <3>2. Counted(T) /\ T \in SUBSET Cell
      BY DEF Counted
    <3>3. Cardinality(Filling(T)) = bkt[c[1]][c[2]] + Cardinality(Filling(T \ {c}))
      BY <3>1, <3>2, CellOut
    <3>4. T \ {c} \in SUBSET S
      OBVIOUS
    <3> QED BY <2>2, <3>1, <3>3, <3>4
  <2> QED BY <2>1, <2>2
<1>2. g = [T \in SUBSET S |->
            IF T = {} THEN 0 ELSE bkt[Pick(T)[1]][Pick(T)[2]] + g[T \ {Pick(T)}]]
  <2>1. \A h : (\A T \in SUBSET S : g[T] = h[T]) => g = [T \in SUBSET S |-> h[T]]
    OBVIOUS
  <2> QED BY <1>1
<1> QED BY <1>2 DEF Folds

\* It is the only one.
LEMMA FoldsOne ==
  ASSUME SizesOK, NEW S \in SUBSET Cell, Counted(S), NEW s, Folds(S, s),
         IsFiniteSet(S)
  PROVE  s[S] = Cardinality(Filling(S))
<1> DEFINE Bad == {T \in SUBSET S : s[T] # Cardinality(Filling(T))}
           Sizes == {Cardinality(T) : T \in Bad}
<1>1. SUFFICES ASSUME Bad # {} PROVE FALSE
  OBVIOUS
<1>2. \A T \in SUBSET S : IsFiniteSet(T) /\ Cardinality(T) \in Nat
  BY FS_Subset, FS_CardinalityType
<1>3. Sizes \subseteq Nat /\ Sizes # {}
  BY <1>1, <1>2
<1>4. PICK n \in Sizes : \A m \in Sizes : n <= m
  <2> HIDE DEF Sizes
  <2> QED BY <1>3, NatLeast
<1>5. PICK T \in Bad : n = Cardinality(T)
  OBVIOUS
<1>6. T # {}
  <2>1. s[{}] = 0
    BY DEF Folds
  <2>2. Filling({}) = {}
    BY DEF Filling
  <2> QED BY <1>5, <2>1, <2>2, FS_EmptySet
<1>7. PICK c : c = (CHOOSE x \in T : TRUE) /\ c \in T
  BY <1>6
<1>8. s[T] = bkt[c[1]][c[2]] + s[T \ {c}]
  BY <1>5, <1>6, <1>7 DEF Folds
<1>9. T \ {c} \in SUBSET S /\ T \ {c} \notin Bad
  <2>1. T \ {c} \in SUBSET S
    BY <1>5
  <2>2. Cardinality(T \ {c}) = Cardinality(T) - 1 /\ Cardinality(T) \in Nat
    BY <1>2, <1>5, <1>7, FS_RemoveElement
  <2>3. ~(n <= Cardinality(T \ {c}))
    BY <1>5, <2>2
  <2>4. Cardinality(T \ {c}) \notin Sizes
    BY <1>4, <2>3
  <2> QED BY <2>1, <2>4
<1>10. s[T \ {c}] = Cardinality(Filling(T \ {c}))
  BY <1>9
<1>11. Counted(T) /\ T \in SUBSET Cell
  BY <1>5 DEF Counted
<1>12. Cardinality(Filling(T)) = bkt[c[1]][c[2]] + Cardinality(Filling(T \ {c}))
  BY <1>7, <1>11, CellOut
<1> QED BY <1>5, <1>8, <1>10, <1>12

\* The fold counts the strings that fill the cells.
LEMMA FoldCounts ==
  ASSUME SizesOK, NEW S \in SUBSET Cell, Counted(S), IsFiniteSet(S)
  PROVE  MapThenFoldSet(LAMBDA x, y : x + y, 0, LAMBDA c : bkt[c[1]][c[2]],
                        LAMBDA T : CHOOSE c \in T : TRUE, S)
           = Cardinality(Filling(S))
<1> DEFINE s == CHOOSE s : Folds(S, s)
<1>1. Folds(S, s)
  BY FoldsExist
<1>2. MapThenFoldSet(LAMBDA x, y : x + y, 0, LAMBDA c : bkt[c[1]][c[2]],
                     LAMBDA T : CHOOSE c \in T : TRUE, S) = s[S]
  BY Zenon DEF MapThenFoldSet, Folds
<1> HIDE DEF s
<1> QED BY <1>1, <1>2, FoldsOne

\* The cells summed up for bkt[p][b].
CellsTo(p, b) == {c \in Part \X Bkt : c[2] < b \/ (c[2] = b /\ c[1] <= p)}

\* They are filled by the strings before the end of their window.
LEMMA FillingTo ==
  ASSUME SizesOK, key \in [Position -> Bkt], NEW p \in Part, NEW b \in Bkt
  PROVE  Filling(CellsTo(p, b)) = Before(p, b, strB(p))
<1>1. \A j \in Position : j \in Nat /\ key[j] \in Bkt /\ \E q \in Part : In(j, q)
  BY PartFacts DEF Position, SizesOK
<1>2. strB(p) \in Nat /\ strE(p) \in Nat /\ strB(p) <= strE(p)
  BY PartFacts
<1>3. ASSUME NEW j \in Position
      PROVE  key[j] = b => ((\E c \in CellsTo(p, b) : key[j] = c[2] /\ In(j, c[1])) <=> j < strE(p))
  <2>1. PICK q \in Part : In(j, q)
    BY <1>1
  <2>2. j < strE(p) <=> q <= p
    BY <1>1, <2>1, OnePart
  <2>3. \A r \in Part : In(j, r) => r = q
    BY <1>1, <2>1, OnePart
  <2>4. ~(b < b)
    BY DEF Bkt, SizesOK
  <2>5. ASSUME key[j] = b, q <= p PROVE <<q, b>> \in CellsTo(p, b)
    BY <2>5 DEF CellsTo
  <2> QED BY <2>1, <2>2, <2>3, <2>4, <2>5 DEF CellsTo
<1>4. ASSUME NEW j \in Position, key[j] < b
      PROVE  \E c \in CellsTo(p, b) : key[j] = c[2] /\ In(j, c[1])
  <2>1. PICK q \in Part : In(j, q)
    BY <1>1
  <2>2. <<q, key[j]>> \in CellsTo(p, b)
    BY <1>1, <1>4, <2>1 DEF CellsTo
  <2> QED BY <2>1, <2>2
<1>5. ASSUME NEW j \in Position, NEW c \in CellsTo(p, b), key[j] = c[2]
      PROVE  key[j] < b \/ key[j] = b
  BY <1>5 DEF CellsTo
<1>6. \A j \in Position : j < strE(p) <=> j < strB(p) \/ (strB(p) <= j /\ j < strE(p))
  BY <1>1, <1>2
<1> QED BY <1>3, <1>4, <1>5, <1>6 DEF Filling, Before

\* The inclusive prefix sum: every cell becomes the end of its window.
LEMMA PrefixCount ==
  ASSUME SizesOK, key \in [Position -> Bkt], Counted(Cell)
  PROVE  PrefixSum = [p \in Part |-> [b \in Bkt |-> Cardinality(Before(p, b, strB(p)))]]
<1>1. ASSUME NEW p \in Part, NEW b \in Bkt
      PROVE  MapThenFoldSet(LAMBDA x, y : x + y, 0, LAMBDA c : bkt[c[1]][c[2]],
                            LAMBDA T : CHOOSE c \in T : TRUE, CellsTo(p, b))
               = Cardinality(Before(p, b, strB(p)))
  <2>1. CellsTo(p, b) \in SUBSET Cell /\ Counted(CellsTo(p, b))
    BY DEF CellsTo, Cell, Counted
  <2>2. IsFiniteSet(CellsTo(p, b))
    <3>1. IsFiniteSet(Part) /\ IsFiniteSet(Bkt)
      BY FS_Interval DEF Part, Bkt, SizesOK
    <3>2. IsFiniteSet(Cell)
      BY <3>1, FS_Product DEF Cell
    <3> QED BY <2>1, <3>2, FS_Subset
  <2> QED BY <2>1, <2>2, FoldCounts, FillingTo
<1> QED BY <1>1 DEF PrefixSum, CellsTo

---------------------------------------------------------------------------
(* The slots *)

\* Where part p puts its string j.
SlotOf(p, j) == Cardinality(Before(p, key[j], j + 1))

\* A cell that is decremented comes to the slot of the string that is moved;
\* the others count the same strings as before.
LEMMA BeforeNext ==
  ASSUME SizesOK, key \in [Position -> Bkt], NEW p \in Part, NEW j \in Nat, In(j, p)
  PROVE  /\ key[j] \in Bkt /\ j \in Position
         /\ Cardinality(Before(p, key[j], j)) - 1 = SlotOf(p, j)
         /\ SlotOf(p, j) \in Position
         /\ \A b \in Bkt : b # key[j] => Before(p, b, j) = Before(p, b, j + 1)
<1>1. j \in Position /\ key[j] \in Bkt
  BY OnePart
<1>2. \A i \in Position : i \in Int
  BY DEF Position, SizesOK
<1>3. \A i \in Position : j <= i <=> i = j \/ j + 1 <= i
  BY <1>2
<1>4. strB(p) \in Nat /\ strE(p) \in Nat /\ strB(p) <= j /\ j < strE(p)
  BY PartFacts DEF In
<1>5. PICK A \in SUBSET Position : A = Before(p, key[j], j)
  BY DEF Before
<1>6. PICK B \in SUBSET Position : B = Before(p, key[j], j + 1)
  BY DEF Before
<1>7. ~(key[j] < key[j]) /\ ~(j < strB(p)) /\ ~(j + 1 <= j)
  BY <1>1, <1>4 DEF Bkt, SizesOK
<1>8. B = A \ {j} /\ j \in A
  BY <1>1, <1>3, <1>4, <1>5, <1>6, <1>7 DEF Before
<1>9. IsFiniteSet(A) /\ Cardinality(A) \in 0 .. N
  BY CountFacts
<1>10. Cardinality(B) = Cardinality(A) - 1
  BY <1>8, <1>9, FS_RemoveElement
<1>11. Cardinality(B) \in Position
  <2>1. Cardinality(B) \in 0 .. N
    BY CountFacts
  <2> QED BY <1>9, <1>10, <2>1 DEF Position, SizesOK
<1>12. \A b \in Bkt : b # key[j] => Before(p, b, j) = Before(p, b, j + 1)
  BY <1>3 DEF Before
<1> QED BY <1>1, <1>5, <1>6, <1>10, <1>11, <1>12 DEF SlotOf

\* String j of part p comes before string k of part q.
Ahead(p, j, q, k) ==
  \/ key[j] < key[k]
  \/ key[j] = key[k] /\ (p < q \/ (p = q /\ k < j))

\* The order of the slots.
LEMMA SlotOrder ==
  ASSUME SizesOK, key \in [Position -> Bkt], NEW p \in Part, NEW q \in Part,
         NEW j \in Nat, In(j, p), NEW k \in Nat, In(k, q), Ahead(p, j, q, k)
  PROVE  SlotOf(p, j) < SlotOf(q, k)
<1>1. j \in Position /\ k \in Position /\ key[j] \in Int /\ key[k] \in Int
      /\ \A i \in Position : i \in Int /\ key[i] \in Int
  BY OnePart DEF Position, Bkt, SizesOK
<1>2. PICK A \in SUBSET Position : A = Before(p, key[j], j + 1)
  BY DEF Before
<1>3. PICK B \in SUBSET Position : B = Before(q, key[k], k + 1)
  BY DEF Before
<1>4. PICK a \in Nat, b \in Nat, c \in Nat, d \in Nat :
        a = strB(p) /\ b = strE(p) /\ c = strB(q) /\ d = strE(q) /\ a <= b /\ c <= d
  BY PartFacts
<1>5. /\ a <= j /\ j < b /\ (p < q => b <= c) /\ (p = q => a = c /\ b = d)
  BY <1>4, PartFacts DEF In
<1>6. /\ \A i \in Position : i \in A <=> key[i] < key[j] \/ (key[i] = key[j] /\ (i < a \/ (j + 1 <= i /\ i < b)))
      /\ \A i \in Position : i \in B <=> key[i] < key[k] \/ (key[i] = key[k] /\ (i < c \/ (k + 1 <= i /\ i < d)))
  BY <1>2, <1>3, <1>4 DEF Before
<1>7. j \notin A
  BY <1>1, <1>5, <1>6
<1>8. CASE key[j] < key[k]
  <2>1. j \in B /\ A \subseteq B
    BY <1>1, <1>6, <1>8
  <2> QED BY <2>1, <1>2, <1>3, <1>7, CountFacts DEF SlotOf
<1>9. CASE key[j] = key[k] /\ p < q
  <2>1. j \in B /\ A \subseteq B
    BY <1>1, <1>5, <1>6, <1>9
  <2> QED BY <2>1, <1>2, <1>3, <1>7, CountFacts DEF SlotOf
<1>10. CASE key[j] = key[k] /\ p = q /\ k < j
  <2>1. j \in B /\ A \subseteq B
    BY <1>1, <1>5, <1>6, <1>10
  <2> QED BY <2>1, <1>2, <1>3, <1>7, CountFacts DEF SlotOf
<1> QED BY <1>8, <1>9, <1>10 DEF Ahead

\* No two strings have the same slot, and the slots are in the order of the buckets.
LEMMA SlotOnce ==
  ASSUME SizesOK, key \in [Position -> Bkt], NEW p \in Part, NEW q \in Part,
         NEW j \in Nat, In(j, p), NEW k \in Nat, In(k, q)
  PROVE  /\ SlotOf(p, j) = SlotOf(q, k) => j = k
         /\ SlotOf(p, j) <= SlotOf(q, k) => key[j] <= key[k]
<1>1. /\ key[j] \in Int /\ key[k] \in Int /\ p \in Int /\ q \in Int
      /\ SlotOf(p, j) \in Int /\ SlotOf(q, k) \in Int
  <2>1. key[j] \in Bkt /\ key[k] \in Bkt /\ SlotOf(p, j) \in Position /\ SlotOf(q, k) \in Position
    BY BeforeNext
  <2> QED BY <2>1 DEF Bkt, Part, Position, SizesOK
<1>2. j = k \/ Ahead(p, j, q, k) \/ Ahead(q, k, p, j)
  BY <1>1 DEF Ahead
<1>3. (Ahead(p, j, q, k) => SlotOf(p, j) < SlotOf(q, k)) /\ (Ahead(q, k, p, j) => SlotOf(q, k) < SlotOf(p, j))
  BY SlotOrder
<1>4. SlotOf(p, j) = SlotOf(q, k) => j = k
  BY <1>1, <1>2, <1>3
<1>5. SlotOf(p, j) <= SlotOf(q, k) => key[j] <= key[k]
  <2>1. ~(key[j] <= key[k]) => Ahead(q, k, p, j)
    BY <1>1 DEF Ahead
  <2> QED BY <1>1, <1>3, <2>1
<1> QED BY <1>4, <1>5

---------------------------------------------------------------------------
(* The invariant *)

Typed ==
  /\ key \in [Position -> Bkt]
  /\ bkt \in [Part -> [Bkt -> Int]]
  /\ pc \in [Part -> {"count", "counted", "wait", "dist", "done"}]
  /\ str \in [Part -> Nat] /\ \A p \in Part : strB(p) <= str[p] /\ str[p] <= strE(p)
  /\ shadow \in [Position -> Position \cup {Empty}]

\* As long as a part is not counted nothing is moved.
Counting ==
  /\ \A p \in Part : pc[p] \in {"count", "counted", "wait"} /\ str[p] = strB(p)
  /\ pwork = Cardinality({p \in Part : pc[p] # "wait"})
  /\ \A p \in Part, b \in Bkt :
       bkt[p][b] = IF pc[p] = "count" THEN 0 ELSE Here(p, b)
  /\ shadow = [k \in Position |-> Empty] /\ bounds = <<>>

\* The strings that were moved are in their slots, and nothing else is.
Moved(p, j) == In(j, p) /\ j < str[p]
Placed ==
  /\ \A p \in Part, j \in Nat : Moved(p, j) => shadow[SlotOf(p, j)] = j
  /\ \A k \in Position : shadow[k] # Empty =>
       \E p \in Part : Moved(p, shadow[k]) /\ SlotOf(p, shadow[k]) = k

\* The boundaries of the buckets.
Begins == [b \in Bkt |-> Cardinality({j \in Position : key[j] < b})]

\* Each cell counts the strings before those its part has still to move.
Distributing ==
  /\ \A p \in Part : pc[p] \in {"dist", "done"} /\ (pc[p] = "done" => str[p] = strE(p))
  /\ pwork = Cardinality({p \in Part : pc[p] = "dist"})
  /\ \A p \in Part, b \in Bkt : bkt[p][b] = Cardinality(Before(p, b, str[p]))
  /\ Placed
  /\ bounds = IF pwork = 0 THEN <<Begins>> ELSE <<>>

IInv == Typed /\ (Counting \/ Distributing)

\* Sets of parts are finite.
LEMMA PartsFinite ==
  ASSUME SizesOK
  PROVE  /\ IsFiniteSet(Part) /\ Cardinality(Part) = Parts
         /\ \A S \in SUBSET Part :
              /\ IsFiniteSet(S) /\ Cardinality(S) \in 0 .. Parts
              /\ Cardinality(S) = 0 <=> S = {}
<1>1. IsFiniteSet(Part) /\ Cardinality(Part) = Parts
  <2>1. 0 \in Int /\ Parts - 1 \in Int /\ 0 <= Parts - 1
    BY DEF SizesOK
  <2> QED BY <2>1, FS_Interval DEF Part, SizesOK
<1>2. ASSUME NEW S \in SUBSET Part
      PROVE  /\ IsFiniteSet(S) /\ Cardinality(S) \in 0 .. Parts
             /\ Cardinality(S) = 0 <=> S = {}
  <2>1. IsFiniteSet(S) /\ Cardinality(S) <= Parts
    BY <1>1, FS_Subset
  <2>2. Cardinality(S) \in Nat /\ (Cardinality(S) = 0 <=> S = {})
    BY <2>1, FS_CardinalityType, FS_EmptySet
  <2> QED BY <2>1, <2>2 DEF SizesOK
<1> QED BY <1>1, <1>2

\* One part is taken out of a set of parts.
LEMMA PartsTake ==
  ASSUME SizesOK, NEW S \in SUBSET Part, NEW p \in S
  PROVE  /\ Cardinality(S \ {p}) = Cardinality(S) - 1
         /\ Cardinality(S) \in Nat /\ Cardinality(S) >= 1
         /\ Cardinality(S) = 1 => S = {p}
<1>1. IsFiniteSet(S) /\ Cardinality(S) \in 0 .. Parts
  BY PartsFinite
<1>2. Cardinality(S \ {p}) = Cardinality(S) - 1
  BY <1>1, FS_RemoveElement
<1>3. PICK R \in SUBSET Part : R = S \ {p}
  OBVIOUS
<1>4. Cardinality(R) \in 0 .. Parts /\ (Cardinality(R) = 0 => R = {})
  BY <1>3, PartsFinite
<1> QED BY <1>1, <1>2, <1>3, <1>4 DEF SizesOK

\* The first state.
LEMMA InitIInv == ASSUME SizesOK, Init PROVE IInv
<1>1. Typed
  BY PartFacts DEF Init, Typed
<1>2. Counting
  <2>1. {p \in Part : pc[p] # "wait"} = Part
    BY DEF Init
  <2> QED BY <2>1, PartsFinite DEF Init, Counting
<1> QED BY <1>1, <1>2 DEF IInv

\* What is counted from the keys does not change when they do not.
LEMMA Same ==
  ASSUME key' = key
  PROVE  /\ \A p, b, x : Before(p, b, x)' = Before(p, b, x)
         /\ \A p, j : SlotOf(p, j)' = SlotOf(p, j)
         /\ \A p, b : Here(p, b)' = Here(p, b)
         /\ Begins' = Begins
BY DEF Before, SlotOf, Begins, Here

\* A count is a number of strings.
LEMMA HereTyped ==
  ASSUME SizesOK, NEW p \in Part, NEW b \in Bkt
  PROVE  Here(p, b) \in 0 .. N
<1>1. PICK c \in Cell : c = <<p, b>>
  BY DEF Cell
<1>2. Here(p, b) = Cardinality(Filling({c}))
  BY <1>1, CellCount DEF Here
<1>3. Filling({c}) \in SUBSET Position
  BY DEF Filling
<1> QED BY <1>2, <1>3, CountFacts

\* A part is counted.
LEMMA CountStringsKeeps ==
  ASSUME SizesOK, IInv, NEW p \in Part, CountStrings(p)
  PROVE  IInv'
<1>1. Typed /\ Counting
  BY DEF IInv, Distributing, CountStrings
<1>2. /\ bkt' = [bkt EXCEPT ![p] = [b \in Bkt |-> Here(p, b)]]
      /\ pc' = [pc EXCEPT ![p] = "counted"] /\ UNCHANGED <<key, pwork, str, shadow, bounds>>
  BY DEF CountStrings, Here
<1>3. Typed'
  BY <1>1, <1>2, HereTyped DEF Typed
<1>4. Counting'
  <2>1. \A q \in Part : pc'[q] = IF q = p THEN "counted" ELSE pc[q]
    BY <1>1, <1>2 DEF Typed
  <2>2. pc[p] = "count"
    BY DEF CountStrings
  <2>3. {q \in Part : pc'[q] # "wait"} = {q \in Part : pc[q] # "wait"}
    BY <2>1, <2>2
  <2>4. \A q \in Part, b \in Bkt : bkt'[q][b] = IF q = p THEN Here(p, b) ELSE bkt[q][b]
    BY <1>1, <1>2 DEF Typed
  <2>5. \A q \in Part, b \in Bkt : bkt'[q][b] = IF pc'[q] = "count" THEN 0 ELSE Here(q, b)
    BY <1>1, <2>1, <2>4 DEF Counting
  <2> QED BY <1>1, <1>2, <2>1, <2>3, <2>5, Same DEF Counting
<1> QED BY <1>3, <1>4 DEF IInv

\* The count of a part ends; the last one makes the prefix sum.
LEMMA EndCountKeeps ==
  ASSUME SizesOK, IInv, NEW p \in Part, EndCount(p)
  PROVE  IInv'
<1>1. Typed /\ Counting /\ pc[p] = "counted" /\ UNCHANGED <<key, str, shadow, bounds>>
  BY DEF IInv, Distributing, EndCount
<1>2. PICK W \in SUBSET Part :
        W = {q \in Part : pc[q] # "wait"} /\ p \in W /\ pwork = Cardinality(W)
  BY <1>1 DEF Counting
<1>3. CASE pwork = 1
  <2>1. bkt' = PrefixSum /\ pwork' = Parts /\ pc' = [q \in Part |-> "dist"]
    BY <1>3 DEF EndCount
  <2>2. W = {p}
    BY <1>2, <1>3, PartsTake
  <2>3. \A q \in Part : pc[q] # "count"
    BY <1>1, <1>2, <2>2
  <2>4. Counted(Cell)
    BY <1>1, <2>3 DEF Counted, Cell, Counting, Here
  <2>5. bkt' = [q \in Part |-> [b \in Bkt |-> Cardinality(Before(q, b, strB(q)))]]
    BY <1>1, <2>1, <2>4, PrefixCount DEF Typed
  <2>6. \A q \in Part, b \in Bkt : Cardinality(Before(q, b, strB(q))) \in Int
    <3>1. \A q \in Part, b \in Bkt : Before(q, b, strB(q)) \in SUBSET Position
      BY DEF Before
    <3> QED BY <3>1, CountFacts DEF SizesOK
  <2>7. Typed'
    BY <1>1, <2>1, <2>5, <2>6 DEF Typed
  <2>8. {q \in Part : pc'[q] = "dist"} = Part
    BY <2>1
  <2>9. Placed'
    <3>1. ASSUME NEW q \in Part, NEW j \in Nat PROVE ~Moved(q, j)'
      <4>1. str'[q] = strB(q) /\ strB(q) \in Nat
        BY <1>1, PartFacts DEF Counting
      <4> QED BY <4>1 DEF Moved, In
    <3>2. \A k \in Position : shadow'[k] = Empty
      BY <1>1 DEF Counting
    <3> QED BY <3>1, <3>2 DEF Placed
  <2>10. Distributing'
    <3>1. pwork' = Cardinality({q \in Part : pc'[q] = "dist"}) /\ pwork' # 0
      BY <2>1, <2>8, PartsFinite DEF SizesOK
    <3>2. \A q \in Part, b \in Bkt : bkt'[q][b] = Cardinality(Before(q, b, str'[q]))
      BY <1>1, <2>5 DEF Counting
    <3>3. \A q \in Part, b \in Bkt : bkt'[q][b] = Cardinality(Before(q, b, str[q])')
      BY <1>1, <3>2 DEF Before
    <3> QED BY <1>1, <2>1, <2>9, <3>1, <3>3 DEF Distributing, Counting
  <2> QED BY <2>7, <2>10 DEF IInv
<1>4. CASE pwork # 1
  <2>1. bkt' = bkt /\ pwork' = pwork - 1 /\ pc' = [pc EXCEPT ![p] = "wait"]
    BY <1>4 DEF EndCount
  <2>2. Typed'
    BY <1>1, <2>1 DEF Typed
  <2>3. \A q \in Part : pc'[q] = IF q = p THEN "wait" ELSE pc[q]
    BY <1>1, <2>1 DEF Typed
  <2>4. {q \in Part : pc'[q] # "wait"} = W \ {p}
    BY <1>2, <2>3
  <2>5. pwork' = Cardinality({q \in Part : pc'[q] # "wait"})
    <3>1. Cardinality(W \ {p}) = Cardinality(W) - 1
      BY <1>2, PartsTake
    <3> QED BY <1>2, <2>1, <2>4, <3>1
  <2>6. \A q \in Part, b \in Bkt : bkt'[q][b] = IF pc'[q] = "count" THEN 0 ELSE Here(q, b)
    BY <1>1, <2>1, <2>3 DEF Counting
  <2>7. Counting'
    BY <1>1, <2>3, <2>5, <2>6, Same DEF Counting
  <2> QED BY <2>2, <2>7 DEF IInv
<1> QED BY <1>3, <1>4

\* A string is moved into its slot, which is empty.
LEMMA MoveStringKeeps ==
  ASSUME SizesOK, IInv, NEW p \in Part, MoveString(p)
  PROVE  IInv' /\ SlotsKept
<1>1. Typed /\ Distributing /\ pc[p] = "dist" /\ str[p] < strE(p)
      /\ UNCHANGED <<key, pwork, pc, bounds>>
  BY DEF IInv, Counting, MoveString
<1>2. PICK j \in Nat : j = str[p] /\ In(j, p)
  BY <1>1 DEF Typed, In
<1>3. /\ key[j] \in Bkt /\ j \in Position /\ SlotOf(p, j) \in Position
      /\ Cardinality(Before(p, key[j], j)) - 1 = SlotOf(p, j)
      /\ \A b \in Bkt : b # key[j] => Before(p, b, j) = Before(p, b, j + 1)
  BY <1>1, <1>2, BeforeNext DEF Typed
<1>4. PICK k \in Position : k = SlotOf(p, j) /\ k \in Int
  BY <1>3 DEF Position, SizesOK
<1>5. bkt[p][key[j]] - 1 = k
  BY <1>1, <1>2, <1>3, <1>4 DEF Distributing
<1>6. /\ shadow' = [shadow EXCEPT ![k] = j]
      /\ bkt' = [bkt EXCEPT ![p][key[j]] = k]
      /\ str' = [str EXCEPT ![p] = j + 1]
  BY <1>2, <1>5 DEF MoveString
<1>7. /\ \A q \in Part : str'[q] = IF q = p THEN j + 1 ELSE str[q]
      /\ \A l \in Position : shadow'[l] = IF l = k THEN j ELSE shadow[l]
      /\ \A q \in Part, b \in Bkt : bkt'[q][b] = IF q = p /\ b = key[j] THEN k ELSE bkt[q][b]
  BY <1>1, <1>3, <1>6 DEF Typed
<1>8. Typed'
  <2>1. bkt' \in [Part -> [Bkt -> Int]] /\ shadow' \in [Position -> Position \cup {Empty}]
    BY <1>1, <1>3, <1>4, <1>6 DEF Typed
  <2>2. strB(p) <= j + 1 /\ j + 1 <= strE(p)
    BY <1>2, PartFacts DEF In
  <2>3. str' \in [Part -> Nat] /\ \A q \in Part : strB(q) <= str'[q] /\ str'[q] <= strE(q)
    BY <1>1, <1>6, <1>7, <2>2 DEF Typed
  <2> QED BY <1>1, <2>1, <2>3 DEF Typed
<1>9. \A q \in Part, i \in Nat : Moved(q, i) => SlotOf(q, i) # k
  <2> SUFFICES ASSUME NEW q \in Part, NEW i \in Nat, Moved(q, i), SlotOf(q, i) = k PROVE FALSE
    OBVIOUS
  <2>1. i = j
    BY <1>1, <1>2, <1>4, SlotOnce DEF Typed, Moved
  <2>2. q = p
    BY <1>2, <2>1, OnePart DEF Moved
  <2> QED BY <1>2, <2>1, <2>2 DEF Moved
<1>10. shadow[k] = Empty
  <2>1. shadow[k] \in Position \cup {Empty} /\ \A i \in Position : i \in Nat
    BY <1>1 DEF Typed, Position, SizesOK
  <2> QED BY <1>1, <1>9, <2>1 DEF Distributing, Placed
<1>11. \A q \in Part, i \in Nat : Moved(q, i)' <=> Moved(q, i) \/ (q = p /\ i = j)
  <2> TAKE q \in Part, i \in Nat
  <2>1. q = p => (In(i, q) /\ i < j + 1 <=> (In(i, q) /\ i < j) \/ i = j)
    BY <1>2
  <2> QED BY <1>2, <1>7, <2>1 DEF Moved, In
<1>12. Placed'
  <2>1. ASSUME NEW q \in Part, NEW i \in Nat, Moved(q, i)' PROVE shadow'[SlotOf(q, i)] = i
    <3>1. CASE Moved(q, i)
      <4>1. In(i, q) /\ SlotOf(q, i) \in Position
        BY <1>1, <3>1, BeforeNext DEF Moved, Typed
      <4> QED BY <1>1, <1>7, <1>9, <3>1, <4>1 DEF Distributing, Placed
    <3>2. CASE q = p /\ i = j
      BY <1>4, <1>7, <3>2
    <3> QED BY <1>11, <2>1, <3>1, <3>2
  <2>2. ASSUME NEW l \in Position, shadow'[l] # Empty
        PROVE  \E q \in Part : /\ In(shadow'[l], q) /\ shadow'[l] < str'[q]
                               /\ SlotOf(q, shadow'[l]) = l
    <3>1. CASE l = k
      BY <1>2, <1>4, <1>7, <3>1
    <3>2. CASE l # k
      <4>1. shadow'[l] = shadow[l] /\ shadow[l] \in Nat
        BY <1>1, <1>7, <2>2, <3>2 DEF Typed, Position, SizesOK
      <4>2. PICK q \in Part : Moved(q, shadow[l]) /\ SlotOf(q, shadow[l]) = l
        BY <1>1, <2>2, <4>1 DEF Distributing, Placed
      <4>3. In(shadow[l], q) /\ shadow[l] < str'[q]
        BY <1>2, <1>7, <4>1, <4>2 DEF Moved
      <4> QED BY <4>1, <4>2, <4>3
    <3> QED BY <3>1, <3>2
  <2>3. \A q, i : SlotOf(q, i)' = SlotOf(q, i)
    BY <1>1, Same
  <2>4. \A q \in Part, i \in Nat : Moved(q, i)' => shadow'[SlotOf(q, i)'] = i
    BY <2>1, <2>3
  <2>5. \A l \in Position : shadow'[l] # Empty =>
          \E q \in Part : Moved(q, shadow[l])' /\ SlotOf(q, shadow[l])' = l
    <3>1. \A q, l : Moved(q, shadow[l])' <=> (In(shadow'[l], q) /\ shadow'[l] < str'[q])
      BY DEF Moved, In
    <3>2. \A q, l : SlotOf(q, shadow[l])' = SlotOf(q, shadow'[l])
      BY <1>1 DEF SlotOf, Before
    <3> QED BY <2>2, <3>1, <3>2
  <2> QED BY <2>4, <2>5 DEF Placed
<1>13. Distributing'
  <2>1. \A q \in Part, b \in Bkt : bkt'[q][b] = Cardinality(Before(q, b, str'[q]))
    <3> TAKE q \in Part, b \in Bkt
    <3>1. CASE q # p
      BY <1>1, <1>7, <3>1 DEF Distributing
    <3>2. CASE q = p /\ b # key[j]
      BY <1>1, <1>2, <1>3, <1>7, <3>2 DEF Distributing
    <3>3. CASE q = p /\ b = key[j]
      BY <1>4, <1>7, <3>3 DEF SlotOf
    <3> QED BY <3>1, <3>2, <3>3
  <2>2. \A q \in Part, b \in Bkt : bkt'[q][b] = Cardinality(Before(q, b, str[q])')
    BY <1>1, <2>1 DEF Before
  <2>3. \A q \in Part : pc'[q] \in {"dist", "done"} /\ (pc'[q] = "done" => str'[q] = strE(q))
    BY <1>1, <1>7 DEF Distributing
  <2> QED BY <1>1, <1>12, <2>2, <2>3, Same DEF Distributing
<1> QED BY <1>7, <1>8, <1>10, <1>13 DEF IInv, SlotsKept

\* When all parts are done the first row of bkt is where the buckets begin.
LEMMA FirstRow ==
  ASSUME SizesOK, Typed, \A b \in Bkt : bkt[0][b] = Cardinality(Before(0, b, strE(0)))
  PROVE  bkt[0] = Begins
<1>1. 0 \in Part /\ strB(0) = 0 /\ strE(0) \in Nat
  BY PartFacts
<1>2. \A j \in Position : ~(j < 0) /\ ~(strE(0) <= j /\ j < strE(0))
  BY <1>1 DEF Position, SizesOK
<1>3. \A b \in Bkt : Before(0, b, strE(0)) = {j \in Position : key[j] < b}
  BY <1>1, <1>2 DEF Before
<1>4. bkt[0] \in [Bkt -> Int]
  BY <1>1 DEF Typed
<1> QED BY <1>3, <1>4 DEF Begins

\* A part is distributed; the last one leaves the boundaries.
LEMMA EndDistributeKeeps ==
  ASSUME SizesOK, IInv, NEW p \in Part, EndDistribute(p)
  PROVE  IInv'
<1>1. Typed /\ Distributing /\ pc[p] = "dist" /\ str[p] = strE(p)
      /\ pwork' = pwork - 1 /\ bounds' = (IF pwork = 1 THEN <<bkt[0]>> ELSE bounds)
      /\ pc' = [pc EXCEPT ![p] = "done"] /\ UNCHANGED <<key, bkt, str, shadow>>
  BY DEF IInv, Counting, EndDistribute
<1>2. PICK D \in SUBSET Part : D = {q \in Part : pc[q] = "dist"} /\ p \in D /\ pwork = Cardinality(D)
  BY <1>1 DEF Distributing
<1>3. \A q \in Part : pc'[q] = IF q = p THEN "done" ELSE pc[q]
  BY <1>1 DEF Typed
<1>4. Typed'
  BY <1>1 DEF Typed
<1>5. pwork' = Cardinality({q \in Part : pc'[q] = "dist"})
  <2>1. {q \in Part : pc'[q] = "dist"} = D \ {p}
    BY <1>2, <1>3
  <2>2. Cardinality(D \ {p}) = Cardinality(D) - 1
    BY <1>2, PartsTake
  <2> QED BY <1>1, <1>2, <2>1, <2>2
<1>6. bounds' = IF pwork' = 0 THEN <<Begins>> ELSE <<>>
  <2>1. pwork \in Nat /\ pwork >= 1
    BY <1>2, PartsTake DEF SizesOK
  <2>2. CASE pwork = 1
    <3>1. D = {p}
      BY <1>2, <2>2, PartsTake
    <3>2. \A q \in Part : str[q] = strE(q)
      BY <1>1, <1>2, <3>1 DEF Distributing
    <3>3. 0 \in Part
      BY PartFacts
    <3>4. bkt[0] = Begins
      BY <1>1, <3>2, <3>3, FirstRow DEF Distributing
    <3> QED BY <1>1, <2>2, <3>4
  <2>3. CASE pwork # 1
    BY <1>1, <2>1, <2>3 DEF Distributing
  <2> QED BY <2>2, <2>3
<1>7. Placed'
  <2>1. \A q, l : /\ Moved(q, shadow[l])' <=> Moved(q, shadow[l])
                  /\ SlotOf(q, shadow[l])' = SlotOf(q, shadow[l])
                  /\ Moved(q, l)' <=> Moved(q, l)
                  /\ SlotOf(q, l)' = SlotOf(q, l)
    BY <1>1 DEF Moved, In, SlotOf, Before
  <2> QED BY <1>1, <2>1 DEF Distributing, Placed
<1>8. Distributing'
  <2>1. \A q \in Part, b \in Bkt : bkt'[q][b] = Cardinality(Before(q, b, str[q])')
    BY <1>1 DEF Before, Distributing
  <2>2. \A q \in Part : pc'[q] \in {"dist", "done"} /\ (pc'[q] = "done" => str'[q] = strE(q))
    BY <1>1, <1>3 DEF Distributing
  <2> QED BY <1>1, <1>5, <1>6, <1>7, <2>1, <2>2, Same DEF Distributing
<1> QED BY <1>4, <1>8 DEF IInv

\* Every step keeps the invariant, and no slot is written twice.
LEMMA NextIInv ==
  ASSUME SizesOK, IInv, [Next]_vars
  PROVE  IInv' /\ SlotsKept
<1>1. ASSUME NEW p \in Part, PartStep(p)
      PROVE  IInv' /\ SlotsKept
  <2>1. CASE CountStrings(p)
    BY <2>1, CountStringsKeeps DEF CountStrings, SlotsKept
  <2>2. CASE EndCount(p)
    BY <2>2, EndCountKeeps DEF EndCount, SlotsKept
  <2>3. CASE MoveString(p)
    BY <2>3, MoveStringKeeps
  <2>4. CASE EndDistribute(p)
    BY <2>4, EndDistributeKeeps DEF EndDistribute, SlotsKept
  <2> QED BY <1>1, <2>1, <2>2, <2>3, <2>4 DEF PartStep
<1>2. CASE UNCHANGED vars
  <2>1. UNCHANGED <<key, bkt, pwork, pc, str, shadow, bounds>>
    BY <1>2 DEF vars
  <2>2. Typed'
    BY <2>1 DEF IInv, Typed
  <2>3. Counting => Counting'
    BY <2>1, Same DEF Counting
  <2>4. Distributing => Distributing'
    <3>1. \A q, l : /\ Moved(q, shadow[l])' <=> Moved(q, shadow[l])
                    /\ SlotOf(q, shadow[l])' = SlotOf(q, shadow[l])
                    /\ Moved(q, l)' <=> Moved(q, l)
                    /\ SlotOf(q, l)' = SlotOf(q, l)
      BY <2>1 DEF Moved, In, SlotOf, Before
    <3>2. Placed => Placed'
      BY <2>1, <3>1 DEF Placed
    <3>3. \A q, b : Cardinality(Before(q, b, str[q])') = Cardinality(Before(q, b, str[q]))
      BY <2>1 DEF Before
    <3> QED BY <2>1, <3>2, <3>3, Same DEF Distributing
  <2> QED BY <2>1, <2>2, <2>3, <2>4 DEF IInv, SlotsKept
<1> QED BY <1>1, <1>2 DEF Next, Terminated

\* The types, from the meaning of the cells.
LEMMA InvTypeOK == ASSUME SizesOK, IInv PROVE TypeOK
<1>1. Typed
  BY DEF IInv
<1>2. bkt \in [Part -> [Bkt -> 0 .. N]]
  <2>1. ASSUME NEW p \in Part, NEW b \in Bkt PROVE bkt[p][b] \in 0 .. N
    <3>1. CASE Counting
      BY <3>1, HereTyped DEF Counting, SizesOK
    <3>2. CASE Distributing
      <4>1. Before(p, b, str[p]) \in SUBSET Position
        BY DEF Before
      <4> QED BY <3>2, <4>1, CountFacts DEF Distributing
    <3> QED BY <3>1, <3>2 DEF IInv
  <2> QED BY <1>1, <2>1 DEF Typed
<1>3. pwork \in 0 .. Parts
  <2>1. {p \in Part : pc[p] # "wait"} \in SUBSET Part /\ {p \in Part : pc[p] = "dist"} \in SUBSET Part
    OBVIOUS
  <2> QED BY <2>1, PartsFinite DEF IInv, Counting, Distributing
<1> QED BY <1>1, <1>2, <1>3 DEF Typed, TypeOK

\* What distribute_finished() finds: every part is done, all strings are in
\* the shadow array, grouped by bucket, and bkt[0] says where they begin.
Delivered ==
  bounds # <<>> =>
    /\ bounds = <<Begins>> /\ \A p \in Part : pc[p] = "done"
    /\ {shadow[k] : k \in Position} = Position
    /\ \A k, l \in Position : k <= l => key[shadow[k]] <= key[shadow[l]]

LEMMA InvDelivered == ASSUME SizesOK, IInv PROVE Delivered
<1> SUFFICES ASSUME bounds # <<>>
             PROVE  /\ bounds = <<Begins>> /\ \A p \in Part : pc[p] = "done"
                    /\ {shadow[k] : k \in Position} = Position
                    /\ \A k, l \in Position : k <= l => key[shadow[k]] <= key[shadow[l]]
  BY DEF Delivered
<1>1. Typed /\ Distributing /\ pwork = 0 /\ bounds = <<Begins>>
  BY DEF IInv, Counting, Distributing
<1>2. \A p \in Part : pc[p] = "done" /\ str[p] = strE(p)
  <2>1. {p \in Part : pc[p] = "dist"} \in SUBSET Part /\ Cardinality({p \in Part : pc[p] = "dist"}) = 0
    BY <1>1 DEF Distributing
  <2>2. {p \in Part : pc[p] = "dist"} = {}
    BY <2>1, PartsFinite
  <2> QED BY <1>1, <2>2 DEF Distributing
<1>3. \A p \in Part, j \in Nat : Moved(p, j) <=> In(j, p)
  BY <1>2 DEF Moved, In
<1>4. Position \subseteq Nat
  BY DEF Position, SizesOK
<1>5. ASSUME NEW j \in Position PROVE \E k \in Position : shadow[k] = j
  <2>1. PICK p \in Part : In(j, p)
    BY PartFacts
  <2>2. SlotOf(p, j) \in Position
    BY <1>1, <1>4, <2>1, BeforeNext DEF Typed
  <2>3. shadow[SlotOf(p, j)] = j
    BY <1>1, <1>3, <1>4, <2>1 DEF Distributing, Placed
  <2> QED BY <2>2, <2>3
<1>6. \A k \in Position : shadow[k] \in Position
  <2>1. PICK F \in SUBSET Position : F = {k \in Position : shadow[k] # Empty}
    OBVIOUS
  <2>2. \A j \in Position : j # Empty
    BY <1>4 DEF Empty
  <2>3. PICK f \in [F -> Position] : \A k \in F : f[k] = shadow[k]
    <3>1. [k \in F |-> shadow[k]] \in [F -> Position]
      BY <1>1, <2>1 DEF Typed
    <3> QED BY <3>1
  <2>4. \A j \in Position : \E k \in F : f[k] = j
    BY <1>5, <2>1, <2>2, <2>3
  <2>5. f \in Surjection(F, Position)
    BY <2>4, Fun_IsSurj
  <2>6. IsFiniteSet(F) /\ Cardinality(F) \in Nat /\ Cardinality(F) <= N
    BY CountFacts DEF SizesOK
  <2>7. IsFiniteSet(Position) /\ Cardinality(Position) = N
    <3>1. 0 \in Int /\ N - 1 \in Int /\ 0 <= N - 1
      BY DEF SizesOK
    <3> QED BY <3>1, FS_Interval DEF Position, SizesOK
  <2>8. Cardinality(Position) <= Cardinality(F)
    BY <2>5, <2>6, FS_Surjection
  <2>9. Cardinality(Position) = Cardinality(F)
    BY <2>6, <2>7, <2>8 DEF SizesOK
  <2>10. F = Position
    BY <2>7, <2>9, FS_Subset
  <2> QED BY <1>1, <2>1, <2>10 DEF Typed
<1>7. {shadow[k] : k \in Position} = Position
  BY <1>5, <1>6
<1>8. ASSUME NEW k \in Position, NEW l \in Position, k <= l
      PROVE  key[shadow[k]] <= key[shadow[l]]
  <2>0. \A j \in Position : j \in Nat /\ j # Empty
    BY <1>4 DEF Empty
  <2>1. shadow[k] \in Nat /\ shadow[l] \in Nat /\ shadow[k] # Empty /\ shadow[l] # Empty
    BY <1>6, <2>0
  <2>2. PICK p \in Part : In(shadow[k], p) /\ SlotOf(p, shadow[k]) = k
    BY <1>1, <2>1 DEF Distributing, Placed, Moved
  <2>3. PICK q \in Part : In(shadow[l], q) /\ SlotOf(q, shadow[l]) = l
    BY <1>1, <2>1 DEF Distributing, Placed, Moved
  <2>4. PICK a \in Nat, b \in Nat : a = shadow[k] /\ b = shadow[l]
    BY <2>1
  <2>5. SlotOf(p, a) <= SlotOf(q, b) => key[a] <= key[b]
    BY <1>1, <2>2, <2>3, <2>4, SlotOnce DEF Typed
  <2> QED BY <1>8, <2>2, <2>3, <2>4, <2>5
<1> QED BY <1>1, <1>2, <1>7, <1>8

\* Once the boundaries are found nothing changes any more.
LEMMA DeliveredStays ==
  ASSUME SizesOK, Delivered, [Next]_vars, bounds # <<>>
  PROVE  UNCHANGED <<key, shadow, bounds>>
<1>1. \A p \in Part : pc[p] = "done"
  BY DEF Delivered
<1>2. \A p \in Part : ~PartStep(p)
  BY <1>1 DEF PartStep, CountStrings, EndCount, MoveString, EndDistribute
<1> QED BY <1>2 DEF Next, Terminated, vars

\* The keys do not change.
LEMMA KeysStay == ASSUME [Next]_vars PROVE key' = key
BY DEF Next, PartStep, CountStrings, EndCount, MoveString, EndDistribute, Terminated, vars
=============================================================================
