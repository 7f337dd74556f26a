------------------------- MODULE MkqsPartitionProofs -------------------------
(***************************************************************************)
(* Proofs about MkqsPartition for every number of strings and of           *)
(* PartitionJobs, every block size and every cut of the source.            *)
(*                                                                         *)
(* The inductive invariant IInv says where every string is (PlacedOK), and *)
(* what a job knows of its three blocks: the strings before pos are of the *)
(* class of the block (BlocksOK), and a block whose turn in phase two is   *)
(* over has no others (TurnsOK), which no later turn undoes.  Hence the    *)
(* queues get blocks of one class (QueuesOK), and when the last job ends   *)
(* they hold all strings (CounterOK).                                      *)
(***************************************************************************)
EXTENDS MkqsPartition, FiniteSetTheorems, WellFoundedInduction, TLAPS

\* The sizes that the proofs assume.
SizesOK == N \in Nat \ {0} /\ BlockSize \in Nat \ {0} /\ Procs \in Nat \ {0}

Phase1 == {"left", "right"}
PcStates == Phase1 \cup {"flt", "feq", "fgt", "push", "dec", "done"}

BlockType == [blk : BOOLEAN, str : Seq(Item), pos : Nat, partial : BOOLEAN]

StateOK ==
  /\ key \in [Item -> Class]
  /\ source \in Seq(Seq(Item))
  /\ cur \in [Proc -> [Class -> BlockType]]
  /\ pc \in [Proc -> PcStates]
  /\ out \in [Class -> SUBSET Seq(Item)]
  /\ count \in [Class -> Nat]
  /\ child \in [Class -> {"none", "sequential", "parallel"}]

---------------------------------------------------------------------------
(* Blocks *)

Distinct(s) == \A i, j \in 1 .. Len(s) : s[i] = s[j] => i = j

\* A block that a job partitions for class c: what lies before pos is of the
\* class, and in an extra block that is all of it.
BlockOK(k, b, c) ==
  /\ Len(b.str) <= BlockSize /\ b.pos <= Len(b.str)
  /\ Distinct(b.str)
  /\ ~b.blk => b.str = <<>>
  /\ b.partial => b.pos = Len(b.str)
  /\ \A j \in 1 .. b.pos : k[b.str[j]] = c
BlocksOK == \A p \in Proc, c \in Class : BlockOK(key, cur[p][c], c)

\* The blocks of the source are not too long and have no string in common.
SourceOK(s) ==
  /\ \A n \in 1 .. Len(s) : Len(s[n]) <= BlockSize /\ Distinct(s[n])
  /\ \A m, n \in 1 .. Len(s) : m # n => ToSet(s[m]) \cap ToSet(s[n]) = {}

---------------------------------------------------------------------------
(* Places of the strings *)

SourceSet(s) == UNION {ToSet(s[n]) : n \in 1 .. Len(s)}
BlockSets(b) == [c \in Class |-> ToSet(b[c].str)]
QueueSet(o) == UNION {ToSet(s) : s \in o}
QueueSets(o) == [c \in Class |-> QueueSet(o[c])]

\* Item i is in one place of the source S, the blocks X of one job and the
\* queues O, or in none.
Sole(i, S, X, O) ==
  /\ i \in S \/ (\E c \in Class : i \in X[c]) \/ (\E c \in Class : i \in O[c])
  /\ \A c \in Class : i \in X[c] => i \notin S /\ \A d \in Class : i \in X[d] => c = d
  /\ \A c \in Class : i \in O[c] =>
       /\ i \notin S
       /\ \A d \in Class : i \notin X[d] /\ (i \in O[d] => c = d)
Absent(i, S, X, O) == i \notin S /\ \A c \in Class : i \notin X[c] /\ i \notin O[c]

\* The same of the blocks D of all jobs.
Placed(S, D, O) ==
  \A i \in Item :
    /\ i \in S \/ (\E p \in Proc, c \in Class : i \in D[p][c]) \/ (\E c \in Class : i \in O[c])
    /\ \A p \in Proc, c \in Class : i \in D[p][c] =>
         i \notin S /\ \A q \in Proc, d \in Class : i \in D[q][d] => p = q /\ c = d
    /\ \A c \in Class : i \in O[c] =>
         /\ i \notin S
         /\ \A p \in Proc, d \in Class : i \notin D[p][d]
         /\ \A d \in Class : i \in O[d] => c = d

CurSets(u) == [p \in Proc |-> BlockSets(u[p])]

PlacedOK == Placed(SourceSet(source), CurSets(cur), QueueSets(out))

---------------------------------------------------------------------------
(* Phases *)

\* All strings of the block are partitioned.
Settled(b) == b.pos = Len(b.str)

\* What a job knows of its blocks b at s: in the right loop the left one waits
\* at a string that is above the pivot.
TurnOK(k, s, b) ==
  /\ s = "right" => Src(b["lt"]) /\ k[FrontStr(b["lt"])] = "gt"
  /\ s \in {"feq", "fgt", "push"} => Settled(b["lt"])
  /\ s \in {"fgt", "push"} => Settled(b["eq"])
  /\ s = "push" => Settled(b["gt"])
  /\ s \in {"dec", "done"} => \A c \in Class : b[c].str = <<>>
TurnsOK ==
  \A p \in Proc : TurnOK(key, pc[p], cur[p]) /\ (pc[p] \notin Phase1 => source = <<>>)

\* A queue holds the strings of one class, and its count is theirs.
QueueOK(k, o, n, c) ==
  (\A i \in QueueSet(o) : k[i] = c) /\ n = Cardinality(QueueSet(o))
QueuesOK == \A c \in Class : QueueOK(key, out[c], count[c], c)

\* The jobs that work are counted, and the recursion starts after the last.
CounterOK ==
  /\ pwork = Cardinality({p \in Proc : pc[p] # "done"})
  /\ \A c \in Class : child[c] = IF pwork = 0 THEN Recurse(c) ELSE "none"

IInv ==
  /\ StateOK
  /\ BlocksOK
  /\ SourceOK(source)
  /\ PlacedOK
  /\ TurnsOK
  /\ QueuesOK
  /\ CounterOK

---------------------------------------------------------------------------
(* The places of one job *)

\* If the items that a job, the source and the queues hold stay what they are
\* and each stays in one place, the other jobs are not concerned.
LEMMA OneJobMoves ==
  ASSUME NEW S, NEW D, NEW O, Placed(S, D, O),
         NEW T, NEW E, NEW Q, NEW p \in Proc,
         \A q \in Proc : q # p => E[q] = D[q],
         \A i \in Item : Sole(i, S, D[p], O) => Sole(i, T, E[p], Q),
         \A i \in Item : Absent(i, S, D[p], O) => Absent(i, T, E[p], Q)
  PROVE  Placed(T, E, Q)
<1> SUFFICES ASSUME NEW i \in Item
    PROVE  /\ i \in T \/ (\E q \in Proc, c \in Class : i \in E[q][c]) \/ (\E c \in Class : i \in Q[c])
           /\ \A q \in Proc, c \in Class : i \in E[q][c] =>
                i \notin T /\ \A r \in Proc, d \in Class : i \in E[r][d] => q = r /\ c = d
           /\ \A c \in Class : i \in Q[c] =>
                /\ i \notin T
                /\ \A q \in Proc, d \in Class : i \notin E[q][d]
                /\ \A d \in Class : i \in Q[d] => c = d
  BY Zenon DEF Placed
<1>1. CASE Absent(i, S, D[p], O)
  <2>1. Absent(i, T, E[p], Q)
    BY <1>1
  <2>2. PICK q \in Proc, c \in Class : i \in D[q][c]
    BY <1>1 DEF Placed, Absent
  <2>3. q # p /\ E[q] = D[q]
    BY <1>1, <2>2 DEF Absent
  <2>4. \A r \in Proc, d \in Class : i \in E[r][d] => r = q /\ d = c
    BY <2>1, <2>2 DEF Absent, Placed
  <2> QED BY <2>1, <2>2, <2>3, <2>4 DEF Absent
<1>2. CASE ~Absent(i, S, D[p], O)
  <2>1. Sole(i, S, D[p], O)
    BY <1>2 DEF Absent, Sole, Placed
  <2>2. Sole(i, T, E[p], Q)
    BY <2>1
  <2>3. \A q \in Proc, d \in Class : i \in E[q][d] => q = p
    BY <1>2 DEF Absent, Placed
  <2> QED BY <2>2, <2>3 DEF Sole
<1> QED BY <1>1, <1>2

\* What one job, the source and the queues hold, S, X and O, becomes T, Y and
\* Q, and item i stays in one place.
Follows(i, S, X, O, T, Y, Q) ==
  (Sole(i, S, X, O) => Sole(i, T, Y, Q)) /\ (Absent(i, S, X, O) => Absent(i, T, Y, Q))

\* Block c is replaced by one of the source; the old one goes to its queue.
Takes(c, S, X, O, T, Y, Q, H) ==
  /\ S = T \cup H /\ T \cap H = {}
  /\ \A d \in Class : Y[d] = IF d = c THEN H ELSE X[d]
  /\ \A d \in Class : Q[d] = IF d = c THEN O[d] \cup X[d] ELSE O[d]

\* The blocks of the classes in C go to their queues.
Pushes(C, X, O, Y, Q) ==
  /\ \A d \in Class : Y[d] = IF d \in C THEN {} ELSE X[d]
  /\ \A d \in Class : Q[d] = IF d \in C THEN O[d] \cup X[d] ELSE O[d]

\* Blocks c and d swap the strings x and y.
Swaps(c, d, X, Y, x, y) ==
  /\ x \in X[c] /\ y \in X[d]
  /\ \A e \in Class : Y[e] = IF e = c THEN (X[e] \ {x}) \cup {y}
                             ELSE IF e = d THEN (X[e] \ {y}) \cup {x} ELSE X[e]

\* String x moves from block c to block d, which goes to its queue before if
\* it is full.
Gives(c, d, X, O, Y, Q, x, full) ==
  /\ x \in X[c]
  /\ \A e \in Class : Y[e] = IF e = c THEN X[e] \ {x}
                             ELSE IF e = d THEN (IF full THEN {x} ELSE X[e] \cup {x}) ELSE X[e]
  /\ \A e \in Class : Q[e] = IF full /\ e = d THEN O[e] \cup X[e] ELSE O[e]

\* After Takes an item is in one place.
LEMMA TakeMoves ==
  ASSUME NEW c \in Class, NEW S, NEW X, NEW O, NEW T, NEW Y, NEW Q, NEW H, Takes(c, S, X, O, T, Y, Q, H), NEW i
  PROVE  Follows(i, S, X, O, T, Y, Q)
<1> USE DEF Takes
<1>1. Absent(i, S, X, O) => Absent(i, T, Y, Q)
  BY DEF Absent
<1>2. Sole(i, S, X, O) => Sole(i, T, Y, Q)
  BY DEF Sole
<1> QED BY <1>1, <1>2 DEF Follows

\* After Pushes an item is in one place.
LEMMA PushMoves ==
  ASSUME NEW C, NEW S, NEW X, NEW O, NEW Y, NEW Q, Pushes(C, X, O, Y, Q), NEW i
  PROVE  Follows(i, S, X, O, S, Y, Q)
<1> USE DEF Pushes
<1>1. Absent(i, S, X, O) => Absent(i, S, Y, Q)
  BY DEF Absent
<1>2. Sole(i, S, X, O) => Sole(i, S, Y, Q)
  BY DEF Sole
<1> QED BY <1>1, <1>2 DEF Follows

\* After Swaps an item is in one place.
LEMMA SwapMoves ==
  ASSUME NEW c \in Class, NEW d \in Class, c # d, NEW S, NEW X, NEW O, NEW Y, NEW x, NEW y,
         Swaps(c, d, X, Y, x, y), NEW i
  PROVE  Follows(i, S, X, O, S, Y, O)
<1> USE DEF Swaps
<1>1. Absent(i, S, X, O) => Absent(i, S, Y, O)
  BY DEF Absent
<1>2. Sole(i, S, X, O) => Sole(i, S, Y, O)
  <2> SUFFICES ASSUME Sole(i, S, X, O) PROVE Sole(i, S, Y, O)
    OBVIOUS
  <2>1. CASE i = x
    BY <2>1 DEF Sole
  <2>2. CASE i = y
    BY <2>2 DEF Sole
  <2>3. CASE i # x /\ i # y
    <3>1. ASSUME NEW e \in Class PROVE i \in Y[e] <=> i \in X[e]
      <4>1. Y[e] = IF e = c THEN (X[e] \ {x}) \cup {y} ELSE IF e = d THEN (X[e] \ {y}) \cup {x} ELSE X[e]
        BY Zenon
      <4>2. CASE e = c
        BY <2>3, <4>1, <4>2
      <4>3. CASE e = d
        BY <2>3, <4>1, <4>3
      <4>4. CASE e # c /\ e # d
        BY <4>1, <4>4
      <4> QED BY <4>2, <4>3, <4>4
    <3> HIDE DEF Swaps
    <3> QED BY <3>1 DEF Sole
  <2> QED BY <2>1, <2>2, <2>3
<1> QED BY <1>1, <1>2 DEF Follows

\* After Gives an item is in one place.
LEMMA GiveMoves ==
  ASSUME NEW c \in Class, NEW d \in Class, c # d, NEW S, NEW X, NEW O, NEW Y, NEW Q, NEW x,
         NEW full \in BOOLEAN, Gives(c, d, X, O, Y, Q, x, full), NEW i
  PROVE  Follows(i, S, X, O, S, Y, Q)
<1> USE DEF Gives
<1>1. Absent(i, S, X, O) => Absent(i, S, Y, Q)
  BY DEF Absent
<1>2. Sole(i, S, X, O) => Sole(i, S, Y, Q)
  <2> SUFFICES ASSUME Sole(i, S, X, O) PROVE Sole(i, S, Y, Q)
    OBVIOUS
  <2>1. CASE i = x
    BY <2>1 DEF Sole
  <2>2. CASE i # x /\ ~full
    <3>1. \A e \in Class : (i \in Y[e] <=> i \in X[e]) /\ (i \in Q[e] <=> i \in O[e])
      BY <2>2
    <3> QED BY <3>1 DEF Sole
  <2>3. CASE i # x /\ full
    <3>1. \A e \in Class : /\ i \in Y[e] <=> e # d /\ i \in X[e]
                           /\ i \in Q[e] <=> i \in O[e] \/ (e = d /\ i \in X[e])
      BY <2>3
    <3> QED BY <3>1 DEF Sole
  <2> QED BY <2>1, <2>2, <2>3
<1> QED BY <1>1, <1>2 DEF Follows

---------------------------------------------------------------------------
(* Operations on a block *)

\* The strings of a sequence by their places.
LEMMA InSet ==
  ASSUME NEW s \in Seq(Item)
  PROVE  /\ ToSet(s) \subseteq Item
         /\ \A i : i \in ToSet(s) <=> \E j \in 1 .. Len(s) : s[j] = i
BY DEF ToSet

\* A sequence without repetition has as many strings as places.
LEMMA DistinctSize ==
  ASSUME NEW s \in Seq(Item), Distinct(s)
  PROVE  IsFiniteSet(ToSet(s)) /\ Cardinality(ToSet(s)) = Len(s)
<1> DEFINE f == [j \in 1 .. Len(s) |-> s[j]]
<1>1. Len(s) \in Nat
  OBVIOUS
<1>2. f \in Bijection(1 .. Len(s), ToSet(s))
  <2>1. f \in [1 .. Len(s) -> ToSet(s)]
    BY InSet
  <2>2. IsInjective(f)
    BY DEF IsInjective, Distinct
  <2>3. \A i \in ToSet(s) : \E j \in 1 .. Len(s) : f[j] = i
    BY InSet
  <2> QED BY <2>1, <2>2, <2>3 DEF Bijection, Injection, Surjection
<1>3. ExistsBijection(1 .. Len(s), ToSet(s))
  BY <1>2 DEF ExistsBijection
<1>4. IsFiniteSet(1 .. Len(s))
  BY <1>1, FS_Interval
<1> HIDE DEF f
<1> QED BY <1>1, <1>3, <1>4, FS_CountingElements, FS_Bijection

\* The string at pos is one of the block's.
LEMMA FrontFacts ==
  ASSUME NEW b \in BlockType, Src(b)
  PROVE  /\ b.pos + 1 \in 1 .. Len(b.str) /\ FrontStr(b) = b.str[b.pos + 1]
         /\ FrontStr(b) \in Item /\ FrontStr(b) \in ToSet(b.str)
<1>1. b.pos \in Nat /\ b.str \in Seq(Item) /\ b.pos < Len(b.str)
  BY DEF BlockType, Src, Fill
<1>2. b.pos + 1 \in 1 .. Len(b.str) /\ Len(b.str) \in Nat
  BY <1>1
<1> QED BY <1>1, <1>2, InSet DEF FrontStr

\* A string of the block's class is passed.
LEMMA PassOK ==
  ASSUME NEW k, NEW c, NEW b \in BlockType, BlockOK(k, b, c), Src(b), k[FrontStr(b)] = c
  PROVE  Pass(b) \in BlockType /\ BlockOK(k, Pass(b), c) /\ Pass(b).str = b.str
<1>1. PICK s, n : s = b.str /\ n = b.pos
  OBVIOUS
<1>2. s \in Seq(Item) /\ n \in Nat /\ n + 1 \in 1 .. Len(s) /\ k[s[n + 1]] = c /\ n < Len(s) /\ Len(s) \in Nat
  BY <1>1, FrontFacts DEF BlockType, Src, Fill
<1>3. ~b.partial /\ b.partial \in BOOLEAN /\ b.blk \in BOOLEAN /\ (~b.blk => s = <<>>) /\ Len(s) <= BlockSize
      /\ Distinct(s) /\ \A j \in 1 .. n : k[s[j]] = c
  BY <1>1, <1>2 DEF BlockOK, BlockType
<1>4. Pass(b) = [blk |-> b.blk, str |-> s, pos |-> n + 1, partial |-> b.partial]
  BY <1>1 DEF Pass, BlockType
<1>5. \A j \in 1 .. n + 1 : k[s[j]] = c
  BY <1>2, <1>3
<1>6. Pass(b) \in BlockType
  BY <1>2, <1>3, <1>4 DEF BlockType
<1>7. BlockOK(k, Pass(b), c)
  BY <1>2, <1>3, <1>4, <1>5 DEF BlockOK
<1> QED BY <1>1, <1>4, <1>6, <1>7

\* The string at pos is replaced by one from elsewhere.
LEMMA PutOK ==
  ASSUME NEW k, NEW c, NEW b \in BlockType, BlockOK(k, b, c), Src(b), NEW x \in Item, x \notin ToSet(b.str)
  PROVE  /\ Put(b, x) \in BlockType /\ BlockOK(k, Put(b, x), c)
         /\ Src(Put(b, x)) /\ FrontStr(Put(b, x)) = x
         /\ ToSet(Put(b, x).str) = (ToSet(b.str) \ {FrontStr(b)}) \cup {x}
<1>1. PICK s, n : s = b.str /\ n = b.pos
  OBVIOUS
<1>2. s \in Seq(Item) /\ n \in Nat /\ n + 1 \in 1 .. Len(s) /\ n < Len(s) /\ Len(s) \in Nat
      /\ FrontStr(b) = s[n + 1]
  BY <1>1, FrontFacts DEF BlockType, Src, Fill
<1>3. ~b.partial /\ b.partial \in BOOLEAN /\ b.blk \in BOOLEAN /\ b.blk /\ Len(s) <= BlockSize
      /\ Distinct(s) /\ \A j \in 1 .. n : k[s[j]] = c
  BY <1>1, <1>2 DEF BlockOK, BlockType
<1> DEFINE t == [s EXCEPT ![n + 1] = x]
<1>4. Put(b, x) = [blk |-> b.blk, str |-> t, pos |-> n, partial |-> b.partial]
  BY <1>1 DEF Put, BlockType
<1>5. t \in Seq(Item) /\ Len(t) = Len(s) /\ t[n + 1] = x /\ \A j \in 1 .. Len(s) : j # n + 1 => t[j] = s[j]
  BY <1>2
<1>6. \A i : i \in ToSet(s) <=> \E j \in 1 .. Len(s) : s[j] = i
  BY <1>2, InSet
<1> HIDE DEF t
<1>7. \A i : i \in ToSet(t) <=> \E j \in 1 .. Len(s) : t[j] = i
  BY <1>5, InSet
<1>8. \A j \in 1 .. Len(s) : s[j] # x
  BY <1>1, <1>6
<1>9. Distinct(t)
  BY <1>2, <1>3, <1>5, <1>8 DEF Distinct
<1>10. ToSet(t) = (ToSet(s) \ {s[n + 1]}) \cup {x}
  <2>1. ASSUME NEW i, i \in ToSet(t) PROVE i \in (ToSet(s) \ {s[n + 1]}) \cup {x}
    BY <2>1, <1>2, <1>3, <1>5, <1>6, <1>7 DEF Distinct
  <2>2. ASSUME NEW i, i \in (ToSet(s) \ {s[n + 1]}) \cup {x} PROVE i \in ToSet(t)
    BY <2>2, <1>2, <1>5, <1>6, <1>7
  <2> QED BY <2>1, <2>2
<1>11. \A j \in 1 .. n : k[t[j]] = c
  BY <1>2, <1>3, <1>5
<1>12. Put(b, x) \in BlockType /\ Src(Put(b, x)) /\ FrontStr(Put(b, x)) = x
  BY <1>2, <1>3, <1>4, <1>5 DEF BlockType, Src, Fill, FrontStr
<1>13. BlockOK(k, Put(b, x), c)
  BY <1>2, <1>3, <1>4, <1>5, <1>9, <1>11 DEF BlockOK
<1> QED BY <1>1, <1>2, <1>4, <1>10, <1>12, <1>13

\* What Pass makes of a block.
LEMMA PassIs ==
  ASSUME NEW f, NEW s, NEW p, NEW q
  PROVE  Pass([blk |-> f, str |-> s, pos |-> p, partial |-> q]) = [blk |-> f, str |-> s, pos |-> p + 1, partial |-> q]
BY DEF Pass

\* What Grow makes of a block.
LEMMA GrowIs ==
  ASSUME NEW b \in BlockType, NEW x
  PROVE  Grow(b, x) = [blk |-> b.blk, str |-> Append(b.str, x), pos |-> b.pos + 1, partial |-> b.partial]
<1>1. \A v : [b EXCEPT !.str = v] = [blk |-> b.blk, str |-> v, pos |-> b.pos, partial |-> b.partial]
  BY DEF BlockType
<1> DEFINE a == [b EXCEPT !.str = Append(b.str, x)]
<1>2. a = [blk |-> b.blk, str |-> Append(b.str, x), pos |-> b.pos, partial |-> b.partial]
  BY <1>1, Zenon
<1>3. Grow(b, x) = Pass(a)
  BY DEF Grow
<1>4. \A v : Pass([blk |-> b.blk, str |-> v, pos |-> b.pos, partial |-> b.partial])
              = [blk |-> b.blk, str |-> v, pos |-> b.pos + 1, partial |-> b.partial]
  BY PassIs
<1> HIDE DEF a
<1> QED BY <1>2, <1>3, <1>4, Zenon

\* A string of the class is appended to a block that has no other.
LEMMA GrowOK ==
  ASSUME NEW k, NEW c, NEW b \in BlockType, BlockOK(k, b, c), b.blk, Settled(b), b.pos < BlockSize,
         NEW x \in Item, x \notin ToSet(b.str), k[x] = c, BlockSize \in Nat
  PROVE  /\ Grow(b, x) \in BlockType /\ BlockOK(k, Grow(b, x), c) /\ Settled(Grow(b, x))
         /\ ToSet(Grow(b, x).str) = ToSet(b.str) \cup {x}
<1>1. PICK s, n : s = b.str /\ n = b.pos
  OBVIOUS
<1>2. s \in Seq(Item) /\ n \in Nat /\ n = Len(s) /\ n < BlockSize
  BY <1>1 DEF BlockType, Settled
<1>3. b.partial \in BOOLEAN /\ b.blk \in BOOLEAN /\ Distinct(s) /\ \A j \in 1 .. n : k[s[j]] = c
  BY <1>1 DEF BlockOK, BlockType
<1> DEFINE t == Append(s, x)
<1>4. Grow(b, x) = [blk |-> b.blk, str |-> t, pos |-> n + 1, partial |-> b.partial]
  BY <1>1, GrowIs
<1>5. t \in Seq(Item) /\ Len(t) = n + 1 /\ t[n + 1] = x /\ \A j \in 1 .. n : t[j] = s[j]
  BY <1>2
<1>6. \A i : i \in ToSet(s) <=> \E j \in 1 .. n : s[j] = i
  BY <1>2, InSet
<1> HIDE DEF t
<1>7. \A i : i \in ToSet(t) <=> \E j \in 1 .. n + 1 : t[j] = i
  BY <1>5, InSet
<1>8. \A j \in 1 .. n : s[j] # x
  BY <1>1, <1>6
<1>9. Distinct(t)
  BY <1>2, <1>3, <1>5, <1>8 DEF Distinct
<1>10. ToSet(t) = ToSet(s) \cup {x}
  <2>1. n + 1 \in 1 .. n + 1 /\ \A j \in 1 .. n + 1 : j = n + 1 \/ j \in 1 .. n
    BY <1>2
  <2>2. \A j \in 1 .. n : j \in 1 .. n + 1
    BY <1>2
  <2> QED BY <2>1, <2>2, <1>5, <1>6, <1>7
<1>11. \A j \in 1 .. n + 1 : k[t[j]] = c
  BY <1>2, <1>3, <1>5
<1>12. Grow(b, x) \in BlockType /\ Settled(Grow(b, x))
  BY <1>2, <1>3, <1>4, <1>5 DEF BlockType, Settled
<1>13. BlockOK(k, Grow(b, x), c)
  BY <1>2, <1>3, <1>4, <1>5, <1>9, <1>11 DEF BlockOK
<1> QED BY <1>1, <1>4, <1>10, <1>12, <1>13

\* An extra block holds one string.
LEMMA ExtraOK ==
  ASSUME NEW k, NEW c, NEW x \in Item, k[x] = c, BlockSize \in Nat \ {0}
  PROVE  /\ Extra(x) \in BlockType /\ BlockOK(k, Extra(x), c) /\ Settled(Extra(x))
         /\ ToSet(Extra(x).str) = {x}
<1>1. Extra(x) = [blk |-> TRUE, str |-> <<x>>, pos |-> 1, partial |-> TRUE]
  <2>1. [blk |-> TRUE, str |-> <<>>, pos |-> 0, partial |-> TRUE] \in BlockType
    BY DEF BlockType
  <2>2. Append(<<>>, x) = <<x>> /\ 0 + 1 = 1
    OBVIOUS
  <2> DEFINE e == [blk |-> TRUE, str |-> <<>>, pos |-> 0, partial |-> TRUE]
  <2>3. Extra(x) = Grow(e, x)
    BY DEF Extra
  <2>4. e.blk = TRUE /\ e.str = <<>> /\ e.pos = 0 /\ e.partial = TRUE
    OBVIOUS
  <2>5. Grow(e, x) = [blk |-> e.blk, str |-> Append(e.str, x), pos |-> e.pos + 1, partial |-> e.partial]
    BY <2>1, GrowIs
  <2> HIDE DEF e
  <2> QED BY <2>2, <2>3, <2>4, <2>5, Zenon
<1>2. <<x>> \in Seq(Item) /\ Len(<<x>>) = 1 /\ <<x>>[1] = x
  OBVIOUS
<1>3. ToSet(<<x>>) = {x}
  BY DEF ToSet
<1>4. Distinct(<<x>>)
  BY DEF Distinct
<1> QED BY <1>1, <1>2, <1>3, <1>4 DEF BlockType, BlockOK, Settled

\* The string at pos is taken out and the last one fills the gap.
LEMMA DropOK ==
  ASSUME NEW k, NEW c, NEW b \in BlockType, BlockOK(k, b, c), Src(b), BlockSize \in Nat
  PROVE  /\ Drop(b) \in BlockType /\ BlockOK(k, Drop(b), c)
         /\ ToSet(Drop(b).str) = ToSet(b.str) \ {FrontStr(b)}
<1>1. PICK s, n, m : s = b.str /\ n = b.pos /\ m = Len(s)
  OBVIOUS
<1>2. s \in Seq(Item) /\ n \in Nat /\ n + 1 \in 1 .. m /\ n < m /\ m \in Nat /\ m - 1 \in Nat
      /\ FrontStr(b) = s[n + 1]
  BY <1>1, FrontFacts DEF BlockType, Src, Fill
<1>3. ~b.partial /\ b.partial \in BOOLEAN /\ b.blk \in BOOLEAN /\ b.blk /\ m <= BlockSize
      /\ Distinct(s) /\ \A j \in 1 .. n : k[s[j]] = c
  BY <1>1, <1>2 DEF BlockOK, BlockType
<1> DEFINE u == [s EXCEPT ![n + 1] = s[m]]
           t == SubSeq(u, 1, m - 1)
<1>4. Drop(b) = [blk |-> b.blk, str |-> t, pos |-> n, partial |-> b.partial]
  <2>1. \A v : [b EXCEPT !.str = v] = [blk |-> b.blk, str |-> v, pos |-> b.pos, partial |-> b.partial]
    BY DEF BlockType
  <2>2. Drop(b) = [b EXCEPT !.str = t]
    BY <1>1 DEF Drop, Fill, BackStr, BlockType
  <2> QED BY <1>1, <2>1, <2>2, Zenon
<1>5. u \in Seq(Item) /\ Len(u) = m /\ \A j \in 1 .. m : u[j] = IF j = n + 1 THEN s[m] ELSE s[j]
  BY <1>1, <1>2
<1>6. t \in Seq(Item) /\ Len(t) = m - 1 /\ \A j \in 1 .. m - 1 : t[j] = IF j = n + 1 THEN s[m] ELSE s[j]
  <2> HIDE DEF u
  <2>1. \A j \in 1 .. m - 1 : j \in 1 .. m
    BY <1>2
  <2>2. t \in Seq(Item) /\ Len(t) = m - 1 /\ \A j \in 1 .. m - 1 : t[j] = u[j]
    BY <1>2, <1>5
  <2> QED BY <1>5, <2>1, <2>2
<1>7. \A i : i \in ToSet(s) <=> \E j \in 1 .. m : s[j] = i
  BY <1>1, <1>2, InSet
<1>8. \A i : i \in ToSet(t) <=> \E j \in 1 .. m - 1 : t[j] = i
  <2> HIDE DEF t
  <2> QED BY <1>6, InSet
<1> HIDE DEF t, u
<1>9. Distinct(t)
  <2>1. \A e, f \in 1 .. m : s[e] = s[f] => e = f
    BY <1>1, <1>3 DEF Distinct
  <2>2. ASSUME NEW g \in 1 .. m - 1, NEW h \in 1 .. m - 1, t[g] = t[h]
        PROVE  g = h
    <3>1. PICK e \in 1 .. m : e = (IF g = n + 1 THEN m ELSE g)
      BY <1>2
    <3>2. PICK f \in 1 .. m : f = (IF h = n + 1 THEN m ELSE h)
      BY <1>2
    <3>3. s[e] = s[f]
      BY <1>6, <2>2, <3>1, <3>2
    <3>4. e = f
      BY <2>1, <3>3
    <3> QED BY <1>2, <3>1, <3>2, <3>4
  <2> QED BY <1>6, <2>2 DEF Distinct
<1>10. ToSet(t) = ToSet(s) \ {s[n + 1]}
  <2>1. ASSUME NEW i, i \in ToSet(t) PROVE i \in ToSet(s) \ {s[n + 1]}
    <3>1. PICK j \in 1 .. m - 1 : t[j] = i
      BY <1>8, <2>1
    <3>2. CASE j = n + 1
      <4>1. i = s[m] /\ m \in 1 .. m /\ m # n + 1
        BY <1>2, <1>6, <3>1, <3>2
      <4> QED BY <4>1, <1>1, <1>2, <1>3, <1>7 DEF Distinct
    <3>3. CASE j # n + 1
      <4>1. i = s[j] /\ j \in 1 .. m
        BY <1>2, <1>6, <3>1, <3>3
      <4> QED BY <4>1, <3>3, <1>1, <1>2, <1>3, <1>7 DEF Distinct
    <3> QED BY <3>2, <3>3
  <2>2. ASSUME NEW i, i \in ToSet(s) \ {s[n + 1]} PROVE i \in ToSet(t)
    <3>1. PICK j \in 1 .. m : s[j] = i
      BY <1>7, <2>2
    <3>2. j # n + 1
      BY <2>2, <3>1
    <3>3. CASE j = m
      <4>1. n + 1 \in 1 .. m - 1 /\ t[n + 1] = i
        BY <1>2, <1>6, <3>1, <3>2, <3>3
      <4> QED BY <4>1, <1>8
    <3>4. CASE j # m
      <4>1. j \in 1 .. m - 1 /\ t[j] = i
        BY <1>2, <1>6, <3>1, <3>2, <3>4
      <4> QED BY <4>1, <1>8
    <3> QED BY <3>3, <3>4
  <2> QED BY <2>1, <2>2
<1>11. \A j \in 1 .. n : k[t[j]] = c
  BY <1>2, <1>3, <1>6
<1>12. Drop(b) \in BlockType
  BY <1>2, <1>3, <1>4, <1>6 DEF BlockType
<1>13. BlockOK(k, Drop(b), c)
  <2>1. m - 1 <= BlockSize /\ n <= m - 1
    BY <1>2, <1>3
  <2> QED BY <2>1, <1>2, <1>3, <1>4, <1>6, <1>9, <1>11 DEF BlockOK
<1> QED BY <1>1, <1>2, <1>4, <1>10, <1>12, <1>13

\* A new block and none.
LEMMA FreshOK ==
  ASSUME NEW k, NEW c, NEW s \in Seq(Item), Distinct(s), Len(s) <= BlockSize, BlockSize \in Nat
  PROVE  /\ Full(s) \in BlockType /\ BlockOK(k, Full(s), c) /\ Full(s).str = s
         /\ NoBlock \in BlockType /\ BlockOK(k, NoBlock, c) /\ NoBlock.str = <<>>
         /\ Settled(NoBlock) /\ ToSet(NoBlock.str) = {}
<1>1. Full(s) \in BlockType /\ BlockOK(k, Full(s), c)
  BY DEF Full, BlockType, BlockOK
<1>2. <<>> \in Seq(Item) /\ Len(<<>>) = 0 /\ Distinct(<<>>) /\ ToSet(<<>>) = {}
  BY DEF Distinct, ToSet
<1>3. NoBlock \in BlockType /\ BlockOK(k, NoBlock, c) /\ Settled(NoBlock)
  BY <1>2 DEF NoBlock, BlockType, BlockOK, Settled
<1> QED BY <1>1, <1>2, <1>3 DEF Full, NoBlock

\* A block that is settled goes to its queue.
LEMMA QueueGrows ==
  ASSUME NEW k, NEW c, NEW b \in BlockType, BlockOK(k, b, c), Settled(b),
         NEW o \in SUBSET Seq(Item), NEW n \in Nat, QueueOK(k, o, n, c), ToSet(b.str) \cap QueueSet(o) = {},
         SizesOK
  PROVE  /\ QueueSet(o \cup {b.str}) = QueueSet(o) \cup ToSet(b.str)
         /\ QueueOK(k, o \cup {b.str}, n + Fill(b), c)
         /\ o \cup {b.str} \in SUBSET Seq(Item) /\ n + Fill(b) \in Nat
<1>1. b.str \in Seq(Item) /\ Len(b.str) \in Nat
  BY DEF BlockType
<1>2. QueueSet(o \cup {b.str}) = QueueSet(o) \cup ToSet(b.str)
  BY DEF QueueSet
<1>3. \A i \in ToSet(b.str) : k[i] = c
  BY <1>1, InSet DEF BlockOK, Settled
<1>4. IsFiniteSet(ToSet(b.str)) /\ Cardinality(ToSet(b.str)) = Len(b.str)
  BY <1>1, DistinctSize DEF BlockOK
<1>5. IsFiniteSet(QueueSet(o))
  <2>1. QueueSet(o) \subseteq 1 .. N
    BY InSet DEF QueueSet, Item
  <2>2. IsFiniteSet(1 .. N)
    BY FS_Interval DEF SizesOK
  <2> QED BY <2>1, <2>2, FS_Subset
<1>6. Cardinality(QueueSet(o) \cup ToSet(b.str)) = n + Len(b.str)
  <2>1. Cardinality(QueueSet(o) \cup ToSet(b.str))
        = Cardinality(QueueSet(o)) + Cardinality(ToSet(b.str)) - Cardinality(QueueSet(o) \cap ToSet(b.str))
    BY <1>4, <1>5, FS_Union
  <2>2. QueueSet(o) \cap ToSet(b.str) = {}
    OBVIOUS
  <2>3. Cardinality(QueueSet(o) \cap ToSet(b.str)) = 0
    BY <2>2, FS_EmptySet, Zenon
  <2>4. Cardinality(QueueSet(o)) = n
    BY DEF QueueOK
  <2> QED BY <1>1, <1>4, <2>1, <2>3, <2>4
<1>7. \A i \in QueueSet(o) \cup ToSet(b.str) : k[i] = c
  BY <1>3 DEF QueueOK
<1>8. QueueOK(k, o \cup {b.str}, n + Fill(b), c)
  BY <1>2, <1>6, <1>7, Zenon DEF QueueOK, Fill
<1>9. o \cup {b.str} \in SUBSET Seq(Item) /\ n + Fill(b) \in Nat
  BY <1>1 DEF Fill
<1> QED BY <1>2, <1>8, <1>9

---------------------------------------------------------------------------
(* One step of one job *)

\* The queues o with counts n are right.
QueuesAre(o, n) ==
  /\ o \in [Class -> SUBSET Seq(Item)] /\ n \in [Class -> Nat]
  /\ \A c \in Class : QueueOK(key, o[c], n[c], c)

\* A job that has the blocks b may have the blocks e when the source becomes s
\* and the queues o.
MoveTo(b, s, e, o) ==
  \A i \in Item :
    Follows(i, SourceSet(source), BlockSets(b), QueueSets(out), SourceSet(s), BlockSets(e), QueueSets(o))

\* The blocks of a job are right, and hold what no other block and no queue holds.
LEMMA JobFacts ==
  ASSUME SizesOK, IInv, NEW p \in Proc
  PROVE  /\ cur[p] \in [Class -> BlockType] /\ pc[p] \in PcStates
         /\ \A c \in Class :
              /\ cur[p][c] \in BlockType /\ BlockOK(key, cur[p][c], c)
              /\ out[c] \in SUBSET Seq(Item) /\ count[c] \in Nat /\ QueueOK(key, out[c], count[c], c)
              /\ ToSet(cur[p][c].str) \cap QueueSet(out[c]) = {}
              /\ \A d \in Class : c # d => ToSet(cur[p][c].str) \cap ToSet(cur[p][d].str) = {}
<1>1. cur[p] \in [Class -> BlockType] /\ pc[p] \in PcStates
  BY DEF IInv, StateOK
<1>2. ASSUME NEW c \in Class
      PROVE  /\ cur[p][c] \in BlockType /\ BlockOK(key, cur[p][c], c)
             /\ out[c] \in SUBSET Seq(Item) /\ count[c] \in Nat /\ QueueOK(key, out[c], count[c], c)
  BY <1>1 DEF IInv, StateOK, BlocksOK, QueuesOK
<1>3. ASSUME NEW c \in Class, NEW i \in ToSet(cur[p][c].str)
      PROVE  i \notin QueueSet(out[c]) /\ \A d \in Class : i \in ToSet(cur[p][d].str) => c = d
  <2>1. i \in Item
    <3>1. cur[p][c].str \in Seq(Item)
      BY <1>2 DEF BlockType
    <3> QED BY <3>1, InSet
  <2>2. \A d \in Class : CurSets(cur)[p][d] = ToSet(cur[p][d].str) /\ QueueSets(out)[d] = QueueSet(out[d])
    BY DEF CurSets, BlockSets, QueueSets
  <2>3. Placed(SourceSet(source), CurSets(cur), QueueSets(out))
    BY DEF IInv, PlacedOK
  <2> QED BY <2>1, <2>2, <2>3 DEF Placed
<1> QED BY <1>1, <1>2, <1>3

\* Settled blocks go to their queues.
LEMMA PushOK ==
  ASSUME SizesOK, IInv, NEW p \in Proc, NEW C, \A c \in C : c \in Class /\ Settled(cur[p][c]),
         Push(cur[p], C)
  PROVE  /\ QueuesAre(out', count')
         /\ \A c \in Class : QueueSets(out')[c] = IF c \in C THEN QueueSets(out)[c] \cup BlockSets(cur[p])[c]
                                                  ELSE QueueSets(out)[c]
<1>1. ASSUME NEW c \in Class
      PROVE  /\ out'[c] \in SUBSET Seq(Item) /\ count'[c] \in Nat /\ QueueOK(key, out'[c], count'[c], c)
             /\ QueueSet(out'[c]) = IF c \in C THEN QueueSet(out[c]) \cup ToSet(cur[p][c].str) ELSE QueueSet(out[c])
  <2>1. CASE c \in C
    <3>1. out'[c] = out[c] \cup {cur[p][c].str} /\ count'[c] = count[c] + Fill(cur[p][c])
      BY <2>1 DEF Push
    <3>2. /\ QueueSet(out[c] \cup {cur[p][c].str}) = QueueSet(out[c]) \cup ToSet(cur[p][c].str)
          /\ QueueOK(key, out[c] \cup {cur[p][c].str}, count[c] + Fill(cur[p][c]), c)
          /\ out[c] \cup {cur[p][c].str} \in SUBSET Seq(Item) /\ count[c] + Fill(cur[p][c]) \in Nat
      <4>1. /\ cur[p][c] \in BlockType /\ BlockOK(key, cur[p][c], c) /\ Settled(cur[p][c])
            /\ out[c] \in SUBSET Seq(Item) /\ count[c] \in Nat /\ QueueOK(key, out[c], count[c], c)
            /\ ToSet(cur[p][c].str) \cap QueueSet(out[c]) = {}
        BY <2>1, JobFacts, Zenon
      <4> QED BY <4>1, QueueGrows, Zenon
    <3> QED BY <2>1, <3>1, <3>2, Zenon
  <2>2. CASE c \notin C
    <3>1. out'[c] = out[c] /\ count'[c] = count[c]
      BY <2>2 DEF Push
    <3> QED BY <2>2, <3>1, JobFacts, Zenon
  <2> QED BY <2>1, <2>2
<1>2. out' \in [Class -> SUBSET Seq(Item)] /\ count' \in [Class -> Nat]
  <2>1. DOMAIN out' = Class /\ DOMAIN count' = Class /\ out' = [c \in Class |-> out'[c]] /\ count' = [c \in Class |-> count'[c]]
    BY DEF Push
  <2> QED BY <1>1, <2>1
<1>3. \A c \in Class : QueueSets(out')[c] = QueueSet(out'[c]) /\ QueueSets(out)[c] = QueueSet(out[c])
                       /\ BlockSets(cur[p])[c] = ToSet(cur[p][c].str)
  BY DEF QueueSets, BlockSets
<1> QED BY <1>1, <1>2, <1>3, Zenon DEF QueuesAre

\* The queues stay as they are.
LEMMA SameQueues ==
  ASSUME SizesOK, IInv, UNCHANGED <<out, count>>
  PROVE  QueuesAre(out', count')
BY DEF IInv, StateOK, QueuesOK, QueuesAre

\* A job that works replaces its blocks.
LEMMA JobStep ==
  ASSUME SizesOK, IInv, NEW p \in Proc, NEW b \in [Class -> BlockType], NEW s \in PcStates,
         pc[p] # "done", s # "done",
         cur' = [cur EXCEPT ![p] = b], pc' = [pc EXCEPT ![p] = s], UNCHANGED <<key, pwork, child>>,
         \A c \in Class : BlockOK(key, b[c], c),
         TurnOK(key, s, b), s \notin Phase1 => source' = <<>>,
         source' = source \/ (source # <<>> /\ source' = Tail(source)),
         QueuesAre(out', count'),
         MoveTo(cur[p], source', b, out')
  PROVE  IInv'
<1> USE DEF IInv
<1>1. /\ source \in Seq(Seq(Item)) /\ source' \in Seq(Seq(Item)) /\ Len(source') \in Nat
      /\ \A n \in 1 .. Len(source') : \E m \in 1 .. Len(source) :
            /\ source'[n] = source[m]
            /\ source' = source => m = n
            /\ source' # source => m = n + 1
  <2>1. source \in Seq(Seq(Item))
    BY DEF StateOK
  <2>2. CASE source' = source
    BY <2>1, <2>2
  <2>3. CASE source # <<>> /\ source' = Tail(source)
    <3>1. source' \in Seq(Seq(Item)) /\ Len(source') = Len(source) - 1 /\ Len(source) \in Nat
          /\ \A n \in 1 .. Len(source') : source'[n] = source[n + 1]
      BY <2>1, <2>3
    <3>2. source' # source
      BY <3>1
    <3>3. \A n \in 1 .. Len(source') : n + 1 \in 1 .. Len(source)
      BY <3>1
    <3> QED BY <2>1, <3>1, <3>2, <3>3
  <2> QED BY <2>2, <2>3
<1>2. StateOK'
  <2>1. cur' \in [Proc -> [Class -> BlockType]] /\ pc' \in [Proc -> PcStates]
    BY DEF StateOK
  <2> QED BY <1>1, <2>1 DEF StateOK, QueuesAre
<1>3. BlocksOK'
  <2>1. ASSUME NEW q \in Proc, NEW c \in Class PROVE BlockOK(key', cur'[q][c], c)
    BY DEF BlocksOK, StateOK
  <2> QED BY <2>1 DEF BlocksOK
<1>4. SourceOK(source')
  <2>1. PICK f \in [1 .. Len(source') -> 1 .. Len(source)] :
          \A n \in 1 .. Len(source') : source'[n] = source[f[n]] /\ f[n] = IF source' = source THEN n ELSE n + 1
    <3>1. \A n \in 1 .. Len(source') : (IF source' = source THEN n ELSE n + 1) \in 1 .. Len(source)
      BY <1>1
    <3>2. \A n \in 1 .. Len(source') : source'[n] = source[IF source' = source THEN n ELSE n + 1]
      BY <1>1
    <3> WITNESS [n \in 1 .. Len(source') |-> IF source' = source THEN n ELSE n + 1]
                \in [1 .. Len(source') -> 1 .. Len(source)]
    <3> QED BY <3>2
  <2>2. \A m, n \in 1 .. Len(source') : m # n => f[m] # f[n]
    BY <2>1
  <2>3. SourceOK(source)
    OBVIOUS
  <2>4. ASSUME NEW n \in 1 .. Len(source') PROVE Len(source'[n]) <= BlockSize /\ Distinct(source'[n])
    <3>1. f[n] \in 1 .. Len(source) /\ source'[n] = source[f[n]]
      BY <2>1
    <3>2. Len(source[f[n]]) <= BlockSize /\ Distinct(source[f[n]])
      BY <2>3, <3>1, Zenon DEF SourceOK
    <3> QED BY <3>1, <3>2, Zenon
  <2>5. ASSUME NEW m \in 1 .. Len(source'), NEW n \in 1 .. Len(source'), m # n
        PROVE  ToSet(source'[m]) \cap ToSet(source'[n]) = {}
    <3>1. /\ f[m] \in 1 .. Len(source) /\ f[n] \in 1 .. Len(source) /\ f[m] # f[n]
          /\ source'[m] = source[f[m]] /\ source'[n] = source[f[n]]
      BY <2>1, <2>2, <2>5
    <3>2. ToSet(source[f[m]]) \cap ToSet(source[f[n]]) = {}
      BY <2>3, <3>1, Zenon DEF SourceOK
    <3> QED BY <3>1, <3>2, Zenon
  <2> QED BY <2>4, <2>5, Zenon DEF SourceOK
<1>5. PlacedOK'
  <2>1. Placed(SourceSet(source), CurSets(cur), QueueSets(out))
    BY DEF PlacedOK
  <2>2. \A q \in Proc : q # p => CurSets(cur')[q] = CurSets(cur)[q]
    BY DEF CurSets, StateOK
  <2>3. CurSets(cur)[p] = BlockSets(cur[p]) /\ CurSets(cur')[p] = BlockSets(b)
    BY DEF CurSets, StateOK
  <2>4. \A i \in Item :
          /\ Sole(i, SourceSet(source), CurSets(cur)[p], QueueSets(out)) => Sole(i, SourceSet(source'), CurSets(cur')[p], QueueSets(out'))
          /\ Absent(i, SourceSet(source), CurSets(cur)[p], QueueSets(out)) => Absent(i, SourceSet(source'), CurSets(cur')[p], QueueSets(out'))
    BY <2>3, Zenon DEF MoveTo, Follows
  <2>5. Placed(SourceSet(source'), CurSets(cur'), QueueSets(out'))
    BY <2>1, <2>2, <2>4, OneJobMoves
  <2> QED BY <2>5 DEF PlacedOK
<1>6. TurnsOK'
  <2>1. ASSUME NEW q \in Proc PROVE TurnOK(key', pc'[q], cur'[q]) /\ (pc'[q] \notin Phase1 => source' = <<>>)
    BY DEF TurnsOK, StateOK
  <2> QED BY <2>1 DEF TurnsOK
<1>7. QueuesOK'
  BY DEF QueuesAre, QueuesOK
<1>8. CounterOK'
  <2>1. {q \in Proc : pc'[q] # "done"} = {q \in Proc : pc[q] # "done"}
    BY DEF StateOK
  <2>2. pwork # 0
    <3>1. IsFiniteSet(Proc)
      BY FS_Interval DEF Proc, SizesOK
    <3>2. IsFiniteSet({q \in Proc : pc[q] # "done"})
      BY <3>1, FS_Subset
    <3>3. {q \in Proc : pc[q] # "done"} # {}
      OBVIOUS
    <3> QED BY <3>2, <3>3, FS_EmptySet DEF CounterOK
  <2>3. pwork' # 0 /\ pwork' = Cardinality({q \in Proc : pc'[q] # "done"})
    BY <2>1, <2>2, Zenon DEF CounterOK
  <2>4. \A c \in Class : child'[c] = "none"
    BY <2>2 DEF CounterOK
  <2> QED BY <2>3, <2>4 DEF CounterOK
<1> QED BY <1>2, <1>3, <1>4, <1>5, <1>6, <1>7, <1>8

---------------------------------------------------------------------------
(* Phase 1 *)

\* The strings of a block that has none.
LEMMA EmptySet == ToSet(<<>>) = {}
BY DEF ToSet

\* NewBlock keeps the invariant.
LEMMA NewBlockOK ==
  ASSUME SizesOK, IInv, NEW p \in Proc, NEW c \in Class, NewBlock(p, c)
  PROVE  IInv'
<1> DEFINE s == Head(source)
           b == [cur[p] EXCEPT ![c] = Full(s)]
<1>1. /\ pc[p] \in Phase1 /\ ~Src(cur[p][c]) /\ source # <<>> /\ source' = Tail(source)
      /\ cur' = [cur EXCEPT ![p][c] = Full(s)] /\ UNCHANGED <<key, pc, pwork, child>>
      /\ IF cur[p][c].blk THEN Push(cur[p], {c}) ELSE UNCHANGED <<out, count>>
  BY DEF NewBlock, Needs, Scanning, Phase1
<1>2. source \in Seq(Seq(Item)) /\ cur \in [Proc -> [Class -> BlockType]] /\ pc \in [Proc -> PcStates] /\ SourceOK(source)
  BY DEF IInv, StateOK
<1>3. /\ s \in Seq(Item) /\ Distinct(s) /\ Len(s) <= BlockSize
      /\ SourceSet(source) = SourceSet(source') \cup ToSet(s)
      /\ SourceSet(source') \cap ToSet(s) = {}
  <2>1. s = source[1] /\ 1 \in 1 .. Len(source) /\ s \in Seq(Item)
        /\ Len(source') = Len(source) - 1 /\ Len(source) \in Nat
        /\ \A n \in 1 .. Len(source') : source'[n] = source[n + 1]
    BY <1>1, <1>2
  <2>2. \A n \in 1 .. Len(source') : n + 1 \in 1 .. Len(source) /\ n + 1 # 1
    BY <2>1
  <2>3. \A n \in 1 .. Len(source) : n = 1 \/ (n - 1 \in 1 .. Len(source') /\ source'[n - 1] = source[n])
    BY <2>1
  <2> HIDE DEF s
  <2>4. Distinct(s) /\ Len(s) <= BlockSize /\ \A n \in 1 .. Len(source') : ToSet(source[n + 1]) \cap ToSet(s) = {}
    BY <1>2, <2>1, <2>2, Zenon DEF SourceOK
  <2>5. SourceSet(source') \cap ToSet(s) = {}
    <3>1. \A n \in 1 .. Len(source') : ToSet(source'[n]) \cap ToSet(s) = {}
      BY <2>1, <2>4, Zenon
    <3> QED BY <3>1 DEF SourceSet
  <2>6. SourceSet(source) = SourceSet(source') \cup ToSet(s)
    <3>1. ASSUME NEW i \in SourceSet(source) PROVE i \in SourceSet(source') \cup ToSet(s)
      BY <2>1, <2>3, <3>1 DEF SourceSet
    <3>2. ASSUME NEW i \in SourceSet(source') \cup ToSet(s) PROVE i \in SourceSet(source)
      BY <2>1, <2>2, <3>2 DEF SourceSet
    <3> QED BY <3>1, <3>2
  <2> QED BY <2>1, <2>4, <2>5, <2>6
<1> HIDE DEF s
<1>4. Full(s) \in BlockType /\ BlockOK(key, Full(s), c) /\ Full(s).str = s
  BY <1>3, FreshOK DEF SizesOK
<1>5. /\ cur[p] \in [Class -> BlockType] /\ pc[p] \in PcStates /\ b \in [Class -> BlockType]
      /\ \A d \in Class : b[d] = IF d = c THEN Full(s) ELSE cur[p][d]
  BY <1>2, <1>4
<1>6. cur' = [cur EXCEPT ![p] = b] /\ pc' = [pc EXCEPT ![p] = pc[p]]
  BY <1>1, <1>2
<1> HIDE DEF b
<1>7. Settled(cur[p][c])
  BY <1>1, JobFacts DEF BlockOK, Src, Settled, Fill, BlockType
<1>8. /\ QueuesAre(out', count')
      /\ \A d \in Class : QueueSets(out')[d] = IF d = c THEN QueueSets(out)[d] \cup BlockSets(cur[p])[d] ELSE QueueSets(out)[d]
  <2>1. CASE cur[p][c].blk
    <3>1. Push(cur[p], {c}) /\ \A d \in {c} : d \in Class /\ Settled(cur[p][d])
      BY <1>1, <1>7, <2>1
    <3>2. /\ QueuesAre(out', count')
          /\ \A d \in Class : QueueSets(out')[d] = IF d \in {c} THEN QueueSets(out)[d] \cup BlockSets(cur[p])[d]
                                                   ELSE QueueSets(out)[d]
      BY <3>1, PushOK, Zenon
    <3> QED BY <3>2
  <2>2. CASE ~cur[p][c].blk
    <3>1. cur[p][c].str = <<>>
      BY <2>2, JobFacts DEF BlockOK
    <3>2. BlockSets(cur[p])[c] = {}
      BY <3>1, EmptySet DEF BlockSets
    <3>3. UNCHANGED <<out, count>>
      BY <1>1, <2>2
    <3> QED BY <3>2, <3>3, SameQueues
  <2> QED BY <2>1, <2>2
<1>9. MoveTo(cur[p], source', b, out')
  <2>1. \A d \in Class : BlockSets(b)[d] = IF d = c THEN ToSet(s) ELSE BlockSets(cur[p])[d]
    BY <1>4, <1>5 DEF BlockSets
  <2>2. Takes(c, SourceSet(source), BlockSets(cur[p]), QueueSets(out),
              SourceSet(source'), BlockSets(b), QueueSets(out'), ToSet(s))
    BY <1>3, <1>8, <2>1, Zenon DEF Takes
  <2> QED BY <2>2, TakeMoves DEF MoveTo
<1>10. \A d \in Class : BlockOK(key, b[d], d)
  BY <1>4, <1>5, JobFacts
<1>11. TurnOK(key, pc[p], b) /\ pc[p] # "done" /\ pc[p] \in Phase1
  <2>1. TurnOK(key, pc[p], cur[p]) /\ "lt" \in Class
    BY DEF IInv, TurnsOK, Class
  <2>2. pc[p] = "right" => c # "lt"
    BY DEF NewBlock, Needs, Side
  <2> QED BY <1>1, <1>5, <2>1, <2>2 DEF TurnOK, Phase1
<1> QED BY <1>1, <1>5, <1>6, <1>8, <1>9, <1>10, <1>11, JobStep

\* A block may be marked partial when it has no string.
LEMMA MarkOK ==
  ASSUME NEW k, NEW c, NEW b \in BlockType, BlockOK(k, b, c), NEW w, w = [b EXCEPT !.partial = ~b.blk]
  PROVE  w \in BlockType /\ BlockOK(k, w, c) /\ w.str = b.str
<1>1. w = [blk |-> b.blk, str |-> b.str, pos |-> b.pos, partial |-> ~b.blk]
  BY DEF BlockType
<1>2. b.blk \in BOOLEAN /\ b.str \in Seq(Item) /\ b.pos \in Nat
  BY DEF BlockType
<1>3. b.str = <<>> => b.pos = Len(b.str)
  BY <1>2 DEF BlockOK
<1> QED BY <1>1, <1>2, <1>3 DEF BlockOK, BlockType

\* SourceDry keeps the invariant.
LEMMA SourceDryOK ==
  ASSUME SizesOK, IInv, NEW p \in Proc, NEW c \in Class, SourceDry(p, c)
  PROVE  IInv'
<1> DEFINE full == Fill(cur[p][c]) = BlockSize
           C == IF full THEN {c} ELSE {}
           a == IF full THEN [cur[p] EXCEPT ![c] = NoBlock] ELSE cur[p]
           b == MarkPartial(a)
<1>1. /\ pc[p] \in Phase1 /\ ~Src(cur[p][c]) /\ source = <<>>
      /\ pc' = [pc EXCEPT ![p] = "flt"] /\ UNCHANGED <<key, source, pwork, child>>
      /\ IF full THEN Push(cur[p], {c}) /\ cur' = [cur EXCEPT ![p] = MarkPartial([@ EXCEPT ![c] = NoBlock])]
                 ELSE cur' = [cur EXCEPT ![p] = MarkPartial(@)] /\ UNCHANGED <<out, count>>
  BY DEF SourceDry, Needs, Scanning, Phase1, Goto
<1>2. cur \in [Proc -> [Class -> BlockType]] /\ pc \in [Proc -> PcStates] /\ cur[p] \in [Class -> BlockType]
  BY DEF IInv, StateOK
<1>3. cur' = [cur EXCEPT ![p] = b]
  BY <1>1, <1>2
<1>4. /\ NoBlock \in BlockType /\ BlockOK(key, NoBlock, c) /\ NoBlock.str = <<>>
  <2>1. <<>> \in Seq(Item) /\ Distinct(<<>>) /\ Len(<<>>) <= BlockSize
    BY DEF Distinct, SizesOK
  <2> QED BY <2>1, FreshOK DEF SizesOK
<1>5. \A d \in Class : a[d] \in BlockType /\ BlockOK(key, a[d], d) /\ a[d] = IF full /\ d = c THEN NoBlock ELSE cur[p][d]
  BY <1>2, <1>4, JobFacts
<1> HIDE DEF a
<1>6. \A d \in Class : b[d] \in BlockType /\ BlockOK(key, b[d], d) /\ b[d].str = a[d].str
  <2>1. \A d \in Class : b[d] = [a[d] EXCEPT !.partial = ~a[d].blk]
    BY DEF MarkPartial
  <2> HIDE DEF b
  <2> SUFFICES ASSUME NEW d \in Class PROVE b[d] \in BlockType /\ BlockOK(key, b[d], d) /\ b[d].str = a[d].str
    OBVIOUS
  <2>2. a[d] \in BlockType /\ BlockOK(key, a[d], d)
    BY <1>5
  <2>3. b[d] = [a[d] EXCEPT !.partial = ~a[d].blk]
    BY <2>1
  <2> QED BY <2>2, <2>3, MarkOK
<1>7. b \in [Class -> BlockType]
  BY <1>6 DEF MarkPartial
<1> HIDE DEF b
<1>8. Settled(cur[p][c])
  BY <1>1, JobFacts DEF BlockOK, Src, Settled, Fill, BlockType
<1>9. /\ QueuesAre(out', count')
      /\ \A d \in Class : QueueSets(out')[d] = IF d \in C THEN QueueSets(out)[d] \cup BlockSets(cur[p])[d] ELSE QueueSets(out)[d]
  <2>1. CASE full
    <3>1. Push(cur[p], {c}) /\ \A d \in {c} : d \in Class /\ Settled(cur[p][d])
      BY <1>1, <1>8, <2>1
    <3>2. /\ QueuesAre(out', count')
          /\ \A d \in Class : QueueSets(out')[d] = IF d \in {c} THEN QueueSets(out)[d] \cup BlockSets(cur[p])[d]
                                                   ELSE QueueSets(out)[d]
      BY <3>1, PushOK, Zenon
    <3>3. C = {c}
      BY <2>1
    <3> HIDE DEF C
    <3> QED BY <3>2, <3>3
  <2>2. CASE ~full
    <3>1. C = {} /\ UNCHANGED <<out, count>>
      BY <1>1, <2>2
    <3>2. QueuesAre(out', count')
      BY <3>1, SameQueues
    <3> HIDE DEF C
    <3> QED BY <3>1, <3>2
  <2> QED BY <2>1, <2>2
<1>10. MoveTo(cur[p], source', b, out')
  <2>1. \A d \in Class : BlockSets(b)[d] = IF d \in C THEN {} ELSE BlockSets(cur[p])[d]
    BY <1>4, <1>5, <1>6, EmptySet DEF BlockSets
  <2> HIDE DEF C
  <2>2. source' = source
    BY <1>1
  <2>3. Pushes(C, BlockSets(cur[p]), QueueSets(out), BlockSets(b), QueueSets(out'))
    BY <1>9, <2>1, Zenon DEF Pushes
  <2> QED BY <2>2, <2>3, PushMoves DEF MoveTo
<1>11. TurnOK(key, "flt", b) /\ pc[p] # "done" /\ "flt" \in PcStates
  BY <1>1 DEF TurnOK, Phase1, PcStates
<1> QED BY <1>1, <1>3, <1>6, <1>7, <1>9, <1>10, <1>11, JobStep

\* A job that is in no turn, or whose settled blocks stay settled.
LEMMA TurnKept ==
  ASSUME NEW k, NEW s, NEW b, NEW e, TurnOK(k, s, b), s \notin {"dec", "done"},
         \A c \in Class : Settled(b[c]) => Settled(e[c]), s = "right" => b["lt"] = e["lt"]
  PROVE  TurnOK(k, s, e)
BY DEF TurnOK, Class

\* A block with an unpartitioned string is not settled.
LEMMA SrcSettled ==
  ASSUME NEW b \in BlockType, NEW k, NEW c, BlockOK(k, b, c)
  PROVE  Src(b) <=> ~Settled(b)
BY DEF Settled, Src, Fill, BlockType, BlockOK

\* A string that is in its class is passed.
LEMMA PassStep ==
  ASSUME SizesOK, IInv, NEW p \in Proc, NEW c \in Class, Src(cur[p][c]), key[FrontStr(cur[p][c])] = c,
         pc[p] \notin {"dec", "done"}, pc[p] = "right" => c # "lt",
         cur' = [cur EXCEPT ![p][c] = Pass(@)],
         UNCHANGED <<key, source, pc, out, count, pwork, child>>
  PROVE  IInv'
<1> DEFINE b == [cur[p] EXCEPT ![c] = Pass(cur[p][c])]
<1>1. /\ cur[p] \in [Class -> BlockType] /\ cur[p][c] \in BlockType /\ BlockOK(key, cur[p][c], c) /\ pc[p] \in PcStates
  BY JobFacts, Zenon
<1>2. Pass(cur[p][c]) \in BlockType /\ BlockOK(key, Pass(cur[p][c]), c) /\ Pass(cur[p][c]).str = cur[p][c].str
  BY <1>1, PassOK
<1>3. cur' = [cur EXCEPT ![p] = b] /\ pc' = [pc EXCEPT ![p] = pc[p]]
  BY DEF IInv, StateOK
<1>4. b \in [Class -> BlockType] /\ \A d \in Class : b[d] = IF d = c THEN Pass(cur[p][c]) ELSE cur[p][d]
  BY <1>1, <1>2
<1> HIDE DEF b
<1>5. \A d \in Class : BlockOK(key, b[d], d) /\ BlockSets(b)[d] = BlockSets(cur[p])[d]
  <2>1. \A d \in Class : BlockOK(key, b[d], d) /\ b[d].str = cur[p][d].str
    BY <1>2, <1>4, JobFacts
  <2> QED BY <2>1, Zenon DEF BlockSets
<1>6. TurnOK(key, pc[p], b) /\ (pc[p] \notin Phase1 => source' = <<>>)
  <2>1. TurnOK(key, pc[p], cur[p]) /\ (pc[p] \notin Phase1 => source = <<>>)
    BY DEF IInv, TurnsOK
  <2>2. ~Settled(cur[p][c])
    BY <1>1 DEF Settled, Src, Fill, BlockType
  <2>3. \A d \in Class : Settled(cur[p][d]) => Settled(b[d])
    BY <1>4, <2>2, Zenon
  <2>4. pc[p] = "right" => b["lt"] = cur[p]["lt"]
    BY <1>4 DEF Class
  <2> QED BY <2>1, <2>3, <2>4, TurnKept
<1>7. MoveTo(cur[p], source', b, out')
  <2>1. UNCHANGED <<source, out>>
    OBVIOUS
  <2>2. Pushes({}, BlockSets(cur[p]), QueueSets(out), BlockSets(b), QueueSets(out'))
    BY <1>5, <2>1 DEF Pushes
  <2> QED BY <2>1, <2>2, PushMoves DEF MoveTo
<1>8. QueuesAre(out', count')
  BY SameQueues
<1> QED BY <1>1, <1>3, <1>4, <1>5, <1>6, <1>7, <1>8, JobStep

\* Two blocks become u and v, which swap strings, in a turn of s.
SwapFits(p, c, d, u, v, x, y) ==
  /\ c \in Class /\ d \in Class /\ c # d
  /\ u \in BlockType /\ v \in BlockType /\ BlockOK(key, u, c) /\ BlockOK(key, v, d)
  /\ x \in ToSet(cur[p][c].str) /\ y \in ToSet(cur[p][d].str)
  /\ ToSet(u.str) = (ToSet(cur[p][c].str) \ {x}) \cup {y}
  /\ ToSet(v.str) = (ToSet(cur[p][d].str) \ {y}) \cup {x}
SwapTurn(p, c, d, s) ==
  /\ s \in PcStates /\ pc[p] \notin {"dec", "done"} /\ s \notin {"dec", "done"}
  /\ s = "left" \/ (s = pc[p] /\ ~Settled(cur[p][c]) /\ ~Settled(cur[p][d]))
  /\ s = "right" => c # "lt" /\ d # "lt"

\* A step in which two strings change places keeps the invariant.
LEMMA SwapStep ==
  ASSUME SizesOK, IInv, NEW p \in Proc, NEW c, NEW d, NEW u, NEW v, NEW x, NEW y, NEW s,
         SwapFits(p, c, d, u, v, x, y), SwapTurn(p, c, d, s),
         cur' = [cur EXCEPT ![p][c] = u, ![p][d] = v], pc' = [pc EXCEPT ![p] = s],
         UNCHANGED <<key, source, out, count, pwork, child>>
  PROVE  IInv'
<1> USE DEF SwapFits, SwapTurn
<1> DEFINE b == [cur[p] EXCEPT ![c] = u, ![d] = v]
<1>1. cur[p] \in [Class -> BlockType] /\ cur \in [Proc -> [Class -> BlockType]]
  BY DEF IInv, StateOK
<1>2. cur' = [cur EXCEPT ![p] = b]
  BY <1>1
<1>3. b \in [Class -> BlockType] /\ \A e \in Class : b[e] = IF e = c THEN u ELSE IF e = d THEN v ELSE cur[p][e]
  BY <1>1
<1> HIDE DEF b
<1>4. \A e \in Class : BlockOK(key, b[e], e)
  BY <1>3, JobFacts
<1>5. TurnOK(key, s, b) /\ (s \notin Phase1 => source' = <<>>)
  <2>1. CASE s = "left"
    BY <2>1 DEF TurnOK, Phase1
  <2>2. CASE s # "left"
    <3>1. TurnOK(key, pc[p], cur[p]) /\ (pc[p] \notin Phase1 => source = <<>>)
      BY DEF IInv, TurnsOK
    <3>2. \A e \in Class : Settled(cur[p][e]) => Settled(b[e])
      BY <1>3, <2>2
    <3>3. s = "right" => b["lt"] = cur[p]["lt"]
      BY <1>3 DEF Class
    <3> QED BY <2>2, <3>1, <3>2, <3>3, TurnKept
  <2> QED BY <2>1, <2>2
<1>6. MoveTo(cur[p], source', b, out')
  <2>1. \A e \in Class : BlockSets(cur[p])[e] = ToSet(cur[p][e].str) /\ BlockSets(b)[e] = ToSet(b[e].str)
    BY DEF BlockSets
  <2>2. UNCHANGED <<source, out>>
    OBVIOUS
  <2>3. Swaps(c, d, BlockSets(cur[p]), BlockSets(b), x, y)
    BY <1>3, <2>1 DEF Swaps
  <2> QED BY <2>2, <2>3, SwapMoves DEF MoveTo
<1>7. QueuesAre(out', count')
  BY SameQueues
<1> QED BY <1>2, <1>3, <1>4, <1>5, <1>6, <1>7, JobStep

\* The front string of block c is not in the other blocks.
LEMMA FrontElsewhere ==
  ASSUME SizesOK, IInv, NEW p \in Proc, NEW c \in Class, NEW d \in Class, c # d, Src(cur[p][c])
  PROVE  /\ FrontStr(cur[p][c]) \in Item /\ FrontStr(cur[p][c]) \in ToSet(cur[p][c].str)
         /\ FrontStr(cur[p][c]) \notin ToSet(cur[p][d].str)
<1>1. cur[p][c] \in BlockType /\ ToSet(cur[p][c].str) \cap ToSet(cur[p][d].str) = {}
  BY JobFacts, Zenon
<1>2. FrontStr(cur[p][c]) \in Item /\ FrontStr(cur[p][c]) \in ToSet(cur[p][c].str)
  BY <1>1, FrontFacts
<1> QED BY <1>1, <1>2

\* What a swap makes of a block: a string y of elsewhere is put at pos, and it
\* is passed when it is of the block's class.
Swapped(k, w, c, b, y) ==
  w \in BlockType /\ BlockOK(k, w, c) /\ ToSet(w.str) = (ToSet(b.str) \ {FrontStr(b)}) \cup {y}

\* Both keep the block right.
LEMMA SwapBlock ==
  ASSUME SizesOK, NEW k, NEW c, NEW b \in BlockType, BlockOK(k, b, c), Src(b), NEW y \in Item, y \notin ToSet(b.str)
  PROVE  Swapped(k, Put(b, y), c, b, y) /\ (k[y] = c => Swapped(k, Pass(Put(b, y)), c, b, y))
<1> USE DEF Swapped
<1>1. /\ Put(b, y) \in BlockType /\ BlockOK(k, Put(b, y), c) /\ Src(Put(b, y)) /\ FrontStr(Put(b, y)) = y
      /\ ToSet(Put(b, y).str) = (ToSet(b.str) \ {FrontStr(b)}) \cup {y}
  BY PutOK
<1>2. CASE k[y] = c
  <2>1. Pass(Put(b, y)) \in BlockType /\ BlockOK(k, Pass(Put(b, y)), c) /\ Pass(Put(b, y)).str = Put(b, y).str
    BY <1>1, <1>2, PassOK
  <2> QED BY <1>1, <2>1
<1> QED BY <1>1, <1>2

\* SwapEqual keeps the invariant.
LEMMA SwapEqualOK ==
  ASSUME SizesOK, IInv, NEW p \in Proc, SwapEqual(p)
  PROVE  IInv'
<1> DEFINE c == Side(p)
           x == FrontStr(cur[p][c])
           y == FrontStr(cur[p]["eq"])
           u == Put(cur[p][c], y)
           v == Pass(Put(cur[p]["eq"], x))
<1>1. /\ pc[p] \in Phase1 /\ Src(cur[p][c]) /\ Src(cur[p]["eq"]) /\ key[x] = "eq"
      /\ cur' = [cur EXCEPT ![p][c] = u, ![p]["eq"] = v]
      /\ UNCHANGED <<key, source, pc, out, count, pwork, child>>
  BY DEF SwapEqual, Ready, Scanning, Phase1
<1>2. c \in Class /\ "eq" \in Class /\ c # "eq"
  BY DEF Side, Class
<1> HIDE DEF c
<1>3. /\ cur[p][c] \in BlockType /\ BlockOK(key, cur[p][c], c)
      /\ cur[p]["eq"] \in BlockType /\ BlockOK(key, cur[p]["eq"], "eq")
  BY <1>2, JobFacts, Zenon
<1>4. /\ x \in Item /\ x \in ToSet(cur[p][c].str) /\ x \notin ToSet(cur[p]["eq"].str)
      /\ y \in Item /\ y \in ToSet(cur[p]["eq"].str) /\ y \notin ToSet(cur[p][c].str)
  BY <1>1, <1>2, FrontElsewhere
<1>5. Swapped(key, u, c, cur[p][c], y)
  BY <1>1, <1>3, <1>4, SwapBlock
<1>6. Swapped(key, v, "eq", cur[p]["eq"], x)
  BY <1>1, <1>3, <1>4, SwapBlock
<1>7. pc[p] \in PcStates /\ pc' = [pc EXCEPT ![p] = pc[p]] /\ pc[p] \notin {"dec", "done"}
  BY <1>1 DEF IInv, StateOK, Phase1
<1>8. pc[p] = "right" => c # "lt" /\ "eq" # "lt"
  BY DEF c, Side
<1>9. ~Settled(cur[p][c]) /\ ~Settled(cur[p]["eq"])
  BY <1>1, <1>3, SrcSettled
<1>10. SwapFits(p, c, "eq", u, v, x, y)
  BY <1>2, <1>4, <1>5, <1>6 DEF SwapFits, Swapped
<1> HIDE DEF u, v, x, y
<1>11. SwapTurn(p, c, "eq", pc[p])
  BY <1>7, <1>8, <1>9, Zenon DEF SwapTurn
<1>12. cur' = [cur EXCEPT ![p][c] = u, ![p]["eq"] = v] /\ UNCHANGED <<key, source, out, count, pwork, child>>
  BY <1>1
<1> QED BY <1>7, <1>10, <1>11, <1>12, SwapStep

\* SwapSides keeps the invariant.
LEMMA SwapSidesOK ==
  ASSUME SizesOK, IInv, NEW p \in Proc, SwapSides(p)
  PROVE  IInv'
<1> DEFINE x == FrontStr(cur[p]["lt"])
           y == FrontStr(cur[p]["gt"])
           u == Pass(Put(cur[p]["lt"], y))
           v == Pass(Put(cur[p]["gt"], x))
<1>0. "lt" \in Class /\ "gt" \in Class /\ "lt" # "gt"
  BY DEF Class
<1>1. /\ pc[p] = "right" /\ Src(cur[p]["gt"]) /\ key[y] = "lt"
      /\ cur' = [cur EXCEPT ![p]["lt"] = u, ![p]["gt"] = v] /\ pc' = [pc EXCEPT ![p] = "left"]
      /\ UNCHANGED <<key, source, out, count, pwork, child>>
  BY DEF SwapSides, Ready, Side, Goto
<1>2. Src(cur[p]["lt"]) /\ key[x] = "gt"
  BY <1>1 DEF IInv, TurnsOK, TurnOK
<1>3. /\ cur[p]["lt"] \in BlockType /\ BlockOK(key, cur[p]["lt"], "lt")
      /\ cur[p]["gt"] \in BlockType /\ BlockOK(key, cur[p]["gt"], "gt")
  BY <1>0, JobFacts, Zenon
<1>4. /\ x \in Item /\ x \in ToSet(cur[p]["lt"].str) /\ x \notin ToSet(cur[p]["gt"].str)
      /\ y \in Item /\ y \in ToSet(cur[p]["gt"].str) /\ y \notin ToSet(cur[p]["lt"].str)
  BY <1>0, <1>1, <1>2, FrontElsewhere
<1>5. Swapped(key, u, "lt", cur[p]["lt"], y)
  BY <1>1, <1>2, <1>3, <1>4, SwapBlock
<1>6. Swapped(key, v, "gt", cur[p]["gt"], x)
  BY <1>1, <1>2, <1>3, <1>4, SwapBlock
<1>7. SwapFits(p, "lt", "gt", u, v, x, y)
  BY <1>0, <1>4, <1>5, <1>6 DEF SwapFits, Swapped
<1>8. SwapTurn(p, "lt", "gt", "left")
  BY <1>1 DEF PcStates, Phase1, SwapTurn
<1> HIDE DEF u, v, x, y
<1> QED BY <1>1, <1>7, <1>8, SwapStep

\* Keep keeps the invariant.
LEMMA KeepOK ==
  ASSUME SizesOK, IInv, NEW p \in Proc, Keep(p)
  PROVE  IInv'
<1>1. PICK c : c = Side(p)
  OBVIOUS
<1>2. /\ c \in Class /\ (pc[p] = "right" => c # "lt") /\ pc[p] \notin {"dec", "done"}
      /\ Src(cur[p][c]) /\ key[FrontStr(cur[p][c])] = c /\ cur' = [cur EXCEPT ![p][c] = Pass(@)]
      /\ UNCHANGED <<key, source, pc, out, count, pwork, child>>
  BY <1>1 DEF Keep, Ready, Scanning, Side, Class
<1> QED BY <1>2, PassStep

\* A job that goes on in its blocks.
LEMMA GotoStep ==
  ASSUME SizesOK, IInv, NEW p \in Proc, NEW s \in PcStates, pc[p] # "done", s # "done", Goto(p, s),
         TurnOK(key, s, cur[p]), s \notin Phase1 => source = <<>>,
         UNCHANGED <<key, source, cur, out, count, pwork, child>>
  PROVE  IInv'
<1>1. /\ cur[p] \in [Class -> BlockType] /\ \A c \in Class : BlockOK(key, cur[p][c], c)
      /\ cur' = [cur EXCEPT ![p] = cur[p]]
  BY JobFacts DEF IInv, StateOK
<1>2. MoveTo(cur[p], source', cur[p], out')
  <2>1. UNCHANGED <<source, out>>
    OBVIOUS
  <2> QED BY <2>1 DEF MoveTo, Follows
<1>3. QueuesAre(out', count')
  BY SameQueues
<1> QED BY <1>1, <1>2, <1>3, JobStep DEF Goto

\* ToRight keeps the invariant.
LEMMA ToRightOK ==
  ASSUME SizesOK, IInv, NEW p \in Proc, ToRight(p)
  PROVE  IInv'
<1>1. /\ pc[p] = "left" /\ Src(cur[p]["lt"]) /\ key[FrontStr(cur[p]["lt"])] = "gt" /\ Goto(p, "right")
      /\ UNCHANGED <<key, source, cur, out, count, pwork, child>>
  BY DEF ToRight, Ready, Side
<1>2. TurnOK(key, "right", cur[p]) /\ "right" \in Phase1 /\ "right" \in PcStates
  BY <1>1 DEF TurnOK, Phase1, PcStates
<1> QED BY <1>1, <1>2, GotoStep

---------------------------------------------------------------------------
(* Phase 2 *)

\* The turns and their classes.
LEMMA TurnFacts ==
  ASSUME NEW s \in DOMAIN Turn
  PROVE  /\ Turn[s] \in Class /\ s \in {"flt", "feq", "fgt"} /\ s \notin Phase1 /\ Later[s] \in {"feq", "fgt", "push"}
         /\ (s = "flt" => Turn[s] = "lt" /\ Later[s] = "feq")
         /\ (s = "feq" => Turn[s] = "eq" /\ Later[s] = "fgt")
         /\ (s = "fgt" => Turn[s] = "gt" /\ Later[s] = "push")
BY DEF Turn, Later, Class, Phase1

\* NextTurn keeps the invariant.
LEMMA NextTurnOK ==
  ASSUME SizesOK, IInv, NEW p \in Proc, NextTurn(p)
  PROVE  IInv'
<1>1. PICK s, c, t : s = pc[p] /\ c = Turn[s] /\ t = Later[s]
  OBVIOUS
<1>2. /\ s \in DOMAIN Turn /\ ~(cur[p][c].blk /\ ~cur[p][c].partial /\ Src(cur[p][c])) /\ Goto(p, t)
      /\ UNCHANGED <<key, source, cur, out, count, pwork, child>>
  BY <1>1 DEF NextTurn, Finishing
<1>3. /\ c \in Class /\ s \in {"flt", "feq", "fgt"} /\ s \notin Phase1 /\ t \in {"feq", "fgt", "push"}
      /\ (s = "flt" => c = "lt" /\ t = "feq") /\ (s = "feq" => c = "eq" /\ t = "fgt")
      /\ (s = "fgt" => c = "gt" /\ t = "push")
  BY <1>1, <1>2, TurnFacts
<1>4. cur[p][c] \in BlockType /\ BlockOK(key, cur[p][c], c)
  BY <1>3, JobFacts, Zenon
<1>5. Settled(cur[p][c])
  <2>1. CASE ~Src(cur[p][c])
    BY <1>4, <2>1, SrcSettled
  <2>2. CASE cur[p][c].partial
    BY <1>4, <2>2 DEF BlockOK, Settled
  <2>3. CASE ~cur[p][c].blk
    <3>1. cur[p][c].str = <<>> /\ cur[p][c].pos <= Len(<<>>) /\ cur[p][c].pos \in Nat
      BY <1>4, <2>3 DEF BlockOK, BlockType
    <3> QED BY <3>1 DEF Settled
  <2> QED BY <1>2, <2>1, <2>2, <2>3
<1>6. TurnOK(key, s, cur[p]) /\ source = <<>>
  BY <1>1, <1>3 DEF IInv, TurnsOK
<1>7. TurnOK(key, t, cur[p])
  BY <1>3, <1>5, <1>6 DEF TurnOK
<1>8. t \in PcStates /\ t # "done" /\ pc[p] # "done"
  BY <1>1, <1>3 DEF PcStates
<1> QED BY <1>2, <1>6, <1>7, <1>8, GotoStep

\* Good keeps the invariant.
LEMMA GoodOK ==
  ASSUME SizesOK, IInv, NEW p \in Proc, Good(p)
  PROVE  IInv'
<1>1. PICK c : c = Turn[pc[p]]
  OBVIOUS
<1>2. /\ pc[p] \in DOMAIN Turn /\ Src(cur[p][c]) /\ key[FrontStr(cur[p][c])] = c /\ cur' = [cur EXCEPT ![p][c] = Pass(@)]
      /\ UNCHANGED <<key, source, pc, out, count, pwork, child>>
  BY <1>1 DEF Good, Finishing
<1>3. c \in Class /\ pc[p] \in {"flt", "feq", "fgt"}
  BY <1>1, <1>2, TurnFacts
<1> QED BY <1>2, <1>3, PassStep

\* String x moves from block c to block d, which was pushed before if it was full.
LEMMA GiveStep ==
  ASSUME SizesOK, IInv, NEW p \in Proc, NEW c \in Class, NEW d \in Class, c # d,
         NEW u \in BlockType, NEW v \in BlockType, BlockOK(key, u, d), BlockOK(key, v, c),
         NEW x \in ToSet(cur[p][c].str), NEW full \in BOOLEAN,
         ToSet(u.str) = (IF full THEN {x} ELSE ToSet(cur[p][d].str) \cup {x}),
         ToSet(v.str) = ToSet(cur[p][c].str) \ {x},
         pc[p] \in {"flt", "feq", "fgt"}, ~Settled(cur[p][c]), Settled(u), full => Settled(cur[p][d]),
         cur' = [cur EXCEPT ![p][d] = u, ![p][c] = v],
         IF full /\ cur[p][d].blk THEN Push(cur[p], {d}) ELSE UNCHANGED <<out, count>>,
         UNCHANGED <<key, source, pc, pwork, child>>
  PROVE  IInv'
<1> DEFINE b == [cur[p] EXCEPT ![d] = u, ![c] = v]
<1>1. cur[p] \in [Class -> BlockType] /\ cur \in [Proc -> [Class -> BlockType]] /\ pc \in [Proc -> PcStates]
  BY DEF IInv, StateOK
<1>2. cur' = [cur EXCEPT ![p] = b]
  BY <1>1
<1>3. b \in [Class -> BlockType] /\ \A e \in Class : b[e] = IF e = c THEN v ELSE IF e = d THEN u ELSE cur[p][e]
  BY <1>1
<1> HIDE DEF b
<1>4. \A e \in Class : BlockOK(key, b[e], e)
  BY <1>3, JobFacts
<1>5. TurnOK(key, pc[p], b) /\ source' = <<>>
  <2>1. TurnOK(key, pc[p], cur[p]) /\ source = <<>>
    BY DEF IInv, TurnsOK, Phase1
  <2>2. \A e \in Class : Settled(cur[p][e]) => Settled(b[e])
    BY <1>3
  <2> QED BY <2>1, <2>2, TurnKept
<1>6. /\ QueuesAre(out', count')
      /\ \A e \in Class : QueueSets(out')[e] = IF full /\ e = d THEN QueueSets(out)[e] \cup BlockSets(cur[p])[e]
                                               ELSE QueueSets(out)[e]
  <2>1. CASE full /\ cur[p][d].blk
    <3>1. Push(cur[p], {d}) /\ \A e \in {d} : e \in Class /\ Settled(cur[p][e])
      BY <2>1
    <3>2. /\ QueuesAre(out', count')
          /\ \A e \in Class : QueueSets(out')[e] = IF e \in {d} THEN QueueSets(out)[e] \cup BlockSets(cur[p])[e]
                                                   ELSE QueueSets(out)[e]
      BY <3>1, PushOK, Zenon
    <3> QED BY <2>1, <3>2
  <2>2. CASE ~(full /\ cur[p][d].blk)
    <3>1. UNCHANGED <<out, count>>
      BY <2>2
    <3>2. full => BlockSets(cur[p])[d] = {}
      <4>1. full => cur[p][d].str = <<>>
        BY <2>2, JobFacts DEF BlockOK
      <4> QED BY <4>1, EmptySet DEF BlockSets
    <3>3. QueuesAre(out', count')
      BY <3>1, SameQueues
    <3> QED BY <3>1, <3>2, <3>3
  <2> QED BY <2>1, <2>2
<1>7. MoveTo(cur[p], source', b, out')
  <2>1. \A e \in Class : BlockSets(cur[p])[e] = ToSet(cur[p][e].str) /\ BlockSets(b)[e] = ToSet(b[e].str)
    BY DEF BlockSets
  <2>2. \A e \in Class : BlockSets(b)[e] = IF e = c THEN BlockSets(cur[p])[e] \ {x}
                            ELSE IF e = d THEN (IF full THEN {x} ELSE BlockSets(cur[p])[e] \cup {x})
                            ELSE BlockSets(cur[p])[e]
    BY <1>3, <2>1, Zenon
  <2>3. Gives(c, d, BlockSets(cur[p]), QueueSets(out), BlockSets(b), QueueSets(out'), x, full)
    BY <1>6, <2>1, <2>2, Zenon DEF Gives
  <2>4. UNCHANGED source
    OBVIOUS
  <2> QED BY <2>3, <2>4, GiveMoves DEF MoveTo
<1>8. PICK s : s = pc[p]
  OBVIOUS
<1>9. s \in PcStates /\ pc' = [pc EXCEPT ![p] = s] /\ s # "done" /\ TurnOK(key, s, b) /\ pc[p] # "done"
      /\ UNCHANGED <<key, pwork, child>> /\ source' = source
  BY <1>1, <1>5, <1>8
<1> QED BY <1>2, <1>3, <1>4, <1>5, <1>6, <1>7, <1>9, JobStep

\* Move keeps the invariant.
LEMMA MoveOK ==
  ASSUME SizesOK, IInv, NEW p \in Proc, Move(p)
  PROVE  IInv'
<1>1. PICK c, x, d, b, a : c = Turn[pc[p]] /\ a = cur[p][c] /\ x = FrontStr(a) /\ d = key[x] /\ b = cur[p][d]
  OBVIOUS
<1> DEFINE full == ~b.blk \/ b.pos >= BlockSize
           swap == ~full /\ ~b.partial /\ Src(b)
           u == IF swap THEN Pass(Put(b, x)) ELSE IF full THEN Extra(x) ELSE Grow(b, x)
           v == IF swap THEN Put(a, FrontStr(b)) ELSE Drop(a)
<1>2. /\ pc[p] \in DOMAIN Turn /\ a.blk /\ ~a.partial /\ Src(a) /\ d # c
      /\ IF full /\ b.blk THEN Push(cur[p], {d}) ELSE UNCHANGED <<out, count>>
      /\ UNCHANGED <<key, source, pc, pwork, child>>
  BY <1>1 DEF Move, Finishing
<1>3. cur' = [cur EXCEPT ![p][d] = u, ![p][c] = IF swap THEN Put(@, FrontStr(b)) ELSE Drop(@)]
  BY <1>1, Zenon DEF Move
<1>4. c \in Class /\ pc[p] \in {"flt", "feq", "fgt"}
  BY <1>1, <1>2, TurnFacts
<1>5. /\ a \in BlockType /\ BlockOK(key, a, c)
  BY <1>1, <1>4, JobFacts, Zenon
<1>6. x \in Item /\ x \in ToSet(a.str) /\ d \in Class
  BY <1>1, <1>2, <1>5, FrontFacts DEF IInv, StateOK
<1>7. b \in BlockType /\ BlockOK(key, b, d) /\ ToSet(a.str) \cap ToSet(b.str) = {}
  BY <1>1, <1>2, <1>4, <1>6, JobFacts, Zenon
<1>8. cur' = [cur EXCEPT ![p][d] = u, ![p][c] = v]
  <2> HIDE DEF u, full, swap
  <2>1. cur \in [Proc -> [Class -> BlockType]]
    BY DEF IInv, StateOK
  <2>2. [cur EXCEPT ![p][d] = u][p][c] = a
    BY <1>1, <1>2, <1>4, <1>6, <2>1
  <2>3. a = cur[p][c]
    BY <1>1
  <2> QED BY <1>3, <2>2, <2>3
<1>9. ~Settled(a)
  BY <1>2, <1>5, SrcSettled
<1>10. CASE swap
  <2>1. PICK y : y = FrontStr(b)
    OBVIOUS
  <2>2. y \in Item /\ y \in ToSet(b.str) /\ Src(b) /\ ~Settled(b)
    BY <1>7, <1>10, <2>1, FrontFacts, SrcSettled
  <2>3. u = Pass(Put(b, x)) /\ v = Put(a, y)
    BY <1>10, <2>1
  <2> HIDE DEF u, v, full, swap
  <2>4. Swapped(key, u, d, b, x)
    <3>1. x \notin ToSet(b.str) /\ key[x] = d
      BY <1>1, <1>6, <1>7
    <3>2. Swapped(key, Pass(Put(b, x)), d, b, x)
      BY <1>6, <1>7, <2>2, <3>1, SwapBlock
    <3> QED BY <2>3, <3>2
  <2>5. Swapped(key, v, c, a, y)
    <3>1. y \notin ToSet(a.str)
      BY <1>7, <2>2
    <3>2. Swapped(key, Put(a, y), c, a, y)
      BY <1>1, <1>2, <1>5, <2>2, <3>1, SwapBlock
    <3> QED BY <2>3, <3>2
  <2>6. pc' = [pc EXCEPT ![p] = pc[p]]
    BY <1>1, <1>2, <1>4 DEF IInv, StateOK
  <2>7. SwapTurn(p, d, c, pc[p])
    BY <1>1, <1>2, <1>4, <1>9, <2>2 DEF IInv, StateOK, SwapTurn
  <2>8. UNCHANGED <<key, source, out, count, pwork, child>>
    BY <1>2, <1>10 DEF swap
  <2>9. c \in Class /\ d \in Class /\ c # d
    BY <1>2, <1>4, <1>6
  <2>10. SwapFits(p, d, c, u, v, y, x)
    BY <1>1, <1>6, <2>1, <2>2, <2>4, <2>5, <2>9 DEF SwapFits, Swapped
  <2> QED BY <1>8, <2>6, <2>7, <2>8, <2>10, SwapStep
<1>11. CASE ~swap
  <2>1. u = (IF full THEN Extra(x) ELSE Grow(b, x)) /\ v = Drop(a)
    BY <1>11
  <2>2. full => Settled(b)
    <3>1. b.pos \in Nat /\ b.str \in Seq(Item) /\ Len(b.str) \in Nat /\ BlockSize \in Nat
      BY <1>7 DEF BlockType, SizesOK
    <3>2. b.pos <= Len(b.str) /\ Len(b.str) <= BlockSize /\ (~b.blk => b.str = <<>>)
      BY <1>7 DEF BlockOK
    <3>3. CASE ~b.blk
      <4>1. Len(b.str) = 0
        BY <3>2, <3>3
      <4> QED BY <3>1, <3>2, <4>1 DEF Settled
    <3>4. CASE b.pos >= BlockSize
      BY <3>1, <3>2, <3>4 DEF Settled
    <3> QED BY <3>3, <3>4
  <2>3. ~full => b.blk /\ b.pos < BlockSize /\ Settled(b)
    <3>1. b.pos \in Nat /\ BlockSize \in Nat
      BY <1>7 DEF BlockType, SizesOK
    <3>2. b.partial => Settled(b)
      BY <1>7 DEF BlockOK, Settled
    <3>3. Src(b) \/ Settled(b)
      BY <1>7, SrcSettled
    <3> QED BY <1>11, <3>1, <3>2, <3>3
  <2>4. full \in BOOLEAN
    <3>1. b.blk \in BOOLEAN
      BY <1>7 DEF BlockType
    <3> QED BY <3>1
  <2>5. IF full /\ b.blk THEN Push(cur[p], {d}) ELSE UNCHANGED <<out, count>>
    BY <1>2
  <2> HIDE DEF u, v, full, swap
  <2>6. x \notin ToSet(b.str) /\ key[x] = d
    BY <1>1, <1>6, <1>7
  <2>7. u \in BlockType /\ BlockOK(key, u, d) /\ Settled(u)
        /\ ToSet(u.str) = (IF full THEN {x} ELSE ToSet(b.str) \cup {x})
    <3>1. CASE full
      <4>1. /\ Extra(x) \in BlockType /\ BlockOK(key, Extra(x), d) /\ Settled(Extra(x))
            /\ ToSet(Extra(x).str) = {x}
        BY <1>6, <2>6, ExtraOK DEF SizesOK
      <4> QED BY <2>1, <3>1, <4>1, Zenon
    <3>2. CASE ~full
      <4>1. /\ Grow(b, x) \in BlockType /\ BlockOK(key, Grow(b, x), d) /\ Settled(Grow(b, x))
            /\ ToSet(Grow(b, x).str) = ToSet(b.str) \cup {x}
        BY <1>6, <1>7, <2>3, <2>6, <3>2, GrowOK DEF SizesOK
      <4> QED BY <2>1, <3>2, <4>1, Zenon
    <3> QED BY <3>1, <3>2
  <2>8. v \in BlockType /\ BlockOK(key, v, c) /\ ToSet(v.str) = ToSet(a.str) \ {x}
    BY <1>1, <1>2, <1>5, <2>1, DropOK DEF SizesOK
  <2>9. /\ x \in ToSet(cur[p][c].str) /\ ~Settled(cur[p][c]) /\ (full => Settled(cur[p][d]))
        /\ ToSet(u.str) = (IF full THEN {x} ELSE ToSet(cur[p][d].str) \cup {x})
        /\ ToSet(v.str) = ToSet(cur[p][c].str) \ {x}
        /\ IF full /\ cur[p][d].blk THEN Push(cur[p], {d}) ELSE UNCHANGED <<out, count>>
    BY <1>1, <1>6, <1>9, <2>2, <2>5, <2>7, <2>8, Zenon
  <2>10. UNCHANGED <<key, source, pc, pwork, child>> /\ c # d
    BY <1>2
  <2> QED BY <1>4, <1>6, <1>8, <2>4, <2>7, <2>8, <2>9, <2>10, GiveStep
<1> QED BY <1>10, <1>11

---------------------------------------------------------------------------
(* The end of a job *)

\* PushRest keeps the invariant.
LEMMA PushRestOK ==
  ASSUME SizesOK, IInv, NEW p \in Proc, PushRest(p)
  PROVE  IInv'
<1> DEFINE C == {c \in Class : cur[p][c].blk /\ Fill(cur[p][c]) > 0}
           b == [c \in Class |-> NoBlock]
<1>1. /\ pc[p] = "push" /\ Push(cur[p], C) /\ cur' = [cur EXCEPT ![p] = b] /\ pc' = [pc EXCEPT ![p] = "dec"]
      /\ UNCHANGED <<key, source, pwork, child>>
  BY DEF PushRest, Goto
<1>2. TurnOK(key, "push", cur[p]) /\ source = <<>>
  BY <1>1 DEF IInv, TurnsOK, Phase1
<1>3. \A c \in Class : Settled(cur[p][c])
  BY <1>2 DEF TurnOK, Class
<1>4. ASSUME NEW c \in Class, c \notin C PROVE cur[p][c].str = <<>>
  <2>1. cur[p][c] \in BlockType /\ BlockOK(key, cur[p][c], c)
    BY JobFacts, Zenon
  <2>2. CASE ~cur[p][c].blk
    BY <2>1, <2>2 DEF BlockOK
  <2>3. CASE ~(Fill(cur[p][c]) > 0)
    <3>1. cur[p][c].str \in Seq(Item)
      BY <2>1 DEF BlockType
    <3>2. Len(cur[p][c].str) = 0
      BY <2>3, <3>1 DEF Fill
    <3> QED BY <3>1, <3>2
  <2> QED BY <1>4, <2>2, <2>3
<1>5. \A c \in Class : NoBlock \in BlockType /\ BlockOK(key, NoBlock, c) /\ NoBlock.str = <<>>
  <2>1. <<>> \in Seq(Item) /\ Distinct(<<>>) /\ Len(<<>>) <= BlockSize
    BY DEF Distinct, SizesOK
  <2> QED BY <2>1, FreshOK DEF SizesOK
<1>6. /\ b \in [Class -> BlockType]
      /\ \A c \in Class : BlockOK(key, b[c], c) /\ b[c].str = <<>>
  <2>1. "lt" \in Class
    BY DEF Class
  <2> QED BY <1>5, <2>1
<1> HIDE DEF b
<1>7. /\ QueuesAre(out', count')
      /\ \A c \in Class : QueueSets(out')[c] = IF c \in C THEN QueueSets(out)[c] \cup BlockSets(cur[p])[c]
                                               ELSE QueueSets(out)[c]
  <2>1. \A c \in C : c \in Class /\ Settled(cur[p][c])
    BY <1>3
  <2> HIDE DEF C
  <2> QED BY <1>1, <2>1, PushOK
<1>8. MoveTo(cur[p], source', b, out')
  <2>1. \A c \in Class : BlockSets(b)[c] = {} /\ (c \notin C => BlockSets(cur[p])[c] = {})
    BY <1>4, <1>6, EmptySet DEF BlockSets
  <2> HIDE DEF C
  <2>2. Pushes(C, BlockSets(cur[p]), QueueSets(out), BlockSets(b), QueueSets(out'))
    BY <1>7, <2>1 DEF Pushes
  <2>3. source' = source
    BY <1>1
  <2> QED BY <2>2, <2>3, PushMoves DEF MoveTo
<1>9. TurnOK(key, "dec", b)
  BY <1>6 DEF TurnOK
<1>10. "dec" \in PcStates /\ pc[p] # "done" /\ source' = source /\ source = <<>>
  BY <1>1, <1>2 DEF PcStates
<1> QED BY <1>1, <1>6, <1>7, <1>8, <1>9, <1>10, JobStep

\* Decrement keeps the invariant.
LEMMA DecrementOK ==
  ASSUME SizesOK, IInv, NEW p \in Proc, Decrement(p)
  PROVE  IInv'
<1> USE DEF IInv
<1>1. /\ pc[p] = "dec" /\ pwork' = pwork - 1 /\ pc' = [pc EXCEPT ![p] = "done"]
      /\ child' = IF pwork = 1 THEN [c \in Class |-> Recurse(c)] ELSE child
      /\ UNCHANGED <<key, source, cur, out, count>>
  BY DEF Decrement, Goto
<1>2. StateOK'
  <2>1. pc' \in [Proc -> PcStates]
    BY <1>1 DEF StateOK, PcStates
  <2>2. \A c \in Class : Recurse(c) \in {"none", "sequential", "parallel"}
    BY DEF Recurse
  <2>3. child' \in [Class -> {"none", "sequential", "parallel"}]
    BY <1>1, <2>2 DEF StateOK
  <2> QED BY <1>1, <2>1, <2>3 DEF StateOK
<1>3. BlocksOK' /\ SourceOK(source') /\ QueuesOK'
  BY <1>1 DEF BlocksOK, QueuesOK
<1>4. PlacedOK'
  BY <1>1 DEF PlacedOK
<1>5. TurnsOK'
  <2>1. ASSUME NEW q \in Proc PROVE TurnOK(key', pc'[q], cur'[q]) /\ (pc'[q] \notin Phase1 => source' = <<>>)
    <3>1. TurnOK(key, pc[q], cur[q]) /\ (pc[q] \notin Phase1 => source = <<>>)
      BY DEF TurnsOK
    <3>2. CASE q = p
      <4>1. pc'[q] = "done"
        BY <1>1, <3>2 DEF StateOK
      <4>2. TurnOK(key, "done", cur[q])
        BY <1>1, <3>1, <3>2 DEF TurnOK
      <4>3. source = <<>>
        BY <1>1, <3>1, <3>2 DEF Phase1
      <4> QED BY <1>1, <4>1, <4>2, <4>3
    <3>3. CASE q # p
      BY <1>1, <3>1, <3>3 DEF StateOK
    <3> QED BY <3>2, <3>3
  <2> QED BY <2>1 DEF TurnsOK
<1>6. CounterOK'
  <2> DEFINE D == {q \in Proc : pc[q] # "done"}
  <2>1. {q \in Proc : pc'[q] # "done"} = D \ {p}
    BY <1>1 DEF StateOK
  <2>2. IsFiniteSet(D) /\ p \in D
    <3>1. IsFiniteSet(Proc)
      BY FS_Interval DEF Proc, SizesOK
    <3> QED BY <1>1, <3>1, FS_Subset
  <2>3. pwork = Cardinality(D)
    BY DEF CounterOK
  <2> HIDE DEF D
  <2>4. pwork' = Cardinality(D \ {p})
    BY <1>1, <2>2, <2>3, FS_RemoveElement
  <2>5. pwork \in Nat
    BY <2>2, <2>3, FS_CardinalityType
  <2>6. pwork # 0
    BY <2>2, <2>3, FS_EmptySet
  <2>7. \A c \in Class : Recurse(c)' = Recurse(c)
    BY <1>1 DEF Recurse, Sizes
  <2>8. \A c \in Class : child'[c] = IF pwork' = 0 THEN Recurse(c)' ELSE "none"
    <3>1. CASE pwork = 1
      BY <1>1, <2>7, <3>1
    <3>2. CASE pwork # 1
      <4>1. child' = child /\ pwork' # 0
        BY <1>1, <2>5, <3>2
      <4>2. \A c \in Class : child[c] = "none"
        BY <2>6 DEF CounterOK
      <4> QED BY <4>1, <4>2
    <3> QED BY <3>1, <3>2
  <2> QED BY <2>1, <2>4, <2>8 DEF CounterOK
<1> QED BY <1>2, <1>3, <1>4, <1>5, <1>6

\* Every step of a job keeps the invariant.
LEMMA StepIInv ==
  ASSUME SizesOK, IInv, NEW p \in Proc, Partition(p)
  PROVE  IInv'
<1>1. CASE \E c \in Class : NewBlock(p, c) \/ SourceDry(p, c)
  BY <1>1, NewBlockOK, SourceDryOK
<1>2. CASE Keep(p) \/ SwapEqual(p) \/ ToRight(p) \/ SwapSides(p)
  BY <1>2, KeepOK, SwapEqualOK, ToRightOK, SwapSidesOK
<1>3. CASE NextTurn(p) \/ Good(p) \/ Move(p) \/ PushRest(p) \/ Decrement(p)
  BY <1>3, NextTurnOK, GoodOK, MoveOK, PushRestOK, DecrementOK
<1> QED BY <1>1, <1>2, <1>3 DEF Partition

---------------------------------------------------------------------------
(* The first state *)

\* Less, as a relation.
LT == {n \in Nat \X Nat : n[1] < n[2]}

\* A nonempty set of naturals has a least element.
LEMMA NatLeast ==
  ASSUME NEW T, T \subseteq Nat, T # {}
  PROVE  \E x \in T : \A y \in T : x <= y
<1>1. IsWellFoundedOn(LT, Nat)
  BY NatLessThanWellFounded, Zenon DEF OpToRel, LT
<1>2. PICK x \in T : \A y \in T : ~(<<y, x>> \in LT)
  BY <1>1, WFMin
<1>3. \A y \in T : ~(y < x)
  BY <1>2 DEF LT
<1> QED BY <1>3

\* The ends e of m blocks.
EndsOK(m, e) ==
  /\ m \in Nat \ {0} /\ e \in [0 .. m -> 0 .. N] /\ e[0] = 0 /\ e[m] = N
  /\ \A i \in 1 .. m : e[i] - e[i - 1] \in 1 .. BlockSize

\* The ends of the blocks are in order.
LEMMA EndsGrow ==
  ASSUME SizesOK, NEW m, NEW e, EndsOK(m, e), NEW i \in 0 .. m, NEW j \in i .. m
  PROVE  e[i] <= e[j]
<1> DEFINE Bad == {k \in i .. m : ~(e[i] <= e[k])}
<1>0. m \in Nat /\ i \in Nat /\ \A k \in 0 .. m : e[k] \in Nat
  BY DEF EndsOK, SizesOK
<1>1. SUFFICES ASSUME Bad # {} PROVE FALSE
  OBVIOUS
<1>2. PICK k \in Bad : \A y \in Bad : k <= y
  <2>1. Bad \subseteq Nat
    BY <1>0
  <2> HIDE DEF Bad
  <2> QED BY <1>1, <2>1, NatLeast
<1>3. k \in i .. m /\ k # i /\ k \in 1 .. m /\ k - 1 \in i .. m /\ k - 1 \in 0 .. m /\ k \in 0 .. m
  BY <1>0, <1>2
<1>4. k - 1 \notin Bad
  <2>1. ~(k <= k - 1)
    BY <1>0, <1>3
  <2> HIDE DEF Bad
  <2> QED BY <1>2, <2>1
<1>5. e[i] <= e[k - 1]
  BY <1>3, <1>4
<1>6. e[k] - e[k - 1] \in 1 .. BlockSize /\ e[k] \in Nat /\ e[k - 1] \in Nat /\ e[i] \in Nat
  BY <1>0, <1>3 DEF EndsOK
<1>7. ~(e[i] <= e[k])
  BY <1>2
<1> QED BY <1>5, <1>6, <1>7 DEF SizesOK

\* Every item is before the end of a first block.
LEMMA EndsCover ==
  ASSUME SizesOK, NEW m, NEW e, EndsOK(m, e), NEW x \in Item
  PROVE  \E i \in 1 .. m : e[i - 1] < x /\ x <= e[i]
<1> DEFINE T == {k \in 0 .. m : x <= e[k]}
<1>1. m \in Nat /\ (\A k \in 0 .. m : e[k] \in Nat) /\ x \in 1 .. N /\ e[0] = 0 /\ e[m] = N
  BY DEF EndsOK, SizesOK, Item
<1>2. PICK k \in T : \A y \in T : k <= y
  <2>1. T \subseteq Nat /\ m \in T
    BY <1>1 DEF SizesOK
  <2> HIDE DEF T
  <2> QED BY <2>1, NatLeast
<1>3. k \in 1 .. m /\ k - 1 \in 0 .. m /\ x <= e[k]
  BY <1>1, <1>2
<1>4. k - 1 \notin T
  <2>1. ~(k <= k - 1)
    BY <1>3
  <2> HIDE DEF T
  <2> QED BY <1>2, <2>1
<1>5. e[k - 1] < x
  BY <1>1, <1>3, <1>4
<1> QED BY <1>3, <1>5

\* The blocks of a cut hold every item once.
LEMMA BlocksAreSource ==
  ASSUME SizesOK, NEW e \in Cuts
  PROVE  Blocks(e) \in Seq(Seq(Item)) /\ SourceOK(Blocks(e)) /\ SourceSet(Blocks(e)) = Item
<1>1. PICK m : EndsOK(m, e)
  BY DEF Cuts, EndsOK
<1>2. m \in Nat /\ (\A k \in 0 .. m : e[k] \in 0 .. N) /\ DOMAIN e = 0 .. m
  BY <1>1 DEF EndsOK
<1>3. ASSUME NEW i \in 1 .. m
      PROVE  /\ i - 1 \in 0 .. m /\ i \in 0 .. m /\ e[i] \in Nat /\ e[i - 1] \in Nat /\ e[i] <= N
             /\ e[i] - e[i - 1] \in Nat /\ e[i] - e[i - 1] <= BlockSize
  BY <1>1, <1>2 DEF EndsOK, SizesOK
<1> DEFINE B == Blocks(e)
           piece(i) == [j \in 1 .. e[i] - e[i - 1] |-> e[i - 1] + j]
<1>4. ASSUME NEW i \in 1 .. m
      PROVE  /\ piece(i) \in Seq(Item) /\ Len(piece(i)) = e[i] - e[i - 1] /\ Distinct(piece(i))
             /\ \A x : x \in ToSet(piece(i)) <=> x \in Int /\ e[i - 1] < x /\ x <= e[i]
  <2>1. PICK a, z : a = e[i - 1] /\ z = e[i] - e[i - 1]
    OBVIOUS
  <2>2. a \in Nat /\ z \in Nat /\ a + z = e[i] /\ a + z <= N
    BY <1>3, <2>1
  <2> DEFINE f == [j \in 1 .. z |-> a + j]
  <2>3. f \in Seq(Item) /\ Len(f) = z
    <3>1. f \in [1 .. z -> Item]
      BY <2>2 DEF Item, SizesOK
    <3> QED BY <2>2, <3>1
  <2>4. \A j \in 1 .. z : f[j] = a + j
    OBVIOUS
  <2>5. piece(i) = f
    BY <2>1
  <2> HIDE DEF f, piece
  <2>6. Distinct(f)
    BY <2>2, <2>3, <2>4 DEF Distinct
  <2>7. \A x : x \in ToSet(f) <=> \E j \in 1 .. z : f[j] = x
    BY <2>3, InSet
  <2>8. ASSUME NEW x PROVE x \in ToSet(f) <=> x \in Int /\ a < x /\ x <= a + z
    <3>1. ASSUME x \in ToSet(f) PROVE x \in Int /\ a < x /\ x <= a + z
      BY <2>2, <2>4, <2>7, <3>1
    <3>2. ASSUME x \in Int, a < x, x <= a + z PROVE x \in ToSet(f)
      <4>1. x - a \in 1 .. z /\ f[x - a] = x
        BY <2>2, <2>4, <3>2
      <4> QED BY <2>7, <4>1
    <3> QED BY <3>1, <3>2
  <2> QED BY <2>1, <2>2, <2>3, <2>5, <2>6, <2>8
<1>5. B = [i \in 1 .. m |-> piece(i)]
  <2>1. DOMAIN e \ {0} = 1 .. m
    BY <1>2
  <2> QED BY <2>1, Zenon DEF Blocks
<1> HIDE DEF B, piece
<1>6. B \in Seq(Seq(Item)) /\ Len(B) = m /\ \A i \in 1 .. m : B[i] = piece(i)
  BY <1>2, <1>4, <1>5
<1>7. SourceOK(B)
  <2>1. ASSUME NEW i \in 1 .. m, NEW j \in 1 .. m, i < j PROVE ToSet(B[i]) \cap ToSet(B[j]) = {}
    <3>1. e[i] <= e[j - 1]
      <4>1. i \in 0 .. m /\ j - 1 \in i .. m
        BY <1>2, <2>1
      <4> QED BY <1>1, <4>1, EndsGrow
    <3>2. e[i] \in Nat /\ e[j - 1] \in Nat
      BY <1>3
    <3>3. ASSUME NEW x \in ToSet(B[i]), x \in ToSet(B[j]) PROVE FALSE
      <4>1. x \in Int /\ x <= e[i] /\ e[j - 1] < x
        BY <1>4, <1>6, <3>3
      <4> QED BY <3>1, <3>2, <4>1
    <3> QED BY <3>3
  <2>2. ASSUME NEW i \in 1 .. m, NEW j \in 1 .. m, i # j PROVE ToSet(B[i]) \cap ToSet(B[j]) = {}
    <3>1. i < j \/ j < i
      BY <1>2, <2>2
    <3> QED BY <2>1, <3>1
  <2>3. \A i \in 1 .. m : Len(B[i]) <= BlockSize /\ Distinct(B[i])
    BY <1>3, <1>4, <1>6
  <2> QED BY <1>6, <2>2, <2>3 DEF SourceOK
<1>8. SourceSet(B) = Item
  <2>1. ASSUME NEW x \in SourceSet(B) PROVE x \in Item
    <3>1. PICK i \in 1 .. m : x \in ToSet(B[i])
      BY <1>6 DEF SourceSet
    <3>2. x \in Int /\ e[i - 1] < x /\ x <= e[i]
      BY <1>4, <1>6, <3>1
    <3> QED BY <1>3, <3>2 DEF Item, SizesOK
  <2>2. ASSUME NEW x \in Item PROVE x \in SourceSet(B)
    <3>1. PICK i \in 1 .. m : e[i - 1] < x /\ x <= e[i]
      BY <1>1, EndsCover
    <3>2. x \in Int
      BY DEF Item, SizesOK
    <3>3. x \in ToSet(B[i])
      BY <1>4, <1>6, <3>1, <3>2
    <3> QED BY <1>6, <3>3 DEF SourceSet
  <2> QED BY <2>1, <2>2
<1> QED BY <1>6, <1>7, <1>8 DEF B

\* The invariant holds at first.
LEMMA InitIInv ==
  ASSUME SizesOK, Init
  PROVE  IInv
<1>1. /\ key \in [Item -> Class] /\ source \in Seq(Seq(Item)) /\ SourceOK(source) /\ SourceSet(source) = Item
      /\ cur = [p \in Proc |-> [c \in Class |-> NoBlock]] /\ pc = [p \in Proc |-> "left"]
      /\ out = [c \in Class |-> {}] /\ count = [c \in Class |-> 0] /\ pwork = Procs
      /\ child = [c \in Class |-> "none"]
  BY BlocksAreSource DEF Init
<1>2. \A c \in Class : NoBlock \in BlockType /\ BlockOK(key, NoBlock, c) /\ NoBlock.str = <<>>
  <2>1. <<>> \in Seq(Item) /\ Distinct(<<>>) /\ Len(<<>>) <= BlockSize
    BY DEF Distinct, SizesOK
  <2> QED BY <2>1, FreshOK DEF SizesOK
<1>3. NoBlock \in BlockType
  BY <1>2 DEF Class
<1>4. StateOK
  <2>1. "left" \in PcStates
    BY DEF PcStates, Phase1
  <2> QED BY <1>1, <1>3, <2>1 DEF StateOK
<1>5. BlocksOK
  BY <1>1, <1>2 DEF BlocksOK
<1>6. PlacedOK
  <2>1. \A p \in Proc, c \in Class : CurSets(cur)[p][c] = {}
    <3>1. \A p \in Proc, c \in Class : cur[p][c].str = <<>>
      BY <1>1, <1>2
    <3> QED BY <3>1, EmptySet DEF CurSets, BlockSets
  <2>2. \A c \in Class : QueueSets(out)[c] = {}
    BY <1>1 DEF QueueSets, QueueSet
  <2> QED BY <1>1, <2>1, <2>2 DEF PlacedOK, Placed
<1>7. TurnsOK
  BY <1>1 DEF TurnsOK, TurnOK, Phase1
<1>8. QueuesOK
  <2>1. QueueSet({}) = {}
    BY DEF QueueSet
  <2>2. Cardinality(QueueSet({})) = 0
    BY <2>1, FS_EmptySet, Zenon
  <2>3. \A c \in Class : out[c] = {} /\ count[c] = 0
    BY <1>1
  <2>4. \A c \in Class : QueueOK(key, {}, 0, c)
    BY <2>1, <2>2 DEF QueueOK
  <2> QED BY <2>3, <2>4, Zenon DEF QueuesOK
<1>9. CounterOK
  <2>1. {p \in Proc : pc[p] # "done"} = Proc
    BY <1>1
  <2>2. Cardinality(Proc) = Procs
    <3>1. Procs \in Int /\ ~(1 > Procs) /\ Procs - 1 + 1 = Procs
      BY DEF SizesOK
    <3> QED BY <3>1, FS_Interval DEF Proc
  <2>3. \A c \in Class : child[c] = "none"
    BY <1>1
  <2> QED BY <1>1, <2>1, <2>2, <2>3 DEF CounterOK, SizesOK
<1> QED BY <1>1, <1>4, <1>5, <1>6, <1>7, <1>8, <1>9 DEF IInv

---------------------------------------------------------------------------
(* What the invariant says *)

\* TypeOK of the partition follows: blocks are not overfull, cursors stay in
\* their blocks, the counters in their ranges.
LEMMA TypeFromIInv == SizesOK /\ IInv => TypeOK
<1> SUFFICES ASSUME SizesOK, IInv PROVE TypeOK
  OBVIOUS
<1>1. ASSUME NEW p \in Proc, NEW c \in Class
      PROVE  LET b == cur[p][c] IN
             Fill(b) <= BlockSize /\ b.pos <= Fill(b) /\ (~b.blk => Fill(b) = 0) /\ ToSet(b.str) \subseteq Item
  <2>1. cur[p][c] \in BlockType /\ BlockOK(key, cur[p][c], c)
    BY JobFacts, Zenon
  <2>2. cur[p][c].str \in Seq(Item)
    BY <2>1 DEF BlockType
  <2>3. ToSet(cur[p][c].str) \subseteq Item
    BY <2>2, InSet
  <2>4. ~cur[p][c].blk => Len(cur[p][c].str) = 0
    BY <2>1 DEF BlockOK
  <2> QED BY <2>1, <2>3, <2>4 DEF BlockOK, Fill
<1>2. pwork \in 0 .. Procs
  <2>1. IsFiniteSet(Proc) /\ Cardinality(Proc) = Procs
    <3>1. Procs \in Int /\ ~(1 > Procs) /\ Procs - 1 + 1 = Procs
      BY DEF SizesOK
    <3> QED BY <3>1, FS_Interval DEF Proc
  <2>2. {p \in Proc : pc[p] # "done"} \in SUBSET Proc
    OBVIOUS
  <2>3. IsFiniteSet({p \in Proc : pc[p] # "done"}) /\ Cardinality({p \in Proc : pc[p] # "done"}) <= Procs
    BY <2>1, <2>2, FS_Subset
  <2>4. Cardinality({p \in Proc : pc[p] # "done"}) \in Nat
    BY <2>3, FS_CardinalityType
  <2> QED BY <2>3, <2>4 DEF IInv, CounterOK, SizesOK
<1>3. ASSUME NEW c \in Class PROVE count[c] \in 0 .. N
  <2>1. IsFiniteSet(Item) /\ Cardinality(Item) = N
    <3>1. N \in Int /\ ~(1 > N) /\ N - 1 + 1 = N
      BY DEF SizesOK
    <3> QED BY <3>1, FS_Interval DEF Item
  <2>2. QueueSet(out[c]) \in SUBSET Item
    BY InSet DEF QueueSet, IInv, StateOK
  <2>3. IsFiniteSet(QueueSet(out[c])) /\ Cardinality(QueueSet(out[c])) <= N
    BY <2>1, <2>2, FS_Subset
  <2>4. Cardinality(QueueSet(out[c])) \in Nat
    BY <2>3, FS_CardinalityType
  <2>5. count[c] = Cardinality(QueueSet(out[c]))
    BY DEF IInv, QueuesOK, QueueOK
  <2> QED BY <2>3, <2>4, <2>5 DEF SizesOK
<1> QED BY <1>1, <1>2, <1>3 DEF TypeOK

\* NothingLost follows: a string is in one block of the source, or of one job,
\* or of one queue.
LEMMA PlacesFromIInv == SizesOK /\ IInv => NothingLost
<1> SUFFICES ASSUME SizesOK, IInv, NEW i \in Item
    PROVE  Cardinality({n \in DOMAIN source : i \in ToSet(source[n])})
           + Cardinality({p \in Proc : i \in Held(p)})
           + Cardinality({c \in Class : \E s \in out[c] : i \in ToSet(s)}) = 1
  BY DEF NothingLost
<1> DEFINE B == {n \in DOMAIN source : i \in ToSet(source[n])}
           J == {p \in Proc : i \in Held(p)}
           Q == {c \in Class : \E s \in out[c] : i \in ToSet(s)}
<1>1. source \in Seq(Seq(Item)) /\ DOMAIN source = 1 .. Len(source) /\ SourceOK(source)
  BY DEF IInv, StateOK
<1>2. Placed(SourceSet(source), CurSets(cur), QueueSets(out))
  BY DEF IInv, PlacedOK
<1>3. /\ \A n \in DOMAIN source : n \in B => i \in SourceSet(source)
      /\ i \in SourceSet(source) => \E n \in B : TRUE
      /\ \A m, n \in B : m = n
  BY <1>1, Zenon DEF SourceSet, SourceOK
<1>4. \A p \in Proc : p \in J <=> \E c \in Class : i \in CurSets(cur)[p][c]
  BY DEF CurSets, BlockSets, Held
<1>5. \A c \in Class : c \in Q <=> i \in QueueSets(out)[c]
  BY DEF QueueSets, QueueSet
<1>6. B \subseteq DOMAIN source /\ J \subseteq Proc /\ Q \subseteq Class
  OBVIOUS
<1> HIDE DEF B, J, Q
<1>7. Cardinality({}) = 0 /\ \A x : Cardinality({x}) = 1
  BY FS_EmptySet, FS_Singleton
<1>8. CASE i \in SourceSet(source)
  <2>1. PICK n : B = {n}
    BY <1>3, <1>8
  <2>2. J = {} /\ Q = {}
    BY <1>2, <1>4, <1>5, <1>6, <1>8 DEF Placed
  <2>3. Cardinality(B) = 1 /\ Cardinality(J) = 0 /\ Cardinality(Q) = 0
    BY <1>7, <2>1, <2>2, Zenon
  <2> QED BY <2>3 DEF B, J, Q
<1>9. CASE \E p \in Proc, c \in Class : i \in CurSets(cur)[p][c]
  <2>1. PICK p \in Proc, c \in Class : i \in CurSets(cur)[p][c]
    BY <1>9
  <2>2. J = {p}
    BY <1>2, <1>4, <1>6, <2>1 DEF Placed
  <2>3. B = {} /\ Q = {}
    BY <1>2, <1>3, <1>5, <1>6, <2>1 DEF Placed
  <2>4. Cardinality(B) = 0 /\ Cardinality(J) = 1 /\ Cardinality(Q) = 0
    BY <1>7, <2>2, <2>3, Zenon
  <2> QED BY <2>4 DEF B, J, Q
<1>10. CASE \E c \in Class : i \in QueueSets(out)[c]
  <2>1. PICK c \in Class : i \in QueueSets(out)[c]
    BY <1>10
  <2>2. Q = {c}
    BY <1>2, <1>5, <1>6, <2>1 DEF Placed
  <2>3. B = {} /\ J = {}
    BY <1>2, <1>3, <1>4, <1>6, <2>1 DEF Placed
  <2>4. Cardinality(B) = 0 /\ Cardinality(J) = 0 /\ Cardinality(Q) = 1
    BY <1>7, <2>2, <2>3, Zenon
  <2> QED BY <2>4 DEF B, J, Q
<1> QED BY <1>2, <1>8, <1>9, <1>10 DEF Placed

\* QueuesExact follows.
LEMMA QueuesFromIInv == IInv => QueuesExact
BY DEF IInv, QueuesOK, QueueOK, QueueSet, QueuesExact

\* After the last job the queues hold all strings, and their sizes are those
\* of the three ranges of the output.
LEMMA AfterLast ==
  ASSUME SizesOK, IInv, pwork = 0
  PROVE  /\ \A i \in Item : i \in QueueSet(out[key[i]])
         /\ \A c \in Class : Sizes[c] = count[c] /\ count[c] \in Nat
         /\ count["lt"] + count["eq"] + count["gt"] = N
<1>1. \A p \in Proc : pc[p] = "done"
  <2>1. IsFiniteSet({p \in Proc : pc[p] # "done"})
    <3>1. IsFiniteSet(Proc)
      BY FS_Interval DEF Proc, SizesOK
    <3> QED BY <3>1, FS_Subset
  <2>2. {p \in Proc : pc[p] # "done"} = {}
    BY <2>1, FS_EmptySet DEF IInv, CounterOK
  <2> QED BY <2>2
<1>2. SourceSet(source) = {}
  <2>1. 1 \in Proc
    BY DEF Proc, SizesOK
  <2>2. source = <<>>
    BY <1>1, <2>1 DEF IInv, TurnsOK, Phase1
  <2> QED BY <2>2 DEF SourceSet
<1>3. \A p \in Proc, c \in Class : CurSets(cur)[p][c] = {}
  <2>1. \A p \in Proc, c \in Class : cur[p][c].str = <<>>
    BY <1>1 DEF IInv, TurnsOK, TurnOK
  <2> QED BY <2>1, EmptySet DEF CurSets, BlockSets
<1>4. \A i \in Item : \E c \in Class : i \in QueueSet(out[c])
  <2>1. \A c \in Class : QueueSets(out)[c] = QueueSet(out[c])
    BY DEF QueueSets
  <2> QED BY <1>2, <1>3, <2>1 DEF IInv, PlacedOK, Placed
<1>5. \A c \in Class : \A i \in QueueSet(out[c]) : key[i] = c
  BY DEF IInv, QueuesOK, QueueOK
<1>6. \A i \in Item : i \in QueueSet(out[key[i]])
  BY <1>4, <1>5
<1> DEFINE L == QueueSet(out["lt"])
           E == QueueSet(out["eq"])
           G == QueueSet(out["gt"])
<1>7. /\ "lt" \in Class /\ "eq" \in Class /\ "gt" \in Class
      /\ \A c \in Class : c = "lt" \/ c = "eq" \/ c = "gt"
  BY DEF Class
<1>8. \A c \in Class : QueueSet(out[c]) \subseteq Item
  BY InSet DEF QueueSet, IInv, StateOK
<1>9. IsFiniteSet(Item) /\ Cardinality(Item) = N
  <2>1. N \in Int /\ ~(1 > N) /\ N - 1 + 1 = N
    BY DEF SizesOK
  <2> QED BY <2>1, FS_Interval DEF Item
<1>10. \A c \in Class : IsFiniteSet(QueueSet(out[c]))
  BY <1>8, <1>9, FS_Subset
<1>11. \A c \in Class : count[c] = Cardinality(QueueSet(out[c])) /\ count[c] \in Nat
  BY DEF IInv, QueuesOK, QueueOK, StateOK
<1>12. L \cap E = {} /\ (L \cup E) \cap G = {} /\ (L \cup E) \cup G = Item
  <2>1. "lt" # "eq" /\ "lt" # "gt" /\ "eq" # "gt"
    OBVIOUS
  <2> QED BY <1>4, <1>5, <1>7, <1>8, <2>1
<1>13. /\ count["lt"] = Cardinality(L) /\ count["eq"] = Cardinality(E) /\ count["gt"] = Cardinality(G)
       /\ IsFiniteSet(L) /\ IsFiniteSet(E) /\ IsFiniteSet(G)
       /\ count["lt"] \in Nat /\ count["eq"] \in Nat /\ count["gt"] \in Nat
  BY <1>7, <1>10, <1>11
<1> HIDE DEF L, E, G
<1>14. Cardinality(L \cup E) = count["lt"] + count["eq"] /\ IsFiniteSet(L \cup E)
  <2>1. /\ IsFiniteSet(L \cup E)
        /\ Cardinality(L \cup E) = Cardinality(L) + Cardinality(E) - Cardinality(L \cap E)
    BY <1>13, FS_Union
  <2>2. Cardinality(L \cap E) = 0
    BY <1>12, FS_EmptySet, Zenon
  <2> QED BY <1>13, <2>1, <2>2
<1>15. count["lt"] + count["eq"] + count["gt"] = N
  <2>1. Cardinality((L \cup E) \cup G)
        = Cardinality(L \cup E) + Cardinality(G) - Cardinality((L \cup E) \cap G)
    BY <1>13, <1>14, FS_Union
  <2>2. Cardinality((L \cup E) \cap G) = 0
    BY <1>12, FS_EmptySet, Zenon
  <2>3. Cardinality((L \cup E) \cup G) = N
    BY <1>9, <1>12, Zenon
  <2> QED BY <1>13, <1>14, <2>1, <2>2, <2>3
<1>16. \A c \in Class : Sizes[c] = count[c]
  <2>1. Sizes["gt"] = count["gt"]
    BY <1>13, <1>15 DEF Sizes, SizesOK
  <2> QED BY <1>7, <2>1 DEF Sizes
<1> QED BY <1>6, <1>11, <1>15, <1>16

\* RecursesOnAll follows.
LEMMA RecursesFromIInv == SizesOK /\ IInv => RecursesOnAll
<1> SUFFICES ASSUME SizesOK, IInv, NEW d \in Class, child[d] # "none"
    PROVE  /\ UNION {ToSet(s) : s \in UNION {out[c] : c \in Class}} = Item
           /\ \A c \in Class : child[c] = "none" <=> \A i \in Item : key[i] # c
  BY DEF RecursesOnAll
<1>1. pwork = 0 /\ \A c \in Class : child[c] = Recurse(c)
  BY DEF IInv, CounterOK
<1>2. /\ \A i \in Item : i \in QueueSet(out[key[i]])
      /\ \A c \in Class : Sizes[c] = count[c] /\ count[c] \in Nat
  BY <1>1, AfterLast
<1>3. \A c \in Class : QueueSet(out[c]) \subseteq Item /\ \A i \in QueueSet(out[c]) : key[i] = c
  <2>1. \A c \in Class : QueueSet(out[c]) \subseteq Item
    BY InSet DEF QueueSet, IInv, StateOK
  <2>2. \A c \in Class : \A i \in QueueSet(out[c]) : key[i] = c
    BY DEF IInv, QueuesOK, QueueOK
  <2> QED BY <2>1, <2>2
<1>4. UNION {ToSet(s) : s \in UNION {out[c] : c \in Class}} = Item
  <2>1. \A i \in Item : key[i] \in Class
    BY DEF IInv, StateOK
  <2> QED BY <1>2, <1>3, <2>1 DEF QueueSet
<1>5. ASSUME NEW c \in Class PROVE child[c] = "none" <=> \A i \in Item : key[i] # c
  <2>1. IsFiniteSet(QueueSet(out[c]))
    <3>1. IsFiniteSet(Item)
      BY FS_Interval DEF Item, SizesOK
    <3> QED BY <1>3, <3>1, FS_Subset
  <2>2. count[c] = 0 <=> QueueSet(out[c]) = {}
    BY <2>1, FS_EmptySet DEF IInv, QueuesOK, QueueOK
  <2>3. Recurse(c) = "none" <=> Sizes[c] = 0
    BY DEF Recurse
  <2> QED BY <1>1, <1>2, <1>3, <2>2, <2>3
<1> QED BY <1>4, <1>5

\* A step that changes nothing keeps the invariant.
LEMMA StutterIInv == IInv /\ UNCHANGED vars => IInv'
<1> SUFFICES ASSUME IInv, UNCHANGED vars PROVE IInv'
  OBVIOUS
<1> USE DEF vars
<1>1. StateOK' /\ BlocksOK' /\ SourceOK(source')
  BY DEF IInv, StateOK, BlocksOK
<1>2. PlacedOK' /\ TurnsOK' /\ QueuesOK'
  BY DEF IInv, PlacedOK, TurnsOK, QueuesOK
<1>3. CounterOK'
  BY DEF IInv, CounterOK, Recurse, Sizes
<1> QED BY <1>1, <1>2, <1>3 DEF IInv

\* The keys do not change.
LEMMA KeyKept ==
  ASSUME NEW p, Partition(p)
  PROVE  key' = key
BY DEF Partition, NewBlock, SourceDry, Keep, SwapEqual, ToRight, SwapSides, NextTurn, Good, Move, PushRest, Decrement

\* When all jobs are done the sizes of the queues are known, no class of a
\* string is without, and the jobs on them are chosen.
LEMMA FinishedFacts ==
  ASSUME SizesOK, IInv, Finished
  PROVE  /\ \A c \in Class : Sizes[c] \in Nat /\ child[c] = Recurse(c)
         /\ Sizes["lt"] + Sizes["eq"] + Sizes["gt"] = N
         /\ \A i \in Item : key[i] \in Class /\ Sizes[key[i]] # 0
<1>1. pwork = 0
  <2>1. {p \in Proc : pc[p] # "done"} = {}
    BY DEF Finished
  <2>2. Cardinality({p \in Proc : pc[p] # "done"}) = 0
    BY <2>1, FS_EmptySet, Zenon
  <2> QED BY <2>2 DEF IInv, CounterOK
<1>2. /\ \A i \in Item : i \in QueueSet(out[key[i]])
      /\ \A c \in Class : Sizes[c] = count[c] /\ count[c] \in Nat
      /\ count["lt"] + count["eq"] + count["gt"] = N
  BY <1>1, AfterLast
<1>3. \A c \in Class : child[c] = Recurse(c)
  BY <1>1 DEF IInv, CounterOK
<1>4. ASSUME NEW i \in Item PROVE key[i] \in Class /\ Sizes[key[i]] # 0
  <2>1. PICK c : c = key[i]
    OBVIOUS
  <2>2. c \in Class
    BY <2>1 DEF IInv, StateOK
  <2>3. IsFiniteSet(QueueSet(out[c]))
    <3>1. QueueSet(out[c]) \subseteq Item
      BY <2>2, InSet DEF QueueSet, IInv, StateOK
    <3>2. IsFiniteSet(Item)
      BY FS_Interval DEF Item, SizesOK
    <3> QED BY <3>1, <3>2, FS_Subset
  <2>4. Cardinality(QueueSet(out[c])) # 0
    <3>1. QueueSet(out[c]) # {}
      BY <1>2, <2>1
    <3> QED BY <2>3, <3>1, FS_EmptySet
  <2>5. count[c] = Cardinality(QueueSet(out[c]))
    BY <2>2 DEF IInv, QueuesOK, QueueOK
  <2> QED BY <1>2, <2>1, <2>2, <2>4, <2>5
<1> QED BY <1>2, <1>3, <1>4 DEF Class

\* The invariant holds of every partition.
THEOREM PartitionInvariant ==
  ASSUME SizesOK
  PROVE  Spec => []IInv
<1>1. Init => IInv
  BY InitIInv
<1>2. IInv /\ [Next]_vars => IInv'
  <2>1. ASSUME IInv, NEW p \in Proc, Partition(p) PROVE IInv'
    BY <2>1, StepIInv
  <2> QED BY <2>1, StutterIInv DEF Next, Terminated
<1> QED BY <1>1, <1>2, PTL DEF Spec

=============================================================================
