-------------------------- MODULE SampleSortProofs --------------------------
(***************************************************************************)
(* Proofs about SampleSort: however the threads interleave and whatever    *)
(* work they give away, the substep counter of a step is exact, nothing    *)
(* refers to a deleted step, the stacks are given away oldest level first, *)
(* every position is finished by exactly one step, and every LCP is        *)
(* written once, after the strings on both its sides.                      *)
(*                                                                         *)
(* The inductive invariant IInv follows a step through its life (StagesOK: *)
(* before it has a handle, HandlesOK: while a thread works on its stacks,  *)
(* AllCounted: until the last substep notifies), and the array through the *)
(* tree of steps (TreeOK, AreasApart: a step never works where a live step *)
(* below it does; FinExact: a position is final or owed by a live step).   *)
(*                                                                         *)
(* LInv does the same for the LCPs: those between the parts of a level     *)
(* stay with the step that split it until the level is popped or the step  *)
(* deleted (LevelsOK, RimsApart), those inside a part go with the part     *)
(* (KidsOK), and every end of a live step is such a border of a step above *)
(* (EndsHeld); so each LCP is written or open at exactly one live step     *)
(* (LcpExact).                                                             *)
(***************************************************************************)
EXTENDS SampleSort, FiniteSetTheorems, SequenceTheorems, WellFoundedInduction, TLAPS

Bound == 0 .. N

LevelType ==
  [b : Bound \X Bound \X Bound \X Bound, depth : 0 .. MaxDepth, idx : 0 .. 3, done : BOOLEAN]

\* The buckets of a level follow one another, the equal bucket is nonempty,
\* and at the last depth it is done.
LevelOK(l) ==
  /\ l.b[1] <= l.b[2] /\ l.b[2] < l.b[3] /\ l.b[3] <= l.b[4]
  /\ l.depth = MaxDepth => l.done

StepType ==
  [kind : {"para", "small"}, parent : StepId \cup {NoStep}, cnt : Nat, pwork : Nat,
   bkt : Seq(LevelType), stack : [ss : Seq(LevelType), ms : Seq(LevelType)],
   front : [ss : Nat, ms : Nat]]

JobType == [type : {"sample", "count", "dist", "small"}, s : StepId, p : Nat]

StateOK ==
  /\ inst \in Instances
  /\ DOMAIN step \subseteq StepId /\ step \in [DOMAIN step -> StepType]
  /\ IsFiniteSet(DOMAIN step)
  /\ jobs \subseteq JobType /\ IsFiniteSet(jobs)
  /\ thr \in [Thread -> [at : Ats, s : StepId \cup {NoStep}]]
  /\ todo \in [Thread -> SUBSET StepId]
  /\ fin \in [Position -> Nat] /\ lcp \in [Position -> Nat]

---------------------------------------------------------------------------
(* The life of a step *)

\* A thread at one of these has not taken a handle on its step yet.
Opening == {"sample", "count", "dist", "distfin", "small"}
InSample == {"ss", "sscheck", "ssfree"}
InMkqs == {"ms", "mscheck", "msfree"}
\* A thread at one of these is counted by its step.
Handling == {"split"} \cup InSample \cup InMkqs
Holding == Handling \cup {"notify"}
Holders(r) == {t \in Thread : thr[t].s = r /\ thr[t].at \in Holding}

Counted(r) == step[r].cnt = Cardinality(Children(r)) + Cardinality(Holders(r))
AllCounted == \A r \in DOMAIN step : Counted(r)

Queued(r) == {j \in jobs : j.s = r}
Openers(r) == {t \in Thread : thr[t].s = r /\ thr[t].at \in Opening}

Weight(a, s) == IF a \in {"count", "dist"} THEN s.pwork ELSE 1

NoStack(s) == s.stack.ss = <<>> /\ s.stack.ms = <<>> /\ s.front.ss = 0 /\ s.front.ms = 0

\* Step r is at stage a: pwork jobs of this kind, or one, are queued or run.
Stage(r, a) ==
  /\ \A j \in Queued(r) : j.type = a
  /\ \A t \in Openers(r) : thr[t].at = a
  /\ Weight(a, step[r]) > 0
  /\ Cardinality(Queued(r)) + Cardinality(Openers(r)) = Weight(a, step[r])
  /\ NoStack(step[r])
  /\ IF a \in {"dist", "distfin"}
     THEN \E l \in Splits(r) : step[r].bkt = <<l>>
     ELSE step[r].bkt = <<>>

\* A step nobody has a handle on is at one stage; one that has counted
\* substeps has no job left.
StageOK(r) ==
  IF step[r].cnt = 0 THEN \E a \in Opening : Stage(r, a)
  ELSE Queued(r) = {} /\ Openers(r) = {}
StagesOK == \A r \in DOMAIN step : StageOK(r)

---------------------------------------------------------------------------
(* Stacks *)

\* The sample sort levels below the quicksort levels, as one stack, of which
\* the lowest were given away.
Whole(s) == s.stack.ss \o s.stack.ms
Freed(s) == s.front.ss + s.front.ms

\* Where the buckets of a level begin that were not started.
NextLo(l) == l.b[l.idx + 1]
\* Where the bucket begins that was started last.
LastLo(l) == l.b[l.idx]

\* The levels are nested, each in the bucket that the one below started last.
NestOK(S, lo, hi, d) ==
  /\ \A n \in 1 .. Len(S) : LevelOK(S[n]) /\ lo <= S[n].b[1] /\ S[n].b[4] <= hi /\ d <= S[n].depth
  /\ \A m, n \in 1 .. Len(S) : m < n =>
       /\ S[m].idx >= 1
       /\ LastLo(S[m]) <= S[n].b[1] /\ S[n].b[4] <= NextLo(S[m])
  /\ \A n \in 1 .. Len(S) : n > 1 => S[n].b[4] = NextLo(S[n - 1])

\* Quicksort levels are given away after all sample sort levels.
OrderOK(s) ==
  /\ s.front.ss <= Len(s.stack.ss) /\ s.front.ms <= Len(s.stack.ms)
  /\ s.front.ms > 0 => s.front.ss = Len(s.stack.ss)

StackOK(r) == OrderOK(step[r]) /\ NestOK(Whole(step[r]), r[1], r[2], r[3])
StacksOK == \A r \in DOMAIN step : StackOK(r)

\* One thread works on the stacks of a step; when it leaves all is given away.
HandleOK(a, r, s) ==
  /\ a = "split" => NoStack(s)
  /\ a \in InSample => SortsBySample(r) /\ s.front.ms = Len(s.stack.ms)
  /\ a \in InSample \cup InMkqs => s.bkt = <<>>
  /\ a \in InMkqs /\ ~SortsBySample(r) => s.stack.ss = <<>>
HandlesOK ==
  /\ \A r \in DOMAIN step : \A t, u \in Handles(r) : t = u
  /\ \A t \in Thread : thr[t].at \in Handling => HandleOK(thr[t].at, thr[t].s, step[thr[t].s])
  /\ \A r \in DOMAIN step : Handles(r) = {} => Len(Whole(step[r])) = Freed(step[r])

---------------------------------------------------------------------------
(* The tree of steps *)

\* Range c lies inside range r and is smaller or deeper.
Inside(c, r) ==
  /\ r[1] <= c[1] /\ c[2] <= r[2] /\ r[3] <= c[3]
  /\ Size(c) < Size(r) \/ r[3] < c[3]
Apart(c, r) == c[2] <= r[1] \/ r[2] <= c[1]

\* Live steps are nested or apart, and the parent is the least step above.
TreeOK ==
  /\ \A x, y \in DOMAIN step : x = y \/ Apart(x, y) \/ Inside(x, y) \/ Inside(y, x)
  /\ \A x \in DOMAIN step : step[x].parent # NoStep => Inside(x, step[x].parent)
  /\ \A x, y \in DOMAIN step : Inside(x, y) =>
       step[x].parent = y \/ (step[x].parent # NoStep /\ Inside(step[x].parent, y))

\* The children still to be created of a step.
Kids(r) == UNION {todo[t] : t \in {u \in Thread : thr[u].s = r}}

\* The levels a thread works on, those above the f that were given away: their
\* range, and what of it is not started.
LevelsArea(S, f) == IF Len(S) > f THEN S[f + 1].b[1] .. S[f + 1].b[4] - 1 ELSE {}
LevelsOpen(S, f) == IF Len(S) > f THEN NextLo(S[Len(S)]) .. S[f + 1].b[4] - 1 ELSE {}
StackArea(s) == LevelsArea(Whole(s), Freed(s))
StackOpen(s) == LevelsOpen(Whole(s), Freed(s))

\* Step r will finish or hand out these positions itself; it works on these.
Owed(r) == IF step[r].cnt = 0 THEN Cells(r)
           ELSE StackOpen(step[r]) \cup UNION {Cells(c) : c \in Kids(r)}
Area(r) == IF step[r].cnt = 0 THEN Cells(r)
           ELSE StackArea(step[r]) \cup UNION {Cells(c) : c \in Kids(r)}

TodoOK ==
  \A t \in Thread :
    /\ todo[t] # {} <=> thr[t].at \in DOMAIN Then
    /\ \A c \in todo[t] : /\ Inside(c, thr[t].s)
                          /\ StackArea(step[thr[t].s]) \cap Cells(c) = {}
    /\ \A c, d \in todo[t] : c = d \/ Apart(c, d)

\* No step works where a step below it lives.
AreasApart ==
  \A x, y \in DOMAIN step : Inside(y, x) => Area(x) \cap Cells(y) = {}

\* A position is final, once, or some step has it open.
FinExact ==
  \A i \in Position : fin[i] = IF \E r \in DOMAIN step : i \in Owed(r) THEN 0 ELSE 1

IInv ==
  /\ StateOK
  /\ NoDangling
  /\ AllCounted
  /\ StagesOK
  /\ StacksOK
  /\ HandlesOK
  /\ TreeOK
  /\ TodoOK
  /\ AreasApart
  /\ FinExact

---------------------------------------------------------------------------
(* The LCPs *)

\* The LCPs between the parts of the levels of a stack, and of a step.
Rims(S)   == UNION {Borders(S[m]) : m \in 1 .. Len(S)}
RimsOf(s) == Rims(s.bkt) \cup Rims(Whole(s))

\* A nonempty range of positions; it need not be a step's.
IsRange(c) == c[1] \in Bound /\ c[2] \in Bound /\ c[1] < c[2]

\* Each level ends where step r does or at a border of a level below.
EndsOK(S, r) ==
  \A n \in 1 .. Len(S) :
    /\ S[n].b[1] = r[1] \/ \E m \in 1 .. n - 1 : S[n].b[1] \in Borders(S[m])
    /\ S[n].b[4] = r[2] \/ \E m \in 1 .. n - 1 : S[n].b[4] \in Borders(S[m])

\* A step has one level of its own or stacks, never both.
LevelsAt(r, s) ==
  /\ s.bkt = <<>> \/ (NoStack(s) /\ \E l \in Splits(r) : s.bkt = <<l>>)
  /\ EndsOK(Whole(s), r)
LevelsOK == \A r \in DOMAIN step : LevelsAt(r, step[r])

\* Range c of step r fits between the borders R.
KidAt(c, r, R) ==
  /\ Inner(c) \cap R = {}
  /\ c[1] = r[1] \/ c[1] \in R
  /\ c[2] = r[2] \/ c[2] \in R
KidsOK == \A t \in Thread : \A c \in todo[t] : KidAt(c, thr[t].s, RimsOf(step[thr[t].s]))

\* No border of a step lies inside a step below it.
RimsApart ==
  \A x, y \in DOMAIN step : Inside(y, x) => RimsOf(step[x]) \cap Inner(y) = {}

\* Where a step ends, the array does or a step above has a border: the LCP
\* between two steps is always some live step's to write.
EndsHeld ==
  \A y \in DOMAIN step :
    /\ y[1] = 0 \/ \E x \in DOMAIN step : Inside(y, x) /\ y[1] \in RimsOf(step[x])
    /\ y[2] = N \/ \E x \in DOMAIN step : Inside(y, x) /\ y[2] \in RimsOf(step[x])

\* Step r will write these LCPs itself or hand them out.
InnerOf(K) == UNION {Inner(c) : c \in K}
Due(r) == IF step[r].cnt = 0 THEN Inner(r)
          ELSE (StackOpen(step[r]) \cap Inner(r)) \cup InnerOf(Kids(r)) \cup RimsOf(step[r])

\* An LCP is written, once, or some step has it open.
LcpExact ==
  \A i \in Position : lcp[i] = IF i = 0 \/ \E r \in DOMAIN step : i \in Due(r) THEN 0 ELSE 1

LInv ==
  /\ LevelsOK
  /\ KidsOK
  /\ RimsApart
  /\ EndsHeld
  /\ LcpExact

---------------------------------------------------------------------------
(* Ranges *)

\* The sizes of a run are as the assumption says.
LEMMA SizesFacts ==
  ASSUME inst \in Instances
  PROVE  /\ N \in Nat \ {0} /\ SeqThreshold \in Nat \ {0} /\ SmallThreshold \in Nat \ {0}
         /\ InsThreshold \in Nat \ {0} /\ FreeLevels \in Nat \ {0} /\ MaxParts \in Nat \ {0}
         /\ MaxDepth \in Nat
BY SizesAssumption DEF Sizes, N, SeqThreshold, SmallThreshold, InsThreshold, FreeLevels,
   MaxParts, MaxDepth

\* The sizes of a run never change.
LEMMA Rigid ==
  ASSUME inst' = inst
  PROVE  /\ N' = N /\ MaxDepth' = MaxDepth /\ Position' = Position /\ StepId' = StepId
         /\ Bound' = Bound /\ LevelType' = LevelType /\ StepType' = StepType /\ JobType' = JobType
         /\ \A r : Splits(r)' = Splits(r) /\ SortsBySample(r)' = SortsBySample(r)
         /\ \A l : LevelOK(l)' = LevelOK(l)
<1>1. N' = N /\ MaxDepth' = MaxDepth /\ SmallThreshold' = SmallThreshold
  BY DEF N, MaxDepth, SmallThreshold
<1>2. Position' = Position /\ StepId' = StepId /\ Bound' = Bound
  BY <1>1 DEF Position, StepId, Bound
<1>3. LevelType' = LevelType /\ JobType' = JobType
  BY <1>1, <1>2 DEF LevelType, JobType
<1>4. StepType' = StepType
  BY <1>2, <1>3 DEF StepType
<1>5. \A r : Splits(r)' = Splits(r) /\ SortsBySample(r)' = SortsBySample(r)
  BY <1>1 DEF Splits, Level, SortsBySample
<1>6. \A l : LevelOK(l)' = LevelOK(l)
  BY <1>1 DEF LevelOK
<1> QED BY <1>1, <1>2, <1>3, <1>4, <1>5, <1>6

\* A step's range is a nonempty range of positions.
LEMMA RangeFacts ==
  ASSUME inst \in Instances, NEW r \in StepId
  PROVE  /\ r[1] \in Bound /\ r[2] \in Bound /\ r[3] \in 0 .. MaxDepth
         /\ r[1] \in Int /\ r[2] \in Int /\ r[3] \in Int
         /\ 0 <= r[1] /\ r[1] < r[2] /\ r[2] <= N
         /\ Size(r) \in Nat \ {0} /\ Cells(r) \subseteq Position
         /\ r # NoStep /\ Cells(r) # {}
<1>1. N \in Nat /\ MaxDepth \in Nat
  BY SizesFacts
<1>2. /\ r[1] \in Bound /\ r[2] \in Bound /\ r[3] \in 0 .. MaxDepth /\ r[1] < r[2]
      /\ r = <<r[1], r[2], r[3]>>
  BY DEF StepId, Bound
<1>3. r # NoStep
  BY <1>1, <1>2 DEF NoStep, Bound
<1>4. r[1] \in Cells(r)
  BY <1>1, <1>2 DEF Cells, Bound
<1> QED BY <1>1, <1>2, <1>3, <1>4 DEF Bound, Size, Cells, Position

\* A range equals another when its ends and depth do.
LEMMA RangeEqual ==
  ASSUME NEW r \in StepId, NEW c \in StepId, r[1] = c[1], r[2] = c[2], r[3] = c[3]
  PROVE  r = c
BY DEF StepId

\* Ranges are apart exactly if they share no position.
LEMMA ApartCells ==
  ASSUME inst \in Instances, NEW c \in StepId, NEW r \in StepId
  PROVE  /\ Apart(c, r) <=> Cells(c) \cap Cells(r) = {}
         /\ Apart(c, r) <=> Apart(r, c)
<1>1. /\ c[1] \in Int /\ c[2] \in Int /\ c[1] < c[2]
      /\ r[1] \in Int /\ r[2] \in Int /\ r[1] < r[2]
  BY RangeFacts
<1>2. Apart(c, r) => Cells(c) \cap Cells(r) = {}
  BY <1>1 DEF Apart, Cells
<1>3. ASSUME ~Apart(c, r) PROVE Cells(c) \cap Cells(r) # {}
  <2>1. CASE c[1] <= r[1]
    <3>1. r[1] \in Cells(c) \cap Cells(r)
      BY <1>1, <1>3, <2>1 DEF Apart, Cells
    <3> QED BY <3>1
  <2>2. CASE r[1] < c[1]
    <3>1. c[1] \in Cells(c) \cap Cells(r)
      BY <1>1, <1>3, <2>2 DEF Apart, Cells
    <3> QED BY <3>1
  <2> QED BY <1>1, <2>1, <2>2
<1> QED BY <1>2, <1>3 DEF Apart

\* Lying inside is a strict order, and what lies inside is not apart.
LEMMA InsideFacts ==
  ASSUME inst \in Instances, NEW c \in StepId, NEW r \in StepId, Inside(c, r)
  PROVE  /\ Cells(c) \subseteq Cells(r) /\ ~Apart(c, r) /\ c # r /\ ~Inside(r, c)
         /\ \A x \in StepId : Inside(r, x) => Inside(c, x)
         /\ \A x \in StepId : Apart(r, x) => Apart(c, x)
<1>1. \A x \in StepId : x[1] \in Int /\ x[2] \in Int /\ x[3] \in Int /\ x[1] < x[2]
  BY RangeFacts
<1> QED BY <1>1 DEF Inside, Apart, Cells, Size

---------------------------------------------------------------------------
(* Levels *)

\* A classifier or an MKQSStep makes a level with the range's ends and no
\* bucket of it started.
LEMMA SplitFacts ==
  ASSUME inst \in Instances, NEW r \in StepId, NEW l \in Splits(r)
  PROVE  /\ l \in LevelType /\ LevelOK(l)
         /\ l.idx = 0 /\ l.b[1] = r[1] /\ l.b[4] = r[2] /\ l.depth = r[3]
<1>1. PICK x \in Cells(r), y \in r[1] + 1 .. r[2], e \in BOOLEAN :
        /\ l = [b |-> <<r[1], x, y, r[2]>>, depth |-> r[3], idx |-> 0, done |-> e]
        /\ x < y /\ (r[3] = MaxDepth => e)
  BY DEF Splits, Level
<1>2. N \in Nat /\ r[1] \in Bound /\ r[2] \in Bound /\ r[3] \in 0 .. MaxDepth
  BY SizesFacts, RangeFacts
<1>3. x \in Bound /\ y \in Bound /\ r[1] <= x /\ y <= r[2]
  BY <1>2 DEF Bound, Cells
<1> QED BY <1>1, <1>2, <1>3 DEF LevelType, LevelOK

\* The buckets of a level: inside its range, apart from each other, and a
\* step of its own if it is filled and not done.
LEMMA BucketFacts ==
  ASSUME inst \in Instances, NEW l \in LevelType, LevelOK(l), NEW k \in 0 .. 2
  PROVE  /\ Bucket(l, k)[1] = l.b[k + 1] /\ Bucket(l, k)[2] = l.b[k + 2]
         /\ l.b[k + 1] \in Bound /\ l.b[k + 2] \in Bound
         /\ l.b[1] <= l.b[k + 1] /\ l.b[k + 1] <= l.b[k + 2] /\ l.b[k + 2] <= l.b[4]
         /\ l.depth <= Bucket(l, k)[3]
         /\ l.b[k + 2] - l.b[k + 1] < l.b[4] - l.b[1] \/ l.depth < Bucket(l, k)[3]
         /\ Filled(l, k) /\ ~Done(l, k) => Bucket(l, k) \in StepId
         /\ \A i \in 0 .. 2 : i < k => l.b[i + 2] <= l.b[k + 1]
<1>1. N \in Nat /\ MaxDepth \in Nat
  BY SizesFacts
<1>2. /\ l.b[1] \in Bound /\ l.b[2] \in Bound /\ l.b[3] \in Bound /\ l.b[4] \in Bound
      /\ l.depth \in 0 .. MaxDepth /\ l.done \in BOOLEAN
  BY DEF LevelType
<1>3. l.b[1] <= l.b[2] /\ l.b[2] < l.b[3] /\ l.b[3] <= l.b[4] /\ (l.depth = MaxDepth => l.done)
  BY DEF LevelOK
<1>4. CASE k = 0
  <2>1. Bucket(l, k) = <<l.b[1], l.b[2], l.depth>>
    BY <1>4 DEF Bucket
  <2> QED BY <2>1, <1>1, <1>2, <1>3, <1>4 DEF Bound, Filled, Done, StepId
<1>5. CASE k = 1
  <2>1. Bucket(l, k) = <<l.b[2], l.b[3], l.depth + 1>>
    BY <1>5 DEF Bucket
  <2>2. ~Done(l, k) => l.depth + 1 \in 0 .. MaxDepth
    BY <1>1, <1>2, <1>3, <1>5 DEF Done
  <2> QED BY <2>1, <2>2, <1>1, <1>2, <1>3, <1>5 DEF Bound, Filled, StepId
<1>6. CASE k = 2
  <2>1. Bucket(l, k) = <<l.b[3], l.b[4], l.depth>>
    BY <1>6 DEF Bucket
  <2> QED BY <2>1, <1>1, <1>2, <1>3, <1>6 DEF Bound, Filled, Done, StepId
<1> QED BY <1>4, <1>5, <1>6

\* Where the unstarted buckets begin is a position inside the level.
LEMMA NextFacts ==
  ASSUME inst \in Instances, NEW l \in LevelType, LevelOK(l)
  PROVE  /\ NextLo(l) \in Bound /\ l.b[1] <= NextLo(l) /\ NextLo(l) <= l.b[4]
         /\ l.idx = 3 => NextLo(l) = l.b[4]
         /\ l.idx < 3 => l.idx \in 0 .. 2 /\ NextLo(l) = Bucket(l, l.idx)[1]
<1>1. l.idx \in {0, 1, 2, 3}
  BY DEF LevelType
<1>2. N \in Nat
  BY SizesFacts
<1> QED BY <1>1, <1>2 DEF LevelType, LevelOK, NextLo, Bucket, Bound

\* So is the beginning of the bucket started last.
LEMMA LastFacts ==
  ASSUME inst \in Instances, NEW l \in LevelType, LevelOK(l), l.idx >= 1
  PROVE  /\ LastLo(l) \in Bound /\ l.b[1] <= LastLo(l) /\ LastLo(l) <= NextLo(l)
<1>1. l.idx \in {1, 2, 3}
  BY DEF LevelType
<1>2. N \in Nat
  BY SizesFacts
<1>3. /\ l.b[1] \in Bound /\ l.b[2] \in Bound /\ l.b[3] \in Bound /\ l.b[4] \in Bound
  BY DEF LevelType
<1> QED BY <1>1, <1>2, <1>3 DEF LevelOK, LastLo, NextLo, Bound

\* The filled buckets that are not started divide what is left of a level.
Waiting(l, k) == k >= l.idx /\ Filled(l, k)

\* The buckets of a level that are not started cover what is open of it.
LEMMA LevelParts ==
  ASSUME inst \in Instances, NEW l \in LevelType, LevelOK(l)
  PROVE  /\ \A k \in 0 .. 2 : Waiting(l, k) =>
              NextLo(l) <= Bucket(l, k)[1] /\ Bucket(l, k)[2] <= l.b[4]
         /\ \A p \in NextLo(l) .. l.b[4] - 1 :
              \E k \in 0 .. 2 : Waiting(l, k) /\ p \in Cells(Bucket(l, k))
<1>1. N \in Nat
  BY SizesFacts
<1>2. PICK v \in Int, x \in Int, y \in Int, z \in Int :
        v = l.b[1] /\ x = l.b[2] /\ y = l.b[3] /\ z = l.b[4] /\ v <= x /\ x < y /\ y <= z
  <2>1. l.b[1] \in Int /\ l.b[2] \in Int /\ l.b[3] \in Int /\ l.b[4] \in Int
    BY <1>1 DEF LevelType, Bound
  <2> QED BY <2>1 DEF LevelOK
<1>3. /\ Bucket(l, 0)[1] = v /\ Bucket(l, 0)[2] = x
      /\ Bucket(l, 1)[1] = x /\ Bucket(l, 1)[2] = y
      /\ Bucket(l, 2)[1] = y /\ Bucket(l, 2)[2] = z
      /\ (Filled(l, 0) <=> v < x) /\ (Filled(l, 1) <=> x < y) /\ (Filled(l, 2) <=> y < z)
  BY <1>2 DEF Bucket, Filled
<1>4. PICK i \in {0, 1, 2, 3} : i = l.idx
  BY DEF LevelType
<1>5. /\ i = 0 => NextLo(l) = v
      /\ i = 1 => NextLo(l) = x
      /\ i = 2 => NextLo(l) = y
      /\ i = 3 => NextLo(l) = z
  BY <1>2, <1>4 DEF NextLo
<1>6. ASSUME NEW k \in 0 .. 2, Waiting(l, k)
      PROVE  NextLo(l) <= Bucket(l, k)[1] /\ Bucket(l, k)[2] <= l.b[4]
  <2>1. k \in {0, 1, 2} /\ k >= i
    BY <1>4, <1>6 DEF Waiting
  <2> QED BY <2>1, <1>2, <1>3, <1>4, <1>5
<1>7. ASSUME NEW p \in NextLo(l) .. l.b[4] - 1
      PROVE  \E k \in 0 .. 2 : Waiting(l, k) /\ p \in Cells(Bucket(l, k))
  <2>1. p \in Int /\ p < z /\ NextLo(l) <= p
    <3>1. NextLo(l) \in Int
      BY <1>1, NextFacts DEF Bound
    <3> QED BY <3>1, <1>2
  <2>2. CASE p < x
    <3>1. i = 0 /\ v <= p
      BY <1>2, <1>4, <1>5, <2>1, <2>2
    <3>2. Waiting(l, 0) /\ p \in Cells(Bucket(l, 0))
      BY <1>2, <1>3, <1>4, <2>1, <2>2, <3>1 DEF Waiting, Cells
    <3> QED BY <3>2
  <2>3. CASE x <= p /\ p < y
    <3>1. i <= 1
      BY <1>2, <1>4, <1>5, <2>1, <2>3
    <3>2. Waiting(l, 1) /\ p \in Cells(Bucket(l, 1))
      BY <1>2, <1>3, <1>4, <2>1, <2>3, <3>1 DEF Waiting, Cells
    <3> QED BY <3>2
  <2>4. CASE y <= p
    <3>1. i <= 2
      BY <1>2, <1>4, <1>5, <2>1, <2>4
    <3>2. Waiting(l, 2) /\ p \in Cells(Bucket(l, 2))
      BY <1>2, <1>3, <1>4, <2>1, <2>4, <3>1 DEF Waiting, Cells
    <3> QED BY <3>2
  <2> QED BY <1>2, <2>1, <2>2, <2>3, <2>4
<1> QED BY <1>6, <1>7

---------------------------------------------------------------------------
(* Nested levels *)

\* The bounds of a level.
LEMMA LevelBounds ==
  ASSUME inst \in Instances, NEW l \in LevelType
  PROVE  /\ l.b[1] \in Bound /\ l.b[2] \in Bound /\ l.b[3] \in Bound /\ l.b[4] \in Bound
         /\ l.idx \in {0, 1, 2, 3}
BY DEF LevelType

\* Bounds are ordered.
LEMMA BoundTrans ==
  ASSUME inst \in Instances, NEW x \in Bound, NEW y \in Bound, NEW z \in Bound, x <= y, y <= z
  PROVE  x <= z
BY SizesFacts DEF Bound

\* A stretch of cells inside another, cut off its front, and put before it.
LEMMA InSpan ==
  ASSUME NEW a \in Int, NEW b \in Int, NEW x \in Int, NEW y \in Int, x <= a, b <= y
  PROVE  a .. b - 1 \subseteq x .. y - 1
OBVIOUS
LEMMA SpanLess ==
  ASSUME NEW a \in Int, NEW b \in Int, NEW c \in Int, a <= b, b <= c
  PROVE  a .. b - 1 \subseteq a .. c - 1 /\ b .. c - 1 = (a .. c - 1) \ (a .. b - 1)
OBVIOUS
LEMMA SpanMore ==
  ASSUME NEW a \in Int, NEW b \in Int, NEW c \in Int, a <= b, b <= c
  PROVE  a .. c - 1 = (b .. c - 1) \cup (a .. b - 1)
OBVIOUS

\* A level lies inside every level below it, and inside the bucket that one
\* started last.
LEMMA NestFacts ==
  ASSUME inst \in Instances, NEW S \in Seq(LevelType), NEW lo \in Int, NEW hi \in Int, NEW d \in Int,
         NestOK(S, lo, hi, d), NEW n \in 1 .. Len(S)
  PROVE  /\ S[n] \in LevelType /\ LevelOK(S[n]) /\ d <= S[n].depth
         /\ lo <= S[n].b[1] /\ S[n].b[4] <= hi
         /\ NextLo(S[n]) \in Bound /\ S[n].b[1] <= NextLo(S[n]) /\ NextLo(S[n]) <= S[n].b[4]
         /\ \A m \in 1 .. n : S[m].b[1] <= S[n].b[1] /\ S[n].b[4] <= S[m].b[4]
<1>1. N \in Nat /\ \A i \in 1 .. Len(S) : S[i] \in LevelType
  BY SizesFacts
<1>2. \A i \in 1 .. Len(S) : LevelOK(S[i]) /\ lo <= S[i].b[1] /\ S[i].b[4] <= hi /\ d <= S[i].depth
  BY DEF NestOK
<1>3. \A i \in 1 .. Len(S) :
        NextLo(S[i]) \in Bound /\ S[i].b[1] <= NextLo(S[i]) /\ NextLo(S[i]) <= S[i].b[4]
  BY <1>1, <1>2, NextFacts
<1>4. ASSUME NEW m \in 1 .. n
      PROVE  S[m].b[1] <= S[n].b[1] /\ S[n].b[4] <= S[m].b[4]
  <2>1. S[m].b[1] \in Bound /\ S[n].b[1] \in Bound /\ S[m].b[4] \in Bound /\ S[n].b[4] \in Bound
    <3>1. S[m] \in LevelType /\ S[n] \in LevelType
      BY <1>1
    <3> QED BY <3>1, LevelBounds
  <2>2. CASE m = n
    <3>1. \A x \in Bound : x <= x
      BY <1>1 DEF Bound
    <3> QED BY <2>1, <2>2, <3>1
  <2>3. CASE m < n
    <3>0. /\ NextLo(S[m]) \in Bound /\ NextLo(S[m]) <= S[m].b[4]
      BY <1>3
    <3>1. /\ S[m].idx >= 1
          /\ LastLo(S[m]) <= S[n].b[1] /\ S[n].b[4] <= NextLo(S[m])
      BY <2>3 DEF NestOK
    <3>2. S[m].b[1] <= LastLo(S[m]) /\ LastLo(S[m]) \in Bound
      BY <3>1, <1>1, <1>2, LastFacts
    <3>4. S[m].b[1] <= S[n].b[1]
      BY <2>1, <3>1, <3>2, BoundTrans
    <3>5. S[n].b[4] <= S[m].b[4]
      BY <2>1, <3>0, <3>1, BoundTrans
    <3> QED BY <3>4, <3>5
  <2> QED BY <2>2, <2>3
<1> QED BY <1>1, <1>2, <1>3, <1>4

\* The next bucket of the level on top is started.
LEMMA NestMoved ==
  ASSUME inst \in Instances, NEW S \in Seq(LevelType), NEW lo \in Int, NEW hi \in Int, NEW d \in Int,
         NestOK(S, lo, hi, d), Len(S) > 0, NEW T \in Seq(LevelType), Len(T) = Len(S),
         \A i \in 1 .. Len(S) - 1 : T[i] = S[i],
         T[Len(S)].b = S[Len(S)].b, T[Len(S)].depth = S[Len(S)].depth,
         LevelOK(T[Len(S)])
  PROVE  NestOK(T, lo, hi, d)
<1> DEFINE n == Len(S)
<1>1. n \in 1 .. n /\ \A i \in 1 .. n : i = n \/ i \in 1 .. n - 1
  OBVIOUS
<1>2. \A i \in 1 .. n : T[i].b = S[i].b /\ T[i].depth = S[i].depth /\ LevelOK(T[i])
  BY <1>1 DEF NestOK
<1>3. ASSUME NEW i \in 1 .. Len(T)
      PROVE  LevelOK(T[i]) /\ lo <= T[i].b[1] /\ T[i].b[4] <= hi /\ d <= T[i].depth
  <2>1. lo <= S[i].b[1] /\ S[i].b[4] <= hi /\ d <= S[i].depth
    BY DEF NestOK
  <2> QED BY <2>1, <1>2
<1>4. ASSUME NEW i \in 1 .. Len(T), NEW j \in 1 .. Len(T), i < j
      PROVE  T[i].idx >= 1 /\ LastLo(T[i]) <= T[j].b[1] /\ T[j].b[4] <= NextLo(T[i])
  <2>1. T[i] = S[i] /\ i \in 1 .. n /\ j \in 1 .. n
    BY <1>1, <1>4
  <2>2. S[i].idx >= 1 /\ LastLo(S[i]) <= S[j].b[1] /\ S[j].b[4] <= NextLo(S[i])
    BY <2>1, <1>4 DEF NestOK
  <2> QED BY <2>1, <2>2, <1>2 DEF LastLo
<1>5. ASSUME NEW i \in 1 .. Len(T), i > 1
      PROVE  T[i].b[4] = NextLo(T[i - 1])
  <2>1. T[i - 1] = S[i - 1] /\ i \in 1 .. n
    BY <1>1, <1>5
  <2>2. S[i].b[4] = NextLo(S[i - 1])
    BY <2>1, <1>5 DEF NestOK
  <2> QED BY <2>1, <2>2, <1>2
<1> QED BY <1>3, <1>4, <1>5 DEF NestOK

\* A level is pushed for the bucket just started.
LEMMA NestPushed ==
  ASSUME inst \in Instances, NEW S \in Seq(LevelType), NEW lo \in Int, NEW hi \in Int, NEW d \in Int,
         NestOK(S, lo, hi, d), Len(S) > 0, S[Len(S)].idx >= 1,
         NEW m \in LevelType, LevelOK(m), d <= m.depth,
         m.b[1] = LastLo(S[Len(S)]), m.b[4] = NextLo(S[Len(S)]),
         NEW T \in Seq(LevelType), Len(T) = Len(S) + 1,
         \A i \in 1 .. Len(S) : T[i] = S[i], T[Len(S) + 1] = m
  PROVE  NestOK(T, lo, hi, d)
<1> DEFINE n == Len(S)
<1>1. n \in 1 .. n /\ \A i \in 1 .. Len(T) : i \in 1 .. n \/ i = n + 1
  OBVIOUS
<1>2. N \in Nat
  BY SizesFacts
<1>3. /\ S[n] \in LevelType /\ LevelOK(S[n]) /\ lo <= S[n].b[1] /\ S[n].b[4] <= hi
      /\ NextLo(S[n]) \in Bound /\ NextLo(S[n]) <= S[n].b[4]
      /\ \A i \in 1 .. n : S[i] \in LevelType /\ LevelOK(S[i])
  BY <1>1, NestFacts
<1>4. /\ S[n].b[1] \in Bound /\ S[n].b[4] \in Bound /\ m.b[1] \in Bound /\ m.b[4] \in Bound
      /\ S[n].b[1] <= LastLo(S[n])
  <2>1. S[n].b[1] <= LastLo(S[n])
    BY <1>3, LastFacts
  <2> QED BY <2>1, <1>3 DEF LevelType
<1>5. S[n].b[1] <= m.b[1] /\ m.b[4] <= S[n].b[4]
  BY <1>3, <1>4
<1>6. ASSUME NEW i \in 1 .. Len(T)
      PROVE  LevelOK(T[i]) /\ lo <= T[i].b[1] /\ T[i].b[4] <= hi /\ d <= T[i].depth
  <2>1. CASE i \in 1 .. n
    BY <2>1 DEF NestOK
  <2>2. CASE i = n + 1
    BY <2>2, <1>2, <1>3, <1>4, <1>5 DEF Bound
  <2> QED BY <2>1, <2>2, <1>1
<1>7. ASSUME NEW i \in 1 .. Len(T), NEW j \in 1 .. Len(T), i < j
      PROVE  T[i].idx >= 1 /\ LastLo(T[i]) <= T[j].b[1] /\ T[j].b[4] <= NextLo(T[i])
  <2>1. T[i] = S[i] /\ i \in 1 .. n
    BY <1>1, <1>7
  <2>2. CASE j \in 1 .. n
    BY <2>1, <2>2, <1>7 DEF NestOK
  <2>3. CASE j = n + 1
    <3>1. T[j] = m
      BY <2>3
    <3>2. CASE i = n
      BY <2>1, <3>1, <3>2, <1>2, <1>3, <1>4 DEF Bound
    <3>3. CASE i < n
      <4>1. S[i].idx >= 1 /\ LastLo(S[i]) <= S[n].b[1] /\ S[n].b[4] <= NextLo(S[i])
        BY <2>1, <3>3, <1>1 DEF NestOK
      <4>2. NextLo(S[i]) \in Bound /\ S[i] \in LevelType
        BY <2>1, <1>3, NextFacts
      <4>3. LastLo(S[i]) \in Bound
        BY <2>1, <4>1, <4>2, <1>3, LastFacts
      <4>4. LastLo(S[i]) <= m.b[1]
        BY <4>1, <4>3, <1>4, <1>5, BoundTrans
      <4>5. m.b[4] <= NextLo(S[i])
        BY <4>1, <4>2, <1>4, <1>5, BoundTrans
      <4> QED BY <2>1, <3>1, <4>1, <4>4, <4>5
    <3> QED BY <2>1, <3>2, <3>3
  <2> QED BY <2>2, <2>3, <1>1
<1>8. ASSUME NEW i \in 1 .. Len(T), i > 1
      PROVE  T[i].b[4] = NextLo(T[i - 1])
  <2>1. T[i - 1] = S[i - 1] /\ i - 1 \in 1 .. n
    BY <1>1, <1>8
  <2>2. CASE i \in 1 .. n
    BY <2>1, <2>2, <1>8 DEF NestOK
  <2>3. CASE i = n + 1
    BY <2>1, <2>3
  <2> QED BY <2>2, <2>3, <1>1
<1> QED BY <1>6, <1>7, <1>8 DEF NestOK

\* The level on top is popped.
LEMMA NestPopped ==
  ASSUME inst \in Instances, NEW S \in Seq(LevelType), NEW lo \in Int, NEW hi \in Int, NEW d \in Int,
         NestOK(S, lo, hi, d), Len(S) > 0,
         NEW T \in Seq(LevelType), Len(T) = Len(S) - 1,
         \A i \in 1 .. Len(T) : T[i] = S[i]
  PROVE  NestOK(T, lo, hi, d)
<1>1. \A i \in 1 .. Len(T) : i \in 1 .. Len(S) /\ T[i] = S[i]
  OBVIOUS
<1>2. \A i \in 1 .. Len(T) : i > 1 => i - 1 \in 1 .. Len(T)
  OBVIOUS
<1>3. \A i \in 1 .. Len(T) : LevelOK(T[i]) /\ lo <= T[i].b[1] /\ T[i].b[4] <= hi /\ d <= T[i].depth
  BY <1>1 DEF NestOK
<1>4. ASSUME NEW i \in 1 .. Len(T), NEW j \in 1 .. Len(T), i < j
      PROVE  T[i].idx >= 1 /\ LastLo(T[i]) <= T[j].b[1] /\ T[j].b[4] <= NextLo(T[i])
  BY <1>1, <1>4 DEF NestOK
<1>5. ASSUME NEW i \in 1 .. Len(T), i > 1
      PROVE  T[i].b[4] = NextLo(T[i - 1])
  BY <1>1, <1>2, <1>5 DEF NestOK
<1> QED BY <1>3, <1>4, <1>5 DEF NestOK

---------------------------------------------------------------------------
(* What a step changes *)

\* Thread t goes to a, for step r; the others stay.
Moves(t, a, r) ==
  /\ thr'[t].at = a /\ thr'[t].s = r
  /\ \A u \in Thread : u # t => thr'[u] = thr[u]

\* The same, said of At and Rest.
LEMMA MovesFacts ==
  ASSUME inst \in Instances, thr \in [Thread -> [at : Ats, s : StepId \cup {NoStep}]],
         NEW t \in Thread, NEW a \in Ats, NEW r \in StepId \cup {NoStep},
         At(t, a, r)
  PROVE  Moves(t, a, r) /\ thr' \in [Thread -> [at : Ats, s : StepId \cup {NoStep}]]
BY DEF At, Moves

\* A thread that rests is idle, for no step.
LEMMA RestFacts ==
  ASSUME inst \in Instances, thr \in [Thread -> [at : Ats, s : StepId \cup {NoStep}]],
         NEW t \in Thread, Rest(t)
  PROVE  Moves(t, "idle", NoStep) /\ thr' \in [Thread -> [at : Ats, s : StepId \cup {NoStep}]]
<1>1. "idle" \in Ats
  BY DEF Ats
<1> QED BY <1>1 DEF Rest, Moves, Idle

\* What the move does to the threads that open, work on or notify a step.
LEMMA MovedSets ==
  ASSUME NEW t \in Thread, NEW a, NEW r, Moves(t, a, r), NEW x
  PROVE  /\ a \in Opening /\ r = x => Openers(x)' = Openers(x) \cup {t}
         /\ a \notin Opening \/ r # x => Openers(x)' = Openers(x) \ {t}
         /\ thr[t].at \notin Opening \/ thr[t].s # x => t \notin Openers(x)
         /\ thr[t].at \in Opening /\ thr[t].s = x => t \in Openers(x)
         /\ a \in Handling /\ r = x => Handles(x)' = Handles(x) \cup {t}
         /\ a \notin Handling \/ r # x => Handles(x)' = Handles(x) \ {t}
         /\ thr[t].at \notin Handling \/ thr[t].s # x => t \notin Handles(x)
         /\ thr[t].at \in Handling /\ thr[t].s = x => t \in Handles(x)
         /\ a \in Holding /\ r = x => Holders(x)' = Holders(x) \cup {t}
         /\ a \notin Holding \/ r # x => Holders(x)' = Holders(x) \ {t}
         /\ thr[t].at \notin Holding \/ thr[t].s # x => t \notin Holders(x)
         /\ thr[t].at \in Holding /\ thr[t].s = x => t \in Holders(x)
<1>1. /\ thr'[t].at = a /\ thr'[t].s = r
      /\ \A u \in Thread : u # t => thr'[u] = thr[u]
  BY DEF Moves
<1>2. /\ Openers(x)' = {u \in Thread : thr'[u].s = x /\ thr'[u].at \in Opening}
      /\ Handles(x)' = {u \in Thread : thr'[u].s = x /\ thr'[u].at \in Handling}
      /\ Holders(x)' = {u \in Thread : thr'[u].s = x /\ thr'[u].at \in Holding}
  BY DEF Openers, Handles, Holders, Opening, Handling, Holding, InSample, InMkqs
<1>3. /\ Openers(x) = {u \in Thread : thr[u].s = x /\ thr[u].at \in Opening}
      /\ Handles(x) = {u \in Thread : thr[u].s = x /\ thr[u].at \in Handling}
      /\ Holders(x) = {u \in Thread : thr[u].s = x /\ thr[u].at \in Holding}
  BY DEF Openers, Handles, Holders, Opening, Handling, Holding, InSample, InMkqs
<1> QED BY <1>1, <1>2, <1>3

\* The threads counted by a step are those with a handle and the notifiers.
LEMMA HoldersFacts ==
  ASSUME NEW r
  PROVE  /\ IsFiniteSet(Holders(r)) /\ IsFiniteSet(Openers(r))
         /\ Cardinality(Holders(r)) = Cardinality(Handles(r)) + Cardinality(Notifiers(r))
         /\ Handles(r) \subseteq Holders(r)
<1>1. Handles(r) \subseteq Thread /\ Notifiers(r) \subseteq Thread /\ Openers(r) \subseteq Thread
  BY DEF Handles, Notifiers, Openers
<1>2. IsFiniteSet(Handles(r)) /\ IsFiniteSet(Notifiers(r)) /\ IsFiniteSet(Openers(r))
  BY <1>1, ThreadAssumption, FS_Subset
<1>3. Handles(r) \cap Notifiers(r) = {}
  BY DEF Handles, Notifiers
<1>4. Holders(r) = Handles(r) \cup Notifiers(r)
  BY DEF Holders, Handles, Notifiers, Holding, Handling, InSample, InMkqs
<1>5. Cardinality(Handles(r) \cup Notifiers(r)) =
        Cardinality(Handles(r)) + Cardinality(Notifiers(r)) - Cardinality(Handles(r) \cap Notifiers(r))
  BY <1>2, FS_Union
<1>6. Cardinality(Handles(r) \cap Notifiers(r)) = 0
  BY <1>3, FS_EmptySet
<1>7. IsFiniteSet(Handles(r) \cup Notifiers(r))
  BY <1>2, FS_Union
<1>8. Cardinality(Handles(r)) \in Nat /\ Cardinality(Notifiers(r)) \in Nat
  BY <1>2, FS_CardinalityType
<1> QED BY <1>2, <1>4, <1>5, <1>6, <1>7, <1>8

\* The counter of every step is exact.
LEMMA CountExactCounted ==
  ASSUME StateOK
  PROVE  CountExact <=> AllCounted
<1>1. ASSUME NEW r \in DOMAIN step
      PROVE  /\ Cardinality(Children(r)) \in Nat /\ Cardinality(Handles(r)) \in Nat
             /\ Cardinality(Notifiers(r)) \in Nat
             /\ Cardinality(Holders(r)) = Cardinality(Handles(r)) + Cardinality(Notifiers(r))
  <2>1. Children(r) \subseteq DOMAIN step /\ IsFiniteSet(DOMAIN step)
    BY DEF Children, StateOK
  <2>2. IsFiniteSet(Children(r))
    BY <2>1, FS_Subset
  <2>3. Handles(r) \subseteq Thread /\ Notifiers(r) \subseteq Thread
    BY DEF Handles, Notifiers
  <2>4. IsFiniteSet(Handles(r)) /\ IsFiniteSet(Notifiers(r))
    BY <2>3, ThreadAssumption, FS_Subset
  <2> QED BY <2>2, <2>4, HoldersFacts, FS_CardinalityType
<1> QED BY <1>1 DEF CountExact, AllCounted, Counted

---------------------------------------------------------------------------
(* What the invariant says of a step, a thread and the array *)

\* A handle is named by where its thread is.
LEMMA HandlesDef ==
  ASSUME NEW r
  PROVE  Handles(r) = {t \in Thread : thr[t].s = r /\ thr[t].at \in Handling}
BY DEF Handles, Handling, InSample, InMkqs

\* Only the thread with the handle has children of a step to create.
LEMMA KidsFacts ==
  ASSUME TodoOK, HandlesOK, NEW r \in DOMAIN step
  PROVE  /\ \A t \in Handles(r) : Kids(r) = todo[t]
         /\ Handles(r) = {} => Kids(r) = {}
<1>1. \A u \in Thread : todo[u] # {} => thr[u].at \in Handling
  BY DEF TodoOK, Then, Handling, InSample, InMkqs
<1>2. \A u \in Thread : thr[u].s = r /\ todo[u] # {} => u \in Handles(r)
  BY <1>1, HandlesDef
<1>3. ASSUME NEW t \in Handles(r) PROVE Kids(r) = todo[t]
  <2>1. t \in Thread /\ thr[t].s = r
    BY HandlesDef
  <2>2. \A u \in Thread : thr[u].s = r /\ todo[u] # {} => u = t
    BY <1>2, <1>3 DEF HandlesOK
  <2> QED BY <2>1, <2>2 DEF Kids
<1>4. Handles(r) = {} => Kids(r) = {}
  BY <1>2 DEF Kids
<1> QED BY <1>3, <1>4

\* A thread that is counted has a live step with no job left.
LEMMA HolderFacts ==
  ASSUME IInv, NEW t \in Thread, thr[t].at \in Holding
  PROVE  /\ thr[t].s \in DOMAIN step /\ t \in Holders(thr[t].s)
         /\ step[thr[t].s].cnt >= 1
         /\ Queued(thr[t].s) = {} /\ Openers(thr[t].s) = {}
<1> DEFINE r == thr[t].s
<1>1. r \in DOMAIN step
  BY DEF IInv, NoDangling, Holding, Handling, InSample, InMkqs
<1>2. t \in Holders(r)
  BY DEF Holders
<1>3. Counted(r)
  BY <1>1 DEF IInv, AllCounted
<1>4. Cardinality(Holders(r)) \in Nat /\ Cardinality(Holders(r)) # 0
  BY <1>2, HoldersFacts, FS_EmptySet, FS_CardinalityType
<1>5. Cardinality(Children(r)) \in Nat
  <2>1. Children(r) \subseteq DOMAIN step /\ IsFiniteSet(DOMAIN step)
    BY DEF Children, IInv, StateOK
  <2> QED BY <2>1, FS_Subset, FS_CardinalityType
<1>6. step[r].cnt >= 1
  BY <1>3, <1>4, <1>5 DEF Counted
<1>7. Queued(r) = {} /\ Openers(r) = {}
  BY <1>1, <1>6 DEF IInv, StagesOK, StageOK
<1> QED BY <1>1, <1>2, <1>6, <1>7

\* Nobody is counted by a step that has no handle yet.
LEMMA FreshFacts ==
  ASSUME IInv, NEW r \in DOMAIN step, step[r].cnt = 0
  PROVE  /\ Holders(r) = {} /\ Handles(r) = {} /\ Children(r) = {} /\ Kids(r) = {}
<1>1. Counted(r)
  BY DEF IInv, AllCounted
<1>2. Children(r) \subseteq DOMAIN step /\ IsFiniteSet(DOMAIN step)
  BY DEF Children, IInv, StateOK
<1>3. IsFiniteSet(Children(r)) /\ IsFiniteSet(Holders(r))
  BY <1>2, FS_Subset, HoldersFacts
<1>4. Cardinality(Children(r)) = 0 /\ Cardinality(Holders(r)) = 0
  BY <1>1, <1>3, FS_CardinalityType DEF Counted
<1>5. Children(r) = {} /\ Holders(r) = {}
  BY <1>3, <1>4, FS_EmptySet
<1>6. Handles(r) = {}
  BY <1>5, HoldersFacts
<1> QED BY <1>5, <1>6, KidsFacts DEF IInv

\* A thread that opens a step runs one of the jobs of its stage.
LEMMA OpenerFacts ==
  ASSUME IInv, NEW t \in Thread, thr[t].at \in Opening
  PROVE  /\ thr[t].s \in DOMAIN step /\ t \in Openers(thr[t].s)
         /\ step[thr[t].s].cnt = 0 /\ Stage(thr[t].s, thr[t].at)
         /\ Holders(thr[t].s) = {} /\ Handles(thr[t].s) = {}
         /\ Children(thr[t].s) = {} /\ Kids(thr[t].s) = {}
<1> DEFINE r == thr[t].s
<1>1. r \in DOMAIN step /\ t \in Openers(r)
  BY DEF IInv, NoDangling, Opening, Openers
<1>2. StageOK(r)
  BY <1>1 DEF IInv, StagesOK
<1>3. step[r].cnt = 0
  BY <1>1, <1>2 DEF StageOK
<1>4. PICK a \in Opening : Stage(r, a)
  BY <1>2, <1>3 DEF StageOK
<1>5. a = thr[t].at
  BY <1>1, <1>4 DEF Stage
<1> QED BY <1>1, <1>3, <1>4, <1>5, FreshFacts

\* The last opener: no other thread and no job is at the stage.
LEMMA LastOpener ==
  ASSUME IInv, NEW r \in DOMAIN step, NEW a, Stage(r, a), NEW t \in Openers(r)
  PROVE  /\ Weight(a, step[r]) = 1 => Queued(r) = {} /\ Openers(r) = {t}
         /\ Cardinality(Queued(r)) \in Nat /\ Cardinality(Openers(r)) \in Nat
         /\ Cardinality(Openers(r) \ {t}) = Cardinality(Openers(r)) - 1
<1>1. IsFiniteSet(Queued(r)) /\ IsFiniteSet(Openers(r)) /\ IsFiniteSet(Openers(r) \ {t})
  <2>1. Queued(r) \subseteq jobs /\ IsFiniteSet(jobs)
    BY DEF Queued, IInv, StateOK
  <2>2. Openers(r) \ {t} \subseteq Openers(r)
    OBVIOUS
  <2> QED BY <2>1, <2>2, FS_Subset, HoldersFacts
<1>2. /\ Cardinality(Queued(r)) \in Nat /\ Cardinality(Openers(r)) \in Nat
      /\ Cardinality(Openers(r) \ {t}) \in Nat
  BY <1>1, FS_CardinalityType
<1>3. Cardinality(Openers(r) \ {t}) = Cardinality(Openers(r)) - 1
  BY <1>1, FS_RemoveElement
<1>4. ASSUME Weight(a, step[r]) = 1
      PROVE  Queued(r) = {} /\ Openers(r) = {t}
  <2>1. Cardinality(Queued(r)) = 0 /\ Cardinality(Openers(r) \ {t}) = 0
    BY <1>2, <1>3, <1>4 DEF Stage
  <2>2. Queued(r) = {} /\ Openers(r) \ {t} = {}
    BY <1>1, <2>1, FS_EmptySet
  <2> QED BY <2>2
<1> QED BY <1>2, <1>3, <1>4

\* The two stacks as one.
LEMMA WholeFacts ==
  ASSUME NEW s \in StepType
  PROVE  /\ Whole(s) \in Seq(LevelType) /\ s.stack.ss \in Seq(LevelType) /\ s.stack.ms \in Seq(LevelType)
         /\ Len(s.stack.ss) \in Nat /\ Len(s.stack.ms) \in Nat
         /\ s.front.ss \in Nat /\ s.front.ms \in Nat
         /\ Len(Whole(s)) = Len(s.stack.ss) + Len(s.stack.ms)
         /\ \A i \in 1 .. Len(s.stack.ss) : Whole(s)[i] = s.stack.ss[i]
         /\ \A i \in 1 .. Len(s.stack.ms) : Whole(s)[Len(s.stack.ss) + i] = s.stack.ms[i]
<1>1. PICK p \in Seq(LevelType), q \in Seq(LevelType) : p = s.stack.ss /\ q = s.stack.ms
  BY DEF StepType
<1>2. s.front.ss \in Nat /\ s.front.ms \in Nat
  BY DEF StepType
<1>3. Whole(s) = p \o q
  BY <1>1 DEF Whole
<1>4. Len(p) \in Nat /\ Len(q) \in Nat
  OBVIOUS
<1>5. /\ p \o q \in Seq(LevelType) /\ Len(p \o q) = Len(p) + Len(q)
      /\ \A i \in 1 .. Len(p) : (p \o q)[i] = p[i]
      /\ \A i \in 1 .. Len(q) : (p \o q)[Len(p) + i] = q[i]
  BY <1>4
<1> QED BY <1>1, <1>2, <1>3, <1>4, <1>5

\* What a thread has left of its stacks lies in the range of the step.
LEMMA StackAreaFacts ==
  ASSUME inst \in Instances, NEW r \in StepId, NEW s \in StepType,
         OrderOK(s), NestOK(Whole(s), r[1], r[2], r[3])
  PROVE  /\ Freed(s) \in Nat /\ Freed(s) <= Len(Whole(s))
         /\ StackOpen(s) \subseteq StackArea(s) /\ StackArea(s) \subseteq Cells(r)
<1>1. PICK S \in Seq(LevelType) : S = Whole(s)
  BY WholeFacts
<1>2. Freed(s) \in Nat /\ Freed(s) <= Len(S)
  <2>1. /\ Len(s.stack.ss) \in Nat /\ Len(s.stack.ms) \in Nat
        /\ s.front.ss \in Nat /\ s.front.ms \in Nat
        /\ Len(Whole(s)) = Len(s.stack.ss) + Len(s.stack.ms)
    BY WholeFacts
  <2>2. s.front.ss <= Len(s.stack.ss) /\ s.front.ms <= Len(s.stack.ms)
    BY DEF OrderOK
  <2>3. PICK a \in Nat, b \in Nat, c \in Nat, d \in Nat :
          /\ a = s.front.ss /\ b = s.front.ms
          /\ c = Len(s.stack.ss) /\ d = Len(s.stack.ms)
    BY <2>1
  <2>4. Freed(s) = a + b /\ Len(S) = c + d
    BY <2>1, <2>3, <1>1 DEF Freed
  <2>5. a <= c /\ b <= d
    BY <2>2, <2>3
  <2> QED BY <2>4, <2>5
<1>3. PICK f \in Nat : f = Freed(s)
  BY <1>2
<1>4. /\ r[1] \in Int /\ r[2] \in Int /\ r[3] \in Int
  BY RangeFacts
<1>5. CASE Len(S) > f
  <2>1. f + 1 \in 1 .. Len(S) /\ Len(S) \in 1 .. Len(S) 
    BY <1>5
  <2>2. /\ r[1] <= S[f + 1].b[1] /\ S[f + 1].b[4] <= r[2] /\ S[f + 1] \in LevelType
    BY <1>1, <1>4, <2>1, NestFacts
  <2>3. /\ S[Len(S)].b[1] <= NextLo(S[Len(S)]) /\ NextLo(S[Len(S)]) \in Bound
        /\ S[f + 1].b[1] <= S[Len(S)].b[1] /\ S[Len(S)] \in LevelType
    BY <1>1, <1>4, <2>1, NestFacts
  <2>4. /\ S[f + 1].b[1] \in Int /\ S[f + 1].b[4] \in Int /\ S[Len(S)].b[1] \in Int
        /\ NextLo(S[Len(S)]) \in Int
    <3>1. N \in Nat /\ \A z \in Bound : z \in Int
      BY SizesFacts DEF Bound
    <3>2. \A l \in LevelType : l.b[1] \in Bound /\ l.b[4] \in Bound
      BY DEF LevelType
    <3> QED BY <2>2, <2>3, <3>1, <3>2
  <2>5. S[f + 1].b[1] <= NextLo(S[Len(S)])
    BY <2>1, <2>3, <2>4
  <2>7. /\ StackArea(s) = S[f + 1].b[1] .. S[f + 1].b[4] - 1
        /\ StackOpen(s) = NextLo(S[Len(S)]) .. S[f + 1].b[4] - 1
    BY <1>1, <1>3, <1>5 DEF StackArea, StackOpen, LevelsArea, LevelsOpen
  <2>8. PICK a \in Int, b \in Int, o \in Int, x \in Int, y \in Int :
          /\ a = S[f + 1].b[1] /\ b = S[f + 1].b[4] /\ o = NextLo(S[Len(S)])
          /\ x = r[1] /\ y = r[2]
    BY <1>4, <2>4, Zenon
  <2>9. /\ StackArea(s) = a .. b - 1 /\ StackOpen(s) = o .. b - 1 /\ Cells(r) = x .. y - 1
        /\ a <= o /\ x <= a /\ b <= y
    BY <2>2, <2>5, <2>7, <2>8, Zenon DEF Cells
  <2>10. o .. b - 1 \subseteq a .. b - 1 /\ a .. b - 1 \subseteq x .. y - 1
    <3>1. a <= o /\ x <= a /\ b <= y
      BY <2>9
    <3> HIDE <2>9
    <3> QED BY <3>1
  <2>11. StackOpen(s) \subseteq StackArea(s) /\ StackArea(s) \subseteq Cells(r)
    BY <2>9, <2>10, Zenon
  <2> QED BY <2>11, <1>1, <1>2
<1>6. CASE ~(Len(S) > f)
  <2>1. StackOpen(s) = {} /\ StackArea(s) = {}
    BY <1>1, <1>3, <1>6 DEF StackArea, StackOpen, LevelsArea, LevelsOpen
  <2> QED BY <2>1, <1>1, <1>2
<1> QED BY <1>5, <1>6

\* The children to create lie inside the step.
LEMMA KidsInside ==
  ASSUME IInv, NEW r \in DOMAIN step
  PROVE  \A c \in Kids(r) : c \in StepId /\ Inside(c, r) /\ StackArea(step[r]) \cap Cells(c) = {}
<1>1. ASSUME NEW t \in Thread, thr[t].s = r, NEW c \in todo[t]
      PROVE  c \in StepId /\ Inside(c, r) /\ StackArea(step[r]) \cap Cells(c) = {}
  <2>1. todo[t] \subseteq StepId
    BY DEF IInv, StateOK
  <2> QED BY <1>1, <2>1 DEF IInv, TodoOK
<1> QED BY <1>1 DEF Kids

\* What a step owes it works on, inside its range.
LEMMA AreaFacts ==
  ASSUME IInv, NEW r \in DOMAIN step
  PROVE  Owed(r) \subseteq Area(r) /\ Area(r) \subseteq Cells(r)
<1>1. inst \in Instances /\ r \in StepId
  BY DEF IInv, StateOK
<1>2. PICK s \in StepType : s = step[r]
  BY DEF IInv, StateOK
<1>3. OrderOK(s) /\ NestOK(Whole(s), r[1], r[2], r[3])
  BY <1>2 DEF IInv, StacksOK, StackOK
<1>4. StackOpen(s) \subseteq StackArea(s) /\ StackArea(s) \subseteq Cells(r)
  BY <1>1, <1>3, StackAreaFacts
<1>5. \A c \in Kids(r) : Cells(c) \subseteq Cells(r)
  BY <1>1, KidsInside, InsideFacts
<1> QED BY <1>2, <1>4, <1>5 DEF Owed, Area

\* No two steps owe the same position.
LEMMA OwedApart ==
  ASSUME IInv, NEW x \in DOMAIN step, NEW y \in DOMAIN step, x # y
  PROVE  Owed(x) \cap Owed(y) = {}
<1>1. inst \in Instances /\ x \in StepId /\ y \in StepId
  BY DEF IInv, StateOK
<1>2. /\ Owed(x) \subseteq Area(x) /\ Area(x) \subseteq Cells(x)
      /\ Owed(y) \subseteq Area(y) /\ Area(y) \subseteq Cells(y)
  BY AreaFacts
<1>3. CASE Apart(x, y)
  BY <1>1, <1>2, <1>3, ApartCells
<1>4. CASE Inside(x, y)
  BY <1>2, <1>4 DEF IInv, AreasApart
<1>5. CASE Inside(y, x)
  BY <1>2, <1>5 DEF IInv, AreasApart
<1> QED BY <1>3, <1>4, <1>5 DEF IInv, TreeOK

---------------------------------------------------------------------------
(* What a step of the program keeps *)

\* The operators of the invariant look at the sizes of the run, which stay.
LEMMA StackOKNext ==
  ASSUME inst' = inst, NEW x
  PROVE  /\ StackOK(x)' <=> OrderOK(step'[x]) /\ NestOK(Whole(step'[x]), x[1], x[2], x[3])
         /\ \A a, s : HandleOK(a, x, s)' <=> HandleOK(a, x, s)
BY DEF StackOK, NestOK, LevelOK, MaxDepth, OrderOK, Whole, LastLo, NextLo, HandleOK, SortsBySample,
       SmallThreshold, NoStack

\* A step that a move leaves alone stays at its stage.
LEMMA StageKept ==
  ASSUME inst' = inst, NEW x, step'[x] = step[x],
         Queued(x)' = Queued(x), Openers(x)' = Openers(x),
         NEW t \in Thread, NEW a, NEW r, Moves(t, a, r), t \notin Openers(x), r # x \/ a \notin Opening,
         StageOK(x)
  PROVE  StageOK(x)'
<1>1. \A u \in Openers(x) : thr'[u] = thr[u]
  BY DEF Moves, Openers
<1>2. ASSUME NEW b, Stage(x, b) PROVE Stage(x, b)'
  <2>1. Splits(x)' = Splits(x)
    BY Rigid
  <2>2. \A j \in Queued(x)' : j.type = b
    BY <1>2 DEF Stage
  <2>3. \A u \in Openers(x)' : thr'[u].at = b
    BY <1>1, <1>2 DEF Stage
  <2>4. Weight(b, step[x])' = Weight(b, step[x]) /\ NoStack(step[x])' = NoStack(step[x])
    BY DEF Weight, NoStack
  <2> QED BY <1>2, <2>1, <2>2, <2>3, <2>4 DEF Stage
<1> QED BY <1>2 DEF StageOK

\* The counters stay exact when every counter changes with its holders.
LEMMA CountKept ==
  ASSUME AllCounted, DOMAIN step' = DOMAIN step,
         \A x \in DOMAIN step : step'[x].parent = step[x].parent,
         \A x \in DOMAIN step : step'[x].cnt = step[x].cnt /\ Holders(x)' = Holders(x)
  PROVE  AllCounted'
<1>1. \A x : Children(x)' = Children(x)
  BY DEF Children
<1> QED BY <1>1 DEF AllCounted, Counted

\* A handle is taken.
LEMMA CountTaken ==
  ASSUME AllCounted, StateOK, DOMAIN step' = DOMAIN step,
         \A x \in DOMAIN step : step'[x].parent = step[x].parent,
         NEW r \in DOMAIN step, NEW t \in Thread, t \notin Holders(r),
         step'[r].cnt = step[r].cnt + 1, Holders(r)' = Holders(r) \cup {t},
         \A x \in DOMAIN step : x # r => step'[x].cnt = step[x].cnt /\ Holders(x)' = Holders(x)
  PROVE  AllCounted'
<1>1. \A x : Children(x)' = Children(x)
  BY DEF Children
<1>2. /\ Cardinality(Holders(r) \cup {t}) = Cardinality(Holders(r)) + 1
      /\ Cardinality(Holders(r)) \in Nat
  BY HoldersFacts, FS_AddElement, FS_CardinalityType
<1>3. Cardinality(Children(r)) \in Nat
  <2>1. Children(r) \subseteq DOMAIN step /\ IsFiniteSet(DOMAIN step)
    BY DEF Children, StateOK
  <2> QED BY <2>1, FS_Subset, FS_CardinalityType
<1>4. Counted(r)'
  BY <1>1, <1>2, <1>3 DEF AllCounted, Counted
<1>5. \A x \in DOMAIN step : x # r => Counted(x)'
  BY <1>1 DEF AllCounted, Counted
<1> QED BY <1>4, <1>5 DEF AllCounted

\* A handle is given back.
LEMMA CountGiven ==
  ASSUME AllCounted, StateOK, DOMAIN step' = DOMAIN step,
         \A x \in DOMAIN step : step'[x].parent = step[x].parent,
         NEW r \in DOMAIN step, NEW t \in Holders(r),
         step'[r].cnt = step[r].cnt - 1, Holders(r)' = Holders(r) \ {t},
         \A x \in DOMAIN step : x # r => step'[x].cnt = step[x].cnt /\ Holders(x)' = Holders(x)
  PROVE  AllCounted'
<1>1. \A x : Children(x)' = Children(x)
  BY DEF Children
<1>2. /\ Cardinality(Holders(r) \ {t}) = Cardinality(Holders(r)) - 1
      /\ Cardinality(Holders(r)) \in Nat
  BY HoldersFacts, FS_RemoveElement, FS_CardinalityType
<1>3. Cardinality(Children(r)) \in Nat
  <2>1. Children(r) \subseteq DOMAIN step /\ IsFiniteSet(DOMAIN step)
    BY DEF Children, StateOK
  <2> QED BY <2>1, FS_Subset, FS_CardinalityType
<1>4. Counted(r)'
  BY <1>1, <1>2, <1>3 DEF AllCounted, Counted
<1>5. \A x \in DOMAIN step : x # r => Counted(x)'
  BY <1>1 DEF AllCounted, Counted
<1> QED BY <1>4, <1>5 DEF AllCounted

\* The steps of the tree stay, and none works on more than before.
LEMMA TreeKept ==
  ASSUME IInv, inst' = inst, DOMAIN step' = DOMAIN step,
         \A x \in DOMAIN step : step'[x].parent = step[x].parent,
         \A x \in DOMAIN step : Area(x)' \subseteq Area(x)
  PROVE  TreeOK' /\ AreasApart'
<1>1. TreeOK'
  BY DEF IInv, TreeOK
<1>2. AreasApart'
  BY DEF IInv, AreasApart
<1> QED BY <1>1, <1>2

\* Step r finishes the positions D, which it owed.
LEMMA FinKept ==
  ASSUME IInv, inst' = inst, DOMAIN step' = DOMAIN step, NEW r \in DOMAIN step,
         NEW D, D \subseteq Owed(r), Owed(r)' = Owed(r) \ D,
         \A x \in DOMAIN step : x # r => Owed(x)' = Owed(x),
         fin' = [i \in Position |-> IF i \in D THEN fin[i] + 1 ELSE fin[i]]
  PROVE  FinExact'
<1>1. Position' = Position
  BY Rigid
<1>2. SUFFICES ASSUME NEW i \in Position
               PROVE  fin'[i] = IF \E x \in DOMAIN step : i \in Owed(x)' THEN 0 ELSE 1
  BY <1>1 DEF FinExact
<1>3. CASE i \in D
  <2>1. i \in Owed(r) /\ fin[i] = 0
    BY <1>3 DEF IInv, FinExact
  <2>2. \A x \in DOMAIN step : x # r => i \notin Owed(x)
    BY <2>1, OwedApart
  <2>3. \A x \in DOMAIN step : i \notin Owed(x)'
    BY <2>2, <1>3
  <2> QED BY <2>1, <2>3, <1>3
<1>4. CASE i \notin D
  <2>1. \A x \in DOMAIN step : i \in Owed(x)' <=> i \in Owed(x)
    BY <1>4
  <2> QED BY <2>1, <1>4 DEF IInv, FinExact
<1> QED BY <1>3, <1>4

Same(s, z) ==
  z.parent = s.parent /\ z.stack = s.stack /\ z.front = s.front /\ (z.cnt = 0 <=> s.cnt = 0)

\* Only thread t moves, with no child to create, and no stack changes.
Calm(t) ==
  /\ inst' = inst /\ todo' = todo /\ fin' = fin
  /\ todo[t] = {} /\ thr'[t].at \notin DOMAIN Then
  /\ \A u \in Thread : u # t => thr'[u] = thr[u]
  /\ DOMAIN step' = DOMAIN step
  /\ \A x \in DOMAIN step : Same(step[x], step'[x])

\* Then the array is divided among the steps as before.
LEMMA CalmKeeps ==
  ASSUME IInv, NEW t \in Thread, Calm(t)
  PROVE  StacksOK' /\ TreeOK' /\ TodoOK' /\ AreasApart' /\ FinExact'
<1>1. ASSUME NEW x \in DOMAIN step
      PROVE  /\ Whole(step'[x]) = Whole(step[x]) /\ Freed(step'[x]) = Freed(step[x])
             /\ StackArea(step'[x]) = StackArea(step[x]) /\ StackOpen(step'[x]) = StackOpen(step[x])
             /\ OrderOK(step'[x]) = OrderOK(step[x])
             /\ step'[x].parent = step[x].parent /\ (step'[x].cnt = 0 <=> step[x].cnt = 0)
  BY DEF Calm, Same, Whole, Freed, StackArea, StackOpen, LevelsArea, LevelsOpen, OrderOK
<1>2. StacksOK'
  <2>1. SUFFICES ASSUME NEW x \in DOMAIN step PROVE StackOK(x)'
    BY DEF StacksOK, Calm
  <2>2. StackOK(x)
    BY DEF IInv, StacksOK
  <2> QED BY <1>1, <2>2, StackOKNext DEF StackOK, Calm
<1>3. ASSUME NEW x PROVE Kids(x)' = Kids(x)
  BY DEF Kids, Calm
<1>4. ASSUME NEW x \in DOMAIN step
      PROVE  Owed(x)' = Owed(x) /\ Area(x)' = Area(x)
  BY <1>1, <1>3 DEF Owed, Area
<1>5. TreeOK' /\ AreasApart'
  BY <1>1, <1>4, TreeKept DEF Calm
<1>6. TodoOK'
  <2>1. SUFFICES ASSUME NEW u \in Thread
                 PROVE  /\ todo[u] # {} <=> thr'[u].at \in DOMAIN Then
                        /\ \A c \in todo[u] : /\ Inside(c, thr'[u].s)
                                              /\ StackArea(step'[thr'[u].s]) \cap Cells(c) = {}
                        /\ \A c, d \in todo[u] : c = d \/ Apart(c, d)
    BY DEF TodoOK, Calm
  <2>2. CASE u = t
    BY <2>2 DEF Calm
  <2>3. CASE u # t
    <3>1. thr'[u] = thr[u]
      BY <2>3 DEF Calm
    <3>2. CASE todo[u] = {}
      BY <3>1, <3>2 DEF IInv, TodoOK
    <3>3. CASE todo[u] # {}
      <4>1. thr[u].at \in DOMAIN Then
        BY <3>3 DEF IInv, TodoOK
      <4>2. thr[u].s \in DOMAIN step
        BY <4>1 DEF IInv, NoDangling, Then
      <4>3. StackArea(step'[thr[u].s]) = StackArea(step[thr[u].s])
        BY <1>1, <4>2
      <4> QED BY <3>1, <4>3 DEF IInv, TodoOK
    <3> QED BY <3>2, <3>3
  <2> QED BY <2>2, <2>3
<1>7. FinExact'
  <2>1. Position' = Position
    BY Rigid DEF Calm
  <2> QED BY <2>1, <1>4 DEF IInv, FinExact, Calm
<1> QED BY <1>2, <1>5, <1>6, <1>7

\* No thread with a handle sees a change, and none comes or goes.
LEMMA CalmHandles ==
  ASSUME IInv, NEW t \in Thread, Calm(t),
         thr[t].at \notin Handling, thr'[t].at \notin Handling,
         \A x \in DOMAIN step : step'[x].bkt = step[x].bkt \/ Handles(x) = {}
  PROVE  HandlesOK'
<1>1. ASSUME NEW x PROVE Handles(x)' = Handles(x)
  BY HandlesDef DEF Calm, Handles, Handling, InSample, InMkqs
<1>2. ASSUME NEW u \in Thread, thr'[u].at \in Handling
      PROVE  HandleOK(thr'[u].at, thr'[u].s, step'[thr'[u].s])
  <2>1. u # t
    BY <1>2
  <2>2. thr'[u] = thr[u]
    BY <2>1 DEF Calm
  <2>3. thr[u].s \in DOMAIN step /\ u \in Handles(thr[u].s)
    BY <1>2, <2>2, HolderFacts, HandlesDef DEF Holding
  <2>4. HandleOK(thr[u].at, thr[u].s, step[thr[u].s])
    BY <1>2, <2>2 DEF IInv, HandlesOK
  <2>5. /\ step'[thr[u].s].bkt = step[thr[u].s].bkt
        /\ step'[thr[u].s].stack = step[thr[u].s].stack /\ step'[thr[u].s].front = step[thr[u].s].front
    BY <2>3 DEF Calm, Same
  <2> QED BY <2>2, <2>4, <2>5 DEF HandleOK, NoStack
<1>3. ASSUME NEW u \in Thread, thr'[u].at \in Handling
      PROVE  HandleOK(thr[u].at, thr[u].s, step[thr[u].s])'
  BY <1>2, <1>3, StackOKNext DEF Calm
<1>4. \A x \in DOMAIN step : Whole(step'[x]) = Whole(step[x]) /\ Freed(step'[x]) = Freed(step[x])
  BY DEF Calm, Same, Whole, Freed
<1>5. \A x \in DOMAIN step' : \A u, v \in Handles(x)' : u = v
  BY <1>1 DEF IInv, HandlesOK, Calm
<1>6. \A x \in DOMAIN step' : Handles(x)' = {} => Len(Whole(step'[x])) = Freed(step'[x])
  BY <1>1, <1>4 DEF IInv, HandlesOK, Calm
<1> QED BY <1>3, <1>5, <1>6 DEF HandlesOK

\* What a step of the program changes of the levels and the open LCPs.
LEMMA RimsNext ==
  ASSUME inst' = inst, NEW x
  PROVE  /\ \A s : LevelsAt(x, s)' <=> LevelsAt(x, s)
         /\ LevelsAt(x, step[x])' <=> LevelsAt(x, step'[x])
         /\ RimsOf(step[x])' = RimsOf(step'[x])
         /\ StackOpen(step[x])' = StackOpen(step'[x])
         /\ Due(x)' = IF step'[x].cnt = 0 THEN Inner(x)
                      ELSE (StackOpen(step'[x]) \cap Inner(x)) \cup InnerOf(Kids(x)') \cup RimsOf(step'[x])
<1>1. \A s : LevelsAt(x, s)' <=> LevelsAt(x, s)
  BY Rigid DEF LevelsAt, EndsOK, Whole, NoStack, Borders, Filled, BktNum
<1>2. LevelsAt(x, step[x])' <=> LevelsAt(x, step'[x])
  BY Rigid DEF LevelsAt, EndsOK, Whole, NoStack, Borders, Filled, BktNum
<1>3. RimsOf(step[x])' = RimsOf(step'[x])
  BY DEF RimsOf, Rims, Whole, Borders, Filled, BktNum
<1>4. StackOpen(step[x])' = StackOpen(step'[x])
  BY DEF StackOpen, LevelsOpen, Whole, Freed, NextLo
<1>5. InnerOf(Kids(x))' = InnerOf(Kids(x)')
  BY DEF InnerOf
<1>6. Due(x)' = IF step'[x].cnt = 0 THEN Inner(x)
                ELSE (StackOpen(step[x])' \cap Inner(x)) \cup InnerOf(Kids(x))' \cup RimsOf(step[x])'
  BY DEF Due
<1> QED BY <1>1, <1>2, <1>3, <1>4, <1>5, <1>6

\* No step lies inside one that has not handed out work.
LEMMA AboveFacts ==
  ASSUME IInv, NEW x \in DOMAIN step, NEW y \in DOMAIN step, Inside(y, x)
  PROVE  step[x].cnt # 0
<1>1. inst \in Instances /\ x \in StepId /\ y \in StepId
  BY DEF IInv, StateOK
<1>2. Area(x) \cap Cells(y) = {}
  BY DEF IInv, AreasApart
<1>3. Cells(y) \subseteq Cells(x) /\ Cells(y) # {}
  BY <1>1, InsideFacts, RangeFacts
<1>4. Area(x) # Cells(x)
  BY <1>2, <1>3
<1> QED BY <1>4 DEF Area

\* The LCPs are divided as before: only a step that has handed out nothing
\* gets another level.
LEMMA CalmLcp ==
  ASSUME IInv, LInv, NEW t \in Thread, Calm(t), lcp' = lcp,
         \A x \in DOMAIN step : \/ step'[x].bkt = step[x].bkt
                              \/ /\ step[x].cnt = 0
                                 /\ step'[x].bkt = <<>> \/ (NoStack(step'[x]) /\ \E l \in Splits(x) : step'[x].bkt = <<l>>)
  PROVE  LInv'
<1>1. /\ inst' = inst /\ todo' = todo /\ todo[t] = {} /\ DOMAIN step' = DOMAIN step
      /\ \A u \in Thread : u # t => thr'[u] = thr[u]
      /\ \A x \in DOMAIN step : Same(step[x], step'[x])
  BY DEF Calm
<1>2. ASSUME NEW x \in DOMAIN step
      PROVE  /\ step'[x].stack = step[x].stack /\ step'[x].front = step[x].front
             /\ Whole(step'[x]) = Whole(step[x]) /\ StackOpen(step'[x]) = StackOpen(step[x])
             /\ step'[x].cnt = 0 <=> step[x].cnt = 0
  BY <1>1 DEF Same, Whole, Freed, StackOpen, LevelsOpen
<1>3. ASSUME NEW x \in DOMAIN step, step[x].cnt # 0
      PROVE  step'[x].bkt = step[x].bkt /\ RimsOf(step'[x]) = RimsOf(step[x])
  BY <1>2, <1>3 DEF RimsOf
<1>4. ASSUME NEW x \in DOMAIN step PROVE Due(x)' = Due(x)
  <2>1. Kids(x)' = Kids(x)
    BY <1>1 DEF Kids
  <2> QED BY <1>1, <1>2, <1>3, <2>1, RimsNext DEF Due
<1>5. LevelsOK'
  <2>1. SUFFICES ASSUME NEW x \in DOMAIN step PROVE LevelsAt(x, step[x])'
    BY <1>1 DEF LevelsOK
  <2>2. LevelsAt(x, step[x])
    BY DEF LInv, LevelsOK
  <2>3. EndsOK(Whole(step'[x]), x)
    BY <1>2, <2>2 DEF LevelsAt
  <2>4. CASE step'[x].bkt = step[x].bkt
    <3>1. NoStack(step'[x]) <=> NoStack(step[x])
      BY <1>2 DEF NoStack
    <3>2. LevelsAt(x, step'[x])
      BY <2>2, <2>3, <2>4, <3>1 DEF LevelsAt
    <3> QED BY <3>2, <1>1, RimsNext
  <2>5. CASE step'[x].bkt # step[x].bkt
    <3>1. LevelsAt(x, step'[x])
      BY <2>3, <2>5 DEF LevelsAt
    <3> QED BY <3>1, <1>1, RimsNext
  <2> QED BY <2>4, <2>5
<1>6. KidsOK'
  <2>1. ASSUME NEW u \in Thread, NEW c \in todo[u]
        PROVE  /\ thr'[u].s = thr[u].s
               /\ KidAt(c, thr[u].s, RimsOf(step'[thr[u].s]))
    <3>1. thr'[u] = thr[u]
      BY <1>1, <2>1
    <3>2. thr[u].at \in Holding
      BY <2>1 DEF IInv, TodoOK, Then, Holding, Handling, InSample, InMkqs
    <3>3. thr[u].s \in DOMAIN step /\ step[thr[u].s].cnt >= 1
      BY <3>2, HolderFacts
    <3>4. RimsOf(step'[thr[u].s]) = RimsOf(step[thr[u].s])
      BY <1>3, <3>3
    <3> QED BY <3>1, <3>4, <2>1 DEF LInv, KidsOK
  <2>2. ASSUME NEW u \in Thread, NEW c \in todo'[u]
        PROVE  KidAt(c, thr'[u].s, RimsOf(step[thr[u].s])')
    <3>1. RimsOf(step[thr[u].s])' = RimsOf(step'[thr'[u].s])
      BY DEF RimsOf, Rims, Whole, Borders, Filled, BktNum
    <3> QED BY <3>1, <2>1, <1>1
  <2> QED BY <2>2 DEF KidsOK, KidAt, Inner
<1>7. ASSUME NEW x \in DOMAIN step, NEW y \in DOMAIN step, Inside(y, x)
      PROVE  RimsOf(step'[x]) = RimsOf(step[x])
  BY <1>3, <1>7, AboveFacts
<1>8. RimsApart'
  <2>1. SUFFICES ASSUME NEW x \in DOMAIN step, NEW y \in DOMAIN step, Inside(y, x)
                 PROVE  RimsOf(step'[x]) \cap Inner(y) = {}
    BY <1>1, RimsNext DEF RimsApart, Inside, Size, Inner
  <2> QED BY <1>7, <2>1 DEF LInv, RimsApart
<1>9. EndsHeld'
  <2>1. SUFFICES ASSUME NEW y \in DOMAIN step
                 PROVE  /\ y[1] = 0 \/ \E x \in DOMAIN step : Inside(y, x) /\ y[1] \in RimsOf(step'[x])
                        /\ y[2] = N \/ \E x \in DOMAIN step : Inside(y, x) /\ y[2] \in RimsOf(step'[x])
    BY <1>1, RimsNext, Rigid DEF EndsHeld, Inside, Size
  <2>2. /\ y[1] = 0 \/ \E x \in DOMAIN step : Inside(y, x) /\ y[1] \in RimsOf(step[x])
        /\ y[2] = N \/ \E x \in DOMAIN step : Inside(y, x) /\ y[2] \in RimsOf(step[x])
    BY DEF LInv, EndsHeld
  <2> QED BY <1>7, <2>2
<1>10. LcpExact'
  <2>1. Position' = Position
    BY <1>1, Rigid
  <2> QED BY <2>1, <1>1, <1>4 DEF LInv, LcpExact
<1> QED BY <1>5, <1>6, <1>8, <1>9, <1>10 DEF LInv

---------------------------------------------------------------------------
(* Every action keeps the invariant *)

\* The state has its type again when every variable that changes has.
LEMMA StateOKNext ==
  ASSUME inst \in Instances, inst' = inst,
         DOMAIN step' \subseteq StepId, step' \in [DOMAIN step' -> StepType], IsFiniteSet(DOMAIN step'),
         jobs' \subseteq JobType, IsFiniteSet(jobs'),
         thr' \in [Thread -> [at : Ats, s : StepId \cup {NoStep}]],
         todo' \in [Thread -> SUBSET StepId],
         fin' \in [Position -> Nat], lcp' \in [Position -> Nat]
  PROVE  StateOK'
<1>1. Position' = Position /\ StepId' = StepId /\ StepType' = StepType /\ JobType' = JobType
  BY Rigid
<1> QED BY <1>1 DEF StateOK

\* A field of one step changes.
LEMMA StepSet ==
  ASSUME StateOK, NEW r \in DOMAIN step, NEW z \in StepType, step' = [step EXCEPT ![r] = z]
  PROVE  /\ DOMAIN step' = DOMAIN step /\ step'[r] = z
         /\ \A x \in DOMAIN step : x # r => step'[x] = step[x]
         /\ DOMAIN step' \subseteq StepId /\ step' \in [DOMAIN step' -> StepType]
         /\ IsFiniteSet(DOMAIN step')
<1>1. step \in [DOMAIN step -> StepType] /\ DOMAIN step \subseteq StepId /\ IsFiniteSet(DOMAIN step)
  BY DEF StateOK
<1>2. DOMAIN step' = DOMAIN step
  OBVIOUS
<1> QED BY <1>1, <1>2

\* Writing final strings counts up what is written.
LEMMA WriteFacts ==
  ASSUME StateOK, NEW F, NEW L, Write(F, L)
  PROVE  /\ fin' = [i \in Position |-> IF i \in F THEN fin[i] + 1 ELSE fin[i]]
         /\ fin' \in [Position -> Nat] /\ lcp' \in [Position -> Nat]
BY DEF StateOK, Write

\* The jobs of one round.
LEMMA PartFacts ==
  ASSUME inst \in Instances, NEW r \in StepId, NEW a \in {"count", "dist"}
  PROVE  /\ Parts(r) \in Nat \ {0}
         /\ PartJobs(a, r) \subseteq JobType /\ IsFiniteSet(PartJobs(a, r))
         /\ Cardinality(PartJobs(a, r)) = Parts(r)
         /\ \A j \in PartJobs(a, r) : j.type = a /\ j.s = r
<1>1. Parts(r) \in Nat \ {0}
  <2>1. /\ Size(r) \in Nat /\ SeqThreshold \in Nat \ {0} /\ MaxParts \in Nat \ {0}
    BY RangeFacts, SizesFacts
  <2>2. Size(r) \div SeqThreshold \in Nat
    BY <2>1
  <2>3. PICK q \in Nat : q = Size(r) \div SeqThreshold
    BY <2>2
  <2> QED BY <2>1, <2>3 DEF Parts, Least
<1>2. \A p \in 0 .. Parts(r) - 1 : Job(a, r, p) \in JobType /\ Job(a, r, p).type = a /\ Job(a, r, p).s = r
  BY <1>1 DEF Job, JobType
<1>3. PICK n \in Nat : n = Parts(r)
  BY <1>1
<1> DEFINE f == [p \in 0 .. n - 1 |-> Job(a, r, p)]
<1>4. f \in Bijection(0 .. n - 1, PartJobs(a, r))
  <2>1. f \in [0 .. n - 1 -> PartJobs(a, r)]
    BY <1>3 DEF PartJobs
  <2>2. ASSUME NEW p \in 0 .. n - 1, NEW q \in 0 .. n - 1, f[p] = f[q] PROVE p = q
    <3>1. Job(a, r, p).p = p /\ Job(a, r, q).p = q
      BY DEF Job
    <3> QED BY <2>2, <3>1
  <2>3. \A j \in PartJobs(a, r) : \E p \in 0 .. n - 1 : f[p] = j
    BY <1>3 DEF PartJobs
  <2> QED BY <2>1, <2>2, <2>3 DEF Bijection, Injection, Surjection, IsInjective
<1>5. IsFiniteSet(0 .. n - 1) /\ Cardinality(0 .. n - 1) = n
  BY FS_Interval
<1>6. IsFiniteSet(PartJobs(a, r)) /\ Cardinality(PartJobs(a, r)) = n
  BY <1>4, <1>5, FS_Bijection DEF ExistsBijection
<1>7. PartJobs(a, r) \subseteq JobType /\ \A j \in PartJobs(a, r) : j.type = a /\ j.s = r
  BY <1>2 DEF PartJobs
<1> QED BY <1>1, <1>3, <1>6, <1>7

\* TakeJob: a job of a stage becomes an opener of the same stage.
LEMMA TakeJobKeeps ==
  ASSUME IInv, NEW t \in Thread, TakeJob(t), inst' = inst
  PROVE  IInv' /\ (LInv => LInv')
<1>1. StateOK /\ NoDangling /\ inst \in Instances
  BY DEF IInv, StateOK
<1>2. PICK j \in jobs : jobs' = jobs \ {j} /\ At(t, j.type, j.s)
  BY DEF TakeJob
<1>3. PICK r \in DOMAIN step, b \in {"sample", "count", "dist", "small"} : r = j.s /\ b = j.type
  BY <1>1, <1>2 DEF NoDangling, StateOK, JobType
<1>4. /\ thr[t].at = "idle" /\ r \in StepId /\ b \in Ats /\ b \in Opening
      /\ b \notin DOMAIN Then /\ b \notin Holding /\ b \notin Handling
      /\ UNCHANGED <<step, todo, fin, lcp>>
  BY <1>1 DEF TakeJob, Idle, StateOK, Ats, Opening, Then, Holding, Handling, InSample, InMkqs
<1>5. Moves(t, b, r) /\ thr' \in [Thread -> [at : Ats, s : StepId \cup {NoStep}]]
  BY <1>1, <1>2, <1>3, <1>4, MovesFacts DEF StateOK
<1>6. todo[t] = {} /\ thr[t].at \notin Holding /\ thr[t].at \notin Opening /\ thr[t].at \notin Handling
  BY <1>4 DEF IInv, TodoOK, Then, Holding, Handling, InSample, InMkqs, Opening
<1>7. Calm(t)
  BY <1>4, <1>5, <1>6 DEF Calm, Same, Moves
<1>8. StateOK'
  <2>1. jobs' \subseteq JobType /\ IsFiniteSet(jobs')
    BY <1>1, <1>2, FS_RemoveElement DEF StateOK
  <2> QED BY <1>1, <1>4, <1>5, <2>1, StateOKNext DEF StateOK
<1>9. NoDangling'
  BY <1>1, <1>2, <1>3, <1>4, <1>5 DEF NoDangling, Moves
<1>10. \A x : Openers(x)' = Openers(x) \cup (IF r = x THEN {t} ELSE {})
  <2>1. ASSUME NEW x PROVE Openers(x)' = Openers(x) \cup (IF r = x THEN {t} ELSE {})
    <3> QED BY <1>4, <1>5, <1>6, MovedSets
  <2> QED BY <2>1
<1>11. AllCounted'
  <2>1. ASSUME NEW x PROVE Holders(x)' = Holders(x)
    <3>1. b \notin Holding /\ thr[t].at \notin Holding
      BY <1>4, <1>6
    <3>2. Holders(x)' = Holders(x) \ {t} /\ t \notin Holders(x)
      BY <3>1, <1>5, MovedSets
    <3> QED BY <3>2
  <2> QED BY <1>4, <2>1, CountKept DEF IInv
<1>12. StagesOK'
  <2>1. ASSUME NEW x \in DOMAIN step, x # r
        PROVE  StageOK(x)'
    <3>1. Queued(x)' = Queued(x)
      BY <1>2, <1>3, <2>1 DEF Queued
    <3>2. Openers(x)' = Openers(x) /\ t \notin Openers(x)
      BY <1>6, <1>10, <2>1 DEF Openers
    <3>3. StageOK(x) /\ step'[x] = step[x]
      BY <1>4 DEF IInv, StagesOK
    <3> QED BY <1>5, <2>1, <3>1, <3>2, <3>3, StageKept
  <2>2. StageOK(r)'
    <3>1. j \in Queued(r)
      BY <1>3 DEF Queued
    <3>2. StageOK(r)
      BY DEF IInv, StagesOK
    <3>3. step[r].cnt = 0
      BY <3>1, <3>2 DEF StageOK
    <3>4. PICK a \in Opening : Stage(r, a)
      BY <3>2, <3>3 DEF StageOK
    <3>5. a = b
      BY <3>1, <3>4, <1>3 DEF Stage
    <3>6. Queued(r)' = Queued(r) \ {j} /\ Openers(r)' = Openers(r) \cup {t} /\ t \notin Openers(r)
      BY <1>2, <1>6, <1>10 DEF Queued, Openers
    <3>7. IsFiniteSet(Queued(r)) /\ IsFiniteSet(Openers(r))
      <4>1. Queued(r) \subseteq jobs /\ IsFiniteSet(jobs)
        BY <1>1 DEF Queued, StateOK
      <4> QED BY <4>1, FS_Subset, HoldersFacts
    <3>8. /\ Cardinality(Queued(r)') = Cardinality(Queued(r)) - 1
          /\ Cardinality(Openers(r)') = Cardinality(Openers(r)) + 1
          /\ Cardinality(Queued(r)) \in Nat /\ Cardinality(Openers(r)) \in Nat
      <4>1. Cardinality(Queued(r)) \in Nat /\ Cardinality(Openers(r)) \in Nat
        BY <3>7, FS_CardinalityType
      <4>2. Cardinality(Queued(r) \ {j}) = Cardinality(Queued(r)) - 1
        BY <3>1, <3>7, FS_RemoveElement
      <4>3. Cardinality(Openers(r) \cup {t}) = Cardinality(Openers(r)) + 1
        BY <3>6, <3>7, FS_AddElement
      <4> QED BY <3>6, <4>1, <4>2, <4>3
    <3>9. Stage(r, a)'
      <4>1. \A k \in Queued(r)' : k.type = a
        BY <3>4, <3>6 DEF Stage
      <4>2. \A u \in Openers(r)' : thr'[u].at = a
        BY <3>4, <3>5, <3>6, <1>5 DEF Stage, Moves, Openers
      <4>3. Splits(r)' = Splits(r)
        BY Rigid
      <4>4. step'[r] = step[r]
        BY <1>4
      <4>5. Cardinality(Queued(r)') + Cardinality(Openers(r)') = Weight(a, step[r])
        BY <3>4, <3>8 DEF Stage
      <4>6. Weight(a, step[r])' = Weight(a, step[r]) /\ NoStack(step[r])' = NoStack(step[r])
        BY <4>4 DEF Weight, NoStack
      <4> QED BY <3>4, <4>1, <4>2, <4>3, <4>4, <4>5, <4>6 DEF Stage
    <3> QED BY <3>3, <3>9, <1>4 DEF StageOK
  <2> QED BY <2>1, <2>2, <1>4 DEF StagesOK
<1>13. HandlesOK'
  BY <1>4, <1>5, <1>6, <1>7, CalmHandles DEF Moves
<1>14. IInv'
  BY <1>7, <1>8, <1>9, <1>11, <1>12, <1>13, CalmKeeps DEF IInv
<1>15. LInv => LInv'
  BY <1>4, <1>7, CalmLcp
<1> QED BY <1>14, <1>15

\* A thread that has opened a step moves it on to a stage b, with the jobs J.
LEMMA StageMoved ==
  ASSUME IInv, inst' = inst, UNCHANGED <<todo, fin, lcp>>,
         NEW t \in Thread, NEW r \in DOMAIN step, thr[t].at \in Opening, thr[t].s = r,
         NEW z \in StepType, step' = [step EXCEPT ![r] = z], Same(step[r], z), z.cnt = 0,
         NEW a, NEW c, Moves(t, a, c), thr' \in [Thread -> [at : Ats, s : StepId \cup {NoStep}]],
         a \in {"idle", "reread", "distfin"}, a = "distfin" => c = r,
         NEW J, jobs' = jobs \cup J, J \subseteq JobType, IsFiniteSet(J), \A j \in J : j.s = r,
         NEW b \in Opening, Stage(r, b)'
  PROVE  IInv' /\ (LInv => LInv')
<1>1. StateOK /\ NoDangling /\ inst \in Instances
  BY DEF IInv, StateOK
<1>2. /\ DOMAIN step' = DOMAIN step /\ step'[r] = z
      /\ \A x \in DOMAIN step : x # r => step'[x] = step[x]
      /\ DOMAIN step' \subseteq StepId /\ step' \in [DOMAIN step' -> StepType]
      /\ IsFiniteSet(DOMAIN step')
  BY <1>1, StepSet
<1>3. /\ a \notin DOMAIN Then /\ a \notin Holding /\ a \notin Handling
      /\ a \in Opening => c = r
      /\ thr[t].at \notin Holding /\ thr[t].at \notin Handling /\ thr[t].at \notin DOMAIN Then
  BY DEF Opening, Then, Holding, Handling, InSample, InMkqs
<1>4. step[r].cnt = 0 /\ Handles(r) = {}
  BY OpenerFacts
<1>5. todo[t] = {}
  BY <1>3 DEF IInv, TodoOK
<1>6. Calm(t)
  BY <1>2, <1>3, <1>5 DEF Calm, Same, Moves
<1>7. StateOK'
  <2>1. jobs' \subseteq JobType /\ IsFiniteSet(jobs')
    BY <1>1, FS_Union DEF StateOK
  <2> QED BY <1>1, <1>2, <2>1, StateOKNext DEF StateOK
<1>8. NoDangling'
  <2>1. \A j \in jobs' : j.s \in DOMAIN step'
    BY <1>1, <1>2 DEF NoDangling
  <2>2. ASSUME NEW u \in Thread, thr'[u].at \notin {"idle", "reread"}
        PROVE  thr'[u].s \in DOMAIN step'
    <3>1. CASE u = t
      BY <3>1, <2>2, <1>2 DEF Moves
    <3>2. CASE u # t
      BY <3>2, <2>2, <1>1, <1>2 DEF Moves, NoDangling
    <3> QED BY <3>1, <3>2
  <2>3. \A x \in DOMAIN step' : step'[x].parent \in DOMAIN step' \cup {NoStep}
    BY <1>1, <1>2 DEF NoDangling, Same
  <2> QED BY <2>1, <2>2, <2>3 DEF NoDangling
<1>9. AllCounted'
  <2>1. ASSUME NEW x PROVE Holders(x)' = Holders(x)
    <3>1. Holders(x)' = Holders(x) \ {t} /\ t \notin Holders(x)
      BY <1>3, MovedSets
    <3> QED BY <3>1
  <2>2. \A x \in DOMAIN step : step'[x].parent = step[x].parent /\ step'[x].cnt = step[x].cnt
    BY <1>2, <1>4 DEF Same
  <2> QED BY <1>2, <2>1, <2>2, CountKept DEF IInv
<1>10. StagesOK'
  <2>1. ASSUME NEW x \in DOMAIN step, x # r
        PROVE  StageOK(x)'
    <3>1. Queued(x)' = Queued(x)
      BY <2>1 DEF Queued
    <3>2. Openers(x)' = Openers(x) /\ t \notin Openers(x)
      <4>1. a \notin Opening \/ c # x
        BY <1>3, <2>1
      <4>2. Openers(x)' = Openers(x) \ {t} /\ t \notin Openers(x)
        BY <4>1, <2>1, MovedSets
      <4> QED BY <4>2
    <3>3. StageOK(x) /\ step'[x] = step[x]
      BY <1>2, <2>1 DEF IInv, StagesOK
    <3>4. c # x \/ a \notin Opening
      BY <1>3, <2>1
    <3> QED BY <3>1, <3>2, <3>3, <3>4, StageKept
  <2>2. StageOK(r)'
    BY <1>2 DEF StageOK
  <2> QED BY <2>1, <2>2, <1>2 DEF StagesOK
<1>11. HandlesOK'
  <2>1. \A x \in DOMAIN step : step'[x].bkt = step[x].bkt \/ Handles(x) = {}
    BY <1>2, <1>4
  <2> QED BY <1>3, <1>6, <2>1, CalmHandles DEF Moves
<1>12. IInv'
  BY <1>6, <1>7, <1>8, <1>9, <1>10, <1>11, CalmKeeps DEF IInv
<1>13. LInv => LInv'
  <2>1. z.bkt = <<>> \/ (NoStack(z) /\ \E l \in Splits(r) : z.bkt = <<l>>)
    <3>1. Splits(r)' = Splits(r) /\ (NoStack(step[r])' <=> NoStack(z))
      BY <1>2, Rigid DEF NoStack
    <3> QED BY <3>1, <1>2 DEF Stage
  <2> QED BY <2>1, <1>2, <1>4, <1>6, CalmLcp
<1> QED BY <1>12, <1>13

\* Sample: the one sample job ends, the count jobs are queued.
LEMMA SampleKeeps ==
  ASSUME IInv, NEW t \in Thread, Sample(t), inst' = inst
  PROVE  IInv' /\ (LInv => LInv')
<1>1. PICK r \in DOMAIN step : r = thr[t].s
  BY DEF Sample, Is
<1>2. /\ thr[t].at = "sample" /\ StateOK /\ inst \in Instances /\ r \in StepId
      /\ "sample" \in Opening /\ "count" \in Opening
  BY DEF Sample, Is, IInv, StateOK, Opening
<1>3. PICK s \in StepType : s = step[r]
  BY <1>2 DEF StateOK
<1>4. Stage(r, "sample") /\ s.cnt = 0 /\ t \in Openers(r)
  BY <1>1, <1>2, <1>3, OpenerFacts
<1>5. Queued(r) = {} /\ Openers(r) = {t}
  <2>1. Weight("sample", step[r]) = 1
    BY DEF Weight
  <2> QED BY <2>1, <1>4, LastOpener
<1>6. /\ Parts(r) \in Nat \ {0} /\ PartJobs("count", r) \subseteq JobType
      /\ IsFiniteSet(PartJobs("count", r)) /\ Cardinality(PartJobs("count", r)) = Parts(r)
      /\ \A j \in PartJobs("count", r) : j.type = "count" /\ j.s = r
  BY <1>2, PartFacts
<1> DEFINE z == [s EXCEPT !.pwork = Parts(r)]
<1>7. /\ z \in StepType /\ Same(s, z) /\ z.cnt = 0 /\ z.bkt = s.bkt /\ z.pwork = Parts(r)
      /\ z.stack = s.stack /\ z.front = s.front
  BY <1>4, <1>6 DEF StepType, Same
<1>8. step' = [step EXCEPT ![r] = z] /\ jobs' = jobs \cup PartJobs("count", r)
      /\ At(t, "reread", r) /\ UNCHANGED <<todo, fin, lcp>>
  BY <1>1, <1>3 DEF Sample
<1> HIDE DEF z
<1>9. Moves(t, "reread", r) /\ thr' \in [Thread -> [at : Ats, s : StepId \cup {NoStep}]]
  BY <1>2, <1>8, MovesFacts DEF StateOK, Ats
<1>10. Stage(r, "count")'
  <2>1. step'[r] = z
    BY <1>2, <1>7, <1>8, StepSet
  <2>2. Queued(r)' = PartJobs("count", r)
    BY <1>5, <1>6, <1>8 DEF Queued
  <2>3. Openers(r)' = {}
    <3>1. "reread" \notin Opening
      BY DEF Opening
    <3> QED BY <3>1, <1>5, <1>9, MovedSets
  <2>4. Cardinality(Queued(r)') + Cardinality(Openers(r)') = Parts(r)
    <3>1. Cardinality(Openers(r)') = 0
      BY <2>3, FS_EmptySet
    <3> QED BY <2>2, <3>1, <1>6
  <2>5. NoStack(z) /\ z.bkt = <<>>
    BY <1>3, <1>4, <1>7 DEF Stage, NoStack
  <2> QED BY <2>1, <2>2, <2>3, <2>4, <2>5, <1>6, <1>7 DEF Stage, Weight, NoStack
<1> QED BY <1>1, <1>2, <1>3, <1>6, <1>7, <1>8, <1>9, <1>10, StageMoved

\* Count: one count job less, or the distribute jobs are queued.
LEMMA CountKeeps ==
  ASSUME IInv, NEW t \in Thread, Count(t), inst' = inst
  PROVE  IInv' /\ (LInv => LInv')
<1>1. PICK r \in DOMAIN step : r = thr[t].s
  BY DEF Count, Is
<1>2. /\ thr[t].at = "count" /\ StateOK /\ inst \in Instances /\ r \in StepId
      /\ "count" \in Opening /\ "dist" \in Opening
  BY DEF Count, Is, IInv, StateOK, Opening
<1>3. PICK s \in StepType : s = step[r]
  BY <1>2 DEF StateOK
<1>4. Stage(r, "count") /\ s.cnt = 0 /\ t \in Openers(r)
  BY <1>1, <1>2, <1>3, OpenerFacts
<1>5. s.pwork \in Nat /\ s.pwork > 0
  BY <1>3, <1>4 DEF Stage, Weight, StepType
<1>6. CASE s.pwork > 1
  <2> DEFINE z == [s EXCEPT !.pwork = s.pwork - 1]
  <2>1. /\ z \in StepType /\ Same(s, z) /\ z.cnt = 0 /\ z.bkt = s.bkt /\ z.pwork = s.pwork - 1
        /\ z.stack = s.stack /\ z.front = s.front
    <3>1. s.pwork - 1 \in Nat
      BY <1>5
    <3> QED BY <3>1, <1>4 DEF StepType, Same
  <2>2. step' = [step EXCEPT ![r] = z] /\ jobs' = jobs \cup {} /\ Rest(t) /\ UNCHANGED <<todo, fin, lcp>>
    BY <1>1, <1>3, <1>6 DEF Count
  <2> HIDE DEF z
  <2>3. Moves(t, "idle", NoStep) /\ thr' \in [Thread -> [at : Ats, s : StepId \cup {NoStep}]]
    BY <1>2, <2>2, RestFacts DEF StateOK
  <2>4. Stage(r, "count")'
    <3>1. step'[r] = z
      BY <1>2, <2>1, <2>2, StepSet
    <3>2. Queued(r)' = Queued(r)
      BY <2>2 DEF Queued
    <3>3. Openers(r)' = Openers(r) \ {t}
      <4>1. "idle" \notin Opening
        BY DEF Opening
      <4> QED BY <4>1, <2>3, MovedSets
    <3>4. \A u \in Openers(r)' : thr'[u].at = "count"
      BY <3>3, <1>4, <2>3 DEF Stage, Moves, Openers
    <3>5. Cardinality(Queued(r)') + Cardinality(Openers(r)') = z.pwork
      <4>1. Cardinality(Queued(r)) + Cardinality(Openers(r)) = s.pwork
        BY <1>3, <1>4 DEF Stage, Weight
      <4>2. /\ Cardinality(Queued(r)) \in Nat /\ Cardinality(Openers(r)) \in Nat
            /\ Cardinality(Openers(r) \ {t}) = Cardinality(Openers(r)) - 1
        BY <1>4, LastOpener
      <4> QED BY <4>1, <4>2, <3>2, <3>3, <2>1
    <3>6. NoStack(z) /\ z.bkt = <<>>
      BY <1>3, <1>4, <2>1 DEF Stage, NoStack
    <3>7. z.pwork > 0 /\ \A j \in Queued(r) : j.type = "count"
      BY <1>4, <1>5, <1>6, <2>1 DEF Stage
    <3> QED BY <3>1, <3>2, <3>4, <3>5, <3>6, <3>7 DEF Stage, Weight, NoStack
  <2>5. {} \subseteq JobType /\ IsFiniteSet({}) /\ \A j \in {} : j.s = r
    BY FS_EmptySet
  <2> QED BY <1>1, <1>2, <1>3, <2>1, <2>2, <2>3, <2>4, <2>5, StageMoved
<1>7. CASE ~(s.pwork > 1)
  <2>1. PICK l \in Splits(r) : /\ step' = [step EXCEPT ![r].bkt = <<l>>, ![r].pwork = Parts(r)]
                               /\ jobs' = jobs \cup PartJobs("dist", r)
                               /\ At(t, "reread", r) /\ UNCHANGED <<todo, fin, lcp>>
    BY <1>1, <1>3, <1>7 DEF Count
  <2>2. /\ Parts(r) \in Nat \ {0} /\ PartJobs("dist", r) \subseteq JobType
        /\ IsFiniteSet(PartJobs("dist", r)) /\ Cardinality(PartJobs("dist", r)) = Parts(r)
        /\ \A j \in PartJobs("dist", r) : j.type = "dist" /\ j.s = r
    BY <1>2, PartFacts
  <2> DEFINE z == [s EXCEPT !.bkt = <<l>>, !.pwork = Parts(r)]
  <2>3. /\ z \in StepType /\ Same(s, z) /\ z.cnt = 0 /\ z.bkt = <<l>> /\ z.pwork = Parts(r)
        /\ z.stack = s.stack /\ z.front = s.front
    <3>1. <<l>> \in Seq(LevelType)
      BY <1>2, SplitFacts
    <3> QED BY <3>1, <1>4, <2>2 DEF StepType, Same
  <2>4. step' = [step EXCEPT ![r] = z]
    BY <1>3, <2>1
  <2> HIDE DEF z
  <2>5. Moves(t, "reread", r) /\ thr' \in [Thread -> [at : Ats, s : StepId \cup {NoStep}]]
    BY <1>2, <2>1, MovesFacts DEF StateOK, Ats
  <2>6. Weight("count", s) = 1
    BY <1>5, <1>7 DEF Weight
  <2>7. Queued(r) = {} /\ Openers(r) = {t}
    BY <1>3, <1>4, <2>6, LastOpener
  <2>8. Stage(r, "dist")'
    <3>1. step'[r] = z
      BY <1>2, <2>3, <2>4, StepSet
    <3>2. Queued(r)' = PartJobs("dist", r)
      BY <2>1, <2>2, <2>7 DEF Queued
    <3>3. Openers(r)' = {}
      <4>1. "reread" \notin Opening
        BY DEF Opening
      <4> QED BY <4>1, <2>5, <2>7, MovedSets
    <3>4. Cardinality(Queued(r)') + Cardinality(Openers(r)') = Parts(r)
      <4>1. Cardinality(Openers(r)') = 0
        BY <3>3, FS_EmptySet
      <4> QED BY <3>2, <4>1, <2>2
    <3>5. NoStack(z) /\ \E k \in Splits(r)' : z.bkt = <<k>>
      <4>1. Splits(r)' = Splits(r)
        BY Rigid
      <4> QED BY <4>1, <1>3, <1>4, <2>3 DEF Stage, NoStack
    <3> QED BY <3>1, <3>2, <3>3, <3>4, <3>5, <2>2, <2>3 DEF Stage, Weight, NoStack
  <2> QED BY <1>1, <1>2, <1>3, <2>1, <2>2, <2>3, <2>4, <2>5, <2>8, StageMoved
<1> QED BY <1>6, <1>7

\* Distribute: one distribute job less; the last one goes on to the buckets.
LEMMA DistributeKeeps ==
  ASSUME IInv, NEW t \in Thread, Distribute(t), inst' = inst
  PROVE  IInv' /\ (LInv => LInv')
<1>1. PICK r \in DOMAIN step : r = thr[t].s
  BY DEF Distribute, Is
<1>2. /\ thr[t].at = "dist" /\ StateOK /\ inst \in Instances /\ r \in StepId
      /\ "dist" \in Opening /\ "distfin" \in Opening
  BY DEF Distribute, Is, IInv, StateOK, Opening
<1>3. PICK s \in StepType : s = step[r]
  BY <1>2 DEF StateOK
<1>4. Stage(r, "dist") /\ s.cnt = 0 /\ t \in Openers(r)
  BY <1>1, <1>2, <1>3, OpenerFacts
<1>5. s.pwork \in Nat /\ s.pwork > 0
  BY <1>3, <1>4 DEF Stage, Weight, StepType
<1> DEFINE z == [s EXCEPT !.pwork = s.pwork - 1]
<1>6. /\ z \in StepType /\ Same(s, z) /\ z.cnt = 0 /\ z.bkt = s.bkt /\ z.pwork = s.pwork - 1
      /\ z.stack = s.stack /\ z.front = s.front
  <2>1. s.pwork - 1 \in Nat
    BY <1>5
  <2> QED BY <2>1, <1>4 DEF StepType, Same
<1>7. step' = [step EXCEPT ![r] = z] /\ jobs' = jobs \cup {} /\ UNCHANGED <<todo, fin, lcp>>
  BY <1>1, <1>3 DEF Distribute
<1>8. IF s.pwork = 1 THEN At(t, "distfin", r) ELSE Rest(t)
  BY <1>1, <1>3 DEF Distribute
<1> HIDE DEF z
<1>9. step'[r] = z /\ Queued(r)' = Queued(r)
  BY <1>2, <1>6, <1>7, StepSet DEF Queued
<1>10. NoStack(z) /\ \E l \in Splits(r)' : z.bkt = <<l>>
  <2>1. Splits(r)' = Splits(r)
    BY Rigid
  <2> QED BY <2>1, <1>3, <1>4, <1>6 DEF Stage, NoStack
<1>11. {} \subseteq JobType /\ IsFiniteSet({}) /\ \A j \in {} : j.s = r
  BY FS_EmptySet
<1>12. CASE s.pwork = 1
  <2>1. Moves(t, "distfin", r) /\ thr' \in [Thread -> [at : Ats, s : StepId \cup {NoStep}]]
    <3>1. At(t, "distfin", r) /\ "distfin" \in Ats
      BY <1>8, <1>12 DEF Ats
    <3> QED BY <3>1, <1>2, MovesFacts DEF StateOK
  <2>2. Queued(r) = {} /\ Openers(r) = {t}
    <3>1. Weight("dist", step[r]) = 1
      BY <1>3, <1>12 DEF Weight
    <3> QED BY <3>1, <1>4, LastOpener
  <2>3. Queued(r)' = {} /\ Openers(r)' = {t}
    BY <1>2, <1>9, <2>1, <2>2, MovedSets
  <2>4. Cardinality(Queued(r)') + Cardinality(Openers(r)') = 1
    <3>1. Cardinality(Queued(r)') = 0 /\ Cardinality(Openers(r)') = 1
      BY <2>3, FS_EmptySet, FS_Singleton
    <3> QED BY <3>1
  <2>5. Stage(r, "distfin")'
    BY <2>1, <2>3, <2>4, <1>9, <1>10 DEF Stage, Weight, NoStack, Moves
  <2> QED BY <1>1, <1>2, <1>3, <1>6, <1>7, <1>11, <2>1, <2>5, StageMoved
<1>13. CASE s.pwork # 1
  <2>1. Moves(t, "idle", NoStep) /\ thr' \in [Thread -> [at : Ats, s : StepId \cup {NoStep}]]
    BY <1>2, <1>8, <1>13, RestFacts DEF StateOK
  <2>2. Openers(r)' = Openers(r) \ {t}
    <3>1. "idle" \notin Opening
      BY DEF Opening
    <3> QED BY <3>1, <2>1, MovedSets
  <2>3. \A u \in Openers(r)' : thr'[u].at = "dist"
    BY <2>2, <1>4, <2>1 DEF Stage, Moves, Openers
  <2>4. Cardinality(Queued(r)') + Cardinality(Openers(r)') = z.pwork
    <3>1. Cardinality(Queued(r)) + Cardinality(Openers(r)) = s.pwork
      BY <1>3, <1>4 DEF Stage, Weight
    <3>2. /\ Cardinality(Queued(r)) \in Nat /\ Cardinality(Openers(r)) \in Nat
          /\ Cardinality(Openers(r) \ {t}) = Cardinality(Openers(r)) - 1
      BY <1>4, LastOpener
    <3> QED BY <3>1, <3>2, <2>2, <1>6, <1>9
  <2>5. z.pwork > 0 /\ \A j \in Queued(r) : j.type = "dist"
    BY <1>4, <1>5, <1>6, <1>13 DEF Stage
  <2>6. Stage(r, "dist")'
    BY <2>3, <2>4, <2>5, <1>9, <1>10 DEF Stage, Weight, NoStack
  <2> QED BY <1>1, <1>2, <1>3, <1>6, <1>7, <1>11, <2>1, <2>6, StageMoved
<1> QED BY <1>12, <1>13

\* A thread moves and no step, job or child changes: it stays at work on its
\* step, hands its handle in, or leaves the loop of a finished job.
LEMMA OnlyMoved ==
  ASSUME IInv, inst' = inst, UNCHANGED <<step, jobs, todo, fin, lcp>>,
         NEW t \in Thread, NEW a \in Ats, NEW r \in StepId \cup {NoStep}, Moves(t, a, r),
         thr' \in [Thread -> [at : Ats, s : StepId \cup {NoStep}]],
         todo[t] = {}, a \notin DOMAIN Then, a \notin Opening, thr[t].at \notin Opening,
         \/ thr[t].at \in Holding /\ a \in Holding /\ r = thr[t].s
         \/ thr[t].at \notin Holding /\ a = "idle",
         HandlesOK'
  PROVE  IInv' /\ (LInv => LInv')
<1>1. StateOK /\ NoDangling /\ inst \in Instances
  BY DEF IInv, StateOK
<1>2. Calm(t)
  BY DEF Calm, Same, Moves
<1>3. StateOK'
  BY <1>1, StateOKNext DEF StateOK
<1>4. NoDangling'
  <2>1. ASSUME NEW u \in Thread, thr'[u].at \notin {"idle", "reread"}
        PROVE  thr'[u].s \in DOMAIN step
    <3>1. CASE u = t
      BY <3>1, <2>1, HolderFacts DEF Moves
    <3>2. CASE u # t
      BY <3>2, <2>1, <1>1 DEF Moves, NoDangling
    <3> QED BY <3>1, <3>2
  <2> QED BY <2>1, <1>1 DEF NoDangling
<1>5. AllCounted'
  <2>1. ASSUME NEW x PROVE Holders(x)' = Holders(x)
    <3>1. CASE thr[t].at \in Holding /\ a \in Holding /\ r = thr[t].s /\ r = x
      <4>1. Holders(x)' = Holders(x) \cup {t} /\ t \in Holders(x)
        BY <3>1, MovedSets
      <4> QED BY <4>1
    <3>2. CASE thr[t].at \in Holding /\ a \in Holding /\ r = thr[t].s /\ r # x
      <4>1. Holders(x)' = Holders(x) \ {t} /\ t \notin Holders(x)
        BY <3>2, MovedSets
      <4> QED BY <4>1
    <3>3. CASE thr[t].at \notin Holding /\ a = "idle"
      <4>1. a \notin Holding
        BY <3>3 DEF Holding, Handling, InSample, InMkqs
      <4>2. Holders(x)' = Holders(x) \ {t} /\ t \notin Holders(x)
        BY <3>3, <4>1, MovedSets
      <4> QED BY <4>2
    <3> QED BY <3>1, <3>2, <3>3
  <2> QED BY <2>1, CountKept DEF IInv
<1>6. StagesOK'
  <2>1. ASSUME NEW x \in DOMAIN step PROVE StageOK(x)'
    <3>1. Openers(x)' = Openers(x) \ {t} /\ t \notin Openers(x)
      BY MovedSets
    <3>2. Queued(x)' = Queued(x)
      BY DEF Queued
    <3>3. StageOK(x)
      BY DEF IInv, StagesOK
    <3> QED BY <3>1, <3>2, <3>3, StageKept
  <2> QED BY <2>1 DEF StagesOK
<1>7. IInv'
  BY <1>2, <1>3, <1>4, <1>5, <1>6, CalmKeeps DEF IInv
<1>8. LInv => LInv'
  BY <1>2, CalmLcp
<1> QED BY <1>7, <1>8

\* Reread: the loop of a job that is done with its step ends.
LEMMA RereadKeeps ==
  ASSUME IInv, NEW t \in Thread, Reread(t), inst' = inst
  PROVE  IInv' /\ (LInv => LInv')
<1>1. /\ thr[t].at = "reread" /\ Rest(t) /\ UNCHANGED <<step, jobs, todo, fin, lcp>>
      /\ StateOK /\ inst \in Instances
  BY DEF Reread, IInv, StateOK
<1>2. Moves(t, "idle", NoStep) /\ thr' \in [Thread -> [at : Ats, s : StepId \cup {NoStep}]]
  BY <1>1, RestFacts DEF StateOK
<1>3. /\ "reread" \notin DOMAIN Then /\ "reread" \notin Opening /\ "reread" \notin Holding
      /\ "idle" \notin DOMAIN Then /\ "idle" \notin Opening /\ "idle" \notin Handling
      /\ "reread" \notin Handling /\ "idle" \in Ats
  BY DEF Then, Opening, Holding, Handling, InSample, InMkqs, Ats
<1>4. todo[t] = {}
  BY <1>1, <1>3 DEF IInv, TodoOK
<1>5. Calm(t)
  BY <1>1, <1>2, <1>3, <1>4 DEF Calm, Same, Moves
<1>6. HandlesOK'
  BY <1>1, <1>2, <1>3, <1>5, CalmHandles DEF Moves
<1> QED BY <1>1, <1>2, <1>3, <1>4, <1>6, OnlyMoved

\* The thread with the handle goes on to a, for the same step.
LEMMA HandleMoved ==
  ASSUME IInv, inst' = inst, step' = step,
         NEW t \in Thread, NEW a, NEW r, Moves(t, a, r), r = thr[t].s, thr[t].at \in Handling,
         a \in Handling => HandleOK(a, r, step[r]),
         a \notin Handling => Len(Whole(step[r])) = Freed(step[r])
  PROVE  HandlesOK'
<1>1. r \in DOMAIN step
  BY HolderFacts DEF Holding
<1>2. t \in Handles(r) /\ \A x : Handles(x)' = IF x = r /\ a \notin Handling THEN Handles(x) \ {t} ELSE Handles(x)
  <2>1. t \in Handles(r)
    BY MovedSets
  <2>2. ASSUME NEW x
        PROVE  Handles(x)' = IF x = r /\ a \notin Handling THEN Handles(x) \ {t} ELSE Handles(x)
    <3>1. CASE x # r
      <4>1. Handles(x)' = Handles(x) \ {t} /\ t \notin Handles(x)
        BY <3>1, MovedSets
      <4> QED BY <3>1, <4>1
    <3>2. CASE x = r /\ a \in Handling
      <4>1. Handles(x)' = Handles(x) \cup {t} /\ t \in Handles(x)
        BY <3>2, MovedSets
      <4> QED BY <3>2, <4>1
    <3>3. CASE x = r /\ a \notin Handling
      BY <3>3, MovedSets
    <3> QED BY <3>1, <3>2, <3>3
  <2> QED BY <2>1, <2>2
<1>3. \A x \in DOMAIN step : \A u, v \in Handles(x)' : u = v
  BY <1>2 DEF IInv, HandlesOK
<1>4. ASSUME NEW u \in Thread, thr'[u].at \in Handling
      PROVE  HandleOK(thr'[u].at, thr'[u].s, step[thr'[u].s])
  <2>1. CASE u = t
    BY <2>1, <1>4 DEF Moves
  <2>2. CASE u # t
    BY <2>2, <1>4 DEF Moves, IInv, HandlesOK
  <2> QED BY <2>1, <2>2
<1>5. ASSUME NEW u \in Thread, thr'[u].at \in Handling
      PROVE  HandleOK(thr[u].at, thr[u].s, step[thr[u].s])'
  BY <1>4, <1>5, StackOKNext
<1>6. ASSUME NEW x \in DOMAIN step, Handles(x)' = {}
      PROVE  Len(Whole(step[x])) = Freed(step[x])
  <2>1. CASE x = r
    <3>1. a \notin Handling
      BY <2>1, <1>2, <1>6
    <3> QED BY <2>1, <3>1
  <2>2. CASE x # r
    BY <2>2, <1>2, <1>6 DEF IInv, HandlesOK
  <2> QED BY <2>1, <2>2
<1>7. \A x : Whole(step[x])' = Whole(step[x]) /\ Freed(step[x])' = Freed(step[x])
  BY DEF Whole, Freed
<1> QED BY <1>3, <1>5, <1>6, <1>7 DEF HandlesOK

\* KeepWork: has_idle() was false, the thread goes on with its stacks.
LEMMA KeepWorkKeeps ==
  ASSUME IInv, NEW t \in Thread, KeepWork(t), inst' = inst
  PROVE  IInv' /\ (LInv => LInv')
<1> DEFINE a == IF thr[t].at = "sscheck" THEN "ss" ELSE "ms"
<1>1. /\ thr[t].at \in {"sscheck", "mscheck"} /\ UNCHANGED <<step, jobs, todo, fin, lcp>>
      /\ thr[t].s \in DOMAIN step /\ At(t, a, thr[t].s) /\ StateOK /\ inst \in Instances
  BY DEF KeepWork, AtCheck, Is, Resume, IInv, StateOK
<1>2. PICK r \in StepId : r = thr[t].s
  BY <1>1 DEF StateOK
<1>3. /\ a \in Ats /\ a \notin DOMAIN Then /\ a \notin Opening /\ a \in Handling /\ a \in Holding
      /\ thr[t].at \in Handling /\ thr[t].at \in Holding /\ thr[t].at \notin Opening
      /\ thr[t].at \notin DOMAIN Then
  BY <1>1 DEF Ats, Then, Opening, Holding, Handling, InSample, InMkqs
<1>4. HandleOK(thr[t].at, r, step[r])
  BY <1>2, <1>3 DEF IInv, HandlesOK
<1>5. HandleOK(a, r, step[r])
  BY <1>1, <1>4 DEF HandleOK, InSample, InMkqs
<1> HIDE DEF a
<1>6. Moves(t, a, r) /\ thr' \in [Thread -> [at : Ats, s : StepId \cup {NoStep}]]
  BY <1>1, <1>2, <1>3, MovesFacts DEF StateOK
<1>7. HandlesOK'
  BY <1>1, <1>2, <1>3, <1>5, <1>6, HandleMoved
<1>8. todo[t] = {}
  BY <1>3 DEF IInv, TodoOK
<1> QED BY <1>1, <1>2, <1>3, <1>6, <1>7, <1>8, OnlyMoved

\* LeaveLoop: what is left on the stacks was given away.
LEMMA LeaveLoopKeeps ==
  ASSUME IInv, NEW t \in Thread, LeaveLoop(t), inst' = inst
  PROVE  IInv' /\ (LInv => LInv')
<1> DEFINE a == IF thr[t].at = "ms" /\ SortsBySample(thr[t].s) THEN "sscheck" ELSE "notify"
<1>1. /\ thr[t].at \in {"ss", "ms"} /\ UNCHANGED <<step, jobs, todo, fin, lcp>>
      /\ thr[t].s \in DOMAIN step /\ At(t, a, thr[t].s) /\ StateOK /\ inst \in Instances
      /\ Len(Stack(t)) = Popped(t)
  BY DEF LeaveLoop, InLoop, Is, IInv, StateOK
<1>2. PICK r \in DOMAIN step : r = thr[t].s
  BY <1>1
<1>3. PICK s \in StepType : s = step[r]
  BY <1>1 DEF StateOK
<1>4. /\ a \in Ats /\ a \notin DOMAIN Then /\ a \notin Opening /\ a \in Holding
      /\ thr[t].at \in Handling /\ thr[t].at \in Holding /\ thr[t].at \notin Opening
      /\ thr[t].at \notin DOMAIN Then
  BY <1>1 DEF Ats, Then, Opening, Holding, Handling, InSample, InMkqs
<1>5. HandleOK(thr[t].at, r, s) /\ OrderOK(s) /\ s.bkt = <<>>
  <2>1. HandleOK(thr[t].at, r, s) /\ OrderOK(s)
    BY <1>2, <1>3, <1>4 DEF IInv, HandlesOK, StacksOK, StackOK
  <2> QED BY <2>1, <1>1 DEF HandleOK, InSample, InMkqs
<1>6. thr[t].at = "ss" => Len(s.stack.ss) = s.front.ss /\ s.front.ms = Len(s.stack.ms)
  BY <1>1, <1>2, <1>3, <1>5 DEF Stack, Popped, HandleOK, InSample
<1>7. thr[t].at = "ms" => Len(s.stack.ms) = s.front.ms
  BY <1>1, <1>2, <1>3 DEF Stack, Popped
<1>8. PICK p \in Nat, q \in Nat, f \in Nat, g \in Nat :
        /\ p = Len(s.stack.ss) /\ q = Len(s.stack.ms) /\ f = s.front.ss /\ g = s.front.ms
        /\ Len(Whole(s)) = p + q /\ Freed(s) = f + g
  BY WholeFacts DEF Freed
<1>9. ASSUME a \notin Handling PROVE Len(Whole(s)) = Freed(s)
  <2>1. CASE thr[t].at = "ss"
    <3>1. p = f /\ q = g
      BY <2>1, <1>6, <1>8
    <3>2. p + q = f + g
      BY <3>1
    <3> QED BY <3>2, <1>8
  <2>2. CASE thr[t].at = "ms"
    <3>1. ~SortsBySample(r)
      BY <2>2, <1>2, <1>9 DEF Handling, InSample
    <3>2. s.stack.ss = <<>>
      BY <2>2, <3>1, <1>5 DEF HandleOK, InMkqs
    <3>3. p = 0 /\ f <= p
      BY <3>2, <1>5, <1>8 DEF OrderOK
    <3>4. q = g
      BY <2>2, <1>7, <1>8
    <3>5. f = 0
      BY <3>3
    <3>6. p + q = f + g
      BY <3>3, <3>4, <3>5
    <3> QED BY <3>6, <1>8
  <2> QED BY <2>1, <2>2, <1>1
<1>10. ASSUME a \in Handling PROVE HandleOK(a, r, s)
  <2>1. a = "sscheck" /\ thr[t].at = "ms"
    BY <1>10 DEF Handling, InSample, InMkqs
  <2>2. SortsBySample(r)
    BY <2>1, <1>2
  <2> QED BY <2>1, <2>2, <1>5, <1>7 DEF HandleOK, InSample, InMkqs
<1>11. Moves(t, a, r) /\ thr' \in [Thread -> [at : Ats, s : StepId \cup {NoStep}]]
  <2>1. r \in StepId
    BY <1>1 DEF StateOK
  <2> QED BY <2>1, <1>1, <1>2, <1>4, MovesFacts DEF StateOK
<1> HIDE DEF a
<1>12. HandlesOK'
  BY <1>1, <1>2, <1>3, <1>4, <1>9, <1>10, <1>11, HandleMoved
<1>13. todo[t] = {}
  BY <1>4 DEF IInv, TodoOK
<1>14. r \in StepId
  BY <1>1 DEF StateOK
<1> QED BY <1>1, <1>2, <1>4, <1>11, <1>12, <1>13, <1>14, OnlyMoved

\* Thread t is the only one that can have children of step r to create.
Alone(t, r) == \A u \in Thread : u # t /\ thr[u].at \in Handling => thr[u].s # r

\* Of what step r owed, D is finished, and what is left is on the stacks of z or
\* in the children K to create.
WorkLeft(r, z, K, D) ==
  /\ OrderOK(z) /\ NestOK(Whole(z), r[1], r[2], r[3])
  /\ \A c \in K : Inside(c, r) /\ StackArea(z) \cap Cells(c) = {}
  /\ \A c, d \in K : c = d \/ Apart(c, d)
  /\ StackArea(z) \subseteq Area(r)
  /\ \A c \in K : Cells(c) \subseteq Area(r)
  /\ D \subseteq Owed(r)
  /\ StackOpen(z) \cup UNION {Cells(c) : c \in K} = Owed(r) \ D

\* Thread t works on step r: it leaves the state z of the step, finishes the
\* positions D and has the children K to create; the rest it still owes.
LEMMA ArrayWorked ==
  ASSUME IInv, inst' = inst, NEW t \in Thread, NEW r \in DOMAIN step, thr[t].s = r, Alone(t, r),
         NEW z \in StepType, step' = [step EXCEPT ![r] = z], z.parent = step[r].parent, z.cnt > 0,
         NEW a, Moves(t, a, r),
         NEW K \in SUBSET StepId, todo' = [todo EXCEPT ![t] = K], K # {} <=> a \in DOMAIN Then,
         NEW D, fin' = [i \in Position |-> IF i \in D THEN fin[i] + 1 ELSE fin[i]],
         WorkLeft(r, z, K, D)
  PROVE  StacksOK' /\ TreeOK' /\ TodoOK' /\ AreasApart' /\ FinExact'
<1>1. /\ DOMAIN step' = DOMAIN step /\ step'[r] = z
      /\ \A x \in DOMAIN step : x # r => step'[x] = step[x]
  BY StepSet DEF IInv
<1>2. todo' \in [Thread -> SUBSET StepId] /\ todo'[t] = K /\ \A u \in Thread : u # t => todo'[u] = todo[u]
  BY DEF IInv, StateOK
<1>3. /\ thr'[t].at = a /\ thr'[t].s = r
      /\ \A u \in Thread : u # t => thr'[u] = thr[u]
  BY DEF Moves
<1>4. \A u \in Thread : u # t /\ thr[u].s = r => todo[u] = {}
  <2>1. \A u \in Thread : todo[u] # {} => thr[u].at \in Handling
    BY DEF IInv, TodoOK, Then, Handling, InSample, InMkqs
  <2> QED BY <2>1 DEF Alone
<1>5. Kids(r)' = K
  BY <1>2, <1>3, <1>4 DEF Kids
<1>6. ASSUME NEW x \in DOMAIN step, x # r PROVE Kids(x)' = Kids(x)
  BY <1>2, <1>3, <1>6 DEF Kids
<1>7. StackArea(step[r])' = StackArea(z) /\ StackOpen(step[r])' = StackOpen(z)
  BY <1>1 DEF StackArea, StackOpen, LevelsArea, LevelsOpen, Whole, Freed, NextLo
<1>8. ASSUME NEW x \in DOMAIN step, x # r
      PROVE  StackArea(step[x])' = StackArea(step[x]) /\ StackOpen(step[x])' = StackOpen(step[x])
  <2>1. step'[x] = step[x]
    BY <1>1, <1>8
  <2> QED BY <2>1 DEF StackArea, StackOpen, LevelsArea, LevelsOpen, Whole, Freed, NextLo
<1>9. ASSUME NEW x \in DOMAIN step, x # r
      PROVE  Owed(x)' = Owed(x) /\ Area(x)' = Area(x)
  <2>1. step'[x].cnt = step[x].cnt
    BY <1>1, <1>9
  <2> QED BY <2>1, <1>6, <1>8, <1>9 DEF Owed, Area
<1>10. step'[r].cnt # 0
  <2>1. z.cnt \in Nat
    BY DEF StepType
  <2> QED BY <2>1, <1>1
<1>11. Owed(r)' = Owed(r) \ D
  BY <1>5, <1>7, <1>10 DEF Owed, WorkLeft
<1>12. Area(r)' \subseteq Area(r)
  <2>1. Area(r)' = StackArea(z) \cup UNION {Cells(c) : c \in K}
    BY <1>5, <1>7, <1>10 DEF Area
  <2> QED BY <2>1 DEF WorkLeft
<1>13. StacksOK'
  <2>1. SUFFICES ASSUME NEW x \in DOMAIN step PROVE StackOK(x)'
    BY <1>1 DEF StacksOK
  <2>2. CASE x = r
    BY <2>2, <1>1, StackOKNext DEF WorkLeft
  <2>3. CASE x # r
    <3>1. OrderOK(step[x]) /\ NestOK(Whole(step[x]), x[1], x[2], x[3]) /\ step'[x] = step[x]
      BY <2>3, <1>1 DEF IInv, StacksOK, StackOK
    <3> QED BY <3>1, StackOKNext
  <2> QED BY <2>2, <2>3
<1>14. \A x \in DOMAIN step : step'[x].parent = step[x].parent /\ Area(x)' \subseteq Area(x)
  BY <1>1, <1>9, <1>12
<1>15. TreeOK' /\ AreasApart'
  BY <1>1, <1>14, TreeKept
<1>16. FinExact'
  <2>1. D \subseteq Owed(r)
    BY DEF WorkLeft
  <2> QED BY <2>1, <1>1, <1>9, <1>11, FinKept
<1>17. TodoOK'
  <2>1. SUFFICES ASSUME NEW u \in Thread
                 PROVE  /\ todo'[u] # {} <=> thr'[u].at \in DOMAIN Then
                        /\ \A c \in todo'[u] : /\ Inside(c, thr'[u].s)
                                               /\ StackArea(step[thr[u].s])' \cap Cells(c) = {}
                        /\ \A c, d \in todo'[u] : c = d \/ Apart(c, d)
    BY DEF TodoOK
  <2>2. CASE u = t
    <3>1. StackArea(step[thr[u].s])' = StackArea(z)
      BY <2>2, <1>1, <1>3 DEF StackArea, LevelsArea, Whole, Freed
    <3> QED BY <3>1, <2>2, <1>2, <1>3 DEF WorkLeft
  <2>3. CASE u # t
    <3>1. thr'[u] = thr[u] /\ todo'[u] = todo[u]
      BY <2>3, <1>2, <1>3
    <3>2. CASE todo[u] = {}
      BY <3>1, <3>2 DEF IInv, TodoOK
    <3>3. CASE todo[u] # {}
      <4>1. thr[u].s # r
        BY <3>3, <2>3, <1>4
      <4>2. thr[u].at \in DOMAIN Then
        BY <3>3 DEF IInv, TodoOK
      <4>3. thr[u].s \in DOMAIN step
        BY <4>2 DEF IInv, NoDangling, Then
      <4>4. StackArea(step[thr[u].s])' = StackArea(step[thr[u].s])
        <5>1. step'[thr'[u].s] = step[thr[u].s]
          BY <4>1, <4>3, <3>1, <1>1
        <5> QED BY <5>1 DEF StackArea, LevelsArea, Whole, Freed
      <4> QED BY <3>1, <4>4 DEF IInv, TodoOK
    <3> QED BY <3>2, <3>3
  <2> QED BY <2>2, <2>3
<1> QED BY <1>13, <1>15, <1>16, <1>17

\* A thread with a handle works alone, and so does the last opener; after it
\* took the handle, the step has no job left and its counter is exact.
LEMMA WorkerFacts ==
  ASSUME IInv, inst' = inst, jobs' = jobs,
         NEW t \in Thread, NEW r \in DOMAIN step, thr[t].s = r,
         NEW z \in StepType, step' = [step EXCEPT ![r] = z], z.parent = step[r].parent,
         \/ thr[t].at \in Handling /\ z.cnt = step[r].cnt
         \/ thr[t].at \in {"small", "distfin"} /\ z.cnt = step[r].cnt + 1,
         NEW a \in Holding, Moves(t, a, r)
  PROVE  /\ Alone(t, r) /\ z.cnt > 0 /\ Queued(r) = {} /\ Openers(r)' = {}
         /\ AllCounted'
<1>1. StateOK
  BY DEF IInv
<1>2. /\ DOMAIN step' = DOMAIN step /\ step'[r] = z
      /\ \A x \in DOMAIN step : x # r => step'[x] = step[x]
      /\ \A x \in DOMAIN step : step'[x].parent = step[x].parent
  BY <1>1, StepSet
<1>3. \A x : x # r => Holders(x)' = Holders(x)
  <2>1. ASSUME NEW x, x # r PROVE Holders(x)' = Holders(x)
    <3>1. Holders(x)' = Holders(x) \ {t} /\ t \notin Holders(x)
      BY <2>1, MovedSets
    <3> QED BY <3>1
  <2> QED BY <2>1
<1>4. Holders(r)' = Holders(r) \cup {t}
  BY MovedSets
<1>5. a \notin Opening
  BY DEF Opening, Holding, Handling, InSample, InMkqs
<1>6. \A u \in Thread : thr[u].at \in Handling /\ thr[u].s = r => u \in Handles(r)
  BY HandlesDef
<1>7. CASE thr[t].at \in Handling /\ z.cnt = step[r].cnt
  <2>1. t \in Handles(r)
    BY <1>6, <1>7
  <2>2. Alone(t, r)
    BY <1>6, <2>1 DEF Alone, IInv, HandlesOK
  <2>3. step[r].cnt >= 1 /\ Queued(r) = {} /\ Openers(r) = {} /\ t \in Holders(r)
    BY <1>7, HolderFacts DEF Holding
  <2>4. z.cnt > 0
    <3>1. z.cnt \in Nat
      BY DEF StepType
    <3> QED BY <3>1, <1>7, <2>3
  <2>5. Openers(r)' = {}
    <3>1. Openers(r)' = Openers(r) \ {t}
      BY <1>5, MovedSets
    <3> QED BY <3>1, <2>3
  <2>6. AllCounted'
    <3>1. Holders(r)' = Holders(r)
      BY <1>4, <2>3
    <3>2. \A x \in DOMAIN step : step'[x].cnt = step[x].cnt /\ Holders(x)' = Holders(x)
      BY <3>1, <1>2, <1>3, <1>7
    <3> QED BY <1>2, <3>2, CountKept DEF IInv
  <2> QED BY <2>2, <2>3, <2>4, <2>5, <2>6
<1>8. CASE thr[t].at \in {"small", "distfin"} /\ z.cnt = step[r].cnt + 1
  <2>1. /\ t \in Openers(r) /\ step[r].cnt = 0 /\ Stage(r, thr[t].at) /\ Holders(r) = {} /\ Handles(r) = {}
    BY <1>8, OpenerFacts DEF Opening
  <2>2. Alone(t, r)
    BY <1>6, <2>1 DEF Alone
  <2>3. Queued(r) = {} /\ Openers(r) = {t}
    <3>1. Weight(thr[t].at, step[r]) = 1
      BY <1>8 DEF Weight
    <3> QED BY <3>1, <2>1, LastOpener
  <2>4. Openers(r)' = {}
    <3>1. Openers(r)' = Openers(r) \ {t}
      BY <1>5, MovedSets
    <3> QED BY <3>1, <2>3
  <2>5. AllCounted'
    <3>1. t \notin Holders(r)
      BY <2>1
    <3> QED BY <1>1, <1>2, <1>3, <1>4, <1>8, <3>1, CountTaken DEF IInv
  <2> QED BY <2>1, <2>2, <2>3, <2>4, <2>5, <1>8
<1> QED BY <1>7, <1>8

\* The same step, for all parts of the invariant.
LEMMA StepWorked ==
  ASSUME IInv, inst' = inst, jobs' = jobs, lcp' \in [Position -> Nat],
         NEW t \in Thread, NEW r \in DOMAIN step, thr[t].s = r,
         NEW z \in StepType, step' = [step EXCEPT ![r] = z], z.parent = step[r].parent,
         \/ thr[t].at \in Handling /\ z.cnt = step[r].cnt
         \/ thr[t].at \in {"small", "distfin"} /\ z.cnt = step[r].cnt + 1,
         NEW a \in Holding, Moves(t, a, r), thr' \in [Thread -> [at : Ats, s : StepId \cup {NoStep}]],
         a \in Handling => HandleOK(a, r, z),
         a \notin Handling => Len(Whole(z)) = Freed(z),
         NEW K \in SUBSET StepId, todo' = [todo EXCEPT ![t] = K], K # {} <=> a \in DOMAIN Then,
         NEW D, fin' = [i \in Position |-> IF i \in D THEN fin[i] + 1 ELSE fin[i]],
         WorkLeft(r, z, K, D)
  PROVE  IInv'
<1>1. StateOK /\ NoDangling /\ inst \in Instances /\ r \in StepId
  BY DEF IInv, StateOK
<1>2. /\ DOMAIN step' = DOMAIN step /\ step'[r] = z
      /\ \A x \in DOMAIN step : x # r => step'[x] = step[x]
      /\ DOMAIN step' \subseteq StepId /\ step' \in [DOMAIN step' -> StepType]
      /\ IsFiniteSet(DOMAIN step')
  BY <1>1, StepSet
<1>3. Alone(t, r) /\ z.cnt > 0 /\ Queued(r) = {} /\ Openers(r)' = {} /\ AllCounted'
  BY WorkerFacts
<1>4. StacksOK' /\ TreeOK' /\ TodoOK' /\ AreasApart' /\ FinExact'
  BY <1>3, ArrayWorked
<1>5. StateOK'
  <2>1. fin' \in [Position -> Nat]
    BY <1>1 DEF StateOK
  <2>2. todo' \in [Thread -> SUBSET StepId]
    BY <1>1 DEF StateOK
  <2> QED BY <1>1, <1>2, <2>1, <2>2, StateOKNext DEF StateOK
<1>6. NoDangling'
  <2>1. \A j \in jobs' : j.s \in DOMAIN step'
    BY <1>1, <1>2 DEF NoDangling
  <2>2. ASSUME NEW u \in Thread, thr'[u].at \notin {"idle", "reread"}
        PROVE  thr'[u].s \in DOMAIN step'
    <3>1. CASE u = t
      BY <3>1, <1>2 DEF Moves
    <3>2. CASE u # t
      BY <3>2, <2>2, <1>1, <1>2 DEF Moves, NoDangling
    <3> QED BY <3>1, <3>2
  <2>3. \A x \in DOMAIN step' : step'[x].parent \in DOMAIN step' \cup {NoStep}
    BY <1>1, <1>2 DEF NoDangling
  <2> QED BY <2>1, <2>2, <2>3 DEF NoDangling
<1>7. a \notin Opening
  BY DEF Opening, Holding, Handling, InSample, InMkqs
<1>8. StagesOK'
  <2>1. ASSUME NEW x \in DOMAIN step, x # r
        PROVE  StageOK(x)'
    <3>1. Queued(x)' = Queued(x)
      BY DEF Queued
    <3>2. Openers(x)' = Openers(x) /\ t \notin Openers(x)
      <4>1. Openers(x)' = Openers(x) \ {t} /\ t \notin Openers(x)
        BY <1>7, <2>1, MovedSets
      <4> QED BY <4>1
    <3>3. StageOK(x) /\ step'[x] = step[x]
      BY <1>2, <2>1 DEF IInv, StagesOK
    <3> QED BY <3>1, <3>2, <3>3, <1>7, StageKept
  <2>2. StageOK(r)'
    <3>1. Queued(r)' = {} /\ step'[r].cnt # 0
      <4>1. z.cnt \in Nat
        BY DEF StepType
      <4> QED BY <4>1, <1>2, <1>3 DEF Queued
    <3> QED BY <3>1, <1>3 DEF StageOK
  <2> QED BY <2>1, <2>2, <1>2 DEF StagesOK
<1>9. HandlesOK'
  <2>1. ASSUME NEW x, x # r PROVE Handles(x)' = Handles(x)
    <3>1. Handles(x)' = Handles(x) \ {t} /\ t \notin Handles(x)
      BY <2>1, MovedSets
    <3> QED BY <3>1
  <2>2. Handles(r) \subseteq {t}
    BY <1>3, HandlesDef DEF Alone
  <2>3. Handles(r)' = IF a \in Handling THEN {t} ELSE {}
    <3>1. CASE a \in Handling
      <4>1. Handles(r)' = Handles(r) \cup {t}
        BY <3>1, MovedSets
      <4> QED BY <4>1, <3>1, <2>2
    <3>2. CASE a \notin Handling
      <4>1. Handles(r)' = Handles(r) \ {t}
        BY <3>2, MovedSets
      <4> QED BY <4>1, <3>2, <2>2
    <3> QED BY <3>1, <3>2
  <2>4. \A x \in DOMAIN step' : \A u, v \in Handles(x)' : u = v
    BY <2>1, <2>3, <1>2 DEF IInv, HandlesOK
  <2>5. ASSUME NEW u \in Thread, thr'[u].at \in Handling
        PROVE  HandleOK(thr'[u].at, thr'[u].s, step'[thr'[u].s])
    <3>1. CASE u = t
      BY <3>1, <2>5, <1>2 DEF Moves
    <3>2. CASE u # t
      <4>1. thr'[u] = thr[u] /\ thr[u].s # r
        BY <3>2, <2>5, <1>3 DEF Moves, Alone
      <4>2. thr[u].s \in DOMAIN step
        BY <4>1, <2>5, HolderFacts DEF Holding
      <4>3. step'[thr[u].s] = step[thr[u].s]
        BY <4>1, <4>2, <1>2
      <4> QED BY <4>1, <4>3, <2>5 DEF IInv, HandlesOK
    <3> QED BY <3>1, <3>2
  <2>6. ASSUME NEW u \in Thread, thr'[u].at \in Handling
        PROVE  HandleOK(thr[u].at, thr[u].s, step[thr[u].s])'
    BY <2>5, <2>6, StackOKNext
  <2>7. ASSUME NEW x \in DOMAIN step, Handles(x)' = {}
        PROVE  Len(Whole(step'[x])) = Freed(step'[x])
    <3>1. CASE x = r
      BY <3>1, <2>3, <2>7, <1>2
    <3>2. CASE x # r
      BY <3>2, <2>1, <2>7, <1>2 DEF IInv, HandlesOK
    <3> QED BY <3>1, <3>2
  <2>8. \A x : Whole(step[x])' = Whole(step'[x]) /\ Freed(step[x])' = Freed(step'[x])
    BY DEF Whole, Freed
  <2> QED BY <2>4, <2>6, <2>7, <2>8, <1>2 DEF HandlesOK
<1> QED BY <1>3, <1>4, <1>5, <1>6, <1>8, <1>9 DEF IInv

---------------------------------------------------------------------------
(* Borders and open LCPs *)

\* The borders of a level: where the equal bucket begins and ends, when there
\* is something before and behind it.
LEMMA BordersFacts ==
  ASSUME inst \in Instances, NEW l \in LevelType, LevelOK(l)
  PROVE  /\ \A i : i \in Borders(l) <=> \/ i = l.b[2] /\ l.b[1] < l.b[2]
                                        \/ i = l.b[3] /\ l.b[3] < l.b[4]
         /\ \A i \in Borders(l) : i \in Int /\ l.b[1] < i /\ i < l.b[4]
<1>1. /\ l.b[1] \in Int /\ l.b[2] \in Int /\ l.b[3] \in Int /\ l.b[4] \in Int
      /\ l.b[1] <= l.b[2] /\ l.b[2] < l.b[3] /\ l.b[3] <= l.b[4]
  <2>1. \A x \in Bound : x \in Int
    BY SizesFacts DEF Bound
  <2> QED BY <2>1, LevelBounds DEF LevelOK
<1>2. \A i : i \in Borders(l) <=> i # l.b[1] /\ \E k \in 0 .. 2 : Filled(l, k) /\ i = l.b[k + 1]
  BY DEF Borders, BktNum
<1>3. \A i : (\E k \in 0 .. 2 : Filled(l, k) /\ i = l.b[k + 1]) <=>
        \/ l.b[1] < l.b[2] /\ i = l.b[1]
        \/ l.b[2] < l.b[3] /\ i = l.b[2]
        \/ l.b[3] < l.b[4] /\ i = l.b[3]
  <2>1. 0 .. 2 = {0, 1, 2}
    OBVIOUS
  <2> QED BY <2>1 DEF Filled
<1>4. \A i : i \in Borders(l) <=> \/ i = l.b[2] /\ l.b[1] < l.b[2]
                                  \/ i = l.b[3] /\ l.b[3] < l.b[4]
  BY <1>1, <1>2, <1>3
<1> QED BY <1>1, <1>4

\* The ends of a filled bucket are ends or borders of its level, and no border
\* lies inside a bucket.
LEMMA BucketEnds ==
  ASSUME inst \in Instances, NEW l \in LevelType, LevelOK(l), NEW k \in 0 .. 2
  PROVE  /\ Filled(l, k) => /\ l.b[k + 1] = l.b[1] \/ l.b[k + 1] \in Borders(l)
                            /\ l.b[k + 2] = l.b[4] \/ l.b[k + 2] \in Borders(l)
         /\ \A i \in Borders(l) : i <= l.b[k + 1] \/ l.b[k + 2] <= i
<1>1. /\ l.b[1] \in Int /\ l.b[2] \in Int /\ l.b[3] \in Int /\ l.b[4] \in Int
      /\ l.b[1] <= l.b[2] /\ l.b[2] < l.b[3] /\ l.b[3] <= l.b[4]
  <2>1. \A x \in Bound : x \in Int
    BY SizesFacts DEF Bound
  <2> QED BY <2>1, LevelBounds DEF LevelOK
<1>2. \A i : i \in Borders(l) <=> \/ i = l.b[2] /\ l.b[1] < l.b[2]
                                  \/ i = l.b[3] /\ l.b[3] < l.b[4]
  BY BordersFacts
<1>3. CASE k = 0
  BY <1>1, <1>2, <1>3 DEF Filled
<1>4. CASE k = 1
  BY <1>1, <1>2, <1>4 DEF Filled
<1>5. CASE k = 2
  BY <1>1, <1>2, <1>5 DEF Filled
<1> QED BY <1>3, <1>4, <1>5

\* What is a border in a stack.
LEMMA RimsFacts ==
  ASSUME NEW S, NEW i
  PROVE  i \in Rims(S) <=> \E m \in 1 .. Len(S) : i \in Borders(S[m])
BY DEF Rims

\* The borders in a stack lie strictly inside its range.
LEMMA RimsInside ==
  ASSUME inst \in Instances, NEW S \in Seq(LevelType), NEW lo \in Int, NEW hi \in Int, NEW d \in Int,
         NestOK(S, lo, hi, d), NEW i \in Rims(S)
  PROVE  i \in Int /\ lo < i /\ i < hi
<1>1. PICK m \in 1 .. Len(S) : i \in Borders(S[m])
  BY RimsFacts
<1>2. S[m] \in LevelType /\ LevelOK(S[m]) /\ lo <= S[m].b[1] /\ S[m].b[4] <= hi
  BY NestFacts
<1>3. i \in Int /\ S[m].b[1] < i /\ i < S[m].b[4]
  BY <1>1, <1>2, BordersFacts
<1>4. PICK a \in Int, b \in Int : a = S[m].b[1] /\ b = S[m].b[4]
  <2>1. \A x \in Bound : x \in Int
    BY SizesFacts DEF Bound
  <2> QED BY <2>1, <1>2, LevelBounds
<1>5. lo <= a /\ a < i /\ i < b /\ b <= hi
  BY <1>2, <1>3, <1>4, Zenon
<1> QED BY <1>3, <1>5

\* No border of a level lies inside a level above it.
LEMMA NestRims ==
  ASSUME inst \in Instances, NEW S \in Seq(LevelType), NEW lo \in Int, NEW hi \in Int, NEW d \in Int,
         NestOK(S, lo, hi, d), NEW m \in 1 .. Len(S), NEW n \in 1 .. Len(S), m < n
  PROVE  \A i \in Borders(S[m]) : i <= S[n].b[1] \/ S[n].b[4] <= i
<1>1. PICK l \in LevelType : l = S[m] /\ LevelOK(l)
  BY NestFacts
<1>2. l.idx >= 1 /\ LastLo(l) <= S[n].b[1] /\ S[n].b[4] <= NextLo(l)
  BY <1>1 DEF NestOK
<1>3. PICK k \in 0 .. 2 : l.idx = k + 1
  <2>1. l.idx \in {0, 1, 2, 3}
    BY LevelBounds
  <2>2. l.idx - 1 \in 0 .. 2 /\ l.idx = (l.idx - 1) + 1
    BY <1>2, <2>1
  <2> QED BY <2>2
<1>4. LastLo(l) = l.b[k + 1] /\ NextLo(l) = l.b[k + 2]
  <2>1. LastLo(l) = l.b[k + 1]
    BY <1>3, Zenon DEF LastLo
  <2>2. NextLo(l) = l.b[(k + 1) + 1] /\ (k + 1) + 1 = k + 2
    <3>1. NextLo(l) = l.b[(k + 1) + 1]
      BY <1>3, Zenon DEF NextLo
    <3>2. (k + 1) + 1 = k + 2
      OBVIOUS
    <3> QED BY <3>1, <3>2
  <2> QED BY <2>1, <2>2, Zenon
<1>5. PICK a \in Int, b \in Int, x \in Int, y \in Int :
        a = l.b[k + 1] /\ b = l.b[k + 2] /\ x = S[n].b[1] /\ y = S[n].b[4]
  <2>1. \A z \in Bound : z \in Int
    BY SizesFacts DEF Bound
  <2>2. S[n] \in LevelType
    OBVIOUS
  <2>3. l.b[k + 1] \in Bound /\ l.b[k + 2] \in Bound
    BY <1>1, BucketFacts
  <2> QED BY <2>1, <2>2, <2>3, LevelBounds
<1>6. a <= x /\ y <= b
  BY <1>2, <1>4, <1>5, Zenon
<1>7. ASSUME NEW i \in Borders(l) PROVE i <= x \/ y <= i
  <2>1. i \in Int
    BY <1>1, BordersFacts
  <2>2. i <= a \/ b <= i
    BY <1>1, <1>5, BucketEnds
  <2> QED BY <1>6, <2>1, <2>2
<1> QED BY <1>1, <1>5, <1>7, Zenon

\* The borders in a nested stack leave every bucket that is not started whole.
LEMMA WaitRims ==
  ASSUME inst \in Instances, NEW S \in Seq(LevelType), NEW lo \in Int, NEW hi \in Int, NEW d \in Int,
         NestOK(S, lo, hi, d), NEW n \in 1 .. Len(S), NEW k \in 0 .. 2, Waiting(S[n], k)
  PROVE  \A i \in Rims(S) : i <= S[n].b[k + 1] \/ S[n].b[k + 2] <= i
<1>1. PICK l \in LevelType : l = S[n] /\ LevelOK(l)
  BY NestFacts
<1>2. PICK a \in Int, x \in Int, y \in Int, b \in Int, p \in Int :
        a = l.b[1] /\ x = l.b[k + 1] /\ y = l.b[k + 2] /\ b = l.b[4] /\ p = NextLo(l)
  <2>1. \A z \in Bound : z \in Int
    BY SizesFacts DEF Bound
  <2>2. l.b[1] \in Bound /\ l.b[4] \in Bound /\ l.b[k + 1] \in Bound /\ l.b[k + 2] \in Bound
    BY <1>1, BucketFacts, LevelBounds
  <2>3. NextLo(l) \in Bound
    BY <1>1, NextFacts
  <2> QED BY <2>1, <2>2, <2>3
<1>3. a <= x /\ y <= b
  <2>1. l.b[1] <= l.b[k + 1] /\ l.b[k + 2] <= l.b[4]
    BY <1>1, BucketFacts
  <2> QED BY <1>2, <2>1, Zenon
<1>4. p <= x
  <2>1. NextLo(l) <= Bucket(l, k)[1]
    BY <1>1, LevelParts
  <2>2. Bucket(l, k)[1] = l.b[k + 1]
    BY <1>1, BucketFacts
  <2> QED BY <1>2, <2>1, <2>2, Zenon
<1>5. ASSUME NEW i \in Rims(S) PROVE i <= x \/ y <= i
  <2>1. PICK m \in 1 .. Len(S) : i \in Borders(S[m])
    BY RimsFacts
  <2>2. S[m] \in LevelType /\ LevelOK(S[m])
    BY NestFacts
  <2>3. i \in Int
    BY <2>1, <2>2, BordersFacts
  <2>4. CASE m < n
    <3>1. i <= S[n].b[1] \/ S[n].b[4] <= i
      BY <2>1, <2>4, NestRims
    <3>2. i <= a \/ b <= i
      BY <3>1, <1>1, <1>2, Zenon
    <3> QED BY <3>2, <2>3, <1>3
  <2>5. CASE m = n
    <3>1. i <= l.b[k + 1] \/ l.b[k + 2] <= i
      BY <2>1, <2>5, <1>1, BucketEnds
    <3> QED BY <3>1, <1>2, Zenon
  <2>6. CASE n < m
    <3>1. S[m].b[4] <= NextLo(S[n])
      BY <2>6 DEF NestOK
    <3>2. PICK q \in Int : q = S[m].b[4]
      <4>1. S[m].b[4] \in Bound
        BY <2>2, LevelBounds
      <4>2. \A z \in Bound : z \in Int
        BY SizesFacts DEF Bound
      <4> QED BY <4>1, <4>2
    <3>3. i < q /\ q <= p
      BY <3>1, <3>2, <2>1, <2>2, <1>1, <1>2, BordersFacts
    <3> QED BY <3>3, <2>3, <1>4
  <2> QED BY <2>4, <2>5, <2>6
<1> QED BY <1>1, <1>2, <1>5, Zenon

\* The ends of a filled bucket are those of the step or borders.
LEMMA WaitEnds ==
  ASSUME inst \in Instances, NEW S \in Seq(LevelType), NEW lo \in Int, NEW hi \in Int, NEW d \in Int,
         NestOK(S, lo, hi, d), NEW r, EndsOK(S, r),
         NEW n \in 1 .. Len(S), NEW k \in 0 .. 2, Filled(S[n], k)
  PROVE  /\ S[n].b[k + 1] = r[1] \/ S[n].b[k + 1] \in Rims(S)
         /\ S[n].b[k + 2] = r[2] \/ S[n].b[k + 2] \in Rims(S)
<1>1. S[n] \in LevelType /\ LevelOK(S[n])
  BY NestFacts
<1>2. /\ S[n].b[k + 1] = S[n].b[1] \/ S[n].b[k + 1] \in Borders(S[n])
      /\ S[n].b[k + 2] = S[n].b[4] \/ S[n].b[k + 2] \in Borders(S[n])
  BY <1>1, BucketEnds
<1>3. \A m \in 1 .. Len(S) : Borders(S[m]) \subseteq Rims(S)
  BY RimsFacts
<1>4. \A m \in 1 .. n - 1 : m \in 1 .. Len(S)
  OBVIOUS
<1>5. /\ S[n].b[1] = r[1] \/ S[n].b[1] \in Rims(S)
      /\ S[n].b[4] = r[2] \/ S[n].b[4] \in Rims(S)
  BY <1>3, <1>4 DEF EndsOK
<1>6. Borders(S[n]) \subseteq Rims(S)
  BY <1>3
<1> QED BY <1>2, <1>5, <1>6, Zenon

\* A bucket that is not started can become a child.
LEMMA WaitKid ==
  ASSUME inst \in Instances, NEW S \in Seq(LevelType), NEW lo \in Int, NEW hi \in Int, NEW d \in Int,
         NestOK(S, lo, hi, d), NEW r, EndsOK(S, r),
         NEW n \in 1 .. Len(S), NEW k \in 0 .. 2, Waiting(S[n], k), NEW R, R = Rims(S)
  PROVE  KidAt(Bucket(S[n], k), r, R)
<1>1. PICK c : c = Bucket(S[n], k)
  OBVIOUS
<1>2. c[1] = S[n].b[k + 1] /\ c[2] = S[n].b[k + 2] /\ c[1] \in Int /\ c[2] \in Int
  <2>1. S[n] \in LevelType /\ LevelOK(S[n])
    BY NestFacts
  <2>2. \A z \in Bound : z \in Int
    BY SizesFacts DEF Bound
  <2> QED BY <1>1, <2>1, <2>2, BucketFacts
<1>3. \A i \in R : i <= c[1] \/ c[2] <= i
  BY <1>2, WaitRims, Zenon
<1>4. Inner(c) \cap R = {}
  <2>1. \A i \in Inner(c) : i \in Int /\ c[1] < i /\ i < c[2]
    BY <1>2 DEF Inner
  <2>2. \A i \in Inner(c) : i \notin R
    BY <1>2, <1>3, <2>1
  <2> QED BY <2>2
<1>5. (c[1] = r[1] \/ c[1] \in R) /\ (c[2] = r[2] \/ c[2] \in R)
  BY <1>2, WaitEnds, Zenon DEF Waiting
<1> QED BY <1>1, <1>4, <1>5 DEF KidAt

\* The positions of a range are its first one and the LCPs inside.
LEMMA InnerRange ==
  ASSUME inst \in Instances, NEW c, IsRange(c)
  PROVE  /\ c[1] \in Int /\ c[2] \in Int /\ c[1] \in Cells(c)
         /\ Cells(c) = Inner(c) \cup {c[1]} /\ Inner(c) \subseteq Cells(c)
         /\ \A i : i \in Inner(c) <=> i \in Int /\ c[1] < i /\ i < c[2]
         /\ \A i \in Inner(c) : i # 0 /\ i \in Position /\ i - 1 \in Cells(c)
<1>1. N \in Nat /\ c[1] \in Int /\ c[2] \in Int /\ 0 <= c[1] /\ c[1] < c[2] /\ c[2] <= N
  <2>1. N \in Nat
    BY SizesFacts
  <2> QED BY <2>1 DEF IsRange, Bound
<1> QED BY <1>1 DEF Inner, Cells, Position

\* The same of the range of a step.
LEMMA InnerFacts ==
  ASSUME inst \in Instances, NEW c \in StepId
  PROVE  /\ IsRange(c)
         /\ Cells(c) = Inner(c) \cup {c[1]} /\ Inner(c) \subseteq Cells(c)
         /\ \A i : i \in Inner(c) <=> i \in Int /\ c[1] < i /\ i < c[2]
         /\ \A i \in Inner(c) : i # 0 /\ i \in Position /\ i - 1 \in Cells(c)
<1>1. IsRange(c)
  BY RangeFacts DEF IsRange
<1> QED BY <1>1, InnerRange

\* The borders of a step lie strictly inside its range.
LEMMA RimsOfInside ==
  ASSUME inst \in Instances, NEW r \in StepId, NEW s \in StepType,
         NestOK(Whole(s), r[1], r[2], r[3]), LevelsAt(r, s)
  PROVE  RimsOf(s) \subseteq Inner(r)
<1>1. r[1] \in Int /\ r[2] \in Int /\ r[3] \in Int
  BY RangeFacts
<1>2. Whole(s) \in Seq(LevelType)
  BY WholeFacts
<1>3. Rims(Whole(s)) \subseteq Inner(r)
  <2>1. \A i \in Rims(Whole(s)) : i \in Int /\ r[1] < i /\ i < r[2]
    BY <1>1, <1>2, RimsInside
  <2> QED BY <2>1, InnerFacts
<1>4. Rims(s.bkt) \subseteq Inner(r)
  <2>1. CASE s.bkt = <<>>
    BY <2>1 DEF Rims
  <2>2. ASSUME NEW l \in Splits(r), s.bkt = <<l>> PROVE Rims(s.bkt) \subseteq Inner(r)
    <3>1. l \in LevelType /\ LevelOK(l) /\ l.b[1] = r[1] /\ l.b[4] = r[2]
      BY SplitFacts
    <3>2. \A i \in Borders(l) : i \in Int /\ r[1] < i /\ i < r[2]
      BY <3>1, BordersFacts
    <3>3. Rims(s.bkt) = Borders(l)
      <4>1. Len(s.bkt) = 1 /\ s.bkt[1] = l
        BY <2>2
      <4>2. 1 .. 1 = {1}
        OBVIOUS
      <4> QED BY <4>1, <4>2 DEF Rims
    <3> QED BY <3>2, <3>3, InnerFacts
  <2> QED BY <2>1, <2>2 DEF LevelsAt
<1> QED BY <1>3, <1>4 DEF RimsOf

\* What a live step is, for the lemmas below.
LEMMA LiveFacts ==
  ASSUME IInv, LInv, NEW r \in DOMAIN step
  PROVE  /\ inst \in Instances /\ r \in StepId /\ step[r] \in StepType
         /\ OrderOK(step[r]) /\ NestOK(Whole(step[r]), r[1], r[2], r[3])
         /\ LevelsAt(r, step[r]) /\ RimsOf(step[r]) \subseteq Inner(r)
<1>1. inst \in Instances /\ r \in StepId /\ step[r] \in StepType
  BY DEF IInv, StateOK
<1>2. OrderOK(step[r]) /\ NestOK(Whole(step[r]), r[1], r[2], r[3])
  BY DEF IInv, StacksOK, StackOK
<1>3. LevelsAt(r, step[r])
  BY DEF LInv, LevelsOK
<1> QED BY <1>1, <1>2, <1>3, RimsOfInside

\* The LCPs a step has open lie inside its range; those that are not borders
\* lie where it works.
LEMMA DueFacts ==
  ASSUME IInv, LInv, NEW r \in DOMAIN step
  PROVE  /\ Due(r) \subseteq Inner(r) /\ RimsOf(step[r]) \subseteq Due(r)
         /\ Due(r) \subseteq Area(r) \cup RimsOf(step[r])
<1>1. /\ inst \in Instances /\ r \in StepId /\ step[r] \in StepType
      /\ RimsOf(step[r]) \subseteq Inner(r)
  BY LiveFacts
<1>2. Inner(r) \subseteq Cells(r)
  BY <1>1, InnerFacts
<1>3. CASE step[r].cnt = 0
  <2>1. Due(r) = Inner(r) /\ Area(r) = Cells(r)
    BY <1>3 DEF Due, Area
  <2> QED BY <2>1, <1>1, <1>2
<1>4. CASE step[r].cnt # 0
  <2> DEFINE V == UNION {Cells(c) : c \in Kids(r)}
  <2>1. Due(r) = (StackOpen(step[r]) \cap Inner(r)) \cup InnerOf(Kids(r)) \cup RimsOf(step[r])
    BY <1>4 DEF Due
  <2>2. Area(r) = StackArea(step[r]) \cup V
    BY <1>4 DEF Area
  <2>3. StackOpen(step[r]) \subseteq StackArea(step[r])
    BY <1>1, LiveFacts, StackAreaFacts
  <2>4. ASSUME NEW c \in Kids(r) PROVE Inner(c) \subseteq Inner(r) /\ Inner(c) \subseteq Cells(c)
    <3>1. c \in StepId /\ Inside(c, r)
      BY KidsInside
    <3>2. c[1] \in Int /\ c[2] \in Int /\ r[1] \in Int /\ r[2] \in Int
      BY <1>1, <3>1, RangeFacts
    <3>3. r[1] <= c[1] /\ c[2] <= r[2]
      BY <3>1 DEF Inside
    <3>4. \A i : i \in Inner(c) => i \in Inner(r)
      BY <1>1, <3>1, <3>2, <3>3, InnerFacts
    <3> QED BY <1>1, <3>1, <3>4, InnerFacts
  <2>5. InnerOf(Kids(r)) \subseteq Inner(r) /\ InnerOf(Kids(r)) \subseteq V
    BY <2>4 DEF InnerOf
  <2> HIDE DEF V
  <2> QED BY <2>1, <2>2, <2>3, <2>5, <1>1
<1> QED BY <1>3, <1>4

\* No two steps have the same LCP open.
LEMMA DueApart ==
  ASSUME IInv, LInv, NEW x \in DOMAIN step, NEW y \in DOMAIN step, x # y
  PROVE  Due(x) \cap Due(y) = {}
<1>1. inst \in Instances /\ x \in StepId /\ y \in StepId
  BY LiveFacts
<1>2. Inner(x) \subseteq Cells(x) /\ Inner(y) \subseteq Cells(y)
  BY <1>1, InnerFacts
<1>3. ASSUME NEW u \in DOMAIN step, NEW v \in DOMAIN step, Inside(v, u) PROVE Due(u) \cap Due(v) = {}
  <2>1. Area(u) \cap Cells(v) = {}
    BY <1>3 DEF IInv, AreasApart
  <2>2. RimsOf(step[u]) \cap Inner(v) = {}
    BY <1>3 DEF LInv, RimsApart
  <2>3. Inner(v) \subseteq Cells(v)
    BY InnerFacts, LiveFacts
  <2>4. Due(u) \subseteq Area(u) \cup RimsOf(step[u]) /\ Due(v) \subseteq Inner(v)
    BY DueFacts
  <2> QED BY <2>1, <2>2, <2>3, <2>4
<1>4. CASE Apart(x, y)
  <2>1. Cells(x) \cap Cells(y) = {}
    BY <1>1, <1>4, ApartCells
  <2>2. Due(x) \subseteq Inner(x) /\ Due(y) \subseteq Inner(y)
    BY DueFacts
  <2> QED BY <2>1, <2>2, <1>2
<1>5. Apart(x, y) \/ Inside(x, y) \/ Inside(y, x)
  BY DEF IInv, TreeOK
<1>6. CASE Inside(x, y)
  BY <1>3, <1>6
<1>7. CASE Inside(y, x)
  BY <1>3, <1>7
<1> QED BY <1>4, <1>5, <1>6, <1>7

\* Of the positions O, E was finished and K handed out; X is left open.
Handed(O, X, K, E) ==
  /\ \A i : i \in X \/ (\E c \in K : i \in Cells(c)) <=> i \in O /\ ~\E e \in E : i \in Cells(e)
  /\ \A e \in E : Cells(e) \subseteq O

\* A thread at work on step r, with children K, has written the LCPs W: the
\* step is now z.
RimLeft(r, s, z, K, W) ==
  /\ LevelsAt(r, z) /\ \A c \in K : KidAt(c, r, RimsOf(z))
  /\ RimsOf(z) \subseteq RimsOf(s) \cup Area(r)
  /\ \A i \in RimsOf(s) : i \in RimsOf(z) \/ (i \in Area(r) /\ i - 1 \in Area(r))
  /\ W \subseteq Due(r)
  /\ (StackOpen(z) \cap Inner(r)) \cup InnerOf(K) \cup RimsOf(z) = Due(r) \ W

\* Handing out positions hands out the LCPs inside the ranges; the LCPs
\* between them become borders.
LEMMA DueLeft ==
  ASSUME inst \in Instances, NEW r \in StepId, NEW O, NEW X, NEW K \in SUBSET StepId,
         NEW E, \A e \in E : IsRange(e), Handed(O, X, K, E),
         NEW R, NEW Q, R \subseteq Q, Q \subseteq R \cup (O \cap Inner(r)), Q \subseteq Inner(r),
         \A c \in K \cup E : KidAt(c, r, Q) /\ Inner(c) \subseteq Inner(r)
  PROVE  /\ (X \cap Inner(r)) \cup InnerOf(K) \cup Q = ((O \cap Inner(r)) \cup R) \ InnerOf(E)
         /\ InnerOf(E) \subseteq (O \cap Inner(r)) \cup R
<1> DEFINE M == Inner(r)
<1>1. r[1] \notin M
  BY InnerFacts, RangeFacts
<1>2. ASSUME NEW c \in K \cup E
      PROVE  /\ \A i : i \in Cells(c) /\ i \in M => i \in Inner(c) \/ i \in Q
             /\ Inner(c) \cap Q = {} /\ Inner(c) \subseteq Cells(c) /\ Inner(c) \subseteq M
  <2>1. IsRange(c) /\ KidAt(c, r, Q) /\ Inner(c) \subseteq M
    BY InnerFacts
  <2>2. Cells(c) = Inner(c) \cup {c[1]}
    BY <2>1, InnerRange
  <2>3. c[1] = r[1] \/ c[1] \in Q
    BY <2>1 DEF KidAt
  <2>4. Inner(c) \cap Q = {}
    BY <2>1 DEF KidAt
  <2> HIDE DEF M
  <2> QED BY <2>1, <2>2, <2>3, <2>4, <1>1
<1>3. /\ \A i : i \in X \/ (\E c \in K : i \in Cells(c)) <=> i \in O /\ ~\E e \in E : i \in Cells(e)
      /\ \A e \in E : Cells(e) \subseteq O
  BY DEF Handed
<1>4. /\ \A i : i \in InnerOf(K) <=> \E c \in K : i \in Inner(c)
      /\ \A i : i \in InnerOf(E) <=> \E c \in E : i \in Inner(c)
  BY DEF InnerOf
<1>5. R \subseteq Q /\ Q \subseteq R \cup (O \cap M) /\ Q \subseteq M
  OBVIOUS
<1> HIDE DEF M
<1>6. \A i : i \in InnerOf(E) => i \in O /\ i \in M /\ i \notin Q
  BY <1>2, <1>3, <1>4
<1>7. ASSUME NEW i \in X, i \in M PROVE i \in O /\ i \notin InnerOf(E)
  <2>1. i \in O /\ ~\E e \in E : i \in Cells(e)
    BY <1>3, <1>7
  <2> QED BY <2>1, <1>2, <1>4
<1>8. ASSUME NEW i \in InnerOf(K) PROVE i \in O /\ i \in M /\ i \notin InnerOf(E)
  <2>1. PICK c \in K : i \in Inner(c) /\ i \in Cells(c) /\ i \in M
    BY <1>2, <1>4
  <2>2. i \in O /\ ~\E e \in E : i \in Cells(e)
    BY <1>3, <2>1
  <2> QED BY <2>1, <2>2, <1>2, <1>4
<1>9. ASSUME NEW i \in O, i \in M, i \notin InnerOf(E) PROVE i \in X \/ i \in InnerOf(K) \/ i \in Q
  <2>1. CASE \E e \in E : i \in Cells(e)
    BY <2>1, <1>2, <1>4, <1>9
  <2>2. CASE ~\E e \in E : i \in Cells(e)
    <3>1. i \in X \/ (\E c \in K : i \in Cells(c))
      BY <2>2, <1>3
    <3> QED BY <3>1, <1>2, <1>4, <1>9
  <2> QED BY <2>1, <2>2
<1>10. ASSUME NEW i \in Q PROVE (i \in O /\ i \in M) \/ i \in R
  BY <1>5
<1>11. (X \cap M) \cup InnerOf(K) \cup Q = ((O \cap M) \cup R) \ InnerOf(E)
  BY <1>5, <1>6, <1>7, <1>8, <1>9, <1>10
<1>12. InnerOf(E) \subseteq (O \cap M) \cup R
  BY <1>6
<1> QED BY <1>11, <1>12 DEF M

\* The LCPs W of step r are written: the others stay open, where they were.
LEMMA LcpKept ==
  ASSUME IInv, LInv, inst' = inst, DOMAIN step' = DOMAIN step, NEW r \in DOMAIN step,
         NEW W, W \subseteq Due(r), Due(r)' = Due(r) \ W,
         \A x \in DOMAIN step : x # r => Due(x)' = Due(x),
         lcp' = [i \in Position |-> IF i \in W THEN lcp[i] + 1 ELSE lcp[i]]
  PROVE  LcpExact'
<1>1. Position' = Position
  BY Rigid
<1>2. SUFFICES ASSUME NEW i \in Position
               PROVE  lcp'[i] = IF i = 0 \/ \E x \in DOMAIN step : i \in Due(x)' THEN 0 ELSE 1
  BY <1>1 DEF LcpExact
<1>3. lcp[i] = IF i = 0 \/ \E x \in DOMAIN step : i \in Due(x) THEN 0 ELSE 1
  BY DEF LInv, LcpExact
<1>4. CASE i \in W
  <2>1. i \in Due(r) /\ i # 0
    <3>1. i \in Due(r) /\ Due(r) \subseteq Inner(r) /\ r \in StepId /\ inst \in Instances
      BY <1>4, DueFacts, LiveFacts
    <3> QED BY <3>1, InnerFacts
  <2>2. \A x \in DOMAIN step : x # r => i \notin Due(x)
    BY <2>1, DueApart
  <2>3. \A x \in DOMAIN step : i \notin Due(x)'
    BY <2>2, <1>4
  <2>4. lcp'[i] = 1
    BY <1>3, <1>4, <2>1
  <2> QED BY <2>1, <2>3, <2>4
<1>5. CASE i \notin W
  <2>1. \A x \in DOMAIN step : i \in Due(x)' <=> i \in Due(x)
    BY <1>5
  <2>2. lcp'[i] = lcp[i]
    BY <1>5
  <2> QED BY <2>1, <2>2, <1>3
<1> QED BY <1>4, <1>5

\* A thread that works on a step writes LCPs only inside the ranges it
\* finishes and, when a level is done, between them.
LEMMA LcpWorked ==
  ASSUME IInv, LInv, inst' = inst, NEW t \in Thread, NEW r \in DOMAIN step, thr[t].s = r, Alone(t, r),
         NEW z \in StepType, step' = [step EXCEPT ![r] = z], z.cnt > 0,
         NEW a, Moves(t, a, r),
         NEW K \in SUBSET StepId, todo' = [todo EXCEPT ![t] = K],
         NEW W, lcp' = [i \in Position |-> IF i \in W THEN lcp[i] + 1 ELSE lcp[i]],
         RimLeft(r, step[r], z, K, W)
  PROVE  LInv'
<1>1. /\ DOMAIN step' = DOMAIN step /\ step'[r] = z
      /\ \A x \in DOMAIN step : x # r => step'[x] = step[x]
  BY StepSet DEF IInv
<1>2. todo'[t] = K /\ \A u \in Thread : u # t => todo'[u] = todo[u]
  BY DEF IInv, StateOK
<1>3. /\ thr'[t].at = a /\ thr'[t].s = r
      /\ \A u \in Thread : u # t => thr'[u] = thr[u]
  BY DEF Moves
<1>4. \A u \in Thread : todo[u] # {} => thr[u].at \in Handling /\ thr[u].s \in DOMAIN step
  <2>1. \A u \in Thread : todo[u] # {} => thr[u].at \in {"split", "ssfree", "msfree"}
    BY DEF IInv, TodoOK, Then
  <2> QED BY <2>1 DEF IInv, NoDangling, Handling, InSample, InMkqs
<1>5. \A u \in Thread : u # t /\ thr[u].s = r => todo[u] = {}
  BY <1>4 DEF Alone
<1>6. Kids(r)' = K
  BY <1>2, <1>3, <1>5 DEF Kids
<1>7. ASSUME NEW x \in DOMAIN step, x # r PROVE Kids(x)' = Kids(x)
  BY <1>2, <1>3, <1>7 DEF Kids
<1>8. z.cnt # 0
  <2>1. z.cnt \in Nat
    BY DEF StepType
  <2> QED BY <2>1
<1>9. Due(r)' = Due(r) \ W
  <2>1. Due(r)' = (StackOpen(z) \cap Inner(r)) \cup InnerOf(K) \cup RimsOf(z)
    BY <1>1, <1>6, <1>8, RimsNext
  <2> QED BY <2>1 DEF RimLeft
<1>10. ASSUME NEW x \in DOMAIN step, x # r PROVE Due(x)' = Due(x)
  <2>1. step'[x] = step[x] /\ Kids(x)' = Kids(x)
    BY <1>1, <1>7, <1>10
  <2> QED BY <2>1, RimsNext DEF Due
<1>11. LcpExact'
  <2>1. W \subseteq Due(r)
    BY DEF RimLeft
  <2> QED BY <2>1, <1>1, <1>9, <1>10, LcpKept
<1>12. LevelsOK'
  <2>1. SUFFICES ASSUME NEW x \in DOMAIN step PROVE LevelsAt(x, step[x])'
    BY <1>1 DEF LevelsOK
  <2>2. LevelsAt(x, step'[x])
    BY <1>1 DEF RimLeft, LInv, LevelsOK
  <2> QED BY <2>2, RimsNext
<1>13. KidsOK'
  <2>1. ASSUME NEW u \in Thread, NEW c \in todo'[u] PROVE KidAt(c, thr'[u].s, RimsOf(step'[thr'[u].s]))
    <3>1. CASE u = t
      BY <3>1, <1>1, <1>2, <1>3, <2>1 DEF RimLeft
    <3>2. CASE u # t
      <4>1. c \in todo[u] /\ thr'[u].s = thr[u].s
        BY <3>2, <2>1, <1>2, <1>3
      <4>2. step'[thr[u].s] = step[thr[u].s]
        BY <4>1, <3>2, <1>1, <1>4, <1>5
      <4> QED BY <4>1, <4>2 DEF LInv, KidsOK
    <3> QED BY <3>1, <3>2
  <2>2. ASSUME NEW u \in Thread, NEW c \in todo'[u]
        PROVE  KidAt(c, thr'[u].s, RimsOf(step[thr[u].s])')
    <3>1. RimsOf(step[thr[u].s])' = RimsOf(step'[thr'[u].s])
      BY DEF RimsOf, Rims, Whole, Borders, Filled, BktNum
    <3> QED BY <3>1, <2>1
  <2> QED BY <2>2 DEF KidsOK, KidAt, Inner
<1>14. \A x \in DOMAIN step : x # r => RimsOf(step'[x]) = RimsOf(step[x])
  BY <1>1
<1>15. ASSUME NEW y \in DOMAIN step, Inside(y, r) PROVE Area(r) \cap Cells(y) = {}
  BY <1>15 DEF IInv, AreasApart
<1>16. RimsApart'
  <2>1. SUFFICES ASSUME NEW x \in DOMAIN step, NEW y \in DOMAIN step, Inside(y, x)
                 PROVE  RimsOf(step'[x]) \cap Inner(y) = {}
    BY <1>1, RimsNext DEF RimsApart, Inside, Size, Inner
  <2>2. RimsOf(step[x]) \cap Inner(y) = {}
    BY <2>1 DEF LInv, RimsApart
  <2>3. CASE x = r
    <3>1. Inner(y) \subseteq Cells(y)
      BY InnerFacts, LiveFacts
    <3>2. RimsOf(step'[x]) \subseteq RimsOf(step[x]) \cup Area(r)
      BY <2>3, <1>1 DEF RimLeft
    <3> QED BY <3>1, <3>2, <2>1, <2>2, <2>3, <1>15
  <2> QED BY <2>2, <2>3, <1>14
<1>17. EndsHeld'
  <2>1. ASSUME NEW x \in DOMAIN step, NEW y \in DOMAIN step, Inside(y, x), NEW i \in RimsOf(step[x]),
               i = y[1] \/ i = y[2]
        PROVE  i \in RimsOf(step'[x])
    <3>1. CASE x # r
      BY <3>1, <2>1, <1>14
    <3>2. CASE x = r
      <4>1. y[1] \in Cells(y) /\ y[2] - 1 \in Cells(y)
        <5>1. y[1] \in Int /\ y[2] \in Int /\ y[1] < y[2]
          BY RangeFacts, LiveFacts
        <5> QED BY <5>1 DEF Cells
      <4>2. i \in RimsOf(z) \/ (i \in Area(r) /\ i - 1 \in Area(r))
        BY <3>2, <2>1 DEF RimLeft
      <4> QED BY <4>1, <4>2, <3>2, <2>1, <1>1, <1>15
    <3> QED BY <3>1, <3>2
  <2>2. SUFFICES ASSUME NEW y \in DOMAIN step
                 PROVE  /\ y[1] = 0 \/ \E x \in DOMAIN step : Inside(y, x) /\ y[1] \in RimsOf(step'[x])
                        /\ y[2] = N \/ \E x \in DOMAIN step : Inside(y, x) /\ y[2] \in RimsOf(step'[x])
    BY <1>1, RimsNext, Rigid DEF EndsHeld, Inside, Size
  <2>3. /\ y[1] = 0 \/ \E x \in DOMAIN step : Inside(y, x) /\ y[1] \in RimsOf(step[x])
        /\ y[2] = N \/ \E x \in DOMAIN step : Inside(y, x) /\ y[2] \in RimsOf(step[x])
    BY DEF LInv, EndsHeld
  <2> QED BY <2>1, <2>3
<1> QED BY <1>11, <1>12, <1>13, <1>16, <1>17 DEF LInv

\* A range in a range has its LCPs there too.
LEMMA InnerIn ==
  ASSUME inst \in Instances, NEW c, IsRange(c), NEW r \in StepId, Cells(c) \subseteq Cells(r)
  PROVE  Inner(c) \subseteq Inner(r)
<1>1. c[1] \in Int /\ c[2] \in Int /\ r[1] \in Int /\ r[2] \in Int
  BY InnerRange, RangeFacts
<1>2. c[1] \in Cells(r)
  BY InnerRange
<1>3. r[1] <= c[1]
  BY <1>1, <1>2 DEF Cells
<1>4. ASSUME NEW i \in Inner(c) PROVE i \in Inner(r)
  <2>1. i \in Int /\ c[1] < i /\ i \in Cells(r)
    BY <1>4, InnerRange
  <2>2. i < r[2]
    BY <2>1, <1>1 DEF Cells
  <2> QED BY <2>1, <2>2, <1>1, <1>3, InnerFacts
<1> QED BY <1>4

\* A step without children to create has open what it owes, and its borders.
LEMMA DueOwed ==
  ASSUME IInv, LInv, NEW r \in DOMAIN step, Kids(r) = {}
  PROVE  Due(r) = (Owed(r) \cap Inner(r)) \cup RimsOf(step[r])
<1>1. RimsOf(step[r]) \subseteq Inner(r) /\ Inner(r) \subseteq Cells(r)
  BY LiveFacts, InnerFacts
<1>2. CASE step[r].cnt = 0
  <2>1. Due(r) = Inner(r) /\ Owed(r) = Cells(r)
    BY <1>2 DEF Due, Owed
  <2> QED BY <2>1, <1>1
<1>3. CASE step[r].cnt # 0
  <2>1. InnerOf(Kids(r)) = {} /\ UNION {Cells(c) : c \in Kids(r)} = {}
    BY DEF InnerOf
  <2>2. Due(r) = (StackOpen(step[r]) \cap Inner(r)) \cup InnerOf(Kids(r)) \cup RimsOf(step[r])
    BY <1>3 DEF Due
  <2>3. Owed(r) = StackOpen(step[r])
    BY <1>3, <2>1 DEF Owed
  <2> QED BY <2>1, <2>2, <2>3
<1> QED BY <1>2, <1>3

\* A thread that handed out the children K and finished the ranges E.
LEMMA RimsHanded ==
  ASSUME IInv, LInv, NEW r \in DOMAIN step, Kids(r) = {}, NEW z \in StepType,
         NEW K \in SUBSET StepId, NEW E, \A e \in E : IsRange(e),
         NEW D, D = UNION {Cells(e) : e \in E}, WorkLeft(r, z, K, D),
         LevelsAt(r, z), RimsOf(step[r]) \subseteq RimsOf(z),
         RimsOf(z) \subseteq RimsOf(step[r]) \cup (Owed(r) \cap Inner(r)),
         \A c \in K \cup E : KidAt(c, r, RimsOf(z))
  PROVE  RimLeft(r, step[r], z, K, InnerOf(E))
<1>1. inst \in Instances /\ r \in StepId /\ RimsOf(step[r]) \subseteq Inner(r)
  BY LiveFacts
<1>2. Owed(r) \subseteq Area(r) /\ Area(r) \subseteq Cells(r)
  BY AreaFacts
<1>3. D \subseteq Owed(r) /\ StackOpen(z) \cup UNION {Cells(c) : c \in K} = Owed(r) \ D
  BY DEF WorkLeft
<1>4. Handed(Owed(r), StackOpen(z), K, E)
  BY <1>3 DEF Handed
<1>5. ASSUME NEW c \in K \cup E PROVE Inner(c) \subseteq Inner(r)
  <2>1. Cells(c) \subseteq Owed(r)
    BY <1>3
  <2>2. IsRange(c)
    BY <1>1, InnerFacts
  <2> QED BY <2>1, <2>2, <1>1, <1>2, InnerIn
<1>6. RimsOf(z) \subseteq Inner(r)
  BY <1>1
<1>7. /\ (StackOpen(z) \cap Inner(r)) \cup InnerOf(K) \cup RimsOf(z)
           = ((Owed(r) \cap Inner(r)) \cup RimsOf(step[r])) \ InnerOf(E)
      /\ InnerOf(E) \subseteq (Owed(r) \cap Inner(r)) \cup RimsOf(step[r])
  BY <1>1, <1>4, <1>5, <1>6, DueLeft
<1>8. Due(r) = (Owed(r) \cap Inner(r)) \cup RimsOf(step[r])
  BY DueOwed
<1>9. RimsOf(z) \subseteq RimsOf(step[r]) \cup Area(r)
  BY <1>2
<1> QED BY <1>7, <1>8, <1>9 DEF RimLeft

\* The borders of no level, and of one.
LEMMA RimsFew ==
  ASSUME NEW S
  PROVE  /\ Len(S) = 0 => Rims(S) = {}
         /\ \A l : Len(S) = 1 /\ S[1] = l => Rims(S) = Borders(l)
<1>1. ASSUME Len(S) = 0 PROVE Rims(S) = {}
  <2>1. 1 .. Len(S) = {}
    BY <1>1
  <2> QED BY <2>1 DEF Rims
<1>2. ASSUME NEW l, Len(S) = 1, S[1] = l PROVE Rims(S) = Borders(l)
  <2>1. 1 .. Len(S) = {1}
    BY <1>2
  <2> QED BY <2>1, <1>2 DEF Rims
<1> QED BY <1>1, <1>2

\* The borders of a step whose bucket boundaries are all on its stacks.
LEMMA RimsStack ==
  ASSUME NEW s, s.bkt = <<>>
  PROVE  RimsOf(s) = Rims(Whole(s))
<1>1. Len(s.bkt) = 0
  OBVIOUS
<1> QED BY <1>1, RimsFew DEF RimsOf

\* A filled bucket of a level is a range between its borders.
LEMMA BucketRange ==
  ASSUME inst \in Instances, NEW l \in LevelType, LevelOK(l), NEW k \in 0 .. 2, Filled(l, k)
  PROVE  IsRange(Bucket(l, k))
<1>1. Bucket(l, k)[1] = l.b[k + 1] /\ Bucket(l, k)[2] = l.b[k + 2]
      /\ l.b[k + 1] \in Bound /\ l.b[k + 2] \in Bound
  BY BucketFacts
<1> QED BY <1>1 DEF IsRange, Filled

\* It can become a child of the step the level splits.
LEMMA BucketKid ==
  ASSUME inst \in Instances, NEW r \in StepId, NEW l \in Splits(r), NEW k \in 0 .. 2, Filled(l, k)
  PROVE  KidAt(Bucket(l, k), r, Borders(l))
<1>1. l \in LevelType /\ LevelOK(l) /\ l.b[1] = r[1] /\ l.b[4] = r[2]
  BY SplitFacts
<1>2. PICK c : c = Bucket(l, k)
  OBVIOUS
<1>3. c[1] = l.b[k + 1] /\ c[2] = l.b[k + 2] /\ IsRange(c)
  BY <1>1, <1>2, BucketFacts, BucketRange
<1>4. \A i \in Borders(l) : i <= c[1] \/ c[2] <= i
  BY <1>1, <1>3, BucketEnds, Zenon
<1>5. Inner(c) \cap Borders(l) = {}
  <2>1. \A i \in Inner(c) : i \in Int /\ c[1] < i /\ i < c[2] /\ c[1] \in Int /\ c[2] \in Int
    BY <1>3, InnerRange
  <2>2. \A i \in Inner(c) : i \notin Borders(l)
    BY <1>4, <2>1
  <2> QED BY <2>2
<1>6. (c[1] = r[1] \/ c[1] \in Borders(l)) /\ (c[2] = r[2] \/ c[2] \in Borders(l))
  BY <1>1, <1>3, BucketEnds
<1> QED BY <1>2, <1>5, <1>6 DEF KidAt

\* The borders do not depend on the bucket a level has got to.
LEMMA RimsSame ==
  ASSUME NEW S \in Seq(LevelType), NEW T \in Seq(LevelType), Len(T) = Len(S),
         \A i \in 1 .. Len(S) : T[i].b = S[i].b
  PROVE  /\ Rims(T) = Rims(S)
         /\ \A r : EndsOK(S, r) => EndsOK(T, r)
<1>1. \A i \in 1 .. Len(S) : Borders(T[i]) = Borders(S[i])
  BY DEF Borders, Filled
<1>2. Rims(T) = Rims(S)
  BY <1>1 DEF Rims
<1>3. ASSUME NEW r, EndsOK(S, r), NEW n \in 1 .. Len(T)
      PROVE  /\ T[n].b[1] = r[1] \/ \E m \in 1 .. n - 1 : T[n].b[1] \in Borders(T[m])
             /\ T[n].b[4] = r[2] \/ \E m \in 1 .. n - 1 : T[n].b[4] \in Borders(T[m])
  <2>1. \A m \in 1 .. n - 1 : m \in 1 .. Len(S)
    OBVIOUS
  <2>2. /\ S[n].b[1] = r[1] \/ \E m \in 1 .. n - 1 : S[n].b[1] \in Borders(S[m])
        /\ S[n].b[4] = r[2] \/ \E m \in 1 .. n - 1 : S[n].b[4] \in Borders(S[m])
    BY <1>3 DEF EndsOK
  <2>3. T[n].b = S[n].b
    OBVIOUS
  <2> QED BY <1>1, <2>1, <2>2, <2>3
<1> QED BY <1>2, <1>3 DEF EndsOK

\* A level more adds its borders.
LEMMA RimsPushed ==
  ASSUME NEW S \in Seq(LevelType), NEW T \in Seq(LevelType), Len(T) = Len(S) + 1,
         \A i \in 1 .. Len(S) : T[i] = S[i], NEW l, T[Len(S) + 1] = l
  PROVE  /\ Rims(T) = Rims(S) \cup Borders(l)
         /\ \A r : EndsOK(T, r) => EndsOK(S, r)
         /\ \A r : /\ EndsOK(S, r)
                   /\ l.b[1] = r[1] \/ l.b[1] \in Rims(S)
                   /\ l.b[4] = r[2] \/ l.b[4] \in Rims(S)
                   => EndsOK(T, r)
<1>1. PICK n \in Nat : n = Len(S)
  OBVIOUS
<1>2. 1 .. Len(T) = (1 .. n) \cup {n + 1} /\ 1 .. Len(S) = 1 .. n /\ T[n + 1] = l
  BY <1>1
<1>3. \A i \in 1 .. n : T[i] = S[i]
  BY <1>1
<1>4. \A i : i \in Rims(S) <=> \E m \in 1 .. n : i \in Borders(S[m])
  BY <1>2, RimsFacts
<1>5. \A i : i \in Rims(T) <=> \E m \in (1 .. n) \cup {n + 1} : i \in Borders(T[m])
  BY <1>2, RimsFacts
<1>6. Rims(T) = Rims(S) \cup Borders(l)
  BY <1>2, <1>3, <1>4, <1>5
<1>7. \A x \in 1 .. n : \A m \in 1 .. x - 1 : m \in 1 .. n
  OBVIOUS
<1> DEFINE Ends(r, U, x) ==
      /\ U[x].b[1] = r[1] \/ \E m \in 1 .. x - 1 : U[x].b[1] \in Borders(U[m])
      /\ U[x].b[4] = r[2] \/ \E m \in 1 .. x - 1 : U[x].b[4] \in Borders(U[m])
<1>8. ASSUME NEW r, NEW x \in 1 .. n PROVE Ends(r, S, x) <=> Ends(r, T, x)
  BY <1>3, <1>7
<1>9. \A r : EndsOK(S, r) <=> \A x \in 1 .. n : Ends(r, S, x)
  BY <1>2 DEF EndsOK
<1>10. \A r : EndsOK(T, r) <=> \A x \in (1 .. n) \cup {n + 1} : Ends(r, T, x)
  BY <1>2 DEF EndsOK
<1>11. ASSUME NEW r, l.b[1] = r[1] \/ l.b[1] \in Rims(S), l.b[4] = r[2] \/ l.b[4] \in Rims(S)
       PROVE  Ends(r, T, n + 1)
  <2>1. (n + 1) - 1 = n
    OBVIOUS
  <2>2. \A i \in Rims(S) : \E m \in 1 .. (n + 1) - 1 : i \in Borders(T[m])
    BY <1>3, <1>4, <2>1
  <2> QED BY <1>2, <1>11, <2>2
<1> HIDE DEF Ends
<1>12. \A r : EndsOK(T, r) => EndsOK(S, r)
  BY <1>8, <1>9, <1>10
<1>13. \A r : /\ EndsOK(S, r)
              /\ l.b[1] = r[1] \/ l.b[1] \in Rims(S)
              /\ l.b[4] = r[2] \/ l.b[4] \in Rims(S)
              => EndsOK(T, r)
  BY <1>8, <1>9, <1>10, <1>11
<1> QED BY <1>6, <1>12, <1>13

\* The LCPs, when a thread with a handle, or one that takes it, works.
LEMMA LcpStep ==
  ASSUME IInv, LInv, inst' = inst, jobs' = jobs,
         NEW t \in Thread, NEW r \in DOMAIN step, thr[t].s = r,
         NEW z \in StepType, step' = [step EXCEPT ![r] = z], z.parent = step[r].parent,
         \/ thr[t].at \in Handling /\ z.cnt = step[r].cnt
         \/ thr[t].at \in {"small", "distfin"} /\ z.cnt = step[r].cnt + 1,
         NEW a \in Holding, Moves(t, a, r),
         NEW K \in SUBSET StepId, todo' = [todo EXCEPT ![t] = K],
         NEW W, lcp' = [i \in Position |-> IF i \in W THEN lcp[i] + 1 ELSE lcp[i]],
         RimLeft(r, step[r], z, K, W)
  PROVE  LInv'
<1>1. Alone(t, r) /\ z.cnt > 0
  BY WorkerFacts
<1> QED BY <1>1, LcpWorked

\* The LCPs inside the ranges E are written.
WroteIn(E) == lcp' = [i \in Position |-> IF i \in InnerOf(E) THEN lcp[i] + 1 ELSE lcp[i]]

\* What the program writes, as the lemmas above have it.
LEMMA WroteFacts ==
  ASSUME StateOK
  PROVE  /\ lcp' = lcp => WroteIn({})
         /\ \A B : Finish(B, {}) => WroteIn(B)
         /\ \A b, F : Write(F, Inner(b)) => WroteIn({b})
<1>1. lcp \in [Position -> Nat] /\ InnerOf({}) = {}
  BY DEF StateOK, InnerOf
<1>2. lcp' = lcp => WroteIn({})
  BY <1>1 DEF WroteIn
<1>3. ASSUME NEW B, Finish(B, {}) PROVE WroteIn(B)
  <2>1. UNION {Inner(b) : b \in B} \cup {} = InnerOf(B)
    BY DEF InnerOf
  <2> QED BY <2>1, <1>3, Zenon DEF Finish, Write, WroteIn
<1>4. ASSUME NEW b, NEW F, Write(F, Inner(b)) PROVE WroteIn({b})
  <2>1. Inner(b) = InnerOf({b})
    BY DEF InnerOf
  <2> QED BY <2>1, <1>4, Zenon DEF Write, WroteIn
<1> QED BY <1>2, <1>3, <1>4

---------------------------------------------------------------------------
(* A small sort *)

\* A step without levels.
LEMMA NoStackFacts ==
  ASSUME inst \in Instances, NEW r \in StepId, NEW s \in StepType, NoStack(s)
  PROVE  /\ Len(Whole(s)) = 0 /\ Freed(s) = 0 /\ StackArea(s) = {} /\ StackOpen(s) = {}
         /\ OrderOK(s) /\ NestOK(Whole(s), r[1], r[2], r[3])
<1>1. s.stack.ss = <<>> /\ s.stack.ms = <<>> /\ s.front.ss = 0 /\ s.front.ms = 0
  BY DEF NoStack
<1>2. Whole(s) \in Seq(LevelType) /\ Len(Whole(s)) = Len(s.stack.ss) + Len(s.stack.ms)
  BY WholeFacts
<1>3. Len(s.stack.ss) = 0 /\ Len(s.stack.ms) = 0
  BY <1>1
<1>4. Len(Whole(s)) = 0 /\ Freed(s) = 0
  BY <1>1, <1>2, <1>3 DEF Freed
<1>5. StackArea(s) = {} /\ StackOpen(s) = {}
  BY <1>4 DEF StackArea, StackOpen, LevelsArea, LevelsOpen
<1>6. NestOK(Whole(s), r[1], r[2], r[3])
  BY <1>4 DEF NestOK
<1> QED BY <1>1, <1>3, <1>4, <1>5, <1>6 DEF OrderOK

\* A step with one level for its whole range.
LEMMA FirstLevel ==
  ASSUME inst \in Instances, NEW r \in StepId, NEW s \in StepType, NEW l \in Splits(r),
         s.front.ss = 0, s.front.ms = 0,
         \/ s.stack.ss = <<l>> /\ s.stack.ms = <<>>
         \/ s.stack.ss = <<>> /\ s.stack.ms = <<l>>
  PROVE  /\ StackArea(s) = Cells(r) /\ StackOpen(s) = Cells(r)
         /\ OrderOK(s) /\ NestOK(Whole(s), r[1], r[2], r[3])
<1>1. /\ l \in LevelType /\ LevelOK(l)
      /\ l.idx = 0 /\ l.b[1] = r[1] /\ l.b[4] = r[2] /\ l.depth = r[3]
  BY SplitFacts
<1>2. r[1] \in Int /\ r[2] \in Int /\ r[3] \in Int
  BY RangeFacts
<1>3. PICK S \in Seq(LevelType) : S = Whole(s)
  BY WholeFacts
<1>4. Len(S) = 1 /\ S[1] = l
  <2>1. CASE s.stack.ss = <<l>> /\ s.stack.ms = <<>>
    <3>1. Len(s.stack.ss) = 1 /\ Len(s.stack.ms) = 0 /\ s.stack.ss[1] = l
      BY <2>1
    <3>2. /\ Len(S) = Len(s.stack.ss) + Len(s.stack.ms)
          /\ \A i \in 1 .. Len(s.stack.ss) : S[i] = s.stack.ss[i]
      BY <1>3, WholeFacts
    <3> QED BY <3>1, <3>2
  <2>2. CASE s.stack.ss = <<>> /\ s.stack.ms = <<l>>
    <3>1. Len(s.stack.ss) = 0 /\ Len(s.stack.ms) = 1 /\ s.stack.ms[1] = l
      BY <2>2
    <3>2. /\ Len(S) = Len(s.stack.ss) + Len(s.stack.ms)
          /\ \A i \in 1 .. Len(s.stack.ms) : S[Len(s.stack.ss) + i] = s.stack.ms[i]
      BY <1>3, WholeFacts
    <3>3. Len(S) = 1 /\ S[0 + 1] = l
      BY <3>1, <3>2
    <3> QED BY <3>3
  <2> QED BY <2>1, <2>2
<1>5. Freed(s) = 0
  BY DEF Freed
<1>6. NextLo(l) = r[1]
  BY <1>1 DEF NextLo
<1>7. StackArea(s) = Cells(r) /\ StackOpen(s) = Cells(r)
  BY <1>1, <1>3, <1>4, <1>5, <1>6 DEF StackArea, StackOpen, LevelsArea, LevelsOpen, Cells
<1>8. NestOK(S, r[1], r[2], r[3])
  BY <1>1, <1>2, <1>4 DEF NestOK
<1>9. OrderOK(s)
  <2>1. Len(s.stack.ss) \in Nat /\ Len(s.stack.ms) \in Nat
    BY WholeFacts
  <2> QED BY <2>1 DEF OrderOK
<1> QED BY <1>3, <1>7, <1>8, <1>9

\* A stack of a step, and its counter, take new values.
WithStack(s, k, a, T) == [s EXCEPT !.cnt = k, !.stack[a] = T]
GotStack(z, s, k, a, T) ==
  /\ z \in StepType /\ z.parent = s.parent /\ z.cnt = k /\ z.bkt = s.bkt /\ z.front = s.front
  /\ a = "ss" => z.stack.ss = T /\ z.stack.ms = s.stack.ms
  /\ a = "ms" => z.stack.ss = s.stack.ss /\ z.stack.ms = T

\* Assigning one stack of a step leaves the other fields alone.
LEMMA StackSet ==
  ASSUME NEW s \in StepType, NEW k \in Nat, NEW a \in {"ss", "ms"}, NEW T \in Seq(LevelType)
  PROVE  GotStack(WithStack(s, k, a, T), s, k, a, T)
<1>1. PICK p \in Seq(LevelType), q \in Seq(LevelType) : s.stack = [ss |-> p, ms |-> q]
  BY DEF StepType
<1> DEFINE w == [s.stack EXCEPT ![a] = T]
<1>2. w \in [ss : Seq(LevelType), ms : Seq(LevelType)]
  BY <1>1
<1>3. /\ a = "ss" => w.ss = T /\ w.ms = s.stack.ms
      /\ a = "ms" => w.ss = s.stack.ss /\ w.ms = T
  BY <1>1
<1>4. PICK z : z = WithStack(s, k, a, T)
  OBVIOUS
<1>5. z = [s EXCEPT !.cnt = k, !.stack = w]
  BY <1>4 DEF StepType, WithStack
<1> HIDE DEF w
<1>6. /\ z \in StepType /\ z.parent = s.parent /\ z.cnt = k /\ z.bkt = s.bkt
      /\ z.front = s.front /\ z.stack = w
  BY <1>2, <1>5 DEF StepType
<1>7. GotStack(z, s, k, a, T)
  BY <1>3, <1>6 DEF GotStack
<1> QED BY <1>4, <1>7

\* A small job that goes on splits its range and enters a loop.
SmallInto(t, r, a) ==
  /\ \E l \in Splits(r) : step' = [step EXCEPT ![r].cnt = @ + 1, ![r].stack[a] = <<l>>]
  /\ At(t, a, r) /\ UNCHANGED <<fin, lcp>>

\* It does so when its range is not small enough for insertion sort.
LEMMA SmallSplits ==
  ASSUME NEW t, RunSmall(t), NEW r, thr[t].s = r, ~(Size(r) < InsThreshold),
         NEW a, a = (IF SortsBySample(r) THEN "ss" ELSE "ms")
  PROVE  SmallInto(t, r, a)
BY Zenon DEF RunSmall, SmallInto

\* RunSmall: the handle, and all the strings sorted or the first level.
LEMMA RunSmallKeeps ==
  ASSUME IInv, NEW t \in Thread, RunSmall(t), inst' = inst
  PROVE  IInv' /\ (LInv => LInv')
<1>1. PICK r \in DOMAIN step : r = thr[t].s
  BY DEF RunSmall, Is
<1>2. /\ thr[t].at = "small" /\ StateOK /\ inst \in Instances /\ r \in StepId
      /\ UNCHANGED <<jobs, todo>> /\ thr[t].at \in Opening /\ thr[t].at \notin DOMAIN Then
  BY DEF RunSmall, Is, IInv, StateOK, Opening, Then
<1>3. PICK s \in StepType : s = step[r]
  BY <1>2 DEF StateOK
<1>4. Stage(r, "small") /\ s.cnt = 0 /\ t \in Openers(r) /\ Kids(r) = {}
  BY <1>1, <1>2, <1>3, OpenerFacts
<1>5. NoStack(s) /\ s.bkt = <<>>
  BY <1>3, <1>4 DEF Stage
<1>6. Owed(r) = Cells(r) /\ Area(r) = Cells(r)
  BY <1>3, <1>4 DEF Owed, Area
<1>7. todo' = [todo EXCEPT ![t] = {}]
  <2>1. todo[t] = {} /\ todo \in [Thread -> SUBSET StepId]
    BY <1>2 DEF IInv, TodoOK, StateOK
  <2> QED BY <2>1, <1>2
<1>10. RimsOf(s) = {}
  <2>1. Rims(s.bkt) = {} /\ Rims(Whole(s)) = {}
    BY <1>2, <1>5, NoStackFacts, RimsFew
  <2> QED BY <2>1 DEF RimsOf
<1>11. {} \in SUBSET StepId
  OBVIOUS
<1>8. CASE Size(r) < InsThreshold
  <2> DEFINE z == [s EXCEPT !.cnt = s.cnt + 1]
  <2>1. /\ step' = [step EXCEPT ![r] = z] /\ Write(Cells(r), Inner(r)) /\ At(t, "notify", r)
    BY <1>1, <1>3, <1>8 DEF RunSmall
  <2>2. /\ z \in StepType /\ z.parent = s.parent /\ z.cnt = s.cnt + 1
        /\ z.stack = s.stack /\ z.front = s.front /\ z.bkt = s.bkt
    <3>1. s.cnt + 1 \in Nat
      BY <1>4
    <3> QED BY <3>1 DEF StepType
  <2> HIDE DEF z
  <2>3. NoStack(z)
    BY <1>5, <2>2 DEF NoStack
  <2>4. /\ fin' = [i \in Position |-> IF i \in Cells(r) THEN fin[i] + 1 ELSE fin[i]]
        /\ lcp' \in [Position -> Nat]
    BY <1>2, <2>1, WriteFacts
  <2>5. WorkLeft(r, z, {}, Cells(r))
    BY <1>2, <1>6, <2>2, <2>3, NoStackFacts DEF WorkLeft
  <2>6. Moves(t, "notify", r) /\ thr' \in [Thread -> [at : Ats, s : StepId \cup {NoStep}]]
    BY <1>2, <2>1, MovesFacts DEF StateOK, Ats
  <2>7. "notify" \in Holding /\ "notify" \notin Handling /\ "notify" \notin DOMAIN Then
    BY DEF Holding, Handling, InSample, InMkqs, Then
  <2>8. Len(Whole(z)) = Freed(z)
    BY <1>2, <2>2, <2>3, NoStackFacts
  <2>9. IInv'
    BY <1>1, <1>2, <1>3, <1>7, <2>1, <2>2, <2>4, <2>5, <2>6, <2>7, <2>8, StepWorked
  <2>10. ASSUME LInv PROVE LInv'
    <3>1. Len(Whole(z)) = 0 /\ z.bkt = <<>>
      BY <1>2, <1>5, <2>2, <2>3, NoStackFacts
    <3>2. RimsOf(z) = {}
      BY <3>1, RimsStack, RimsFew
    <3>3. LevelsAt(r, z)
      BY <3>1 DEF LevelsAt, EndsOK
    <3>4. IsRange(r) /\ KidAt(r, r, {})
      BY <1>2, InnerFacts DEF KidAt
    <3>5. PICK E : E = {r}
      OBVIOUS
    <3>6. \A e \in E : IsRange(e)
      BY <3>4, <3>5
    <3>7. \A c \in {} \cup E : KidAt(c, r, RimsOf(z))
      BY <3>2, <3>4, <3>5
    <3>8. Cells(r) = UNION {Cells(e) : e \in E}
      BY <3>5
    <3>9. RimLeft(r, step[r], z, {}, InnerOf(E))
      BY <1>3, <1>4, <1>10, <1>11, <2>2, <2>5, <2>10, <3>2, <3>3, <3>6, <3>7, <3>8, RimsHanded
    <3>10. WroteIn(E)
      BY <1>2, <2>1, <3>5, WroteFacts
    <3> QED BY <1>1, <1>2, <1>3, <1>7, <1>11, <2>1, <2>2, <2>6, <2>7, <2>10, <3>9, <3>10, LcpStep DEF WroteIn
  <2> QED BY <2>9, <2>10
<1>9. CASE ~(Size(r) < InsThreshold)
  <2> DEFINE a == IF SortsBySample(r) THEN "ss" ELSE "ms"
  <2>0. SmallInto(t, r, a)
    <3> HIDE DEF a
    <3>1. a = (IF SortsBySample(r) THEN "ss" ELSE "ms")
      BY DEF a
    <3> QED BY <1>1, <1>9, <3>1, SmallSplits
  <2>1. PICK l \in Splits(r) : step' = [step EXCEPT ![r].cnt = @ + 1, ![r].stack[a] = <<l>>]
    BY <2>0, Zenon DEF SmallInto
  <2>2. At(t, a, r) /\ UNCHANGED <<fin, lcp>>
    BY <2>0, Zenon DEF SmallInto
  <2> DEFINE z == [s EXCEPT !.cnt = s.cnt + 1, !.stack[a] = <<l>>]
  <2>3. step' = [step EXCEPT ![r] = z]
    BY <1>3, <2>1
  <2>4. <<l>> \in Seq(LevelType)
    BY <1>2, SplitFacts
  <2>5. s.stack.ss = <<>> /\ s.stack.ms = <<>> /\ s.front.ss = 0 /\ s.front.ms = 0
    BY <1>5 DEF NoStack
  <2>6. /\ z \in StepType /\ z.parent = s.parent /\ z.cnt = s.cnt + 1 /\ z.bkt = s.bkt
        /\ z.front = s.front
        /\ SortsBySample(r) => z.stack.ss = <<l>> /\ z.stack.ms = <<>>
        /\ ~SortsBySample(r) => z.stack.ss = <<>> /\ z.stack.ms = <<l>>
    <3>1. s.cnt + 1 \in Nat /\ a \in {"ss", "ms"}
      BY <1>4
    <3>2. (SortsBySample(r) => a = "ss") /\ (~SortsBySample(r) => a = "ms")
      OBVIOUS
    <3>3. PICK k \in Nat, T \in Seq(LevelType) : k = s.cnt + 1 /\ T = <<l>>
      BY <3>1, <2>4
    <3>4. z = WithStack(s, k, a, T)
      BY <3>3 DEF WithStack
    <3> HIDE DEF a, z
    <3>5. GotStack(z, s, k, a, T)
      BY <3>1, <3>3, <3>4, StackSet
    <3> QED BY <3>2, <3>3, <3>5, <2>5 DEF GotStack
  <2>7. /\ a \in Ats /\ a \in Holding /\ a \in Handling /\ a \notin DOMAIN Then
        /\ a \in InSample => SortsBySample(r)
        /\ a \in InMkqs => ~SortsBySample(r)
        /\ a # "split"
    BY DEF Ats, Holding, Handling, InSample, InMkqs, Then
  <2> HIDE DEF z, a
  <2>8. /\ StackArea(z) = Cells(r) /\ StackOpen(z) = Cells(r)
        /\ OrderOK(z) /\ NestOK(Whole(z), r[1], r[2], r[3])
    BY <1>2, <2>5, <2>6, FirstLevel
  <2>9. WorkLeft(r, z, {}, {})
    BY <1>6, <2>8 DEF WorkLeft
  <2>10. HandleOK(a, r, z)
    <3>1. CASE SortsBySample(r)
      <4>1. z.front.ms = 0 /\ Len(z.stack.ms) = 0
        BY <3>1, <2>5, <2>6
      <4> QED BY <3>1, <4>1, <2>6, <2>7, <1>5 DEF HandleOK
    <3>2. CASE ~SortsBySample(r)
      BY <3>2, <2>6, <2>7, <1>5 DEF HandleOK
    <3> QED BY <3>1, <3>2
  <2>11. Moves(t, a, r) /\ thr' \in [Thread -> [at : Ats, s : StepId \cup {NoStep}]]
    BY <1>2, <2>2, <2>7, MovesFacts DEF StateOK
  <2>12. /\ fin' = [i \in Position |-> IF i \in {} THEN fin[i] + 1 ELSE fin[i]]
         /\ lcp' \in [Position -> Nat]
    BY <1>2, <2>2 DEF StateOK
  <2>13. IInv'
    BY <1>1, <1>2, <1>3, <1>7, <2>3, <2>6, <2>7, <2>9, <2>10, <2>11, <2>12, StepWorked
  <2>14. ASSUME LInv PROVE LInv'
    <3>1. Len(Whole(z)) = 1 /\ Whole(z)[1] = l
      <4>1. /\ Len(Whole(z)) = Len(z.stack.ss) + Len(z.stack.ms)
            /\ \A i \in 1 .. Len(z.stack.ss) : Whole(z)[i] = z.stack.ss[i]
            /\ \A i \in 1 .. Len(z.stack.ms) : Whole(z)[Len(z.stack.ss) + i] = z.stack.ms[i]
        BY <2>6, WholeFacts
      <4>2. Len(<<l>>) = 1 /\ <<l>>[1] = l /\ Len(<<>>) = 0 /\ 1 \in 1 .. 1
        OBVIOUS
      <4>3. CASE SortsBySample(r)
        <5>1. Len(z.stack.ss) = 1 /\ Len(z.stack.ms) = 0 /\ z.stack.ss[1] = l
          BY <4>2, <4>3, <2>6
        <5>2. 1 + 0 = 1
          OBVIOUS
        <5> QED BY <4>1, <5>1, <5>2, <4>2
      <4>4. CASE ~SortsBySample(r)
        <5>1. Len(z.stack.ss) = 0 /\ Len(z.stack.ms) = 1 /\ z.stack.ms[1] = l
          BY <4>2, <4>4, <2>6
        <5>2. Len(z.stack.ss) + 1 = 1
          BY <5>1
        <5> QED BY <4>1, <5>1, <5>2, <4>2
      <4> QED BY <4>3, <4>4
    <3>2. RimsOf(z) = Borders(l)
      BY <1>5, <2>6, <3>1, RimsStack, RimsFew
    <3>3. l \in LevelType /\ LevelOK(l) /\ l.b[1] = r[1] /\ l.b[4] = r[2]
      BY <1>2, SplitFacts
    <3>4. LevelsAt(r, z)
      <4>1. \A n \in 1 .. Len(Whole(z)) : Whole(z)[n] = l
        BY <3>1
      <4>2. EndsOK(Whole(z), r)
        BY <4>1, <3>3 DEF EndsOK
      <4> QED BY <4>2, <1>5, <2>6 DEF LevelsAt
    <3>5. RimsOf(z) \subseteq Owed(r) \cap Inner(r)
      <4>1. NestOK(Whole(z), r[1], r[2], r[3])
        BY <2>8
      <4>2. RimsOf(z) \subseteq Inner(r)
        BY <1>2, <2>6, <3>4, <4>1, RimsOfInside
      <4> QED BY <4>2, <1>2, <1>6, InnerFacts
    <3>6. PICK E : E = {}
      OBVIOUS
    <3>7. {} = UNION {Cells(e) : e \in E} /\ \A e \in E : IsRange(e)
      BY <3>6
    <3>8. \A c \in {} \cup E : KidAt(c, r, RimsOf(z))
      BY <3>6
    <3>9. RimLeft(r, step[r], z, {}, InnerOf(E))
      BY <1>3, <1>4, <1>10, <1>11, <2>6, <2>9, <2>14, <3>4, <3>5, <3>7, <3>8, RimsHanded
    <3>10. WroteIn(E)
      BY <1>2, <2>2, <3>6, WroteFacts
    <3> QED BY <1>1, <1>2, <1>3, <1>7, <1>11, <2>3, <2>6, <2>7, <2>11, <2>14, <3>9, <3>10, LcpStep DEF WroteIn
  <2> QED BY <2>13, <2>14
<1> QED BY <1>8, <1>9

\* The level on top is finished and popped: nothing of it was open.
LEMMA LevelsPopped ==
  ASSUME inst \in Instances, NEW S \in Seq(LevelType), NEW lo \in Int, NEW hi \in Int, NEW d \in Int,
         NestOK(S, lo, hi, d), NEW f \in Nat, Len(S) > f, S[Len(S)].idx = 3,
         NEW T \in Seq(LevelType), Len(T) = Len(S) - 1, \A i \in 1 .. Len(T) : T[i] = S[i]
  PROVE  LevelsOpen(T, f) = LevelsOpen(S, f) /\ LevelsArea(T, f) \subseteq LevelsArea(S, f)
<1> DEFINE n == Len(S)
<1>1. n \in Nat /\ n \in 1 .. n /\ f + 1 \in 1 .. n /\ n > f
  OBVIOUS
<1>2. S[n] \in LevelType /\ LevelOK(S[n])
  BY <1>1, NestFacts
<1>3. NextLo(S[n]) = S[n].b[4] /\ S[n].b[4] \in Int
  <2>1. S[n].b[4] \in Bound
    BY <1>2 DEF LevelType
  <2>2. N \in Nat
    BY SizesFacts
  <2> QED BY <1>2, <2>1, <2>2, NextFacts DEF Bound
<1>4. CASE n - 1 > f
  <2>1. n - 1 \in 1 .. Len(T) /\ f + 1 \in 1 .. Len(T) /\ Len(T) = n - 1 /\ n > 1
    BY <1>1, <1>4
  <2>2. T[n - 1] = S[n - 1] /\ T[f + 1] = S[f + 1]
    BY <2>1
  <2>3. S[n].b[4] = NextLo(S[n - 1])
    BY <1>1, <2>1 DEF NestOK
  <2> HIDE DEF n
  <2>4. LevelsOpen(T, f) = NextLo(T[n - 1]) .. T[f + 1].b[4] - 1
    BY <1>4, <2>1 DEF LevelsOpen
  <2>5. LevelsOpen(S, f) = NextLo(S[n]) .. S[f + 1].b[4] - 1
    BY <1>1 DEF LevelsOpen, n
  <2>6. LevelsArea(T, f) = LevelsArea(S, f)
    BY <1>1, <1>4, <2>1, <2>2 DEF LevelsArea, n
  <2> QED BY <1>3, <2>2, <2>3, <2>4, <2>5, <2>6
<1>5. CASE ~(n - 1 > f)
  <2>1. f + 1 = n
    BY <1>1, <1>5
  <2>2. LevelsOpen(S, f) = S[n].b[4] .. S[n].b[4] - 1
    BY <1>1, <1>3, <2>1 DEF LevelsOpen
  <2>3. LevelsOpen(S, f) = {}
    BY <1>3, <2>2
  <2>4. LevelsOpen(T, f) = {} /\ LevelsArea(T, f) = {}
    BY <1>5 DEF LevelsOpen, LevelsArea
  <2> QED BY <2>3, <2>4
<1> QED BY <1>4, <1>5

\* The level on top of S is moved on by the positions D.
MovedOn(T, S, f, D) ==
  /\ Len(S) > f /\ Len(T) = Len(S) /\ \A i \in 1 .. Len(S) - 1 : T[i] = S[i]
  /\ T[Len(S)].b = S[Len(S)].b /\ NextLo(T[Len(S)]) \in Bound
  /\ NextLo(S[Len(S)]) <= NextLo(T[Len(S)]) /\ NextLo(T[Len(S)]) <= S[Len(S)].b[4]
  /\ D = NextLo(S[Len(S)]) .. NextLo(T[Len(S)]) - 1
TakenFrom(T, S, f, D) ==
  /\ LevelsArea(T, f) = LevelsArea(S, f)
  /\ D \subseteq LevelsOpen(S, f) /\ LevelsOpen(T, f) = LevelsOpen(S, f) \ D

\* The next bucket of the level on top is started: it is not open any more.
LEMMA LevelsMoved ==
  ASSUME inst \in Instances, NEW S \in Seq(LevelType), NEW lo \in Int, NEW hi \in Int, NEW d \in Int,
         NestOK(S, lo, hi, d), NEW f \in Nat, NEW T \in Seq(LevelType), NEW D, MovedOn(T, S, f, D)
  PROVE  TakenFrom(T, S, f, D)
<1> USE DEF MovedOn, TakenFrom
<1> DEFINE n == Len(S)
<1>1. n \in Nat /\ n \in 1 .. n /\ f + 1 \in 1 .. n /\ n > f
  OBVIOUS
<1>2. T[f + 1].b = S[f + 1].b
  <2>1. CASE f + 1 = n
    BY <2>1
  <2>2. CASE f + 1 # n
    BY <1>1, <2>2
  <2> QED BY <2>1, <2>2
<1>3. S[n] \in LevelType /\ S[f + 1] \in LevelType /\ NextLo(S[n]) \in Bound /\ S[n].b[4] <= S[f + 1].b[4]
  BY <1>1, NestFacts
<1>4. PICK x \in Int, y \in Int, u \in Int, v \in Int :
        /\ x = NextLo(S[n]) /\ y = NextLo(T[n]) /\ u = S[n].b[4] /\ v = S[f + 1].b[4]
        /\ x <= y /\ y <= u /\ u <= v
  <2>1. S[n].b[4] \in Bound /\ S[f + 1].b[4] \in Bound
    BY <1>3 DEF LevelType
  <2>2. \A w \in Bound : w \in Int
    BY SizesFacts DEF Bound
  <2> QED BY <2>1, <2>2, <1>3
<1>5. LevelsOpen(S, f) = x .. v - 1 /\ LevelsOpen(T, f) = y .. v - 1 /\ D = x .. y - 1
  BY <1>1, <1>2, <1>4 DEF LevelsOpen
<1>6. LevelsArea(T, f) = LevelsArea(S, f)
  BY <1>2 DEF LevelsArea
<1> HIDE DEF MovedOn, TakenFrom
<1>7. x .. y - 1 \subseteq x .. v - 1 /\ y .. v - 1 = (x .. v - 1) \ (x .. y - 1)
  <2>1. x <= y /\ y <= u /\ u <= v
    BY <1>4, Zenon
  <2>2. y <= v
    BY <2>1
  <2> QED BY <2>1, <2>2, SpanLess, Zenon
<1> QED BY <1>5, <1>6, <1>7, Zenon DEF TakenFrom

\* A level for the positions D is put on top of S.
PutOn(T, S, f, x, D) ==
  /\ Len(S) > f /\ Len(T) = Len(S) + 1 /\ \A i \in 1 .. Len(S) : T[i] = S[i]
  /\ NextLo(T[Len(S) + 1]) = x /\ x <= NextLo(S[Len(S)])
  /\ D = x .. NextLo(S[Len(S)]) - 1
AddedTo(T, S, f, D) ==
  /\ LevelsArea(T, f) = LevelsArea(S, f)
  /\ LevelsOpen(T, f) = LevelsOpen(S, f) \cup D

\* A level is pushed for the bucket just started: it is open again.
LEMMA LevelsPushed ==
  ASSUME inst \in Instances, NEW S \in Seq(LevelType), NEW lo \in Int, NEW hi \in Int, NEW d \in Int,
         NestOK(S, lo, hi, d), NEW f \in Nat, NEW T \in Seq(LevelType),
         NEW x \in Int, NEW D, PutOn(T, S, f, x, D)
  PROVE  AddedTo(T, S, f, D)
<1> USE DEF PutOn, AddedTo
<1> DEFINE n == Len(S)
<1>1. n \in Nat /\ n \in 1 .. n /\ f + 1 \in 1 .. n /\ n > f /\ Len(T) = n + 1
  OBVIOUS
<1>2. T[f + 1] = S[f + 1]
  BY <1>1
<1>3. /\ S[n] \in LevelType /\ S[f + 1] \in LevelType /\ NextLo(S[n]) \in Bound
      /\ NextLo(S[n]) <= S[n].b[4] /\ S[n].b[4] <= S[f + 1].b[4]
  BY <1>1, NestFacts
<1>4. PICK y \in Int, u \in Int, v \in Int :
        /\ y = NextLo(S[n]) /\ u = S[n].b[4] /\ v = S[f + 1].b[4]
        /\ x <= y /\ y <= u /\ u <= v
  <2>1. S[n].b[4] \in Bound /\ S[f + 1].b[4] \in Bound
    BY <1>3 DEF LevelType
  <2>2. \A w \in Bound : w \in Int
    BY SizesFacts DEF Bound
  <2> QED BY <2>1, <2>2, <1>3
<1>5. LevelsOpen(S, f) = y .. v - 1 /\ LevelsOpen(T, f) = x .. v - 1 /\ D = x .. y - 1
  BY <1>1, <1>2, <1>4 DEF LevelsOpen
<1>6. LevelsArea(T, f) = LevelsArea(S, f)
  BY <1>1, <1>2 DEF LevelsArea
<1> HIDE DEF PutOn, AddedTo
<1>7. x .. v - 1 = (y .. v - 1) \cup (x .. y - 1)
  <2>1. x <= y /\ y <= u /\ u <= v
    BY <1>4, Zenon
  <2>2. y <= v
    BY <2>1
  <2> QED BY <2>1, <2>2, SpanMore, Zenon
<1> QED BY <1>5, <1>6, <1>7, Zenon DEF AddedTo

\* The stack a thread works on is the top of the whole.
OnTop(s, a) ==
  /\ Len(Whole(s)) > Freed(s)
  /\ Whole(s)[Len(Whole(s))] = s.stack[a][Len(s.stack[a])]
  /\ a = "ss" => s.stack.ms = <<>> /\ s.front.ms = 0
  /\ Len(s.stack[a]) \in Nat /\ s.stack[a] \in Seq(LevelType) /\ Len(s.stack[a]) > 0

\* The top of the stack a loop works on is the top of both stacks.
LEMMA TopFacts ==
  ASSUME NEW s \in StepType, OrderOK(s), NEW r, NEW a \in {"ss", "ms"}, HandleOK(a, r, s),
         Len(s.stack[a]) > s.front[a]
  PROVE  OnTop(s, a)
<1>1. PICK p \in Seq(LevelType), q \in Seq(LevelType), f \in Nat, g \in Nat :
        /\ p = s.stack.ss /\ q = s.stack.ms /\ f = s.front.ss /\ g = s.front.ms
  BY DEF StepType
<1>2. /\ Whole(s) = p \o q /\ Freed(s) = f + g /\ f <= Len(p) /\ g <= Len(q)
      /\ g > 0 => f = Len(p)
  BY <1>1 DEF Whole, Freed, OrderOK
<1>3. CASE a = "ss"
  <2>1. s.stack[a] = p /\ Len(p) > f /\ g = Len(q)
    BY <1>1, <1>3 DEF HandleOK, InSample
  <2>2. g = 0 /\ Len(q) = 0
    BY <1>2, <2>1
  <2>3. q = <<>>
    BY <2>2
  <2>4. Len(p \o q) = Len(p) /\ (p \o q)[Len(p)] = p[Len(p)] /\ Len(p) > 0
    BY <2>1, <2>2
  <2>5. Len(p) > f + g
    BY <2>1, <2>2
  <2> QED BY <1>1, <1>2, <1>3, <2>1, <2>2, <2>3, <2>4, <2>5 DEF OnTop
<1>4. CASE a = "ms"
  <2>1. s.stack[a] = q /\ Len(q) > g
    BY <1>1, <1>4
  <2>2. Len(p \o q) = Len(p) + Len(q) /\ (p \o q)[Len(p) + Len(q)] = q[Len(q)] /\ Len(q) > 0
    BY <2>1
  <2>3. Len(p) + Len(q) > f + g
    BY <1>2, <2>1
  <2>4. Len(Whole(s)) = Len(p) + Len(q) /\ Whole(s)[Len(Whole(s))] = q[Len(q)]
    BY <1>2, <2>2
  <2>5. a # "ss" /\ Len(q) \in Nat
    BY <1>4
  <2> QED BY <1>2, <2>1, <2>2, <2>3, <2>4, <2>5 DEF OnTop
<1> QED BY <1>3, <1>4

\* Replacing the stack on top replaces the top of the whole.
ReplacedTop(z, s, a, T, n) ==
  /\ n \in Nat /\ n <= Len(Whole(s)) /\ Freed(z) = Freed(s)
  /\ \A i \in 1 .. n : Whole(s)[Len(Whole(s)) - n + i] = s.stack[a][i]
  /\ Len(Whole(z)) = Len(Whole(s)) - n + Len(T)
  /\ \A i \in 1 .. Len(Whole(s)) - n : Whole(z)[i] = Whole(s)[i]
  /\ \A i \in 1 .. Len(T) : Whole(z)[Len(Whole(s)) - n + i] = T[i]

\* Replacing that stack replaces the upper part of both.
LEMMA TopReplaced ==
  ASSUME NEW s \in StepType, NEW a \in {"ss", "ms"}, OnTop(s, a), NEW T \in Seq(LevelType),
         NEW k, NEW z, GotStack(z, s, k, a, T), NEW n, n = Len(s.stack[a])
  PROVE  ReplacedTop(z, s, a, T, n)
<1>1. PICK p \in Seq(LevelType), q \in Seq(LevelType) : p = s.stack.ss /\ q = s.stack.ms
  BY DEF StepType
<1>2. Whole(s) = p \o q /\ Freed(z) = Freed(s)
  BY <1>1 DEF Whole, Freed, GotStack
<1>3. CASE a = "ss"
  <2>1. q = <<>> /\ Whole(z) = T \o q /\ s.stack[a] = p /\ n = Len(p)
    BY <1>1, <1>3 DEF OnTop, GotStack, Whole
  <2>2. T \o q = T /\ p \o q = p
    BY <2>1
  <2>3. Len(p) \in Nat /\ Len(T) \in Nat
    OBVIOUS
  <2> QED BY <1>2, <2>1, <2>2, <2>3 DEF ReplacedTop
<1>4. CASE a = "ms"
  <2>1. Whole(z) = p \o T /\ s.stack[a] = q /\ n = Len(q)
    BY <1>1, <1>4 DEF OnTop, GotStack, Whole
  <2>2. /\ Len(p) \in Nat /\ Len(T) \in Nat /\ Len(q) \in Nat
        /\ Len(p \o q) = Len(p) + Len(q) /\ Len(p \o T) = Len(p) + Len(T)
        /\ Len(p \o q) - n = Len(p)
    BY <2>1
  <2>3. /\ \A i \in 1 .. Len(p) : (p \o T)[i] = (p \o q)[i]
        /\ \A i \in 1 .. Len(T) : (p \o T)[Len(p) + i] = T[i]
        /\ \A i \in 1 .. Len(q) : (p \o q)[Len(p) + i] = q[i]
    BY <2>2
  <2> QED BY <1>2, <2>1, <2>2, <2>3 DEF ReplacedTop
<1> QED BY <1>3, <1>4

\* A thread at its stacks has no child to create.
AtStacks == {"ss", "ms", "sscheck", "mscheck"}

\* A thread in one of the loops has a handle, and its step owes what is open on
\* its stacks, nothing more.
LEMMA LoopFacts ==
  ASSUME IInv, NEW t \in Thread, thr[t].at \in AtStacks,
         NEW r \in DOMAIN step, r = thr[t].s, NEW s \in StepType, s = step[r]
  PROVE  /\ thr[t].at \in Handling /\ HandleOK(thr[t].at, r, s) /\ s.bkt = <<>>
         /\ OrderOK(s) /\ NestOK(Whole(s), r[1], r[2], r[3]) /\ s.cnt > 0
         /\ Owed(r) = StackOpen(s) /\ Area(r) = StackArea(s)
         /\ todo[t] = {} /\ todo = [todo EXCEPT ![t] = {}]
<1>1. /\ thr[t].at \in Handling /\ thr[t].at \in Holding /\ thr[t].at \notin DOMAIN Then
      /\ thr[t].at \in InSample \cup InMkqs
  BY DEF AtStacks, Holding, Handling, InSample, InMkqs, Then
<1>2. HandleOK(thr[t].at, r, s)
  BY <1>1 DEF IInv, HandlesOK
<1>3. OrderOK(s) /\ NestOK(Whole(s), r[1], r[2], r[3])
  BY DEF IInv, StacksOK, StackOK
<1>4. step[r].cnt >= 1
  BY <1>1, HolderFacts
<1>5. s.cnt > 0 /\ s.cnt # 0
  <2>1. s.cnt \in Nat
    BY DEF StepType
  <2> QED BY <2>1, <1>4
<1>6. todo[t] = {} /\ todo \in [Thread -> SUBSET StepId]
  BY <1>1 DEF IInv, TodoOK, StateOK
<1>7. Kids(r) = {}
  <2>1. t \in Handles(r)
    BY <1>1, HandlesDef
  <2> QED BY <2>1, <1>6, KidsFacts DEF IInv
<1>8. Owed(r) = StackOpen(s) /\ Area(r) = StackArea(s)
  BY <1>5, <1>7 DEF Owed, Area
<1>9. todo = [todo EXCEPT ![t] = {}]
  BY <1>6
<1>10. s.bkt = <<>>
  BY <1>1, <1>2 DEF HandleOK
<1> QED BY <1>1, <1>2, <1>3, <1>5, <1>6, <1>8, <1>9, <1>10

\* It leaves the stacks of z and has finished D of what was open.
Wrote(D) == fin' = [i \in Position |-> IF i \in D THEN fin[i] + 1 ELSE fin[i]]
StacksLeft(r, s, z, D) ==
  /\ z.parent = s.parent /\ z.cnt = s.cnt
  /\ OrderOK(z) /\ NestOK(Whole(z), r[1], r[2], r[3])
  /\ StackArea(z) \subseteq StackArea(s)
  /\ D \subseteq StackOpen(s) /\ StackOpen(z) = StackOpen(s) \ D

\* A turn of a loop that leaves the rest of the open positions keeps the invariant.
LEMMA LoopStep ==
  ASSUME IInv, inst' = inst, UNCHANGED <<jobs, todo>>, NEW t \in Thread, thr[t].at \in AtStacks,
         NEW r \in DOMAIN step, r = thr[t].s, NEW s \in StepType, s = step[r],
         NEW z \in StepType, step' = [step EXCEPT ![r] = z],
         NEW b \in AtStacks, At(t, b, r), HandleOK(b, r, z),
         NEW D, StacksLeft(r, s, z, D), lcp' \in [Position -> Nat], Wrote(D)
  PROVE  IInv'
<1>1. StateOK /\ inst \in Instances /\ r \in StepId
  BY DEF IInv, StateOK
<1>2. b \in Ats /\ b \in Holding /\ b \in Handling /\ b \notin DOMAIN Then
  BY DEF AtStacks, Ats, Holding, Handling, InSample, InMkqs, Then
<1>3. Moves(t, b, r) /\ thr' \in [Thread -> [at : Ats, s : StepId \cup {NoStep}]]
  BY <1>1, <1>2, MovesFacts DEF StateOK
<1>4. /\ thr[t].at \in Handling /\ Owed(r) = StackOpen(s) /\ Area(r) = StackArea(s)
      /\ todo' = [todo EXCEPT ![t] = {}]
  BY LoopFacts
<1>5. WorkLeft(r, z, {}, D) /\ z.parent = step[r].parent /\ z.cnt = step[r].cnt
  BY <1>4 DEF WorkLeft, StacksLeft
<1>6. {} # {} <=> b \in DOMAIN Then
  BY <1>2
<1> QED BY <1>2, <1>3, <1>4, <1>5, <1>6, StepWorked DEF Wrote

\* Of the stacks s, the ranges E were finished; new borders lie in what was open.
RimsLeft(r, s, z, E) ==
  /\ z.bkt = <<>> /\ EndsOK(Whole(z), r)
  /\ Rims(Whole(s)) \subseteq Rims(Whole(z))
  /\ Rims(Whole(z)) \subseteq Rims(Whole(s)) \cup (StackOpen(s) \cap Inner(r))
  /\ \A e \in E : IsRange(e) /\ KidAt(e, r, Rims(Whole(z)))

\* One turn of the loops of a small sort writes LCPs only inside the bucket it
\* finishes.
LEMMA LoopLcp ==
  ASSUME IInv, LInv, inst' = inst, UNCHANGED <<jobs, todo>>, NEW t \in Thread, thr[t].at \in AtStacks,
         NEW r \in DOMAIN step, r = thr[t].s, NEW s \in StepType, s = step[r],
         NEW z \in StepType, step' = [step EXCEPT ![r] = z],
         NEW b \in AtStacks, At(t, b, r), NEW D, StacksLeft(r, s, z, D),
         NEW E, D = UNION {Cells(e) : e \in E}, RimsLeft(r, s, z, E), WroteIn(E)
  PROVE  LInv'
<1>1. StateOK /\ inst \in Instances /\ r \in StepId
  BY DEF IInv, StateOK
<1>2. b \in Ats /\ b \in Holding
  BY DEF AtStacks, Ats, Holding, Handling, InSample, InMkqs
<1>3. Moves(t, b, r)
  BY <1>1, <1>2, MovesFacts DEF StateOK
<1>4. /\ thr[t].at \in Handling /\ Owed(r) = StackOpen(s) /\ Area(r) = StackArea(s)
      /\ todo' = [todo EXCEPT ![t] = {}] /\ s.bkt = <<>> /\ todo[t] = {}
  BY LoopFacts
<1>5. WorkLeft(r, z, {}, D) /\ z.parent = step[r].parent /\ z.cnt = step[r].cnt
  BY <1>4 DEF WorkLeft, StacksLeft
<1>6. RimsOf(s) = Rims(Whole(s)) /\ RimsOf(z) = Rims(Whole(z))
  BY <1>4, RimsStack DEF RimsLeft
<1>7. Kids(r) = {}
  <2>1. t \in Handles(r)
    BY <1>4, HandlesDef
  <2> QED BY <2>1, <1>4, KidsFacts DEF IInv
<1>8. RimLeft(r, step[r], z, {}, InnerOf(E))
  <2>1. LevelsAt(r, z)
    BY DEF RimsLeft, LevelsAt
  <2>2. \A e \in E : IsRange(e)
    BY DEF RimsLeft
  <2>3. \A c \in {} \cup E : KidAt(c, r, RimsOf(z))
    BY <1>6 DEF RimsLeft
  <2>4. RimsOf(step[r]) \subseteq RimsOf(z) /\ RimsOf(z) \subseteq RimsOf(step[r]) \cup (Owed(r) \cap Inner(r))
    BY <1>4, <1>6 DEF RimsLeft
  <2> QED BY <2>1, <2>2, <2>3, <2>4, <1>5, <1>7, RimsHanded
<1> QED BY <1>2, <1>3, <1>4, <1>5, <1>8, LcpStep DEF WroteIn

\* The loop may go on after the stack a changed.
LEMMA HandleKept ==
  ASSUME NEW a \in {"ss", "ms"}, NEW r, NEW s, NEW z, NEW k, NEW T, GotStack(z, s, k, a, T),
         HandleOK(a, r, s), s.bkt = <<>>
  PROVE  HandleOK(Check(a), r, z) /\ HandleOK(a, r, z) /\ z.bkt = <<>>
<1>1. z.bkt = <<>> /\ z.front = s.front
  BY DEF GotStack
<1>2. CASE a = "ss"
  BY <1>1, <1>2 DEF HandleOK, Check, InSample, InMkqs, GotStack
<1>3. CASE a = "ms"
  BY <1>1, <1>3 DEF HandleOK, Check, InSample, InMkqs, GotStack
<1> QED BY <1>2, <1>3

\* And the levels given away stay below.
LEMMA OrderKept ==
  ASSUME NEW s \in StepType, NEW a \in {"ss", "ms"}, OrderOK(s), OnTop(s, a),
         NEW T \in Seq(LevelType), Len(T) >= s.front[a], NEW k, NEW z, GotStack(z, s, k, a, T)
  PROVE  OrderOK(z)
<1>1. z.front = s.front
  BY DEF GotStack
<1>2. CASE a = "ss"
  BY <1>1, <1>2 DEF OrderOK, OnTop, GotStack
<1>3. CASE a = "ms"
  BY <1>1, <1>3 DEF OrderOK, OnTop, GotStack
<1> QED BY <1>2, <1>3

\* Without level l on top stack S is T; the f lowest levels were given away.
RimsWithout(S, T, l, f) ==
  /\ Rims(S) = Rims(T) \cup Borders(l) /\ Rims(T) \cap Borders(l) = {}
  /\ LevelsOpen(S, f) \cap Borders(l) = {}
  /\ \A i \in Borders(l) : i \in LevelsArea(S, f) /\ i - 1 \in LevelsArea(S, f)
  /\ \A r : EndsOK(S, r) => EndsOK(T, r)

\* A level that is taken off is finished: its borders are its own, behind
\* them nothing of it is open, and they lie where the thread works.
LEMMA RimsPopped ==
  ASSUME inst \in Instances, NEW S \in Seq(LevelType), NEW lo \in Int, NEW hi \in Int, NEW d \in Int,
         NestOK(S, lo, hi, d), NEW f \in Nat, Len(S) > f, S[Len(S)].idx = 3,
         NEW T \in Seq(LevelType), Len(T) = Len(S) - 1, \A i \in 1 .. Len(T) : T[i] = S[i],
         NEW l, l = S[Len(S)]
  PROVE  RimsWithout(S, T, l, f)
<1>0. \A i \in 1 .. Len(T) : T[i] = S[i]
  OBVIOUS
<1>1. PICK n \in Nat : n = Len(S) /\ n \in 1 .. Len(S) /\ f + 1 \in 1 .. n /\ Len(T) = n - 1
  OBVIOUS
<1>2. l \in LevelType /\ LevelOK(l) /\ l.idx = 3 /\ NextLo(l) = l.b[4]
  BY <1>1, NestFacts, NextFacts
<1>3. PICK a \in Int, b \in Int, x \in Int, y \in Int :
        /\ a = l.b[1] /\ b = l.b[4] /\ x = S[f + 1].b[1] /\ y = S[f + 1].b[4]
        /\ x <= a /\ b <= y
  <2>1. \A z \in Bound : z \in Int
    BY SizesFacts DEF Bound
  <2>2. S[f + 1] \in LevelType
    BY <1>1
  <2>3. l.b[1] \in Bound /\ l.b[4] \in Bound /\ S[f + 1].b[1] \in Bound /\ S[f + 1].b[4] \in Bound
    BY <1>2, <2>2, LevelBounds
  <2>4. S[f + 1].b[1] <= l.b[1] /\ l.b[4] <= S[f + 1].b[4]
    BY <1>1, NestFacts
  <2> QED BY <2>1, <2>3, <2>4
<1>4. \A i \in Borders(l) : i \in Int /\ a < i /\ i < b
  BY <1>2, <1>3, BordersFacts
<1>5. LevelsOpen(S, f) = b .. y - 1 /\ LevelsArea(S, f) = x .. y - 1
  BY <1>2, <1>3 DEF LevelsOpen, LevelsArea
<1>6. LevelsOpen(S, f) \cap Borders(l) = {}
  <2>1. \A i \in Borders(l) : i \notin b .. y - 1
    BY <1>4
  <2> QED BY <2>1, <1>5
<1>7. ASSUME NEW i \in Borders(l) PROVE i \in x .. y - 1 /\ i - 1 \in x .. y - 1
  <2>1. i \in Int /\ a < i /\ i < b
    BY <1>4
  <2>2. x <= a /\ b <= y
    BY <1>3
  <2> QED BY <2>1, <2>2
<1>8. Len(S) = Len(T) + 1 /\ (\A i \in 1 .. Len(T) : S[i] = T[i]) /\ S[Len(T) + 1] = l
  <2>1. Len(T) + 1 = n /\ Len(S) = n /\ l = S[n]
    BY <1>1
  <2>2. \A i \in 1 .. Len(T) : S[i] = T[i]
    BY <1>0
  <2> QED BY <2>1, <2>2
<1>9. Rims(S) = Rims(T) \cup Borders(l) /\ \A r : EndsOK(S, r) => EndsOK(T, r)
  BY <1>8, RimsPushed
<1>10. ASSUME NEW i \in Rims(T) PROVE i \notin Borders(l)
  <2>1. PICK m \in 1 .. Len(T) : i \in Borders(T[m])
    BY RimsFacts
  <2>2. m \in 1 .. Len(S) /\ m < n /\ i \in Borders(S[m])
    BY <1>1, <2>1
  <2>3. i <= S[n].b[1] \/ S[n].b[4] <= i
    BY <1>1, <2>2, NestRims
  <2>4. i <= a \/ b <= i
    BY <1>1, <1>3, <2>3, Zenon
  <2> QED BY <2>4, <1>4
<1> QED BY <1>5, <1>6, <1>7, <1>9, <1>10 DEF RimsWithout

\* PopLevel: the level on top is finished.
LEMMA PopLevelKeeps ==
  ASSUME IInv, NEW t \in Thread, PopLevel(t), inst' = inst
  PROVE  IInv' /\ (LInv => LInv')
<1>1. PICK r \in DOMAIN step : r = thr[t].s
  BY DEF PopLevel, InLoop, Is
<1>2. PICK a \in {"ss", "ms"} : a = thr[t].at
  BY DEF PopLevel, InLoop, Is
<1>3. StateOK /\ inst \in Instances /\ r \in StepId /\ a \in AtStacks
  BY DEF IInv, StateOK, AtStacks
<1>4. PICK s \in StepType : s = step[r]
  BY <1>3 DEF StateOK
<1>5. /\ Len(s.stack[a]) > s.front[a] /\ Last(s.stack[a]).idx = 3
      /\ step' = [step EXCEPT ![r].stack[a] = Front(s.stack[a])]
      /\ At(t, Check(a), r) /\ UNCHANGED <<jobs, todo>>
      /\ Write({}, Borders(Last(s.stack[a])))
  BY <1>1, <1>2, <1>4 DEF PopLevel, Stack, Popped, BktNum
<1>6. /\ HandleOK(a, r, s) /\ s.bkt = <<>> /\ OrderOK(s) /\ NestOK(Whole(s), r[1], r[2], r[3])
  BY <1>1, <1>2, <1>3, <1>4, LoopFacts
<1>7. OnTop(s, a)
  BY <1>5, <1>6, TopFacts
<1>8. PICK Q \in Seq(LevelType), T \in Seq(LevelType) :
        Q = s.stack[a] /\ T = Front(Q) /\ Len(Q) > 0 /\ Len(T) = Len(Q) - 1
        /\ (\A i \in 1 .. Len(T) : T[i] = Q[i]) /\ Last(Q) = Q[Len(Q)]
  <2>1. PICK Q \in Seq(LevelType) : Q = s.stack[a] /\ Len(Q) > 0
    BY <1>7 DEF OnTop
  <2>2. /\ Front(Q) \in Seq(LevelType) /\ Len(Front(Q)) = Len(Q) - 1
        /\ \A i \in 1 .. Len(Q) - 1 : Front(Q)[i] = Q[i]
    BY <2>1 DEF Front
  <2> QED BY <2>1, <2>2 DEF Last
<1>9. s.cnt \in Nat
  BY DEF StepType
<1>10. PICK z : z = WithStack(s, s.cnt, a, T)
  OBVIOUS
<1>11. GotStack(z, s, s.cnt, a, T)
  BY <1>8, <1>9, <1>10, StackSet
<1>12. z \in StepType /\ z.parent = s.parent /\ z.cnt = s.cnt
  BY <1>11 DEF GotStack
<1>13. step' = [step EXCEPT ![r] = z]
  <2>1. [s EXCEPT !.stack[a] = T] = WithStack(s, s.cnt, a, T)
    BY DEF StepType, WithStack
  <2>2. step' = [step EXCEPT ![r] = [s EXCEPT !.stack[a] = T]]
    BY <1>4, <1>5, <1>8
  <2> QED BY <2>1, <2>2, <1>10
<1>14. PICK n \in Nat : n = Len(Q)
  BY <1>8
<1>15. ReplacedTop(z, s, a, T, n)
  BY <1>7, <1>8, <1>11, <1>14, TopReplaced
<1>16. PICK S \in Seq(LevelType), Z \in Seq(LevelType), f \in Nat :
        S = Whole(s) /\ Z = Whole(z) /\ f = Freed(s)
  <2>1. Whole(s) \in Seq(LevelType) /\ s.front.ss \in Nat /\ s.front.ms \in Nat
    BY WholeFacts
  <2>2. Whole(z) \in Seq(LevelType)
    BY <1>12, WholeFacts
  <2>3. Freed(s) \in Nat
    BY <2>1 DEF Freed
  <2> QED BY <2>1, <2>2, <2>3
<1>17. /\ Len(S) > f /\ S[Len(S)].idx = 3 /\ Freed(z) = f
  BY <1>5, <1>7, <1>8, <1>15, <1>16 DEF OnTop, ReplacedTop
<1>18. Len(Z) = Len(S) - 1 /\ \A i \in 1 .. Len(Z) : Z[i] = S[i]
  <2>1. PICK p \in Nat : p = Len(S) - n
    <3>1. n <= Len(S) /\ Len(S) \in Nat
      BY <1>15, <1>16 DEF ReplacedTop
    <3>2. Len(S) - n \in Nat
      BY <3>1
    <3> QED BY <3>2
  <2>2. /\ Len(Z) = p + Len(T) /\ Len(T) = n - 1 /\ n > 0
        /\ \A i \in 1 .. p : Z[i] = S[i]
        /\ \A i \in 1 .. n - 1 : Z[p + i] = T[i]
        /\ \A i \in 1 .. n : S[p + i] = Q[i]
        /\ \A i \in 1 .. n - 1 : T[i] = Q[i]
    BY <2>1, <1>8, <1>14, <1>15, <1>16 DEF ReplacedTop
  <2>3. Len(Z) = p + n - 1 /\ Len(S) = p + n
    BY <2>1, <2>2
  <2>4. ASSUME NEW i \in 1 .. Len(Z) PROVE Z[i] = S[i]
    <3>1. CASE i <= p
      BY <3>1, <2>2
    <3>2. CASE i > p
      <4>1. PICK j \in 1 .. n - 1 : i = p + j
        <5>1. i - p \in 1 .. n - 1 /\ i = p + (i - p)
          BY <3>2, <2>3, <1>14
        <5> QED BY <5>1
      <4>2. j \in 1 .. n
        BY <1>14
      <4> QED BY <4>1, <4>2, <2>2
    <3> QED BY <3>1, <3>2
  <2> QED BY <2>3, <2>4
<1>19. r[1] \in Int /\ r[2] \in Int /\ r[3] \in Int
  BY <1>3, RangeFacts
<1>20. NestOK(Z, r[1], r[2], r[3])
  <2>1. Len(S) > 0
    BY <1>17
  <2> QED BY <2>1, <1>3, <1>6, <1>16, <1>18, <1>19, NestPopped
<1>21. LevelsOpen(Z, f) = LevelsOpen(S, f) /\ LevelsArea(Z, f) \subseteq LevelsArea(S, f)
  BY <1>3, <1>6, <1>16, <1>17, <1>18, <1>19, LevelsPopped
<1>22. OrderOK(z)
  <2>1. s.front[a] \in Nat
    BY DEF StepType
  <2>2. Len(T) >= s.front[a]
    BY <2>1, <1>5, <1>8, <1>14
  <2> QED BY <2>2, <1>6, <1>7, <1>8, <1>11, OrderKept
<1>23. StacksLeft(r, s, z, {})
  BY <1>12, <1>16, <1>17, <1>20, <1>21, <1>22 DEF StacksLeft, StackArea, StackOpen
<1>24. HandleOK(Check(a), r, z) /\ Check(a) \in AtStacks
  <2>1. HandleOK(Check(a), r, z)
    BY <1>6, <1>11, HandleKept
  <2> QED BY <2>1 DEF Check, AtStacks
<1>25. Wrote({}) /\ lcp' \in [Position -> Nat]
  BY <1>3, <1>5, WriteFacts DEF Wrote
<1>26. PICK b \in AtStacks : b = Check(a)
  BY <1>24
<1>27. At(t, b, r) /\ HandleOK(b, r, z) /\ thr[t].at \in AtStacks /\ UNCHANGED <<jobs, todo>>
  BY <1>2, <1>3, <1>5, <1>24, <1>26
<1>28. IInv'
  BY <1>1, <1>4, <1>12, <1>13, <1>23, <1>25, <1>26, <1>27, LoopStep
<1>29. ASSUME LInv PROVE LInv'
  <2>1. PICK l : l = S[Len(S)]
    OBVIOUS
  <2>2. /\ Rims(S) = Rims(Z) \cup Borders(l) /\ Rims(Z) \cap Borders(l) = {}
        /\ LevelsOpen(S, f) \cap Borders(l) = {}
        /\ \A i \in Borders(l) : i \in LevelsArea(S, f) /\ i - 1 \in LevelsArea(S, f)
        /\ EndsOK(S, r) => EndsOK(Z, r)
    <3>1. NestOK(S, r[1], r[2], r[3])
      BY <1>6, <1>16
    <3>2. PICK lo \in Int, hi \in Int, d \in Int : NestOK(S, lo, hi, d)
      BY <3>1, <1>19
    <3>3. RimsWithout(S, Z, l, f)
      BY <3>2, <1>3, <1>16, <1>17, <1>18, <2>1, RimsPopped
    <3> QED BY <3>3 DEF RimsWithout
  <2>3. z.bkt = <<>> /\ RimsOf(s) = Rims(S) /\ RimsOf(z) = Rims(Z)
    <3>1. z.bkt = <<>>
      BY <1>6, <1>11 DEF GotStack
    <3> QED BY <3>1, <1>6, <1>16, RimsStack
  <2>4. Owed(r) = LevelsOpen(S, f) /\ Area(r) = LevelsArea(S, f) /\ todo[t] = {} /\ thr[t].at \in Handling
    <3>1. Owed(r) = StackOpen(s) /\ Area(r) = StackArea(s) /\ todo[t] = {} /\ thr[t].at \in Handling
      BY <1>1, <1>4, <1>27, LoopFacts
    <3> QED BY <3>1, <1>16 DEF StackOpen, StackArea
  <2>5. Kids(r) = {}
    <3>1. t \in Handles(r)
      BY <1>1, <2>4, HandlesDef
    <3> QED BY <3>1, <2>4, KidsFacts DEF IInv
  <2>6. Due(r) = (LevelsOpen(S, f) \cap Inner(r)) \cup Rims(S)
    BY <1>4, <1>29, <2>3, <2>4, <2>5, DueOwed
  <2>7. StackOpen(z) = LevelsOpen(S, f)
    BY <1>16, <1>17, <1>21 DEF StackOpen
  <2>8. LevelsAt(r, z)
    <3>1. EndsOK(S, r)
      BY <1>4, <1>16, <1>29 DEF LInv, LevelsOK, LevelsAt
    <3> QED BY <3>1, <1>16, <2>2, <2>3 DEF LevelsAt
  <2>9. PICK R, O, B, M : R = Rims(Z) /\ O = LevelsOpen(S, f) /\ B = Borders(l) /\ M = Inner(r)
    OBVIOUS
  <2>10. B \subseteq Due(r) /\ (O \cap M) \cup {} \cup R = Due(r) \ B
    <3>1. Due(r) = (O \cap M) \cup (R \cup B) /\ R \cap B = {} /\ O \cap B = {}
      BY <2>2, <2>6, <2>9, Zenon
    <3> QED BY <3>1
  <2>11. InnerOf({}) = {}
    BY DEF InnerOf
  <2>12. RimLeft(r, step[r], z, {}, B)
    <3>1. /\ RimsOf(z) \subseteq RimsOf(step[r]) \cup Area(r)
          /\ \A i \in RimsOf(step[r]) : i \in RimsOf(z) \/ (i \in Area(r) /\ i - 1 \in Area(r))
      BY <1>4, <2>2, <2>3, <2>4
    <3>2. (StackOpen(z) \cap Inner(r)) \cup InnerOf({}) \cup RimsOf(z) = Due(r) \ B
      BY <2>3, <2>7, <2>9, <2>10, <2>11
    <3> QED BY <3>1, <3>2, <2>8, <2>10 DEF RimLeft
  <2>13. b \in Holding /\ Moves(t, b, r)
    <3>1. b \in Holding /\ b \in Ats
      BY DEF AtStacks, Ats, Holding, Handling, InSample, InMkqs
    <3> QED BY <3>1, <1>3, <1>27, MovesFacts DEF StateOK
  <2>14. lcp' = [i \in Position |-> IF i \in B THEN lcp[i] + 1 ELSE lcp[i]]
    <3>1. Last(s.stack[a]) = l
      BY <1>7, <1>8, <1>16, <2>1 DEF OnTop
    <3> QED BY <3>1, <1>5, <2>9 DEF Write
  <2>15. todo' = [todo EXCEPT ![t] = {}] /\ jobs' = jobs
    <3>1. todo \in [Thread -> SUBSET StepId]
      BY <1>3 DEF StateOK
    <3> QED BY <3>1, <1>27, <2>4
  <2>16. {} \in SUBSET StepId /\ z.parent = step[r].parent /\ z.cnt = step[r].cnt
    BY <1>4, <1>12
  <2> QED BY <1>1, <1>12, <1>13, <1>29, <2>4, <2>12, <2>13, <2>14, <2>15, <2>16, LcpStep
<1> QED BY <1>28, <1>29

\* l1 is level l with one more bucket started, the range b.
StartedFrom(l1, l, b) ==
  /\ l1 \in LevelType /\ LevelOK(l1) /\ l1.b = l.b /\ l1.depth = l.depth /\ l1.idx >= 1
  /\ NextLo(l) = b[1] /\ LastLo(l1) = b[1] /\ NextLo(l1) = b[2]
  /\ b[1] \in Bound /\ b[2] \in Bound /\ b[1] <= b[2] /\ b[2] <= l.b[4] /\ l.depth <= b[3]

\* Advancing the index of a level starts its next bucket.
LEMMA StartedFacts ==
  ASSUME inst \in Instances, NEW l \in LevelType, LevelOK(l), l.idx < 3
  PROVE  StartedFrom([l EXCEPT !.idx = @ + 1], l, Bucket(l, l.idx))
<1>1. l.idx \in 0 .. 2
  BY NextFacts
<1>2. PICK k \in 0 .. 2 : k = l.idx
  BY <1>1
<1>3. PICK b : b = Bucket(l, k)
  OBVIOUS
<1>4. PICK l1 : l1 = [l EXCEPT !.idx = @ + 1]
  OBVIOUS
<1>5. l1 \in LevelType /\ l1.b = l.b /\ l1.depth = l.depth /\ l1.done = l.done /\ l1.idx = k + 1
  <2>1. l.idx + 1 \in 0 .. 3
    BY <1>1
  <2> QED BY <2>1, <1>2, <1>4 DEF LevelType
<1>6. LevelOK(l1)
  BY <1>5 DEF LevelOK
<1>7. /\ b[1] = l.b[k + 1] /\ b[2] = l.b[k + 2]
      /\ b[1] \in Bound /\ b[2] \in Bound
      /\ b[1] <= b[2] /\ b[2] <= l.b[4] /\ l.depth <= b[3]
  <2>1. /\ Bucket(l, k)[1] = l.b[k + 1] /\ Bucket(l, k)[2] = l.b[k + 2]
        /\ l.b[k + 1] \in Bound /\ l.b[k + 2] \in Bound
        /\ l.b[k + 1] <= l.b[k + 2] /\ l.b[k + 2] <= l.b[4]
        /\ l.depth <= Bucket(l, k)[3]
    BY BucketFacts
  <2> QED BY <2>1, <1>3
<1>8. NextLo(l) = b[1] /\ LastLo(l1) = b[1] /\ NextLo(l1) = b[2]
  <2>1. NextLo(l) = b[1]
    BY <1>2, <1>7 DEF NextLo
  <2>2. LastLo(l1) = b[1]
    BY <1>5, <1>7 DEF LastLo
  <2>3. k + 1 + 1 = k + 2
    BY <1>2
  <2>4. NextLo(l1) = b[2]
    BY <1>5, <1>7, <2>3 DEF NextLo
  <2> QED BY <2>1, <2>2, <2>4
<1>9. l1.idx >= 1
  BY <1>5
<1>10. StartedFrom(l1, l, b)
  BY <1>5, <1>6, <1>7, <1>8, <1>9 DEF StartedFrom
<1> QED BY <1>2, <1>3, <1>4, <1>10

\* The top level of the whole is started; the stacks of s1 differ in this.
LevelStarted(s1, s, l1, l, b) ==
  /\ StartedFrom(l1, l, b) /\ l = Whole(s)[Len(Whole(s))] /\ Len(Whole(s)) > Freed(s)
  /\ Freed(s1) = Freed(s) /\ Len(Whole(s1)) = Len(Whole(s))
  /\ \A i \in 1 .. Len(Whole(s)) - 1 : Whole(s1)[i] = Whole(s)[i]
  /\ Whole(s1)[Len(Whole(s))] = l1

\* What is open shrinks by the bucket that was started.
LEMMA StartedLeft ==
  ASSUME inst \in Instances, NEW r \in StepId, NEW s \in StepType, NEW z \in StepType,
         OrderOK(s), NestOK(Whole(s), r[1], r[2], r[3]),
         NEW l1, NEW l, NEW b, LevelStarted(z, s, l1, l, b)
  PROVE  /\ NestOK(Whole(z), r[1], r[2], r[3])
         /\ StackArea(z) = StackArea(s) /\ Cells(b) \subseteq StackOpen(s)
         /\ StackOpen(z) = StackOpen(s) \ Cells(b)
<1>1. PICK S \in Seq(LevelType), Z \in Seq(LevelType), f \in Nat :
        S = Whole(s) /\ Z = Whole(z) /\ f = Freed(s)
  <2>1. Whole(s) \in Seq(LevelType) /\ s.front.ss \in Nat /\ s.front.ms \in Nat
    BY WholeFacts
  <2>2. Whole(z) \in Seq(LevelType)
    BY WholeFacts
  <2>3. Freed(s) \in Nat
    BY <2>1 DEF Freed
  <2> QED BY <2>1, <2>2, <2>3
<1>2. /\ Len(S) > f /\ Len(Z) = Len(S) /\ \A i \in 1 .. Len(S) - 1 : Z[i] = S[i]
      /\ S[Len(S)] = l /\ Z[Len(S)] = l1 /\ Freed(z) = f
  BY <1>1 DEF LevelStarted
<1>3. StartedFrom(l1, l, b)
  BY DEF LevelStarted
<1>4. /\ LevelOK(Z[Len(S)]) /\ Z[Len(S)].b = S[Len(S)].b /\ Z[Len(S)].depth = S[Len(S)].depth
      /\ NextLo(Z[Len(S)]) \in Bound /\ NextLo(S[Len(S)]) <= NextLo(Z[Len(S)])
      /\ NextLo(Z[Len(S)]) <= S[Len(S)].b[4]
      /\ Cells(b) = NextLo(S[Len(S)]) .. NextLo(Z[Len(S)]) - 1
  BY <1>2, <1>3 DEF StartedFrom, Cells
<1>5. r[1] \in Int /\ r[2] \in Int /\ r[3] \in Int
  BY RangeFacts
<1>6. NestOK(S, r[1], r[2], r[3]) /\ Len(S) > 0
  BY <1>1, <1>2
<1>7. NestOK(Z, r[1], r[2], r[3])
  BY <1>2, <1>4, <1>5, <1>6, NestMoved
<1>8. PICK D : D = Cells(b)
  OBVIOUS
<1>9. MovedOn(Z, S, f, D)
  BY <1>2, <1>4, <1>8 DEF MovedOn
<1>10. TakenFrom(Z, S, f, D)
  BY <1>1, <1>5, <1>6, <1>9, LevelsMoved
<1> QED BY <1>1, <1>2, <1>7, <1>8, <1>10 DEF StackArea, StackOpen, TakenFrom

\* A level m for the bucket just started is pushed.
LevelPushed(z, s, m) ==
  /\ Freed(z) = Freed(s) /\ Len(Whole(z)) = Len(Whole(s)) + 1
  /\ \A i \in 1 .. Len(Whole(s)) : Whole(z)[i] = Whole(s)[i]
  /\ Whole(z)[Len(Whole(s)) + 1] = m

\* Pushing a level puts it on top of both stacks.
LEMMA PushedFacts ==
  ASSUME NEW s \in StepType, NEW c \in {"ss", "ms"}, c = "ss" => s.stack.ms = <<>> /\ s.front.ms = 0,
         NEW m \in LevelType, NEW k, NEW z, GotStack(z, s, k, c, Append(s.stack[c], m)), OrderOK(s)
  PROVE  LevelPushed(z, s, m) /\ OrderOK(z)
<1>1. PICK p \in Seq(LevelType), q \in Seq(LevelType), f \in Nat, g \in Nat :
        p = s.stack.ss /\ q = s.stack.ms /\ f = s.front.ss /\ g = s.front.ms
  BY DEF StepType
<1>2. /\ Whole(s) = p \o q /\ Freed(z) = Freed(s) /\ z.front = s.front
      /\ f <= Len(p) /\ g <= Len(q) /\ (g > 0 => f = Len(p))
  BY <1>1 DEF Whole, Freed, GotStack, OrderOK
<1>3. CASE c = "ss"
  <2>1. q = <<>> /\ z.stack.ss = Append(p, m) /\ z.stack.ms = q /\ g = 0
    BY <1>1, <1>3 DEF GotStack
  <2>2. Append(p, m) \o q = Append(p, m) /\ p \o q = p
    BY <2>1
  <2>3. /\ Len(p) \in Nat /\ Len(Append(p, m)) = Len(p) + 1 /\ Append(p, m)[Len(p) + 1] = m
        /\ \A i \in 1 .. Len(p) : Append(p, m)[i] = p[i]
    OBVIOUS
  <2>4. Whole(z) = Append(p, m) /\ Whole(s) = p
    BY <1>2, <2>1, <2>2 DEF Whole
  <2>5. LevelPushed(z, s, m)
    BY <1>2, <2>3, <2>4 DEF LevelPushed
  <2>6. OrderOK(z)
    <3>1. z.front.ss = f /\ z.front.ms = 0 /\ Len(z.stack.ss) = Len(p) + 1 /\ Len(z.stack.ms) = 0
      BY <1>1, <1>2, <2>1, <2>3
    <3> QED BY <3>1, <1>2, <2>3 DEF OrderOK
  <2> QED BY <2>5, <2>6
<1>4. CASE c = "ms"
  <2>1. z.stack.ss = p /\ z.stack.ms = Append(q, m)
    BY <1>1, <1>4 DEF GotStack
  <2>2. /\ Len(p) \in Nat /\ Len(q) \in Nat /\ Len(Append(q, m)) = Len(q) + 1
        /\ Len(p \o q) = Len(p) + Len(q) /\ Len(p \o Append(q, m)) = Len(p) + Len(q) + 1
    OBVIOUS
  <2>3. /\ \A i \in 1 .. Len(p) + Len(q) : (p \o Append(q, m))[i] = (p \o q)[i]
        /\ (p \o Append(q, m))[Len(p) + Len(q) + 1] = m
    <3>1. PICK u \in Seq(LevelType) : u = Append(q, m)
      <4>1. Append(q, m) \in Seq(LevelType)
        OBVIOUS
      <4> QED BY <4>1
    <3>2. Len(u) = Len(q) + 1 /\ u[Len(q) + 1] = m /\ \A i \in 1 .. Len(q) : u[i] = q[i]
      BY <3>1
    <3> QED BY <3>1, <3>2, <2>2
  <2>4. Whole(z) = p \o Append(q, m)
    BY <2>1 DEF Whole
  <2>5. LevelPushed(z, s, m)
    BY <1>2, <2>2, <2>3, <2>4 DEF LevelPushed
  <2>6. OrderOK(z)
    <3>1. z.front.ss = f /\ z.front.ms = g /\ Len(z.stack.ss) = Len(p) /\ Len(z.stack.ms) = Len(q) + 1
      BY <1>1, <1>2, <2>1, <2>2
    <3> QED BY <3>1, <1>2, <2>2 DEF OrderOK
  <2> QED BY <2>5, <2>6
<1> QED BY <1>3, <1>4

\* A pushed level opens the bucket it sorts again.
LEMMA PushedLeft ==
  ASSUME inst \in Instances, NEW r \in StepId, NEW s \in StepType, NEW y \in StepType,
         NEW z \in StepType, OrderOK(s), NestOK(Whole(s), r[1], r[2], r[3]),
         NEW l1, NEW l, NEW b \in StepId, LevelStarted(y, s, l1, l, b),
         NEW m \in Splits(b), LevelPushed(z, y, m)
  PROVE  /\ NestOK(Whole(z), r[1], r[2], r[3])
         /\ StackArea(z) = StackArea(s) /\ StackOpen(z) = StackOpen(s)
<1>1. PICK S \in Seq(LevelType), Y \in Seq(LevelType), Z \in Seq(LevelType), f \in Nat :
        S = Whole(s) /\ Y = Whole(y) /\ Z = Whole(z) /\ f = Freed(s)
  <2>1. Whole(s) \in Seq(LevelType) /\ s.front.ss \in Nat /\ s.front.ms \in Nat
    BY WholeFacts
  <2>2. Whole(z) \in Seq(LevelType) /\ Whole(y) \in Seq(LevelType)
    BY WholeFacts
  <2>3. Freed(s) \in Nat
    BY <2>1 DEF Freed
  <2> QED BY <2>1, <2>2, <2>3
<1>2. /\ NestOK(Y, r[1], r[2], r[3])
      /\ StackArea(y) = StackArea(s) /\ Cells(b) \subseteq StackOpen(s)
      /\ StackOpen(y) = StackOpen(s) \ Cells(b)
  BY <1>1, StartedLeft
<1>3. /\ m \in LevelType /\ LevelOK(m) /\ m.idx = 0 /\ m.b[1] = b[1] /\ m.b[4] = b[2] /\ m.depth = b[3]
  BY SplitFacts
<1>4. StartedFrom(l1, l, b)
  BY DEF LevelStarted
<1>5. /\ Len(Y) = Len(S) /\ Len(Y) > f /\ Y[Len(Y)] = l1 /\ l = S[Len(S)] /\ Freed(y) = f
  BY <1>1 DEF LevelStarted
<1>6. /\ Len(Z) = Len(Y) + 1 /\ \A i \in 1 .. Len(Y) : Z[i] = Y[i]
      /\ Z[Len(Y) + 1] = m /\ Freed(z) = f
  BY <1>1, <1>5 DEF LevelPushed
<1>7. r[1] \in Int /\ r[2] \in Int /\ r[3] \in Int /\ b[3] \in Int
  BY RangeFacts
<1>8. r[3] <= m.depth
  <2>1. Len(S) \in 1 .. Len(S)
    BY <1>5
  <2>2. r[3] <= S[Len(S)].depth /\ S[Len(S)] \in LevelType
    BY <2>1, <1>1, <1>7, NestFacts
  <2>3. l.depth \in Int
    <3>1. MaxDepth \in Nat
      BY SizesFacts
    <3> QED BY <3>1, <2>2, <1>5 DEF LevelType
  <2> QED BY <2>2, <2>3, <1>3, <1>4, <1>5, <1>7 DEF StartedFrom
<1>9. /\ Y[Len(Y)].idx >= 1 /\ m.b[1] = LastLo(Y[Len(Y)]) /\ m.b[4] = NextLo(Y[Len(Y)]) /\ Len(Y) > 0
  BY <1>3, <1>4, <1>5 DEF StartedFrom
<1>10. NestOK(Z, r[1], r[2], r[3])
  BY <1>2, <1>3, <1>6, <1>7, <1>8, <1>9, NestPushed
<1>11. b[1] \in Int /\ b[1] <= b[2]
  BY RangeFacts
<1>12. NextLo(m) = b[1] /\ NextLo(Y[Len(Y)]) = b[2]
  BY <1>3, <1>4, <1>5 DEF NextLo, StartedFrom
<1>13. PICK x \in Int : x = b[1]
  BY <1>11
<1>14. PICK D : D = Cells(b)
  OBVIOUS
<1>15. /\ D = x .. NextLo(Y[Len(Y)]) - 1 /\ x <= NextLo(Y[Len(Y)]) /\ NextLo(Z[Len(Y) + 1]) = x
  BY <1>6, <1>11, <1>12, <1>13, <1>14 DEF Cells
<1>16. PutOn(Z, Y, f, x, D)
  BY <1>5, <1>6, <1>15 DEF PutOn
<1>17. AddedTo(Z, Y, f, D)
  BY <1>1, <1>2, <1>7, <1>13, <1>16, LevelsPushed
<1>18. StackArea(z) = StackArea(y) /\ StackOpen(z) = StackOpen(y) \cup D
  BY <1>1, <1>5, <1>6, <1>17 DEF StackArea, StackOpen, AddedTo
<1> QED BY <1>1, <1>2, <1>10, <1>14, <1>18

\* A position of the second part of a concatenation.
LEMMA Offset ==
  ASSUME NEW p \in Nat, NEW n \in Int, NEW i \in Int, p < i, i <= p + n
  PROVE  \E j \in 1 .. n : i = p + j
<1>1. i - p \in 1 .. n /\ i = p + (i - p)
  OBVIOUS
<1> QED BY <1>1

\* The next bucket of the level on top is started: in the stacks of y.
NextTop(Q, n) == [Q EXCEPT ![n].idx = @ + 1]
HasStarted(y, s, l, b) == \E l1 : LevelStarted(y, s, l1, l, b)

\* The top level of the stack in use starts its next bucket.
LEMMA BucketStarted ==
  ASSUME inst \in Instances, NEW r \in StepId, NEW s \in StepType, NEW a \in {"ss", "ms"},
         OrderOK(s), NestOK(Whole(s), r[1], r[2], r[3]), OnTop(s, a),
         NEW Q \in Seq(LevelType), Q = s.stack[a], NEW n \in Nat, n = Len(Q), Q[n].idx < 3,
         NEW T, T = NextTop(Q, n), NEW y, GotStack(y, s, s.cnt, a, T)
  PROVE  OrderOK(y) /\ HasStarted(y, s, Q[n], Bucket(Q[n], Q[n].idx))
<1>1. n > 0 /\ n \in 1 .. n /\ Q[n] \in LevelType
  BY DEF OnTop
<1>2. PICK l \in LevelType : l = Q[n]
  BY <1>1
<1>3. Q[n] = Whole(s)[Len(Whole(s))] /\ Len(Whole(s)) > Freed(s)
  BY DEF OnTop
<1>4. LevelOK(l)
  <2>1. Whole(s) \in Seq(LevelType) /\ r[1] \in Int /\ r[2] \in Int /\ r[3] \in Int
    BY WholeFacts, RangeFacts
  <2>2. Freed(s) \in Nat
    BY StackAreaFacts
  <2>3. Len(Whole(s)) \in 1 .. Len(Whole(s))
    BY <1>3, <2>1, <2>2
  <2> QED BY <1>2, <1>3, <2>1, <2>3, NestFacts
<1>5. PICK l1 : l1 = [l EXCEPT !.idx = @ + 1]
  OBVIOUS
<1>6. PICK b : b = Bucket(l, l.idx)
  OBVIOUS
<1>7. StartedFrom(l1, l, b)
  BY <1>2, <1>4, <1>5, <1>6, StartedFacts
<1>8. T = [Q EXCEPT ![n] = l1] /\ l1 \in LevelType
  BY <1>2, <1>5, <1>7 DEF StartedFrom, NextTop
<1>9. T \in Seq(LevelType) /\ Len(T) = n /\ T[n] = l1 /\ \A i \in 1 .. n - 1 : T[i] = Q[i]
  BY <1>1, <1>8
<1>10. PICK R \in Seq(LevelType) : R = T
  BY <1>9
<1>11. ReplacedTop(y, s, a, R, n)
  BY <1>10, TopReplaced
<1>12. PICK S \in Seq(LevelType), Y \in Seq(LevelType) : S = Whole(s) /\ Y = Whole(y)
  <2>1. y \in StepType
    BY DEF GotStack
  <2> QED BY <2>1, WholeFacts
<1>13. PICK p \in Nat : p = Len(S) - n
  <2>1. n <= Len(S) /\ Len(S) \in Nat
    BY <1>11, <1>12 DEF ReplacedTop
  <2>2. Len(S) - n \in Nat
    BY <2>1
  <2> QED BY <2>2
<1>14. /\ Len(Y) = p + n /\ Len(S) = p + n
       /\ \A i \in 1 .. p : Y[i] = S[i]
       /\ \A i \in 1 .. n : Y[p + i] = T[i] /\ S[p + i] = Q[i]
       /\ Freed(y) = Freed(s)
  <2>1. Len(S) = p + n
    BY <1>13
  <2> QED BY <2>1, <1>9, <1>10, <1>11, <1>12, <1>13 DEF ReplacedTop
<1>15. ASSUME NEW i \in 1 .. Len(S) - 1 PROVE Y[i] = S[i]
  <2>1. CASE i <= p
    BY <2>1, <1>14
  <2>2. CASE i > p
    <3>1. PICK j \in 1 .. n - 1 : i = p + j
      <4>1. PICK k \in Int : k = n - 1
        <5>1. n - 1 \in Int
          OBVIOUS
        <5> QED BY <5>1
      <4>2. p \in Nat /\ k \in Int /\ i \in Int /\ i <= p + k /\ p < i
        BY <4>1, <2>2, <1>13, <1>14
      <4>3. \E j \in 1 .. k : i = p + j
        BY <4>2, Offset
      <4> QED BY <4>1, <4>3
    <3>2. j \in 1 .. n
      OBVIOUS
    <3> QED BY <3>1, <3>2, <1>9, <1>14
  <2> QED BY <2>1, <2>2
<1>16. Y[Len(S)] = l1
  BY <1>1, <1>9, <1>14
<1>17. LevelStarted(y, s, l1, l, b)
  BY <1>2, <1>3, <1>7, <1>12, <1>14, <1>15, <1>16 DEF LevelStarted
<1>18. OrderOK(y)
  <2>1. s.front[a] \in Nat /\ Len(Q) >= s.front[a]
    BY DEF StepType, OrderOK
  <2>2. Len(R) >= s.front[a]
    BY <2>1, <1>9, <1>10
  <2> QED BY <2>2, <1>10, OrderKept
<1> QED BY <1>2, <1>6, <1>17, <1>18 DEF HasStarted

\* A bucket done at once, or empty: the stacks of y are left.
LEMMA BucketDone ==
  ASSUME inst \in Instances, NEW r \in StepId, NEW s \in StepType, NEW y \in StepType,
         OrderOK(s), NestOK(Whole(s), r[1], r[2], r[3]), OrderOK(y),
         y.parent = s.parent, y.cnt = s.cnt,
         NEW l1, NEW l, NEW b, LevelStarted(y, s, l1, l, b)
  PROVE  StacksLeft(r, s, y, Cells(b))
<1>1. /\ NestOK(Whole(y), r[1], r[2], r[3])
      /\ StackArea(y) = StackArea(s) /\ Cells(b) \subseteq StackOpen(s)
      /\ StackOpen(y) = StackOpen(s) \ Cells(b)
  BY StartedLeft
<1> QED BY <1>1 DEF StacksLeft

\* A bucket that becomes a level m of stack c.
LEMMA BucketPushed ==
  ASSUME inst \in Instances, NEW r \in StepId, NEW s \in StepType, NEW y \in StepType,
         OrderOK(s), NestOK(Whole(s), r[1], r[2], r[3]), OrderOK(y),
         y.parent = s.parent, y.cnt = s.cnt,
         NEW l1, NEW l, NEW b \in StepId, LevelStarted(y, s, l1, l, b),
         NEW m \in Splits(b), NEW c \in {"ss", "ms"},
         c = "ss" => y.stack.ms = <<>> /\ y.front.ms = 0,
         NEW z, GotStack(z, y, s.cnt, c, Append(y.stack[c], m))
  PROVE  StacksLeft(r, s, z, {})
<1>1. m \in LevelType
  BY SplitFacts
<1>2. LevelPushed(z, y, m) /\ OrderOK(z)
  BY <1>1, PushedFacts
<1>3. z \in StepType /\ z.parent = s.parent /\ z.cnt = s.cnt
  BY DEF GotStack
<1>4. /\ NestOK(Whole(z), r[1], r[2], r[3])
      /\ StackArea(z) = StackArea(s) /\ StackOpen(z) = StackOpen(s)
  BY <1>2, <1>3, PushedLeft
<1> QED BY <1>2, <1>3, <1>4 DEF StacksLeft

\* Setting one stack of a step, and pushing on one.
Set(r, y) == [step EXCEPT ![r] = y]
StartNext(r, a, n) == [step EXCEPT ![r].stack[a][n].idx = @ + 1]
Push(Y, r, c, m) == [Y EXCEPT ![r].stack[c] = Append(@, m)]

\* An update of the index in the step is an update of its stack.
LEMMA StackAssigned ==
  ASSUME NEW r \in DOMAIN step, NEW s \in StepType, s = step[r], NEW a \in {"ss", "ms"},
         NEW Q \in Seq(LevelType), Q = s.stack[a], NEW n \in 1 .. Len(Q),
         NEW T, T = NextTop(Q, n), NEW y, y = WithStack(s, s.cnt, a, T)
  PROVE  StartNext(r, a, n) = Set(r, y)
<1> USE DEF StartNext, Set, NextTop
<1>1. s.stack[a] = Q /\ s = [s EXCEPT !.cnt = s.cnt]
  BY DEF StepType
<1>2. [step EXCEPT ![r].stack[a][n].idx = @ + 1]
        = [step EXCEPT ![r] = [s EXCEPT !.stack[a] = [Q EXCEPT ![n].idx = @ + 1]]]
  OBVIOUS
<1>3. [s EXCEPT !.stack[a] = T] = WithStack(s, s.cnt, a, T)
  BY DEF StepType, WithStack
<1> QED BY <1>2, <1>3

\* An Append in the step is an Append to its stack.
LEMMA StackGrown ==
  ASSUME NEW r \in DOMAIN step, NEW y \in StepType, NEW c \in {"ss", "ms"}, NEW m,
         NEW Y, Y = Set(r, y), NEW z, z = WithStack(y, y.cnt, c, Append(y.stack[c], m))
  PROVE  Push(Y, r, c, m) = Set(r, z)
<1> USE DEF Push, Set
<1>1. [Y EXCEPT ![r].stack[c] = Append(@, m)]
        = [step EXCEPT ![r] = [y EXCEPT !.stack[c] = Append(@, m)]]
  OBVIOUS
<1>2. [y EXCEPT !.stack[c] = Append(@, m)] = WithStack(y, y.cnt, c, Append(y.stack[c], m))
  BY DEF StepType, WithStack
<1> QED BY <1>1, <1>2

\* Where the loop goes on is where its thread may be.
LEMMA LoopGoesOn ==
  ASSUME NEW a \in {"ss", "ms"}, NEW r, NEW s, NEW y, NEW k, NEW T, GotStack(y, s, k, a, T),
         HandleOK(a, r, s), s.bkt = <<>>,
         NEW z, NEW U, NEW c \in {"ss", "ms"}, GotStack(z, y, k, c, U), c = a \/ c = "ms",
         NEW b, b = (IF c = a THEN Check(a) ELSE c), a = "ss" => SortsBySample(r)
  PROVE  HandleOK(b, r, z) /\ b \in AtStacks
<1>1. HandleOK(a, r, y) /\ y.bkt = <<>>
  BY HandleKept
<1>2. CASE c = a
  <2>1. HandleOK(Check(a), r, z)
    BY <1>1, <1>2, HandleKept
  <2> QED BY <1>2, <2>1 DEF Check, AtStacks
<1>3. CASE c # a
  <2>1. a = "ss" /\ c = "ms" /\ b = "ms" /\ SortsBySample(r)
    BY <1>3
  <2>2. z.bkt = <<>>
    BY <1>1 DEF GotStack
  <2> QED BY <2>1, <2>2 DEF HandleOK, InSample, InMkqs, AtStacks
<1> QED BY <1>2, <1>3

\* One turn of the loop, by the names RunBucket gives to what it works on.
BucketTurn(t, r, a, l, b, c, S) ==
  CASE ~Filled(l, l.idx) ->
         step' = S /\ At(t, Check(a), r) /\ UNCHANGED <<fin, lcp>>
    [] Filled(l, l.idx) /\ (Done(l, l.idx) \/ Size(b) < InsThreshold) ->
         step' = S /\ At(t, Check(a), r) /\ Write(Cells(b), Inner(b))
    [] OTHER ->
         /\ \E m \in Splits(b) : step' = Push(S, r, c, m)
         /\ At(t, IF c = a THEN Check(a) ELSE c, r)
         /\ UNCHANGED <<fin, lcp>>

\* RunBucket: the next bucket of the level on top is passed over, finished or
\* pushed as a level.
LEMMA RunBucketKeeps ==
  ASSUME IInv, NEW t \in Thread, RunBucket(t), inst' = inst
  PROVE  IInv' /\ (LInv => LInv')
<1>1. PICK r \in DOMAIN step : r = thr[t].s
  BY DEF RunBucket, InLoop, Is
<1>2. PICK a \in {"ss", "ms"} : a = thr[t].at
  BY DEF RunBucket, InLoop, Is
<1>3. StateOK /\ inst \in Instances /\ r \in StepId /\ a \in AtStacks
  BY DEF IInv, StateOK, AtStacks
<1>4. PICK s \in StepType : s = step[r]
  BY <1>3 DEF StateOK
<1>5. PICK Q : Q = s.stack[a]
  OBVIOUS
<1>6. PICK n : n = Len(Q)
  OBVIOUS
<1>7. PICK l : l = Q[n]
  OBVIOUS
<1>8. PICK b : b = Bucket(l, l.idx)
  OBVIOUS
<1>9. PICK c : c = IF a = "ss" /\ Size(b) < SmallThreshold THEN "ms" ELSE a
  OBVIOUS
<1>10. PICK S : S = StartNext(r, a, n)
  OBVIOUS
<1>11. /\ n > s.front[a] /\ l.idx < 3 /\ UNCHANGED <<jobs, todo>>
       /\ \/ ~Filled(l, l.idx) /\ step' = S /\ At(t, Check(a), r) /\ UNCHANGED <<fin, lcp>>
          \/ Filled(l, l.idx) /\ step' = S /\ At(t, Check(a), r) /\ Write(Cells(b), Inner(b))
          \/ /\ Filled(l, l.idx) /\ ~Done(l, l.idx)
             /\ \E m \in Splits(b) : step' = Push(S, r, c, m)
             /\ At(t, IF c = a THEN Check(a) ELSE c, r)
             /\ UNCHANGED <<fin, lcp>>
  <2>1. /\ n = Len(Stack(t)) /\ l = Stack(t)[n] /\ s.front[a] = Popped(t)
        /\ r = thr[t].s /\ a = thr[t].at /\ Q = Stack(t)
    BY <1>1, <1>2, <1>4, <1>5, <1>6, <1>7 DEF Stack, Popped
  <2>2. RunBucket(t)
    OBVIOUS
  <2>3. n > s.front[a] /\ l.idx < 3 /\ UNCHANGED <<jobs, todo>>
    BY <2>1, <2>2 DEF RunBucket, BktNum
  <2> DEFINE Turn ==
    \/ ~Filled(l, l.idx) /\ step' = S /\ At(t, Check(a), r) /\ UNCHANGED <<fin, lcp>>
    \/ Filled(l, l.idx) /\ step' = S /\ At(t, Check(a), r) /\ Write(Cells(b), Inner(b))
    \/ /\ Filled(l, l.idx) /\ ~Done(l, l.idx)
       /\ \E m \in Splits(b) : step' = Push(S, r, c, m)
       /\ At(t, IF c = a THEN Check(a) ELSE c, r)
       /\ UNCHANGED <<fin, lcp>>
  <2> DEFINE Top == Stack(t)[Len(Stack(t))]
             Next1 == Bucket(Top, Top.idx)
  <2>8. BucketTurn(t, thr[t].s, thr[t].at, Top, Next1,
                   IF thr[t].at = "ss" /\ Size(Next1) < SmallThreshold THEN "ms" ELSE thr[t].at,
                   StartNext(thr[t].s, thr[t].at, Len(Stack(t))))
    BY <2>2, Zenon DEF RunBucket, BucketTurn, StartNext, Push
  <2>9. BucketTurn(t, r, a, l, b, c, S)
    BY <2>1, <2>8, <1>8, <1>9, <1>10
  <2>4. ~Filled(l, l.idx) => Turn
    BY <2>9 DEF BucketTurn
  <2>5. Filled(l, l.idx) /\ (Done(l, l.idx) \/ Size(b) < InsThreshold) => Turn
    BY <2>9 DEF BucketTurn
  <2>6. Filled(l, l.idx) /\ ~(Done(l, l.idx) \/ Size(b) < InsThreshold) => Turn
    BY <2>9 DEF BucketTurn
  <2> HIDE DEF Turn
  <2>7. Turn
    BY <2>4, <2>5, <2>6
  <2> QED BY <2>3, <2>7 DEF Turn
<1>12. HandleOK(a, r, s) /\ s.bkt = <<>> /\ OrderOK(s) /\ NestOK(Whole(s), r[1], r[2], r[3])
  BY <1>1, <1>2, <1>3, <1>4, LoopFacts
<1>13. OnTop(s, a) /\ Q \in Seq(LevelType) /\ n \in Nat /\ n > 0
  <2>1. OnTop(s, a)
    BY <1>5, <1>6, <1>11, <1>12, TopFacts
  <2> QED BY <2>1, <1>5, <1>6 DEF OnTop
<1>14. PICK T : T = NextTop(Q, n)
  OBVIOUS
<1>15. PICK y : y = WithStack(s, s.cnt, a, T)
  OBVIOUS
<1>16. T \in Seq(LevelType)
  <2>1. l \in LevelType /\ n \in 1 .. Len(Q)
    BY <1>6, <1>7, <1>13
  <2>2. [l EXCEPT !.idx = @ + 1] \in LevelType
    <3>1. l.idx + 1 \in 0 .. 3
      BY <2>1, <1>11 DEF LevelType
    <3> QED BY <2>1, <3>1 DEF LevelType
  <2>3. T = [Q EXCEPT ![n] = [l EXCEPT !.idx = @ + 1]]
    BY <1>7, <1>14 DEF NextTop
  <2> QED BY <2>1, <2>2, <2>3, <1>13
<1>17. s.cnt \in Nat
  BY DEF StepType
<1>18. GotStack(y, s, s.cnt, a, T)
  BY <1>15, <1>16, <1>17, StackSet
<1>19. S = Set(r, y)
  <2>1. n \in 1 .. Len(Q)
    BY <1>6, <1>13
  <2> QED BY <2>1, <1>4, <1>5, <1>10, <1>13, <1>14, <1>15, StackAssigned
<1>20. OrderOK(y) /\ HasStarted(y, s, l, b)
  BY <1>3, <1>5, <1>6, <1>7, <1>8, <1>11, <1>12, <1>13, <1>14, <1>18, BucketStarted
<1>21. PICK l1 : LevelStarted(y, s, l1, l, b)
  BY <1>20 DEF HasStarted
<1>22. y \in StepType /\ y.parent = s.parent /\ y.cnt = s.cnt
  BY <1>18 DEF GotStack
<1>23. thr[t].at \in AtStacks /\ UNCHANGED <<jobs, todo>> /\ lcp \in [Position -> Nat]
       /\ fin \in [Position -> Nat]
  BY <1>2, <1>3, <1>11 DEF StateOK
<1>28. PICK k \in 0 .. 2 : k = l.idx /\ l \in LevelType /\ LevelOK(l)
  <2>1. l \in LevelType
    BY <1>6, <1>7, <1>13
  <2>2. l = Whole(s)[Len(Whole(s))] /\ Len(Whole(s)) > Freed(s)
    BY <1>21 DEF LevelStarted
  <2>3. Whole(s) \in Seq(LevelType) /\ Freed(s) \in Nat
    BY <1>3, <1>12, WholeFacts, StackAreaFacts
  <2>4. Len(Whole(s)) \in 1 .. Len(Whole(s))
    BY <2>2, <2>3
  <2>5. LevelOK(l)
    BY <2>2, <2>4, <1>12 DEF NestOK
  <2>6. l.idx \in 0 .. 2
    BY <2>1, <1>11 DEF LevelType
  <2> QED BY <2>1, <2>5, <2>6
<1>29. /\ Rims(Whole(y)) = Rims(Whole(s)) /\ y.bkt = <<>>
       /\ EndsOK(Whole(s), r) => EndsOK(Whole(y), r)
       /\ Whole(s) \in Seq(LevelType) /\ Whole(y) \in Seq(LevelType)
  <2>1. Whole(s) \in Seq(LevelType) /\ Whole(y) \in Seq(LevelType)
    BY <1>22, WholeFacts
  <2>2. PICK P \in Seq(LevelType), Y \in Seq(LevelType) : P = Whole(s) /\ Y = Whole(y)
    BY <2>1
  <2>3. /\ Len(Y) = Len(P) /\ \A i \in 1 .. Len(P) - 1 : Y[i] = P[i]
        /\ Y[Len(P)] = l1 /\ P[Len(P)] = l /\ l1.b = l.b
    BY <1>21, <2>2 DEF LevelStarted, StartedFrom
  <2>4. \A i \in 1 .. Len(P) : i \in 1 .. Len(P) - 1 \/ i = Len(P)
    OBVIOUS
  <2>5. \A i \in 1 .. Len(P) : Y[i].b = P[i].b
    BY <2>3, <2>4
  <2>6. Rims(Y) = Rims(P) /\ (EndsOK(P, r) => EndsOK(Y, r))
    BY <2>3, <2>5, RimsSame
  <2>7. y.bkt = <<>>
    BY <1>12, <1>18 DEF GotStack
  <2> QED BY <2>2, <2>6, <2>7
<1>30. LInv => EndsOK(Whole(s), r)
  BY <1>4 DEF LInv, LevelsOK, LevelsAt
<1>31. LInv /\ Filled(l, l.idx) => IsRange(b) /\ KidAt(b, r, Rims(Whole(s)))
  <2>1. SUFFICES ASSUME LInv, Filled(l, k) PROVE IsRange(b) /\ KidAt(b, r, Rims(Whole(s)))
    BY <1>28
  <2>2. IsRange(Bucket(l, k))
    BY <1>3, <1>28, <2>1, BucketRange
  <2>3. PICK P \in Seq(LevelType), d \in Nat : P = Whole(s) /\ d = Len(P)
    BY <1>29
  <2>4. d \in 1 .. Len(P) /\ P[d] = l
    <3>1. l = Whole(s)[Len(Whole(s))] /\ Len(Whole(s)) > Freed(s) /\ Freed(s) \in Nat
      BY <1>3, <1>12, <1>21, StackAreaFacts DEF LevelStarted
    <3> QED BY <2>3, <3>1
  <2>5. Waiting(P[d], k)
    BY <1>28, <2>1, <2>4 DEF Waiting
  <2>6. r[1] \in Int /\ r[2] \in Int /\ r[3] \in Int
    BY <1>3, RangeFacts
  <2>7. NestOK(P, r[1], r[2], r[3]) /\ EndsOK(P, r)
    BY <1>12, <1>30, <2>1, <2>3
  <2>8. KidAt(Bucket(P[d], k), r, Rims(P))
    BY <1>3, <2>4, <2>5, <2>6, <2>7, WaitKid
  <2> QED BY <1>8, <1>28, <2>2, <2>3, <2>4, <2>8
<1>32. StacksLeft(r, s, y, Cells(b)) /\ Cells(b) \subseteq StackOpen(s)
  <2>1. StacksLeft(r, s, y, Cells(b))
    BY <1>3, <1>12, <1>20, <1>21, <1>22, BucketDone
  <2> QED BY <2>1 DEF StacksLeft
<1>33. ASSUME LInv, step' = S, At(t, Check(a), r), NEW E, Cells(b) = UNION {Cells(e) : e \in E},
              \A e \in E : IsRange(e) /\ KidAt(e, r, Rims(Whole(s))), WroteIn(E)
       PROVE  LInv'
  <2>1. RimsLeft(r, s, y, E)
    BY <1>29, <1>30, <1>33 DEF RimsLeft
  <2>2. PICK e \in AtStacks : e = Check(a)
    BY DEF Check, AtStacks
  <2>3. PICK D : D = Cells(b)
    OBVIOUS
  <2>4. At(t, e, r) /\ StacksLeft(r, s, y, D) /\ D = UNION {Cells(x) : x \in E}
    BY <1>32, <1>33, <2>2, <2>3
  <2>5. step' = [step EXCEPT ![r] = y]
    BY <1>19, <1>33 DEF Set
  <2> QED BY <1>1, <1>4, <1>22, <1>23, <1>33, <2>1, <2>2, <2>4, <2>5, LoopLcp
<1>24. ASSUME step' = S, At(t, Check(a), r), Wrote(Cells(b)), lcp' \in [Position -> Nat]
       PROVE  IInv'
  <2>1. StacksLeft(r, s, y, Cells(b))
    BY <1>3, <1>12, <1>20, <1>21, <1>22, BucketDone
  <2>2. HandleOK(Check(a), r, y) /\ Check(a) \in AtStacks
    <3>1. HandleOK(Check(a), r, y)
      BY <1>12, <1>18, HandleKept
    <3> QED BY <3>1 DEF Check, AtStacks
  <2>3. PICK e \in AtStacks : e = Check(a)
    BY <2>2
  <2>4. PICK D : D = Cells(b)
    OBVIOUS
  <2>5. At(t, e, r) /\ HandleOK(e, r, y) /\ Wrote(D) /\ StacksLeft(r, s, y, D)
    BY <1>24, <2>1, <2>2, <2>3, <2>4
  <2>6. step' = [step EXCEPT ![r] = y]
    BY <1>19, <1>24 DEF Set
  <2> QED BY <1>1, <1>4, <1>22, <1>23, <1>24, <2>3, <2>5, <2>6, LoopStep
<1>25. CASE ~Filled(l, l.idx) /\ step' = S /\ At(t, Check(a), r) /\ UNCHANGED <<fin, lcp>>
  <2>1. Cells(b) = {}
    <3>1. StartedFrom(l1, l, b) /\ N \in Nat
      BY <1>3, <1>21, SizesFacts DEF LevelStarted
    <3>2. b[1] \in Int /\ b[2] \in Int /\ ~(b[1] < b[2])
      BY <3>1, <1>8, <1>25 DEF StartedFrom, Bound, Bucket, Filled
    <3> QED BY <3>2 DEF Cells
  <2>2. Wrote(Cells(b))
    BY <2>1, <1>23, <1>25 DEF Wrote
  <2>3. IInv'
    BY <2>2, <1>23, <1>24, <1>25
  <2>4. PICK E : E = {}
    OBVIOUS
  <2>5. Cells(b) = UNION {Cells(e) : e \in E} /\ WroteIn(E)
    BY <1>3, <1>25, <2>1, <2>4, WroteFacts
  <2> QED BY <2>3, <2>4, <2>5, <1>25, <1>33
<1>26. CASE Filled(l, l.idx) /\ step' = S /\ At(t, Check(a), r) /\ Write(Cells(b), Inner(b))
  <2>1. Wrote(Cells(b)) /\ lcp' \in [Position -> Nat]
    BY <1>3, <1>26, WriteFacts DEF Wrote
  <2>2. IInv'
    BY <2>1, <1>24, <1>26
  <2>3. PICK E : E = {b}
    OBVIOUS
  <2>4. Cells(b) = UNION {Cells(e) : e \in E} /\ WroteIn(E)
    BY <1>3, <1>26, <2>3, WroteFacts
  <2>5. LInv => \A e \in E : IsRange(e) /\ KidAt(e, r, Rims(Whole(s)))
    BY <1>26, <1>31, <2>3
  <2> QED BY <2>2, <2>4, <2>5, <1>26, <1>33
<1>27. CASE /\ Filled(l, l.idx) /\ ~Done(l, l.idx)
            /\ \E m \in Splits(b) : step' = Push(S, r, c, m)
            /\ At(t, IF c = a THEN Check(a) ELSE c, r)
            /\ UNCHANGED <<fin, lcp>>
  <2>1. PICK m \in Splits(b) : step' = Push(S, r, c, m)
    BY <1>27
  <2>2. b \in StepId
    <3>3. Filled(l, k) /\ ~Done(l, k) => Bucket(l, k) \in StepId
      BY <1>3, <1>28, BucketFacts
    <3> QED BY <3>3, <1>8, <1>27, <1>28
  <2>3. c \in {"ss", "ms"} /\ (c = a \/ c = "ms")
    BY <1>9
  <2>4. PICK z : z = WithStack(y, y.cnt, c, Append(y.stack[c], m))
    OBVIOUS
  <2>5. step' = [step EXCEPT ![r] = z]
    <3>1. Push(S, r, c, m) = Set(r, z)
      BY <2>3, <2>4, <1>19, <1>22, StackGrown
    <3> QED BY <2>1, <3>1 DEF Set
  <2>6. PICK U : U = Append(y.stack[c], m)
    OBVIOUS
  <2>7. U \in Seq(LevelType)
    <3>1. m \in LevelType
      BY <1>3, <2>2, SplitFacts
    <3>2. y.stack[c] \in Seq(LevelType)
      BY <1>22, <2>3 DEF StepType
    <3> QED BY <2>6, <3>1, <3>2
  <2>8. GotStack(z, y, s.cnt, c, U)
    BY <1>17, <1>22, <2>3, <2>4, <2>6, <2>7, StackSet
  <2>9. c = "ss" => y.stack.ms = <<>> /\ y.front.ms = 0
    BY <2>3, <1>13, <1>18 DEF OnTop, GotStack
  <2>10. StacksLeft(r, s, z, {})
    BY <1>3, <1>12, <1>20, <1>21, <1>22, <2>2, <2>3, <2>6, <2>8, <2>9, BucketPushed
  <2>11. PICK e : e = IF c = a THEN Check(a) ELSE c
    OBVIOUS
  <2>12. HandleOK(e, r, z) /\ e \in AtStacks
    <3>1. a = "ss" => SortsBySample(r)
      BY <1>12 DEF HandleOK, InSample
    <3> QED BY <3>1, <1>12, <1>18, <2>3, <2>8, <2>11, LoopGoesOn
  <2>13. At(t, e, r) /\ z \in StepType
    BY <1>27, <2>8, <2>11 DEF GotStack
  <2>14. Wrote({}) /\ lcp' \in [Position -> Nat]
    BY <1>23, <1>27 DEF Wrote
  <2>15. e \in AtStacks /\ HandleOK(e, r, z)
    BY <2>12
  <2>16. IInv'
    BY <1>1, <1>4, <1>23, <2>5, <2>10, <2>13, <2>14, <2>15, LoopStep
  <2>17. ASSUME LInv PROVE LInv'
    <3>1. PICK Y \in Seq(LevelType), Z \in Seq(LevelType) : Y = Whole(y) /\ Z = Whole(z)
      BY <1>29, <2>13, WholeFacts
    <3>2. Len(Z) = Len(Y) + 1 /\ (\A i \in 1 .. Len(Y) : Z[i] = Y[i]) /\ Z[Len(Y) + 1] = m
      <4>1. m \in LevelType
        BY <1>3, <2>2, SplitFacts
      <4>2. LevelPushed(z, y, m)
        BY <1>20, <1>22, <2>3, <2>6, <2>8, <2>9, <4>1, PushedFacts
      <4> QED BY <3>1, <4>2 DEF LevelPushed
    <3>3. m \in LevelType /\ LevelOK(m) /\ m.b[1] = b[1] /\ m.b[4] = b[2]
      BY <1>3, <2>2, SplitFacts
    <3>4. KidAt(b, r, Rims(Y)) /\ EndsOK(Y, r)
      BY <1>27, <1>29, <1>30, <1>31, <2>17, <3>1
    <3>5. Rims(Z) = Rims(Y) \cup Borders(m) /\ EndsOK(Z, r)
      <4>1. (m.b[1] = r[1] \/ m.b[1] \in Rims(Y)) /\ (m.b[4] = r[2] \/ m.b[4] \in Rims(Y))
        BY <3>3, <3>4 DEF KidAt
      <4> QED BY <3>2, <3>4, <4>1, RimsPushed
    <3>6. Borders(m) \subseteq StackOpen(s) \cap Inner(r)
      <4>1. \A i \in Borders(m) : i \in Int /\ b[1] < i /\ i < b[2]
        BY <1>3, <3>3, BordersFacts
      <4>2. Borders(m) \subseteq Inner(b)
        BY <1>3, <2>2, <4>1, InnerFacts
      <4>3. StackOpen(s) \subseteq Cells(r)
        BY <1>3, <1>12, StackAreaFacts
      <4>4. IsRange(b) /\ Inner(b) \subseteq Cells(b)
        BY <1>3, <2>2, InnerFacts
      <4>5. Inner(b) \subseteq Inner(r)
        BY <1>3, <1>32, <4>3, <4>4, InnerIn
      <4> QED BY <1>32, <4>2, <4>4, <4>5
    <3>7. z.bkt = <<>>
      BY <1>29, <2>8 DEF GotStack
    <3>8. PICK E : E = {}
      OBVIOUS
    <3>9. RimsLeft(r, s, z, E)
      BY <1>29, <3>1, <3>5, <3>6, <3>7, <3>8 DEF RimsLeft
    <3>10. WroteIn(E)
      BY <1>3, <1>27, <3>8, WroteFacts
    <3>11. {} = UNION {Cells(x) : x \in E}
      BY <3>8
    <3> QED BY <1>1, <1>4, <1>23, <2>5, <2>10, <2>13, <2>15, <2>17, <3>9, <3>10, <3>11, LoopLcp
  <2> QED BY <2>16, <2>17
<1> QED BY <1>11, <1>25, <1>26, <1>27

---------------------------------------------------------------------------
(* Levels given away *)

\* What n levels of a stack S from f on have waiting, bucket by bucket.
Waits(S, f, n) == {w \in (1 .. n) \X (0 .. 2) : Waiting(S[f + w[1]], w[2])}
Part(S, f, w) == Bucket(S[f + w[1]], w[2])
Removed(S, f, n) == IF n = 0 THEN {} ELSE NextLo(S[f + n]) .. S[f + 1].b[4] - 1

\* Level f + x of a nested stack, and what NestOK says of it and another.
LevelFacts(S, f, x, lo, hi, d) ==
  /\ f + x \in 1 .. Len(S) /\ S[f + x] \in LevelType /\ LevelOK(S[f + x])
  /\ NextLo(S[f + x]) \in Int /\ S[f + x].b[1] \in Int /\ S[f + x].b[4] \in Int
  /\ lo <= S[f + x].b[1] /\ S[f + x].b[1] <= NextLo(S[f + x])
  /\ NextLo(S[f + x]) <= S[f + x].b[4] /\ S[f + x].b[4] <= hi
  /\ S[f + x].depth \in Int /\ d <= S[f + x].depth
  /\ S[f + 1].b[1] <= S[f + x].b[1] /\ S[f + x].b[4] <= S[f + 1].b[4]
  /\ \A m \in 1 .. Len(S) : m > f + x => S[m].b[4] <= NextLo(S[f + x])
  /\ x > 1 => S[f + x].b[4] = NextLo(S[f + x - 1])

\* Each of the n lowest levels not given away has the bounds its neighbours need.
LEMMA FreedLevels ==
  ASSUME inst \in Instances, NEW S \in Seq(LevelType), NEW lo \in Int, NEW hi \in Int, NEW d \in Int,
         NestOK(S, lo, hi, d), NEW f \in Nat, NEW n \in Nat, f + n <= Len(S)
  PROVE  \A x \in 1 .. n : LevelFacts(S, f, x, lo, hi, d)
<1> TAKE x \in 1 .. n
<1>1. PICK i \in 1 .. Len(S) : i = f + x
  <2>1. f + x \in 1 .. Len(S)
    OBVIOUS
  <2> QED BY <2>1
<1>2. N \in Nat /\ MaxDepth \in Nat
  BY SizesFacts
<1>3. /\ S[i] \in LevelType /\ LevelOK(S[i]) /\ d <= S[i].depth
      /\ lo <= S[i].b[1] /\ S[i].b[4] <= hi
      /\ NextLo(S[i]) \in Bound /\ S[i].b[1] <= NextLo(S[i]) /\ NextLo(S[i]) <= S[i].b[4]
  BY <1>1, NestFacts
<1>4. S[i].b[1] \in Int /\ S[i].b[4] \in Int /\ S[i].depth \in Int /\ NextLo(S[i]) \in Int
  <2>1. PICK l \in LevelType : l = S[i]
    BY <1>3
  <2>2. l.b[1] \in Int /\ l.b[4] \in Int /\ l.depth \in Int
    <3>1. l.b[1] \in Bound /\ l.b[4] \in Bound /\ l.depth \in 0 .. MaxDepth
      BY DEF LevelType
    <3> QED BY <1>2, <3>1 DEF Bound
  <2>3. NextLo(S[i]) \in Int
    BY <1>2, <1>3 DEF Bound
  <2> QED BY <2>1, <2>2, <2>3
<1>5. \A m \in 1 .. i : S[m].b[1] <= S[i].b[1] /\ S[i].b[4] <= S[m].b[4]
  BY <1>1, NestFacts
<1>6. f + 1 \in 1 .. i
  BY <1>1
<1>7. S[f + 1].b[1] <= S[i].b[1] /\ S[i].b[4] <= S[f + 1].b[4]
  BY <1>5, <1>6
<1>8. \A m \in 1 .. Len(S) : m > i => S[m].b[4] <= NextLo(S[i])
  BY <1>1 DEF NestOK
<1>9. x > 1 => S[i].b[4] = NextLo(S[f + x - 1])
  <2>1. HAVE x > 1
  <2>2. i > 1 /\ i - 1 = f + x - 1
    BY <1>1, <2>1
  <2> QED BY <2>2, <1>1 DEF NestOK
<1> QED BY <1>1, <1>3, <1>4, <1>7, <1>8, <1>9 DEF LevelFacts

\* No two waiting buckets share a position, and what stays on the stack lies
\* below all of them.
LEMMA WaitsApart ==
  ASSUME inst \in Instances, NEW S \in Seq(LevelType), NEW lo \in Int, NEW hi \in Int, NEW d \in Int,
         NestOK(S, lo, hi, d), NEW f \in Nat, NEW n \in Nat, f + n <= Len(S)
  PROVE  /\ \A v, w \in Waits(S, f, n) : v = w \/ Apart(Part(S, f, v), Part(S, f, w))
         /\ \A w \in Waits(S, f, n) :
              Cells(Part(S, f, w)) \subseteq Removed(S, f, n)
<1>1. ASSUME NEW x \in 1 .. n
      PROVE  /\ f + x \in 1 .. Len(S) /\ S[f + x] \in LevelType /\ LevelOK(S[f + x])
             /\ NextLo(S[f + x]) \in Int /\ S[f + x].b[4] \in Int
             /\ NextLo(S[f + x]) <= S[f + x].b[4]
             /\ S[f + x].b[4] <= S[f + 1].b[4]
             /\ \A m \in 1 .. Len(S) : m > f + x => S[m].b[4] <= NextLo(S[f + x])
  <2>1. LevelFacts(S, f, x, lo, hi, d)
    BY FreedLevels
  <2> QED BY <2>1 DEF LevelFacts
<1>8. PICK g \in [1 .. n -> Int], h \in [1 .. n -> Int] :
        \A x \in 1 .. n : /\ g[x] = NextLo(S[f + x]) /\ h[x] = S[f + x].b[4]
                          /\ g[x] <= h[x] /\ h[x] <= h[1]
                          /\ \A y \in 1 .. n : y > x => h[y] <= g[x]
  <2>1. PICK g \in [1 .. n -> Int], h \in [1 .. n -> Int] :
          \A x \in 1 .. n : g[x] = NextLo(S[f + x]) /\ h[x] = S[f + x].b[4]
    <3>1. /\ [x \in 1 .. n |-> NextLo(S[f + x])] \in [1 .. n -> Int]
          /\ [x \in 1 .. n |-> S[f + x].b[4]] \in [1 .. n -> Int]
      BY <1>1
    <3> QED BY <3>1
  <2>2. ASSUME NEW x \in 1 .. n, NEW y \in 1 .. n, y > x PROVE h[y] <= g[x]
    <3>1. f + y \in 1 .. Len(S) /\ f + y > f + x
      <4>1. f + y \in 1 .. Len(S)
        BY <1>1
      <4>2. f + y > f + x
        BY <2>2
      <4> QED BY <4>1, <4>2
    <3> QED BY <1>1, <2>1, <3>1
  <2>3. ASSUME NEW x \in 1 .. n PROVE g[x] <= h[x] /\ h[x] <= h[1]
    <3>1. 1 \in 1 .. n
      OBVIOUS
    <3> QED BY <1>1, <2>1, <3>1
  <2> QED BY <2>1, <2>2, <2>3
<1>2. N \in Nat
  BY SizesFacts
<1>3. ASSUME NEW w \in Waits(S, f, n)
      PROVE  /\ w[1] \in 1 .. n /\ w[2] \in 0 .. 2 /\ w = <<w[1], w[2]>>
             /\ Part(S, f, w)[1] \in Int /\ Part(S, f, w)[2] \in Int
             /\ NextLo(S[f + w[1]]) <= Part(S, f, w)[1]
             /\ Part(S, f, w)[2] <= S[f + w[1]].b[4]
  <2>1. w[1] \in 1 .. n /\ w[2] \in 0 .. 2 /\ w = <<w[1], w[2]>> /\ Waiting(S[f + w[1]], w[2])
    BY DEF Waits
  <2>2. PICK l \in LevelType, k \in 0 .. 2 : l = S[f + w[1]] /\ k = w[2] /\ LevelOK(l)
    BY <1>1, <2>1
  <2>3. NextLo(l) <= Bucket(l, k)[1] /\ Bucket(l, k)[2] <= l.b[4]
    BY <2>1, <2>2, LevelParts
  <2>4. Bucket(l, k)[1] \in Int /\ Bucket(l, k)[2] \in Int
    <3>1. Bucket(l, k)[1] \in Bound /\ Bucket(l, k)[2] \in Bound
      BY <2>2, BucketFacts
    <3> QED BY <1>2, <3>1 DEF Bound
  <2> QED BY <2>1, <2>2, <2>3, <2>4 DEF Part
<1>4. ASSUME NEW v \in Waits(S, f, n), NEW w \in Waits(S, f, n), v[1] < w[1]
      PROVE  Apart(Part(S, f, v), Part(S, f, w)) /\ Apart(Part(S, f, w), Part(S, f, v))
  <2>1. PICK x \in 1 .. n, y \in 1 .. n : x = v[1] /\ y = w[1] /\ x < y
    BY <1>3, <1>4
  <2>2. PICK e \in Int, u \in Int : e = Part(S, f, w)[2] /\ u = Part(S, f, v)[1]
    BY <1>3
  <2>3. g[x] <= u /\ e <= h[y]
    BY <1>3, <1>8, <2>1, <2>2
  <2>4. h[y] <= g[x] /\ h[y] \in Int /\ g[x] \in Int
    BY <1>8, <2>1
  <2>5. Part(S, f, w)[2] <= Part(S, f, v)[1]
    BY <2>2, <2>3, <2>4
  <2> QED BY <2>5 DEF Apart
<1>5. ASSUME NEW v \in Waits(S, f, n), NEW w \in Waits(S, f, n), v[1] = w[1], v[2] < w[2]
      PROVE  Apart(Part(S, f, v), Part(S, f, w)) /\ Apart(Part(S, f, w), Part(S, f, v))
  <2>1. PICK l \in LevelType : l = S[f + v[1]] /\ LevelOK(l)
    BY <1>1, <1>3
  <2>2. PICK i \in 0 .. 2, k \in 0 .. 2 : i = v[2] /\ k = w[2] /\ i < k
    BY <1>3, <1>5
  <2>3. Part(S, f, v) = Bucket(l, i) /\ Part(S, f, w) = Bucket(l, k)
    BY <1>5, <2>1, <2>2 DEF Part
  <2>4. l.b[i + 2] <= l.b[k + 1] /\ Bucket(l, k)[1] = l.b[k + 1]
    BY <2>1, <2>2, BucketFacts
  <2>5. Bucket(l, i)[2] = l.b[i + 2]
    BY <2>1, BucketFacts
  <2> QED BY <2>3, <2>4, <2>5 DEF Apart
<1>6. ASSUME NEW v \in Waits(S, f, n), NEW w \in Waits(S, f, n), v # w
      PROVE  Apart(Part(S, f, v), Part(S, f, w))
  <2>1. v[1] < w[1] \/ w[1] < v[1] \/ (v[1] = w[1] /\ (v[2] < w[2] \/ w[2] < v[2]))
    <3>1. v[1] \in Int /\ w[1] \in Int /\ v[2] \in Int /\ w[2] \in Int
      BY <1>3
    <3>2. v[1] # w[1] \/ v[2] # w[2]
      BY <1>3, <1>6
    <3> QED BY <3>1, <3>2
  <2>2. v[1] = w[1] <=> w[1] = v[1]
    OBVIOUS
  <2> QED BY <1>4, <1>5, <2>1, <2>2
<1>7. ASSUME NEW w \in Waits(S, f, n)
      PROVE  Cells(Part(S, f, w)) \subseteq Removed(S, f, n)
  <2>1. PICK x \in 1 .. n : x = w[1]
    BY <1>3
  <2>2. n # 0 /\ n \in 1 .. n
    BY <2>1
  <2>3. PICK u \in Int, e \in Int : u = Part(S, f, w)[1] /\ e = Part(S, f, w)[2]
    BY <1>3
  <2>4. g[x] <= u /\ e <= h[x]
    BY <1>3, <1>8, <2>1, <2>3
  <2>5. g[n] <= g[x] /\ h[x] <= h[1]
    <3>1. CASE x = n
      BY <3>1, <1>8
    <3>2. CASE x < n
      BY <3>2, <1>8, <2>2
    <3> QED BY <3>1, <3>2
  <2>6. Removed(S, f, n) = g[n] .. h[1] - 1 /\ Cells(Part(S, f, w)) = u .. e - 1
    <3>1. 1 \in 1 .. n
      BY <2>2
    <3>2. g[n] = NextLo(S[f + n]) /\ h[1] = S[f + 1].b[4]
      BY <3>1, <1>8, <2>2
    <3> QED BY <2>2, <2>3, <3>2 DEF Removed, Cells
  <2>7. g[n] \in Int /\ g[x] \in Int /\ h[x] \in Int /\ h[1] \in Int
    BY <1>8, <2>2
  <2>8. PICK g1 \in Int, g2 \in Int, h1 \in Int, h2 \in Int : g1 = g[n] /\ g2 = g[x] /\ h1 = h[x] /\ h2 = h[1]
    BY <2>7, Zenon
  <2>9. g2 <= u /\ e <= h1 /\ g1 <= g2 /\ h1 <= h2
    BY <2>4, <2>5, <2>8, Zenon
  <2>10. u .. e - 1 \subseteq g1 .. h2 - 1
    <3>1. g1 <= u /\ e <= h2
      BY <2>9
    <3> QED BY <3>1
  <2> QED BY <2>6, <2>8, <2>10, Zenon
<1> QED BY <1>6, <1>7

\* Less, as a relation.
LT == {p \in Nat \X Nat : p[1] < p[2]}

\* A nonempty set of naturals has a least member.
LEMMA NatLeast ==
  ASSUME NEW T, T \subseteq Nat, T # {}
  PROVE  \E x \in T : \A y \in T : x <= y
<1>1. IsWellFoundedOn(LT, Nat)
  BY NatLessThanWellFounded, Zenon DEF OpToRel, LT
<1>2. PICK x \in T : \A y \in T : ~(<<y, x>> \in LT)
  BY <1>1, WFMin
<1>3. \A y \in T : ~(y < x)
  BY <1>2 DEF LT
<1> QED BY <1>3

\* Every position given away lies in a waiting bucket.
LEMMA WaitsCover ==
  ASSUME inst \in Instances, NEW S \in Seq(LevelType), NEW lo \in Int, NEW hi \in Int, NEW d \in Int,
         NestOK(S, lo, hi, d), NEW f \in Nat, NEW n \in Nat, f + n <= Len(S),
         NEW p \in Removed(S, f, n)
  PROVE  \E w \in Waits(S, f, n) : p \in Cells(Part(S, f, w))
<1>1. ASSUME NEW x \in 1 .. n
      PROVE  /\ S[f + x] \in LevelType /\ LevelOK(S[f + x])
             /\ NextLo(S[f + x]) \in Int /\ S[f + x].b[4] \in Int
             /\ x > 1 => S[f + x].b[4] = NextLo(S[f + x - 1])
  <2>1. LevelFacts(S, f, x, lo, hi, d)
    BY FreedLevels
  <2> QED BY <2>1 DEF LevelFacts
<1>2. n # 0 /\ 1 \in 1 .. n /\ n \in 1 .. n /\ p \in NextLo(S[f + n]) .. S[f + 1].b[4] - 1
  BY DEF Removed
<1>3. p \in Int /\ NextLo(S[f + n]) <= p /\ p < S[f + 1].b[4]
  BY <1>1, <1>2
<1>4. PICK x \in 1 .. n : NextLo(S[f + x]) <= p /\ \A y \in 1 .. n : NextLo(S[f + y]) <= p => x <= y
  <2> DEFINE J == {y \in 1 .. n : NextLo(S[f + y]) <= p}
  <2>1. J \subseteq Nat /\ n \in J
    BY <1>2, <1>3
  <2>2. J # {}
    BY <2>1
  <2>3. PICK x \in J : \A y \in J : x <= y
    <3> HIDE DEF J
    <3> QED BY <2>1, <2>2, NatLeast
  <2> QED BY <2>3
<1>5. p < S[f + x].b[4]
  <2>1. CASE x = 1
    BY <2>1, <1>3
  <2>2. CASE x > 1
    <3>1. PICK y \in 1 .. n : y = x - 1
      <4>1. x - 1 \in 1 .. n
        BY <2>2
      <4> QED BY <4>1
    <3>2. ~(x <= y)
      BY <3>1
    <3>3. ~(NextLo(S[f + y]) <= p) /\ NextLo(S[f + y]) \in Int
      BY <1>1, <1>4, <3>2
    <3>4. f + x - 1 = f + y
      BY <3>1
    <3>5. S[f + x].b[4] = NextLo(S[f + y])
      BY <1>1, <2>2, <3>4
    <3> QED BY <1>3, <3>3, <3>5
  <2> QED BY <2>1, <2>2
<1>6. PICK l \in LevelType : l = S[f + x] /\ LevelOK(l)
  BY <1>1
<1>7. p \in NextLo(l) .. l.b[4] - 1
  <2>1. NextLo(l) \in Int /\ l.b[4] \in Int
    BY <1>1, <1>6
  <2> QED BY <2>1, <1>3, <1>4, <1>5, <1>6
<1>8. PICK k \in 0 .. 2 : Waiting(l, k) /\ p \in Cells(Bucket(l, k))
  BY <1>6, <1>7, LevelParts
<1>9. PICK w : w = <<x, k>>
  OBVIOUS
<1>10. w \in Waits(S, f, n) /\ p \in Cells(Part(S, f, w))
  BY <1>6, <1>8, <1>9 DEF Waits, Part
<1> QED BY <1>10

\* What is left when n levels are given away.
GivenFrom(S, f, n) ==
  /\ LevelsArea(S, f + n) \subseteq LevelsArea(S, f)
  /\ LevelsArea(S, f + n) \cap Removed(S, f, n) = {}
  /\ Removed(S, f, n) \subseteq LevelsOpen(S, f)
  /\ LevelsOpen(S, f + n) = LevelsOpen(S, f) \ Removed(S, f, n)

\* The levels that stay work below what was given away.
LEMMA LevelsGiven ==
  ASSUME inst \in Instances, NEW S \in Seq(LevelType), NEW lo \in Int, NEW hi \in Int, NEW d \in Int,
         NestOK(S, lo, hi, d), NEW f \in Nat, NEW n \in Nat, f + n <= Len(S)
  PROVE  GivenFrom(S, f, n)
<1>1. CASE n = 0
  <2>1. f + n = f /\ Removed(S, f, n) = {}
    BY <1>1 DEF Removed
  <2> QED BY <2>1 DEF GivenFrom
<1>2. CASE n > 0
  <2>1. PICK L \in Nat : L = Len(S) /\ L > f /\ L >= f + n
    BY <1>2
  <2>2. PICK m \in Nat : m = L - f /\ m >= n
    <3>1. L - f \in Nat /\ L - f >= n
      BY <2>1
    <3> QED BY <3>1
  <2>3. ASSUME NEW x \in 1 .. m
        PROVE  /\ f + x \in 1 .. Len(S)
               /\ NextLo(S[f + x]) \in Int /\ S[f + x].b[1] \in Int /\ S[f + x].b[4] \in Int
               /\ S[f + x].b[1] <= NextLo(S[f + x]) /\ NextLo(S[f + x]) <= S[f + x].b[4]
               /\ S[f + 1].b[1] <= S[f + x].b[1] /\ S[f + x].b[4] <= S[f + 1].b[4]
               /\ \A y \in 1 .. Len(S) : y > f + x => S[y].b[4] <= NextLo(S[f + x])
               /\ x > 1 => S[f + x].b[4] = NextLo(S[f + x - 1])
    <3>1. f + m <= Len(S)
      BY <2>1, <2>2
    <3>2. LevelFacts(S, f, x, lo, hi, d)
      BY <3>1, FreedLevels
    <3> QED BY <3>2 DEF LevelFacts
  <2>4. 1 \in 1 .. m /\ n \in 1 .. m /\ m \in 1 .. m /\ f + m = L
    BY <1>2, <2>1, <2>2
  <2>5. PICK a1 \in Int, b1 \in Int, gn \in Int, gm \in Int :
          a1 = S[f + 1].b[1] /\ b1 = S[f + 1].b[4] /\ gn = NextLo(S[f + n]) /\ gm = NextLo(S[L])
    BY <2>3, <2>4
  <2>6. a1 <= gn /\ gn <= b1 /\ gm <= gn
    <3>1. a1 <= gn /\ gn <= b1
      <4>1. PICK u \in Int, v \in Int : u = S[f + n].b[1] /\ v = S[f + n].b[4]
        BY <2>3, <2>4
      <4>2. a1 <= u /\ u <= gn /\ gn <= v /\ v <= b1
        BY <2>3, <2>4, <2>5, <4>1
      <4> QED BY <4>2
    <3>2. gm <= gn
      <4>1. CASE n = m
        BY <4>1, <2>4, <2>5
      <4>2. CASE n < m
        <5>1. PICK v \in Int : v = S[L].b[4]
          BY <2>3, <2>4
        <5>2. L \in 1 .. Len(S) /\ L > f + n
          BY <1>2, <2>1, <2>2, <4>2
        <5>3. gm <= v /\ v <= gn
          BY <2>3, <2>4, <2>5, <5>1, <5>2
        <5> QED BY <5>3
      <4> QED BY <2>2, <4>1, <4>2
    <3> QED BY <3>1, <3>2
  <2>7. /\ LevelsArea(S, f) = a1 .. b1 - 1 /\ LevelsOpen(S, f) = gm .. b1 - 1
        /\ Removed(S, f, n) = gn .. b1 - 1
    BY <1>2, <2>1, <2>5 DEF LevelsArea, LevelsOpen, Removed
  <2>8. CASE n = m
    <3>1. LevelsArea(S, f + n) = {} /\ LevelsOpen(S, f + n) = {} /\ gm = gn
      BY <2>1, <2>4, <2>5, <2>8 DEF LevelsArea, LevelsOpen
    <3> QED BY <2>6, <2>7, <3>1 DEF GivenFrom
  <2>9. CASE n < m
    <3>1. PICK x \in 1 .. m : x = n + 1
      <4>1. n + 1 \in 1 .. m
        BY <2>9
      <4> QED BY <4>1
    <3>2. f + n + 1 = f + x /\ f + x - 1 = f + n /\ x > 1
      BY <1>2, <3>1
    <3>3. PICK an \in Int : an = S[f + n + 1].b[1]
      BY <2>3, <3>2
    <3>4. S[f + n + 1].b[4] = gn /\ a1 <= an
      BY <2>3, <2>5, <3>2, <3>3
    <3>5. LevelsArea(S, f + n) = an .. gn - 1 /\ LevelsOpen(S, f + n) = gm .. gn - 1
      <4>1. Len(S) > f + n
        BY <2>1, <2>2, <2>9
      <4> QED BY <2>1, <2>5, <3>3, <3>4, <4>1 DEF LevelsArea, LevelsOpen
    <3>6. an .. gn - 1 \subseteq a1 .. b1 - 1
      BY <2>6, <3>4
    <3>7. (an .. gn - 1) \cap (gn .. b1 - 1) = {}
      OBVIOUS
    <3>8. gn .. b1 - 1 \subseteq gm .. b1 - 1
      BY <2>6
    <3>9. gm .. gn - 1 = (gm .. b1 - 1) \ (gn .. b1 - 1)
      BY <2>6
    <3> QED BY <2>7, <3>5, <3>6, <3>7, <3>8, <3>9 DEF GivenFrom
  <2> QED BY <2>2, <2>8, <2>9
<1> QED BY <1>1, <1>2

\* The children K and the positions D finished at once divide the range R.
KidsLeft(r, K, D, R) ==
  /\ K \in SUBSET StepId
  /\ \A c \in K : Inside(c, r) /\ Cells(c) \subseteq R
  /\ \A c, d \in K : c = d \/ Apart(c, d)
  /\ D \cup UNION {Cells(c) : c \in K} = R
  /\ D \cap UNION {Cells(c) : c \in K} = {}

\* They do when every waiting bucket that is not done, but for some more of
\* those finished, becomes a child.
LEMMA KidsGiven ==
  ASSUME inst \in Instances, NEW r \in StepId, NEW S \in Seq(LevelType), NestOK(S, r[1], r[2], r[3]),
         NEW f \in Nat, NEW n \in Nat, f + n <= Len(S),
         NEW E \in SUBSET Waits(S, f, n),
         \A w \in Waits(S, f, n) \ E : ~Done(S[f + w[1]], w[2]),
         NEW K, K = {Part(S, f, w) : w \in Waits(S, f, n) \ E},
         NEW D, D = UNION {Cells(Part(S, f, w)) : w \in E}
  PROVE  KidsLeft(r, K, D, Removed(S, f, n))
<1>1. r[1] \in Int /\ r[2] \in Int /\ r[3] \in Int
  BY RangeFacts
<1>2. /\ \A v, w \in Waits(S, f, n) : v = w \/ Apart(Part(S, f, v), Part(S, f, w))
      /\ \A w \in Waits(S, f, n) : Cells(Part(S, f, w)) \subseteq Removed(S, f, n)
  BY <1>1, WaitsApart
<1>3. \A p \in Removed(S, f, n) : \E w \in Waits(S, f, n) : p \in Cells(Part(S, f, w))
  BY <1>1, WaitsCover
<1>4. ASSUME NEW w \in Waits(S, f, n)
      PROVE  /\ Part(S, f, w)[1] \in Int /\ Part(S, f, w)[2] \in Int
             /\ w \notin E => Part(S, f, w) \in StepId /\ Inside(Part(S, f, w), r)
  <2>1. w[1] \in 1 .. n /\ w[2] \in 0 .. 2 /\ Waiting(S[f + w[1]], w[2])
    BY DEF Waits
  <2>2. PICK x \in 1 .. n : x = w[1]
    BY <2>1
  <2>3. LevelFacts(S, f, x, r[1], r[2], r[3])
    BY <1>1, FreedLevels
  <2>4. PICK l \in LevelType, k \in 0 .. 2 : l = S[f + x] /\ k = w[2] /\ LevelOK(l)
    BY <2>1, <2>3 DEF LevelFacts
  <2>5. PICK c : c = Bucket(l, k)
    OBVIOUS
  <2>6. c = Part(S, f, w) /\ Filled(l, k)
    BY <2>1, <2>2, <2>4, <2>5 DEF Part, Waiting
  <2>7. N \in Nat
    BY SizesFacts
  <2>8. PICK c1 \in Int, c2 \in Int, a \in Int, e \in Int :
          /\ c1 = c[1] /\ c2 = c[2] /\ a = l.b[1] /\ e = l.b[4]
          /\ a <= c1 /\ c1 <= c2 /\ c2 <= e /\ l.depth <= c[3]
          /\ c2 - c1 < e - a \/ l.depth < c[3]
    <3>1. /\ c[1] = l.b[k + 1] /\ c[2] = l.b[k + 2]
          /\ l.b[k + 1] \in Bound /\ l.b[k + 2] \in Bound
          /\ l.b[1] <= l.b[k + 1] /\ l.b[k + 1] <= l.b[k + 2] /\ l.b[k + 2] <= l.b[4]
          /\ l.depth <= c[3]
          /\ l.b[k + 2] - l.b[k + 1] < l.b[4] - l.b[1] \/ l.depth < c[3]
      BY <2>4, <2>5, BucketFacts
    <3>2. l.b[1] \in Int /\ l.b[4] \in Int
      BY <2>3, <2>4 DEF LevelFacts
    <3>3. c[1] \in Int /\ c[2] \in Int
      BY <3>1, <2>7 DEF Bound
    <3> QED BY <3>1, <3>2, <3>3
  <2>9. ASSUME w \notin E PROVE c \in StepId
    <3>1. ~Done(l, k)
      BY <2>2, <2>4, <2>9
    <3>2. Filled(l, k) /\ ~Done(l, k) => Bucket(l, k) \in StepId
      BY <2>4, BucketFacts
    <3> QED BY <3>1, <3>2, <2>5, <2>6
  <2>10. ASSUME w \notin E PROVE Inside(c, r)
    <3>1. c[3] \in Int
      BY <2>9, <2>10, RangeFacts
    <3>2. PICK h \in Int : h = l.depth /\ r[3] <= h /\ r[1] <= a /\ e <= r[2]
      BY <2>3, <2>4, <2>8 DEF LevelFacts
    <3>3. PICK u \in Int, v \in Int, q \in Int, g \in Int :
            u = r[1] /\ v = r[2] /\ q = r[3] /\ g = c[3]
      BY <1>1, <3>1
    <3>4. /\ u <= a /\ a <= c1 /\ c1 <= c2 /\ c2 <= e /\ e <= v /\ q <= h /\ h <= g
          /\ c2 - c1 < e - a \/ h < g
      BY <2>8, <3>2, <3>3
    <3>5. /\ u <= c1 /\ c2 <= v /\ q <= g
          /\ c2 - c1 < v - u \/ q < g
      BY <3>4
    <3> QED BY <2>8, <3>3, <3>5 DEF Inside, Size
  <2> QED BY <2>6, <2>8, <2>9, <2>10
<1>5. K \in SUBSET StepId /\ \A c \in K : Inside(c, r) /\ Cells(c) \subseteq Removed(S, f, n)
  BY <1>2, <1>4
<1>6. \A c, d \in K : c = d \/ Apart(c, d)
  BY <1>2
<1>7. D \cup UNION {Cells(c) : c \in K} = Removed(S, f, n)
  <2>1. D \subseteq Removed(S, f, n)
    BY <1>2
  <2>2. UNION {Cells(c) : c \in K} \subseteq Removed(S, f, n)
    BY <1>5
  <2>3. ASSUME NEW p \in Removed(S, f, n)
        PROVE  p \in D \cup UNION {Cells(c) : c \in K}
    <3>1. PICK w \in Waits(S, f, n) : p \in Cells(Part(S, f, w))
      BY <1>3
    <3>2. CASE w \in E
      BY <3>1, <3>2
    <3>3. CASE w \notin E
      <4>1. Part(S, f, w) \in K
        BY <3>3
      <4> QED BY <3>1, <4>1
    <3> QED BY <3>2, <3>3
  <2> QED BY <2>1, <2>2, <2>3
<1>8. D \cap UNION {Cells(c) : c \in K} = {}
  <2>1. SUFFICES ASSUME NEW v \in E, NEW w \in Waits(S, f, n) \ E, NEW p,
                        p \in Cells(Part(S, f, v)), p \in Cells(Part(S, f, w))
                 PROVE  FALSE
    OBVIOUS
  <2>2. v # w /\ v \in Waits(S, f, n) /\ w \in Waits(S, f, n)
    OBVIOUS
  <2>3. Apart(Part(S, f, v), Part(S, f, w))
    BY <1>2, <2>2
  <2>4. PICK a \in Int, e \in Int, c \in Int, d \in Int :
          /\ a = Part(S, f, v)[1] /\ e = Part(S, f, v)[2]
          /\ c = Part(S, f, w)[1] /\ d = Part(S, f, w)[2]
    BY <1>4, <2>2
  <2>5. p \in a .. e - 1 /\ p \in c .. d - 1 /\ (e <= c \/ d <= a)
    BY <2>1, <2>3, <2>4 DEF Cells, Apart
  <2> QED BY <2>5
<1> QED BY <1>5, <1>6, <1>7, <1>8 DEF KidsLeft

\* distribute_finished(): the buckets of the one level.
LEMMA KidsOfLevel ==
  ASSUME inst \in Instances, NEW r \in StepId, NEW l \in Splits(r)
  PROVE  KidsLeft(r, BucketKids(l), UNION {Cells(b) : b \in BucketsDone(l)}, Cells(r))
<1>1. l \in LevelType /\ LevelOK(l) /\ l.idx = 0 /\ l.b[1] = r[1] /\ l.b[4] = r[2] /\ l.depth = r[3]
  BY SplitFacts
<1>2. PICK S : S = <<l>>
  OBVIOUS
<1>3. S \in Seq(LevelType) /\ Len(S) = 1 /\ S[1] = l
  BY <1>1, <1>2
<1>4. r[1] \in Int /\ r[2] \in Int /\ r[3] \in Int
  BY RangeFacts
<1>5. NestOK(S, r[1], r[2], r[3])
  <2>1. \A i \in 1 .. Len(S) : i = 1
    BY <1>3
  <2>2. \A n \in 1 .. Len(S) : LevelOK(S[n]) /\ r[1] <= S[n].b[1] /\ S[n].b[4] <= r[2] /\ r[3] <= S[n].depth
    BY <1>1, <1>3, <1>4, <2>1
  <2>3. \A m, n \in 1 .. Len(S) : ~(m < n)
    BY <2>1
  <2>4. \A n \in 1 .. Len(S) : ~(n > 1)
    BY <2>1
  <2> QED BY <2>2, <2>3, <2>4 DEF NestOK
<1>6. Removed(S, 0, 1) = Cells(r)
  <2>1. NextLo(l) = r[1]
    BY <1>1 DEF NextLo
  <2> QED BY <2>1, <1>1, <1>3 DEF Removed, Cells
<1>7. Waits(S, 0, 1) = {1} \X {i \in 0 .. 2 : Filled(l, i)}
  <2>1. \A w \in (1 .. 1) \X (0 .. 2) : S[0 + w[1]] = l /\ w[2] >= l.idx
    BY <1>1, <1>3
  <2> QED BY <2>1 DEF Waits, Waiting
<1>8. PICK E : E = {1} \X {i \in 0 .. 2 : Filled(l, i) /\ (Done(l, i) \/ Size(Bucket(l, i)) = 1)}
  OBVIOUS
<1>9. E \in SUBSET Waits(S, 0, 1)
  BY <1>7, <1>8
<1>10. ASSUME NEW w \in Waits(S, 0, 1)
       PROVE  /\ w = <<1, w[2]>> /\ w[2] \in 0 .. 2 /\ Filled(l, w[2])
              /\ S[0 + w[1]] = l /\ Part(S, 0, w) = Bucket(l, w[2])
              /\ w \in E <=> (Done(l, w[2]) \/ Size(Bucket(l, w[2])) = 1)
  <2>1. w[1] = 1 /\ w = <<1, w[2]>> /\ w[2] \in 0 .. 2 /\ Filled(l, w[2])
    BY <1>7
  <2>2. S[0 + w[1]] = l
    BY <2>1, <1>3
  <2> QED BY <2>1, <2>2, <1>8 DEF Part
<1>11. \A w \in Waits(S, 0, 1) \ E : ~Done(S[0 + w[1]], w[2])
  BY <1>10
<1>12. ASSUME NEW i \in 0 .. 2, Filled(l, i)
       PROVE  \E w \in Waits(S, 0, 1) : w[2] = i
  <2>1. <<1, i>> \in Waits(S, 0, 1) /\ <<1, i>>[2] = i
    BY <1>7, <1>12
  <2> QED BY <2>1
<1>13. BucketKids(l) = {Part(S, 0, w) : w \in Waits(S, 0, 1) \ E}
  <2>1. ASSUME NEW i \in 0 .. 2, Filled(l, i)
        PROVE  Size(Bucket(l, i)) \in Int /\ Size(Bucket(l, i)) > 0
    <3>1. N \in Nat
      BY SizesFacts
    <3>2. /\ Bucket(l, i)[1] = l.b[i + 1] /\ Bucket(l, i)[2] = l.b[i + 2]
          /\ l.b[i + 1] \in Bound /\ l.b[i + 2] \in Bound
      BY <1>1, BucketFacts
    <3> QED BY <3>1, <3>2, <2>1 DEF Size, Filled, Bound
  <2>2. ASSUME NEW i \in 0 .. 2, Filled(l, i)
        PROVE  Size(Bucket(l, i)) > 1 <=> ~(Size(Bucket(l, i)) = 1)
    BY <2>1, <2>2
  <2>3. BucketKids(l) = {Bucket(l, k) : k \in {i \in 0 .. 2 : Filled(l, i)
                                          /\ ~(Done(l, i) \/ Size(Bucket(l, i)) = 1)}}
    BY <2>2 DEF BucketKids, BktNum
  <2> QED BY <2>3, <1>10, <1>12
<1>14. UNION {Cells(b) : b \in BucketsDone(l)} = UNION {Cells(Part(S, 0, w)) : w \in E}
  <2>1. BucketsDone(l) = {Part(S, 0, w) : w \in E}
    <3>1. BucketsDone(l) = {Bucket(l, k) : k \in {i \in 0 .. 2 : Filled(l, i)
                                          /\ (Done(l, i) \/ Size(Bucket(l, i)) = 1)}}
      BY DEF BucketsDone, BktNum
    <3> QED BY <3>1, <1>9, <1>10, <1>12
  <2> QED BY <2>1
<1>15. PICK K, D : K = BucketKids(l) /\ D = UNION {Cells(b) : b \in BucketsDone(l)}
  OBVIOUS
<1>16. 0 \in Nat /\ 1 \in Nat /\ 0 + 1 <= Len(S)
  BY <1>3
<1>17. KidsLeft(r, K, D, Removed(S, 0, 1))
  BY <1>3, <1>5, <1>9, <1>11, <1>13, <1>14, <1>15, <1>16, KidsGiven
<1> QED BY <1>6, <1>15, <1>17

\* DistributeFinished: the handle, the buckets done, the children to create.
LEMMA DistributeFinishedKeeps ==
  ASSUME IInv, NEW t \in Thread, DistributeFinished(t), inst' = inst
  PROVE  IInv' /\ (LInv => LInv')
<1>1. PICK r \in DOMAIN step : r = thr[t].s
  BY DEF DistributeFinished, Is
<1>2. thr[t].at = "distfin"
  BY DEF DistributeFinished, Is
<1>3. StateOK /\ inst \in Instances /\ r \in StepId
  BY DEF IInv, StateOK
<1>4. PICK s \in StepType : s = step[r]
  BY <1>3 DEF StateOK
<1>5. Stage(r, "distfin") /\ s.cnt = 0
  BY <1>1, <1>2, <1>4, OpenerFacts DEF Opening
<1>6. PICK l \in Splits(r) : s.bkt = <<l>>
  BY <1>4, <1>5 DEF Stage
<1>7. PICK K : K = BucketKids(l)
  OBVIOUS
<1>8. PICK D : D = UNION {Cells(b) : b \in BucketsDone(l)}
  OBVIOUS
<1>9. PICK z : z = [s EXCEPT !.cnt = @ + 1]
  OBVIOUS
<1>10. PICK a : a = IF K = {} THEN "notify" ELSE "split"
  OBVIOUS
<1>11. /\ step' = [step EXCEPT ![r] = z] /\ jobs' = jobs
       /\ Finish(BucketsDone(l), {}) /\ todo' = [todo EXCEPT ![t] = K] /\ At(t, a, r)
  <2>1. step[r].bkt[1] = l
    BY <1>4, <1>6
  <2>2. step' = [step EXCEPT ![r].cnt = @ + 1] /\ jobs' = jobs
    BY <1>1 DEF DistributeFinished
  <2>3. Finish(BucketsDone(l), {}) /\ Create(t, "split", r, BucketKids(l))
    BY <1>1, <2>1 DEF DistributeFinished
  <2>4. Then["split"] = "notify"
    BY DEF Then
  <2>5. step' = [step EXCEPT ![r] = z]
    BY <1>4, <1>9, <2>2
  <2> QED BY <1>7, <1>10, <2>2, <2>3, <2>4, <2>5 DEF Create
<1>12. z \in StepType /\ z.parent = s.parent /\ z.cnt = s.cnt + 1 /\ NoStack(z)
  <2>1. s.cnt + 1 \in Nat
    BY DEF StepType
  <2>2. z \in StepType
    BY <1>9, <2>1 DEF StepType
  <2>3. z.parent = s.parent /\ z.cnt = s.cnt + 1 /\ z.stack = s.stack /\ z.front = s.front
    BY <1>9 DEF StepType
  <2>4. NoStack(s)
    BY <1>4, <1>5 DEF Stage
  <2> QED BY <2>2, <2>3, <2>4 DEF NoStack
<1>13. KidsLeft(r, K, D, Cells(r))
  BY <1>3, <1>6, <1>7, <1>8, KidsOfLevel
<1>14. /\ Len(Whole(z)) = 0 /\ Freed(z) = 0 /\ StackArea(z) = {} /\ StackOpen(z) = {}
       /\ OrderOK(z) /\ NestOK(Whole(z), r[1], r[2], r[3])
  BY <1>3, <1>12, NoStackFacts
<1>15. WorkLeft(r, z, K, D)
  <2>1. Owed(r) = Cells(r) /\ Area(r) = Cells(r)
    BY <1>4, <1>5 DEF Owed, Area
  <2> QED BY <1>13, <1>14, <2>1 DEF WorkLeft, KidsLeft
<1>16. a \in Holding /\ a \in Ats /\ (K # {} <=> a \in DOMAIN Then)
  BY <1>10 DEF Holding, Handling, Ats, Then
<1>17. Moves(t, a, r) /\ thr' \in [Thread -> [at : Ats, s : StepId \cup {NoStep}]]
  BY <1>3, <1>11, <1>16, MovesFacts DEF StateOK
<1>18. a \in Handling => HandleOK(a, r, z)
  BY <1>10, <1>12 DEF HandleOK, Handling, InSample, InMkqs
<1>19. Len(Whole(z)) = Freed(z)
  BY <1>14
<1>20. fin' = [i \in Position |-> IF i \in D THEN fin[i] + 1 ELSE fin[i]] /\ lcp' \in [Position -> Nat]
  BY <1>3, <1>8, <1>11, WriteFacts DEF Finish
<1>21. K \in SUBSET StepId
  BY <1>13 DEF KidsLeft
<1>22. z.parent = step[r].parent /\ thr[t].at \in {"small", "distfin"} /\ z.cnt = step[r].cnt + 1
  BY <1>2, <1>4, <1>12
<1>23. IInv'
  BY <1>1, <1>11, <1>12, <1>15, <1>16, <1>17, <1>18, <1>19, <1>20, <1>21, <1>22, StepWorked
<1>24. ASSUME LInv PROVE LInv'
  <2>1. PICK E : E = BucketsDone(l)
    OBVIOUS
  <2>2. /\ \A e \in E : IsRange(e) /\ KidAt(e, r, Borders(l))
        /\ \A c \in K : KidAt(c, r, Borders(l))
    <3>1. \A k \in 0 .. 2 : Filled(l, k) => IsRange(Bucket(l, k)) /\ KidAt(Bucket(l, k), r, Borders(l))
      BY <1>3, SplitFacts, BucketRange, BucketKid
    <3> QED BY <3>1, <1>7, <2>1 DEF BucketsDone, BucketKids, BktNum
  <2>3. z.bkt = <<l>> /\ RimsOf(s) = Borders(l) /\ RimsOf(z) = Borders(l)
    <3>1. z.bkt = <<l>> /\ NoStack(s)
      BY <1>4, <1>5, <1>6, <1>9 DEF StepType, Stage
    <3>2. Rims(<<l>>) = Borders(l)
      <4>1. Len(<<l>>) = 1 /\ <<l>>[1] = l
        OBVIOUS
      <4> QED BY <4>1, RimsFew
    <3>3. Rims(Whole(s)) = {} /\ Rims(Whole(z)) = {}
      BY <3>1, <1>3, <1>14, NoStackFacts, RimsFew
    <3> QED BY <1>6, <3>1, <3>2, <3>3 DEF RimsOf
  <2>4. LevelsAt(r, z)
    <3>1. EndsOK(Whole(z), r)
      BY <1>14 DEF EndsOK
    <3> QED BY <3>1, <2>3, <1>12 DEF LevelsAt
  <2>5. Kids(r) = {}
    BY <1>1, <1>2, OpenerFacts DEF Opening
  <2>6. D = UNION {Cells(e) : e \in E}
    BY <1>8, <2>1
  <2>7. RimsOf(step[r]) \subseteq RimsOf(z) /\ RimsOf(z) \subseteq RimsOf(step[r]) \cup (Owed(r) \cap Inner(r))
    BY <1>4, <2>3
  <2>8. \A c \in K \cup E : KidAt(c, r, RimsOf(z))
    BY <2>2, <2>3
  <2>9. \A e \in E : IsRange(e)
    BY <2>2
  <2>10. RimLeft(r, step[r], z, K, InnerOf(E))
    BY <1>12, <1>15, <1>21, <1>24, <2>4, <2>5, <2>6, <2>7, <2>8, <2>9, RimsHanded
  <2>11. WroteIn(E)
    BY <1>3, <1>11, <2>1, WroteFacts
  <2> QED BY <1>1, <1>11, <1>12, <1>16, <1>17, <1>21, <1>22, <1>24, <2>10, <2>11, LcpStep DEF WroteIn
<1> QED BY <1>23, <1>24

\* What Give(t, a, levels, ...) gives away, by the names of its definition.
Freeing(s, a, n) == {s.stack[a][s.front[a] + i] : i \in 1 .. n}
WorkOf(F) == {w \in F \X (0 .. BktNum - 1) : w[2] >= w[1].idx /\ Filled(w[1], w[2])}
Ended(F) == {Bucket(w[1], w[2]) : w \in {v \in WorkOf(F) : Done(v[1], v[2])}}
Given(F) == {Bucket(w[1], w[2]) : w \in {v \in WorkOf(F) : ~Done(v[1], v[2])}}

\* The levels given away are the lowest of the whole.
FreesLowest(s, a, n) ==
  /\ n \in Nat /\ Freed(s) + n <= Len(Whole(s))
  /\ \A i \in 1 .. n : s.stack[a][s.front[a] + i] = Whole(s)[Freed(s) + i]

\* What FreeWork() gives away is finished or becomes a child.
LEMMA KidsOfLevels ==
  ASSUME inst \in Instances, NEW r \in StepId, NEW s \in StepType, NEW a, NEW n,
         FreesLowest(s, a, n), OrderOK(s), NestOK(Whole(s), r[1], r[2], r[3]),
         NEW K, K = Given(Freeing(s, a, n)),
         NEW D, D = UNION {Cells(b) : b \in Ended(Freeing(s, a, n))}
  PROVE  KidsLeft(r, K, D, Removed(Whole(s), Freed(s), n))
<1>1. PICK S \in Seq(LevelType), f \in Nat : S = Whole(s) /\ f = Freed(s)
  <2>1. Whole(s) \in Seq(LevelType) /\ Freed(s) \in Nat
    BY WholeFacts, StackAreaFacts
  <2> QED BY <2>1
<1>2. n \in Nat /\ f + n <= Len(S) /\ \A i \in 1 .. n : s.stack[a][s.front[a] + i] = S[f + i]
  BY <1>1 DEF FreesLowest
<1>3. PICK F : F = Freeing(s, a, n)
  OBVIOUS
<1>4. F = {S[f + i] : i \in 1 .. n}
  BY <1>2, <1>3 DEF Freeing
<1>5. PICK E : E = {w \in Waits(S, f, n) : Done(S[f + w[1]], w[2])}
  OBVIOUS
<1>6. E \in SUBSET Waits(S, f, n) /\ \A w \in Waits(S, f, n) \ E : ~Done(S[f + w[1]], w[2])
  BY <1>5
<1>7. ASSUME NEW w \in Waits(S, f, n)
      PROVE  /\ <<S[f + w[1]], w[2]>> \in WorkOf(F)
             /\ Part(S, f, w) = Bucket(S[f + w[1]], w[2])
  <2>1. w[1] \in 1 .. n /\ w[2] \in 0 .. 2 /\ Waiting(S[f + w[1]], w[2])
    BY DEF Waits
  <2>2. S[f + w[1]] \in F
    BY <2>1, <1>4
  <2> QED BY <2>1, <2>2 DEF WorkOf, BktNum, Waiting, Part
<1>8. ASSUME NEW v \in WorkOf(F)
      PROVE  \E w \in Waits(S, f, n) : v[1] = S[f + w[1]] /\ v[2] = w[2]
  <2>1. v[1] \in F /\ v[2] \in 0 .. 2 /\ Waiting(v[1], v[2])
    BY DEF WorkOf, BktNum, Waiting
  <2>2. PICK x \in 1 .. n : v[1] = S[f + x]
    BY <2>1, <1>4
  <2>3. PICK k \in 0 .. 2 : k = v[2]
    BY <2>1
  <2>4. PICK w : w = <<x, k>>
    OBVIOUS
  <2>5. w \in Waits(S, f, n) /\ w[1] = x /\ w[2] = k
    BY <2>1, <2>2, <2>3, <2>4 DEF Waits
  <2> QED BY <2>2, <2>3, <2>5
<1>9. K = {Part(S, f, w) : w \in Waits(S, f, n) \ E}
  <2>1. ASSUME NEW c \in K PROVE c \in {Part(S, f, w) : w \in Waits(S, f, n) \ E}
    <3>1. PICK v \in WorkOf(F) : ~Done(v[1], v[2]) /\ c = Bucket(v[1], v[2])
      BY <1>3 DEF Given
    <3>2. PICK w \in Waits(S, f, n) : v[1] = S[f + w[1]] /\ v[2] = w[2]
      BY <1>8
    <3>3. w \notin E /\ c = Part(S, f, w)
      BY <1>5, <1>7, <3>1, <3>2
    <3> QED BY <3>3
  <2>2. ASSUME NEW w \in Waits(S, f, n) \ E PROVE Part(S, f, w) \in K
    <3>1. PICK v : v = <<S[f + w[1]], w[2]>>
      OBVIOUS
    <3>2. v \in WorkOf(F) /\ v[1] = S[f + w[1]] /\ v[2] = w[2]
      BY <1>7, <3>1
    <3>3. ~Done(v[1], v[2]) /\ Part(S, f, w) = Bucket(v[1], v[2])
      BY <1>6, <1>7, <3>2
    <3> QED BY <1>3, <3>2, <3>3 DEF Given
  <2> QED BY <2>1, <2>2
<1>10. D = UNION {Cells(Part(S, f, w)) : w \in E}
  <2>1. ASSUME NEW c \in Ended(F) PROVE \E w \in E : c = Part(S, f, w)
    <3>1. PICK v \in WorkOf(F) : Done(v[1], v[2]) /\ c = Bucket(v[1], v[2])
      BY DEF Ended
    <3>2. PICK w \in Waits(S, f, n) : v[1] = S[f + w[1]] /\ v[2] = w[2]
      BY <1>8
    <3> QED BY <1>5, <1>7, <3>1, <3>2
  <2>2. ASSUME NEW w \in E PROVE Part(S, f, w) \in Ended(F)
    <3>1. PICK v : v = <<S[f + w[1]], w[2]>>
      OBVIOUS
    <3>2. v \in WorkOf(F) /\ v[1] = S[f + w[1]] /\ v[2] = w[2]
      BY <1>5, <1>7, <3>1
    <3>3. Done(v[1], v[2]) /\ Part(S, f, w) = Bucket(v[1], v[2])
      BY <1>5, <1>7, <3>2
    <3> QED BY <3>2, <3>3 DEF Ended
  <2>3. Ended(F) = {Part(S, f, w) : w \in E}
    BY <2>1, <2>2
  <2> QED BY <1>3, <2>3
<1>11. KidsLeft(r, K, D, Removed(S, f, n))
  BY <1>1, <1>2, <1>6, <1>9, <1>10, KidsGiven
<1> QED BY <1>1, <1>11

\* Stack a gives its n lowest levels that are left.
GaveLevels(z, s, a, n) ==
  /\ z \in StepType /\ z.parent = s.parent /\ z.cnt = s.cnt /\ z.bkt = s.bkt /\ z.stack = s.stack
  /\ a = "ss" => z.front.ss = s.front.ss + n /\ z.front.ms = s.front.ms
  /\ a = "ms" => z.front.ms = s.front.ms + n /\ z.front.ss = s.front.ss

\* Raising one pop_front leaves the other fields alone.
LEMMA FrontSet ==
  ASSUME NEW s \in StepType, NEW a \in {"ss", "ms"}, NEW n \in Nat,
         NEW z, z = [s EXCEPT !.front[a] = @ + n]
  PROVE  GaveLevels(z, s, a, n)
<1>1. s.front[a] + n \in Nat
  BY DEF StepType
<1>2. CASE a = "ss"
  <2>1. z.front = [ss |-> s.front.ss + n, ms |-> s.front.ms]
    BY <1>2 DEF StepType
  <2>2. z \in StepType
    BY <1>1, <1>2 DEF StepType
  <2> QED BY <1>2, <2>1, <2>2 DEF GaveLevels, StepType
<1>3. CASE a = "ms"
  <2>1. z.front = [ss |-> s.front.ss, ms |-> s.front.ms + n]
    BY <1>3 DEF StepType
  <2>2. z \in StepType
    BY <1>1, <1>3 DEF StepType
  <2> QED BY <1>3, <2>1, <2>2 DEF GaveLevels, StepType
<1> QED BY <1>2, <1>3

\* The choice of FreeWork: a sample sort level if any is left, or quicksort
\* levels.  The thread at e may go on with what is left.
FreeChoice(s, a, n) ==
  \/ a = "ss" /\ n = 1 /\ Len(s.stack.ss) - s.front.ss > 0
  \/ /\ a = "ms" /\ ~(Len(s.stack.ss) - s.front.ss > 0)
     /\ n = Least(Len(s.stack.ms) - s.front.ms, FreeLevels)
Goes(at, e) == IF at = "sscheck" THEN e \in {"ssfree", "ss"} ELSE e \in {"msfree", "ms"}

\* The levels FreeWork() gives away are the lowest of both stacks together.
LEMMA FreeOrder ==
  ASSUME inst \in Instances, NEW s \in StepType, OrderOK(s), NEW a \in {"ss", "ms"}, NEW n,
         FreeChoice(s, a, n)
  PROVE  /\ FreesLowest(s, a, n)
         /\ \A z : GaveLevels(z, s, a, n) => OrderOK(z) /\ Whole(z) = Whole(s) /\ Freed(z) = Freed(s) + n
<1>1. PICK p \in Seq(LevelType), q \in Seq(LevelType), f \in Nat, g \in Nat :
        /\ p = s.stack.ss /\ q = s.stack.ms /\ f = s.front.ss /\ g = s.front.ms
  BY DEF StepType
<1>2. /\ Whole(s) = p \o q /\ Freed(s) = f + g /\ f <= Len(p) /\ g <= Len(q)
      /\ g > 0 => f = Len(p)
  BY <1>1 DEF Whole, Freed, OrderOK
<1>3. /\ Len(p) \in Nat /\ Len(q) \in Nat /\ Len(p \o q) = Len(p) + Len(q)
      /\ \A i \in 1 .. Len(p) : (p \o q)[i] = p[i]
      /\ \A i \in 1 .. Len(q) : (p \o q)[Len(p) + i] = q[i]
  OBVIOUS
<1>4. CASE a = "ss"
  <2>1. n = 1 /\ Len(p) > f /\ g = 0
    BY <1>1, <1>2, <1>3, <1>4 DEF FreeChoice
  <2>2. f + 1 \in 1 .. Len(p)
    BY <1>3, <2>1
  <2>3. \A i \in 1 .. n : s.stack[a][s.front[a] + i] = Whole(s)[Freed(s) + i]
    <3>1. SUFFICES ASSUME NEW i \in 1 .. n
                   PROVE  s.stack[a][s.front[a] + i] = Whole(s)[Freed(s) + i]
      OBVIOUS
    <3>2. i = 1 /\ Freed(s) = f
      BY <1>2, <2>1
    <3>3. s.stack[a] = p /\ s.front[a] = f
      BY <1>1, <1>4
    <3> QED BY <1>2, <1>3, <2>2, <3>2, <3>3
  <2>4. FreesLowest(s, a, n)
    <3>1. Freed(s) + n <= Len(Whole(s)) /\ n \in Nat
      BY <1>2, <1>3, <2>1
    <3> QED BY <2>3, <3>1 DEF FreesLowest
  <2>5. ASSUME NEW z, GaveLevels(z, s, a, n)
        PROVE  OrderOK(z) /\ Whole(z) = Whole(s) /\ Freed(z) = Freed(s) + n
    <3>1. z.stack = s.stack /\ z.front.ss = f + 1 /\ z.front.ms = 0
      BY <1>1, <1>4, <2>1, <2>5 DEF GaveLevels
    <3>2. OrderOK(z)
      BY <1>1, <1>3, <2>2, <3>1 DEF OrderOK
    <3>3. Whole(z) = Whole(s) /\ Freed(z) = Freed(s) + n
      <4>1. Whole(z) = Whole(s)
        BY <3>1 DEF Whole
      <4>2. Freed(z) = f + 1 + 0
        BY <3>1 DEF Freed
      <4> QED BY <4>1, <4>2, <1>2, <2>1
    <3> QED BY <3>2, <3>3
  <2> QED BY <2>4, <2>5
<1>5. CASE a = "ms"
  <2>1. f = Len(p) /\ n = Least(Len(q) - g, FreeLevels)
    BY <1>1, <1>2, <1>3, <1>5 DEF FreeChoice
  <2>2. n \in Nat /\ g + n <= Len(q)
    <3>1. FreeLevels \in Nat
      BY SizesFacts
    <3> QED BY <1>2, <1>3, <2>1, <3>1 DEF Least
  <2>3. \A i \in 1 .. n : s.stack[a][s.front[a] + i] = Whole(s)[Freed(s) + i]
    <3>1. SUFFICES ASSUME NEW i \in 1 .. n
                   PROVE  s.stack[a][s.front[a] + i] = Whole(s)[Freed(s) + i]
      OBVIOUS
    <3>2. PICK j \in 1 .. Len(q) : j = g + i
      <4>1. g + i \in 1 .. Len(q)
        BY <1>3, <2>2
      <4> QED BY <4>1
    <3>3. Freed(s) + i = Len(p) + j
      BY <1>2, <1>3, <2>1, <2>2, <3>2
    <3>4. s.stack[a] = q /\ s.front[a] = g
      BY <1>1, <1>5
    <3> QED BY <1>2, <1>3, <3>2, <3>3, <3>4
  <2>4. FreesLowest(s, a, n)
    <3>1. Freed(s) + n <= Len(Whole(s)) /\ n \in Nat
      BY <1>2, <1>3, <2>1, <2>2
    <3> QED BY <2>3, <3>1 DEF FreesLowest
  <2>5. ASSUME NEW z, GaveLevels(z, s, a, n)
        PROVE  OrderOK(z) /\ Whole(z) = Whole(s) /\ Freed(z) = Freed(s) + n
    <3>1. z.stack = s.stack /\ z.front.ms = g + n /\ z.front.ss = f
      BY <1>1, <1>5, <2>5 DEF GaveLevels
    <3>2. OrderOK(z)
      BY <1>1, <1>2, <1>3, <2>1, <2>2, <3>1 DEF OrderOK
    <3>3. Whole(z) = Whole(s) /\ Freed(z) = Freed(s) + n
      <4>1. Whole(z) = Whole(s)
        BY <3>1 DEF Whole
      <4>2. Freed(z) = f + (g + n)
        BY <3>1 DEF Freed
      <4> QED BY <4>1, <4>2, <1>2, <2>2
    <3> QED BY <3>2, <3>3
  <2> QED BY <2>4, <2>5
<1> QED BY <1>4, <1>5

\* The thread that gave levels away may go on with its handle.
LEMMA FreeHandle ==
  ASSUME inst \in Instances, NEW s \in StepType, OrderOK(s), NEW a \in {"ss", "ms"}, NEW n \in Nat,
         FreeChoice(s, a, n), NEW at \in {"sscheck", "mscheck"}, NEW r, HandleOK(at, r, s),
         NEW z, GaveLevels(z, s, a, n), NEW e, Goes(at, e)
  PROVE  HandleOK(e, r, z)
<1>1. z.bkt = s.bkt /\ z.stack = s.stack /\ s.bkt = <<>>
  BY DEF GaveLevels, HandleOK, InSample, InMkqs
<1>2. CASE at = "sscheck"
  <2>1. SortsBySample(r) /\ s.front.ms = Len(s.stack.ms)
    BY <1>2 DEF HandleOK, InSample
  <2>2. z.front.ms = Len(z.stack.ms)
    <3>1. CASE a = "ss"
      BY <1>1, <2>1, <3>1 DEF GaveLevels
    <3>2. CASE a = "ms"
      <4>1. PICK g \in Nat : g = s.front.ms
        BY DEF StepType
      <4>2. n = Least(g - g, FreeLevels) /\ FreeLevels \in Nat \ {0}
        BY <2>1, <3>2, <4>1, SizesFacts DEF FreeChoice
      <4>3. n = 0
        BY <4>1, <4>2 DEF Least
      <4>4. z.front.ms = g + n
        BY <3>2, <4>1 DEF GaveLevels
      <4> QED BY <1>1, <2>1, <4>1, <4>3, <4>4
    <3> QED BY <3>1, <3>2
  <2>3. e \in {"ssfree", "ss"}
    BY <1>2 DEF Goes
  <2> QED BY <1>1, <2>1, <2>2, <2>3 DEF HandleOK, InSample, InMkqs
<1>3. CASE at = "mscheck"
  <2>1. e \in {"msfree", "ms"}
    BY <1>3 DEF Goes
  <2> QED BY <1>1, <1>3, <2>1 DEF HandleOK, InSample, InMkqs
<1> QED BY <1>2, <1>3

\* What FreeWork() gives away fits between the borders of the stacks.
LEMMA RangesGiven ==
  ASSUME inst \in Instances, NEW r \in StepId, NEW s \in StepType, NEW a, NEW n,
         FreesLowest(s, a, n), OrderOK(s), NestOK(Whole(s), r[1], r[2], r[3]), EndsOK(Whole(s), r),
         NEW e \in Given(Freeing(s, a, n)) \cup Ended(Freeing(s, a, n))
  PROVE  IsRange(e) /\ KidAt(e, r, Rims(Whole(s)))
<1>1. PICK S \in Seq(LevelType), f \in Nat : S = Whole(s) /\ f = Freed(s)
  <2>1. Whole(s) \in Seq(LevelType) /\ Freed(s) \in Nat
    BY WholeFacts, StackAreaFacts
  <2> QED BY <2>1
<1>2. n \in Nat /\ f + n <= Len(S) /\ \A i \in 1 .. n : s.stack[a][s.front[a] + i] = S[f + i]
  BY <1>1 DEF FreesLowest
<1>3. PICK v \in WorkOf(Freeing(s, a, n)) : e = Bucket(v[1], v[2])
  BY DEF Given, Ended
<1>4. v[1] \in Freeing(s, a, n) /\ v[2] \in 0 .. 2 /\ Waiting(v[1], v[2])
  BY DEF WorkOf, BktNum, Waiting
<1>5. PICK x \in 1 .. n : v[1] = S[f + x]
  BY <1>2, <1>4 DEF Freeing
<1>6. PICK m \in 1 .. Len(S) : m = f + x
  <2>1. f + x \in 1 .. Len(S)
    BY <1>2
  <2> QED BY <2>1
<1>7. PICK k \in 0 .. 2 : k = v[2]
  BY <1>4
<1>8. e = Bucket(S[m], k) /\ Waiting(S[m], k)
  BY <1>3, <1>4, <1>5, <1>6, <1>7
<1>9. PICK lo \in Int, hi \in Int, d \in Int : NestOK(S, lo, hi, d)
  <2>1. r[1] \in Int /\ r[2] \in Int /\ r[3] \in Int
    BY RangeFacts
  <2> QED BY <2>1, <1>1
<1>10. KidAt(e, r, Rims(S))
  <2>1. EndsOK(S, r)
    BY <1>1
  <2> QED BY <1>8, <1>9, <2>1, WaitKid
<1>11. S[m] \in LevelType /\ LevelOK(S[m])
  BY <1>9, NestFacts
<1>12. IsRange(e)
  BY <1>8, <1>11, BucketRange DEF Waiting
<1> QED BY <1>1, <1>10, <1>12

\* FreeWork: the lowest levels become children, or are finished.
LEMMA FreeWorkKeeps ==
  ASSUME IInv, NEW t \in Thread, FreeWork(t), inst' = inst
  PROVE  IInv' /\ (LInv => LInv')
<1>1. PICK r \in DOMAIN step : r = thr[t].s
  BY DEF FreeWork, AtCheck, Is
<1>2. PICK at \in {"sscheck", "mscheck"} : at = thr[t].at
  BY DEF FreeWork, AtCheck, Is
<1>3. StateOK /\ inst \in Instances /\ r \in StepId /\ thr[t].at \in AtStacks
  BY <1>2 DEF IInv, StateOK, AtStacks
<1>4. PICK s \in StepType : s = step[r]
  BY <1>3 DEF StateOK
<1>5. /\ HandleOK(at, r, s) /\ OrderOK(s) /\ NestOK(Whole(s), r[1], r[2], r[3])
      /\ Owed(r) = StackOpen(s) /\ Area(r) = StackArea(s) /\ thr[t].at \in Handling
  BY <1>1, <1>2, <1>3, <1>4, LoopFacts
<1>6. PICK a \in {"ss", "ms"} : \E n : FreeChoice(s, a, n) /\ Give(t, a, n, n)
  <2>1. Open(t, "ss") = Len(s.stack.ss) - s.front.ss /\ Open(t, "ms") = Len(s.stack.ms) - s.front.ms
    BY <1>1, <1>4 DEF Open
  <2>2. CASE Open(t, "ss") > 0
    <3>1. Give(t, "ss", 1, 1)
      BY <2>2 DEF FreeWork
    <3> QED BY <2>1, <2>2, <3>1 DEF FreeChoice
  <2>3. CASE ~(Open(t, "ss") > 0)
    <3>1. PICK n : n = Least(Open(t, "ms"), FreeLevels)
      OBVIOUS
    <3>2. Give(t, "ms", n, n)
      BY <2>3, <3>1 DEF FreeWork
    <3> QED BY <2>1, <2>3, <3>1, <3>2 DEF FreeChoice
  <2> QED BY <2>2, <2>3
<1>27. PICK n : FreeChoice(s, a, n) /\ Give(t, a, n, n)
  BY <1>6
<1>7. FreesLowest(s, a, n)
  BY <1>3, <1>5, <1>27, FreeOrder
<1>8. n \in Nat /\ Freed(s) + n <= Len(Whole(s))
  BY <1>7 DEF FreesLowest
<1>9. PICK z : z = [s EXCEPT !.front[a] = @ + n]
  OBVIOUS
<1>10. GaveLevels(z, s, a, n)
  BY <1>27, <1>8, <1>9, FrontSet
<1>11. OrderOK(z) /\ Whole(z) = Whole(s) /\ Freed(z) = Freed(s) + n
  BY <1>3, <1>5, <1>27, <1>10, FreeOrder
<1>12. PICK K : K = Given(Freeing(s, a, n))
  OBVIOUS
<1>13. PICK D : D = UNION {Cells(b) : b \in Ended(Freeing(s, a, n))}
  OBVIOUS
<1>14. PICK c : c = IF at = "sscheck" THEN "ssfree" ELSE "msfree"
  OBVIOUS
<1>15. PICK e : e = IF K = {} THEN Then[c] ELSE c
  OBVIOUS
<1>16. /\ step' = [step EXCEPT ![r] = z] /\ jobs' = jobs
       /\ Finish(Ended(Freeing(s, a, n)), {}) /\ todo' = [todo EXCEPT ![t] = K] /\ At(t, e, r)
  <2>1. step' = [step EXCEPT ![r].front[a] = @ + n] /\ jobs' = jobs
    BY <1>1, <1>27 DEF Give
  <2>2. step' = [step EXCEPT ![r] = z]
    BY <1>4, <1>9, <2>1
  <2>3. PICK u : u = step[thr[t].s]
    OBVIOUS
  <2>4. /\ Finish(Ended(Freeing(step[thr[t].s], a, n)), {})
        /\ Create(t, IF thr[t].at = "sscheck" THEN "ssfree" ELSE "msfree", thr[t].s,
                  Given(Freeing(step[thr[t].s], a, n)))
    BY <1>27, Zenon DEF Give, Ended, Given, WorkOf, Freeing
  <2>5. Finish(Ended(Freeing(s, a, n)), {}) /\ Create(t, c, r, K)
    BY <1>1, <1>2, <1>4, <1>12, <1>14, <2>4
  <2>6. todo' = [todo EXCEPT ![t] = K] /\ At(t, e, r)
    BY <1>15, <2>5 DEF Create
  <2> QED BY <2>1, <2>2, <2>5, <2>6
<1>17. KidsLeft(r, K, D, Removed(Whole(s), Freed(s), n))
  BY <1>3, <1>5, <1>7, <1>12, <1>13, KidsOfLevels
<1>18. z \in StepType /\ z.parent = step[r].parent /\ z.cnt = step[r].cnt
  BY <1>4, <1>10 DEF GaveLevels
<1>19. WorkLeft(r, z, K, D)
  <2>1. GivenFrom(Whole(s), Freed(s), n)
    <3>1. Whole(s) \in Seq(LevelType) /\ Freed(s) \in Nat
      BY <1>3, <1>5, WholeFacts, StackAreaFacts
    <3>2. r[1] \in Int /\ r[2] \in Int /\ r[3] \in Int
      BY <1>3, RangeFacts
    <3> QED BY <1>3, <1>5, <1>8, <3>1, <3>2, LevelsGiven
  <2>2. PICK R : R = Removed(Whole(s), Freed(s), n)
    OBVIOUS
  <2>3. /\ StackArea(z) \subseteq StackArea(s) /\ StackArea(z) \cap R = {}
        /\ R \subseteq StackOpen(s) /\ StackOpen(z) = StackOpen(s) \ R
    BY <1>11, <2>1, <2>2 DEF GivenFrom, StackArea, StackOpen
  <2>4. StackOpen(s) \subseteq StackArea(s)
    BY <1>3, <1>5, StackAreaFacts
  <2>5. KidsLeft(r, K, D, R)
    BY <1>17, <2>2
  <2>6. PICK U : U = UNION {Cells(x) : x \in K}
    OBVIOUS
  <2>7. D \cup U = R /\ D \cap U = {}
    BY <2>5, <2>6 DEF KidsLeft
  <2>8. \A x \in K : Inside(x, r) /\ StackArea(z) \cap Cells(x) = {} /\ Cells(x) \subseteq Area(r)
    BY <1>5, <2>3, <2>4, <2>5 DEF KidsLeft
  <2>9. \A x, y \in K : x = y \/ Apart(x, y)
    BY <2>5 DEF KidsLeft
  <2>10. StackArea(z) \subseteq Area(r) /\ D \subseteq Owed(r)
    BY <1>5, <2>3, <2>7
  <2>11. StackOpen(z) \cup U = Owed(r) \ D
    BY <1>5, <2>3, <2>7
  <2>12. OrderOK(z) /\ NestOK(Whole(z), r[1], r[2], r[3])
    BY <1>5, <1>11
  <2> QED BY <2>6, <2>8, <2>9, <2>10, <2>11, <2>12 DEF WorkLeft
<1>20. /\ c \in {"ssfree", "msfree"} /\ Then["ssfree"] = "ss" /\ Then["msfree"] = "ms"
  BY <1>14 DEF Then
<1>21. e \in Holding /\ e \in Handling /\ e \in Ats /\ (K # {} <=> e \in DOMAIN Then)
  BY <1>15, <1>20 DEF Holding, Handling, InSample, InMkqs, Ats, Then
<1>22. Goes(at, e)
  BY <1>14, <1>15, <1>20 DEF Goes
<1>23. HandleOK(e, r, z)
  BY <1>3, <1>5, <1>27, <1>8, <1>10, <1>22, FreeHandle
<1>24. Moves(t, e, r) /\ thr' \in [Thread -> [at : Ats, s : StepId \cup {NoStep}]]
  BY <1>3, <1>16, <1>21, MovesFacts DEF StateOK
<1>25. fin' = [i \in Position |-> IF i \in D THEN fin[i] + 1 ELSE fin[i]] /\ lcp' \in [Position -> Nat]
  BY <1>3, <1>13, <1>16, WriteFacts DEF Finish
<1>26. K \in SUBSET StepId
  BY <1>17 DEF KidsLeft
<1>28. IInv'
  BY <1>1, <1>5, <1>16, <1>18, <1>19, <1>21, <1>23, <1>24, <1>25, <1>26, StepWorked
<1>29. ASSUME LInv PROVE LInv'
  <2>1. PICK E : E = Ended(Freeing(s, a, n))
    OBVIOUS
  <2>2. LevelsAt(r, s)
    BY <1>4, <1>29, LiveFacts
  <2>3. s.bkt = <<>> /\ z.bkt = <<>>
    <3>1. s.bkt = <<>>
      BY <1>5 DEF HandleOK, InSample, InMkqs
    <3> QED BY <3>1, <1>10 DEF GaveLevels
  <2>4. RimsOf(s) = Rims(Whole(s)) /\ RimsOf(z) = Rims(Whole(s))
    BY <1>11, <2>3, RimsStack
  <2>5. LevelsAt(r, z)
    BY <1>11, <2>2, <2>3 DEF LevelsAt
  <2>6. \A g \in K \cup E : IsRange(g) /\ KidAt(g, r, RimsOf(z))
    <3>1. EndsOK(Whole(s), r)
      BY <2>2 DEF LevelsAt
    <3> QED BY <3>1, <1>3, <1>5, <1>7, <1>12, <2>1, <2>4, RangesGiven
  <2>7. Kids(r) = {}
    <3>1. todo[t] = {}
      BY <1>2, <1>3 DEF IInv, TodoOK, Then
    <3>2. t \in Handles(r)
      BY <1>1, <1>5, HandlesDef
    <3> QED BY <3>1, <3>2, KidsFacts DEF IInv
  <2>8. D = UNION {Cells(g) : g \in E}
    BY <1>13, <2>1
  <2>9. RimsOf(step[r]) \subseteq RimsOf(z) /\ RimsOf(z) \subseteq RimsOf(step[r]) \cup (Owed(r) \cap Inner(r))
    BY <1>4, <2>4
  <2>10. RimLeft(r, step[r], z, K, InnerOf(E))
    BY <1>18, <1>19, <1>26, <1>29, <2>5, <2>6, <2>7, <2>8, <2>9, RimsHanded
  <2>11. WroteIn(E)
    BY <1>3, <1>16, <2>1, WroteFacts
  <2> QED BY <1>1, <1>5, <1>16, <1>18, <1>21, <1>24, <1>26, <1>29, <2>10, <2>11, LcpStep DEF WroteIn
<1> QED BY <1>28, <1>29

---------------------------------------------------------------------------
(* A child is made *)

\* The children to create have a first one.
LEMMA FirstOfFacts ==
  ASSUME inst \in Instances, NEW K \in SUBSET StepId, K # {}
  PROVE  FirstOf(K) \in K
<1>1. \A c \in K : c[1] \in Nat
  BY RangeFacts
<1>2. PICK T : T = {c[1] : c \in K}
  OBVIOUS
<1>3. T \subseteq Nat /\ T # {}
  BY <1>1, <1>2
<1>4. PICK x \in T : \A y \in T : x <= y
  BY <1>3, NatLeast
<1>5. \E c \in K : \A d \in K : c[1] <= d[1]
  BY <1>2, <1>4
<1> QED BY <1>5 DEF FirstOf

\* Thread t makes the child c of its step r, which becomes z, and goes to a.
Enqueues(t, r, c, z, a) ==
  /\ r \in DOMAIN step /\ r = thr[t].s /\ c \in todo[t] /\ thr[t].at \in DOMAIN Then
  /\ z \in StepType /\ z.parent = step[r].parent /\ z.cnt = step[r].cnt + 1
  /\ z.bkt = step[r].bkt /\ z.stack = step[r].stack /\ z.front = step[r].front
  /\ DOMAIN step' = DOMAIN step \cup {c} /\ step'[c] = NewStep(c, r) /\ step'[r] = z
  /\ \A x \in DOMAIN step : x # r => step'[x] = step[x]
  /\ step' \in [DOMAIN step' -> StepType]
  /\ jobs' = jobs \cup {FirstJob(c)} /\ todo' = [todo EXCEPT ![t] = todo[t] \ {c}]
  /\ fin' = fin /\ lcp' = lcp /\ inst' = inst
  /\ a = (IF todo[t] \ {c} = {} THEN Then[thr[t].at] ELSE thr[t].at)
  /\ Moves(t, a, r) /\ thr' \in [Thread -> [at : Ats, s : StepId \cup {NoStep}]]
NewChild(t, r, c) ==
  /\ c \in StepId /\ c \notin DOMAIN step /\ Inside(c, r) /\ Cells(c) \subseteq Area(r)
  /\ Cells(c) \subseteq Owed(r) /\ Cells(c) \cap StackArea(step[r]) = {} /\ c # r
  /\ Kids(r) = todo[t] /\ step[r].cnt > 0

\* A new step has its type and no handle, job or stack yet.
LEMMA NewStepFacts ==
  ASSUME inst \in Instances, NEW c \in StepId, NEW r \in StepId \cup {NoStep}
  PROVE  /\ NewStep(c, r) \in StepType /\ NewStep(c, r).parent = r /\ NewStep(c, r).cnt = 0
         /\ NoStack(NewStep(c, r)) /\ NewStep(c, r).bkt = <<>>
         /\ FirstJob(c) \in JobType /\ FirstJob(c).s = c
         /\ FirstJob(c).type \in {"sample", "small"}
<1>1. <<>> \in Seq(LevelType)
  OBVIOUS
<1>2. NewStep(c, r) \in StepType
  BY <1>1 DEF NewStep, StepType
<1>3. FirstJob(c) \in JobType /\ FirstJob(c).s = c /\ FirstJob(c).type \in {"sample", "small"}
  BY DEF FirstJob, Job, JobType
<1> QED BY <1>2, <1>3 DEF NewStep, NoStack

\* EnqueueChild() makes a child whose range its step owes and no live step has.
LEMMA EnqueueFacts ==
  ASSUME IInv, NEW t \in Thread, EnqueueChild(t), inst' = inst
  PROVE  \E r, c, z, a : Enqueues(t, r, c, z, a) /\ NewChild(t, r, c)
<1>1. PICK r \in DOMAIN step : r = thr[t].s
  BY DEF EnqueueChild
<1>2. StateOK /\ inst \in Instances /\ r \in StepId /\ todo[t] \in SUBSET StepId
  BY DEF IInv, StateOK
<1>3. PICK s \in StepType : s = step[r]
  BY <1>2 DEF StateOK
<1>4. todo[t] # {} /\ thr[t].at \in DOMAIN Then
  BY DEF EnqueueChild
<1>5. PICK c \in todo[t] : c = FirstOf(todo[t])
  BY <1>2, <1>4, FirstOfFacts
<1>6. c \in StepId
  BY <1>2, <1>5
<1>7. PICK z : z = [s EXCEPT !.cnt = @ + 1]
  OBVIOUS
<1>8. PICK a : a = IF todo[t] \ {c} = {} THEN Then[thr[t].at] ELSE thr[t].at
  OBVIOUS
<1>9. /\ step' = Made([step EXCEPT ![r] = z], c, NewStep(c, r))
      /\ jobs' = jobs \cup {FirstJob(c)} /\ UNCHANGED <<fin, lcp>>
      /\ todo' = [todo EXCEPT ![t] = todo[t] \ {c}] /\ At(t, a, r)
  <2>1. /\ step' = Made([step EXCEPT ![r].cnt = @ + 1], c, NewStep(c, r))
        /\ jobs' = jobs \cup {FirstJob(c)} /\ UNCHANGED <<fin, lcp>>
        /\ Create(t, thr[t].at, r, todo[t] \ {c})
    BY <1>1, <1>5 DEF EnqueueChild
  <2>2. [step EXCEPT ![r].cnt = @ + 1] = [step EXCEPT ![r] = z]
    BY <1>3, <1>7
  <2> QED BY <2>1, <2>2, <1>8 DEF Create
<1>10. /\ thr[t].at \in Handling /\ thr[t].at \in Holding /\ a \in Ats
  BY <1>4, <1>8 DEF Then, Handling, InSample, InMkqs, Holding, Ats
<1>11. t \in Handles(r)
  BY <1>1, <1>10, HandlesDef
<1>12. Kids(r) = todo[t] /\ s.cnt > 0
  <2>1. Kids(r) = todo[t]
    BY <1>11, KidsFacts DEF IInv
  <2>2. step[r].cnt >= 1 /\ s.cnt \in Nat
    BY <1>1, <1>10, HolderFacts DEF StepType
  <2> QED BY <2>1, <2>2, <1>3
<1>13. Inside(c, r) /\ Cells(c) \cap StackArea(s) = {}
  BY <1>3, <1>5, <1>12, KidsInside
<1>14. Cells(c) \subseteq Area(r) /\ Cells(c) \subseteq Owed(r)
  <2>1. step[r].cnt # 0
    BY <1>3, <1>12
  <2>2. Cells(c) \subseteq UNION {Cells(d) : d \in Kids(r)}
    BY <1>5, <1>12
  <2> QED BY <2>1, <2>2 DEF Area, Owed
<1>15. c \notin DOMAIN step
  <2>1. SUFFICES ASSUME c \in DOMAIN step PROVE FALSE
    OBVIOUS
  <2>2. Area(r) \cap Cells(c) = {}
    BY <1>13, <2>1 DEF IInv, AreasApart
  <2>3. Cells(c) # {}
    BY <1>2, <1>6, RangeFacts
  <2> QED BY <1>14, <2>2, <2>3
<1>16. c # r
  BY <1>15
<1>17. z \in StepType /\ z.parent = s.parent /\ z.cnt = s.cnt + 1
       /\ z.bkt = s.bkt /\ z.stack = s.stack /\ z.front = s.front
  <2>1. s.cnt + 1 \in Nat
    BY DEF StepType
  <2> QED BY <1>7, <2>1 DEF StepType
<1>18. NewStep(c, r) \in StepType
  BY <1>2, <1>6, NewStepFacts
<1>19. /\ DOMAIN step' = DOMAIN step \cup {c} /\ step'[c] = NewStep(c, r) /\ step'[r] = z
       /\ \A x \in DOMAIN step : x # r => step'[x] = step[x]
  <2>1. PICK Y : Y = [step EXCEPT ![r] = z]
    OBVIOUS
  <2>2. DOMAIN Y = DOMAIN step /\ Y[r] = z /\ \A x \in DOMAIN step : x # r => Y[x] = step[x]
    <3>1. step = [x \in DOMAIN step |-> step[x]]
      BY <1>2 DEF StateOK
    <3> QED BY <2>1, <3>1
  <2>3. step' = [x \in DOMAIN Y \cup {c} |-> IF x = c THEN NewStep(c, r) ELSE Y[x]]
    BY <1>9, <2>1 DEF Made
  <2>4. DOMAIN step' = DOMAIN step \cup {c}
    BY <2>2, <2>3
  <2>5. step'[c] = NewStep(c, r)
    BY <2>3
  <2>6. \A x \in DOMAIN step : step'[x] = Y[x]
    BY <1>15, <2>2, <2>3
  <2> QED BY <2>2, <2>4, <2>5, <2>6
<1>20. step' \in [DOMAIN step' -> StepType]
  <2>1. \A x \in DOMAIN step' : step'[x] \in StepType
    BY <1>2, <1>17, <1>18, <1>19 DEF StateOK
  <2>2. step' = [x \in DOMAIN step' |-> step'[x]]
    BY <1>9 DEF Made
  <2> QED BY <2>1, <2>2
<1>21. Moves(t, a, r) /\ thr' \in [Thread -> [at : Ats, s : StepId \cup {NoStep}]]
  BY <1>2, <1>9, <1>10, MovesFacts DEF StateOK
<1>22. NewChild(t, r, c)
  BY <1>3, <1>6, <1>12, <1>13, <1>14, <1>15, <1>16 DEF NewChild
<1>23. Enqueues(t, r, c, z, a)
  BY <1>1, <1>3, <1>4, <1>8, <1>9, <1>17, <1>19, <1>20, <1>21 DEF Enqueues
<1> QED BY <1>22, <1>23

\* Nobody moves to another step, and the child has only its first job.
ChildSets(t, r, c, a) ==
  /\ a \in Holding /\ a \notin Opening /\ t \in Handles(r) /\ thr[t].at \in Handling
  /\ \A x : Holders(x)' = Holders(x) /\ Openers(x)' = Openers(x) /\ t \notin Openers(x)
  /\ \A x : Handles(x)' = IF x = r /\ a \notin Handling THEN Handles(x) \ {t} ELSE Handles(x)
  /\ Holders(c) = {} /\ Openers(c) = {} /\ Handles(c) = {}
  /\ \A x : x # c => Queued(x)' = Queued(x)
  /\ Queued(c)' = {FirstJob(c)}

\* The same, from the action.
LEMMA ChildSetsFacts ==
  ASSUME IInv, NEW t \in Thread, NEW r, NEW c, NEW z, NEW a, Enqueues(t, r, c, z, a), NewChild(t, r, c)
  PROVE  ChildSets(t, r, c, a)
<1>1. /\ r \in DOMAIN step /\ r = thr[t].s /\ thr[t].at \in DOMAIN Then /\ Moves(t, a, r)
      /\ a = (IF todo[t] \ {c} = {} THEN Then[thr[t].at] ELSE thr[t].at)
      /\ jobs' = jobs \cup {FirstJob(c)}
  BY DEF Enqueues
<1>2. c \notin DOMAIN step /\ c \in StepId
  BY DEF NewChild
<1>3. inst \in Instances /\ r \in StepId
  BY <1>1 DEF IInv, StateOK
<1>4. /\ a \in Holding /\ a \notin Opening /\ thr[t].at \in Handling
      /\ thr[t].at \in Holding /\ thr[t].at \notin Opening
  BY <1>1 DEF Then, Holding, Opening, Handling, InSample, InMkqs
<1>5. t \in Handles(r)
  BY <1>1, <1>4, MovedSets
<1>6. \A x : Holders(x)' = Holders(x) /\ Openers(x)' = Openers(x) /\ t \notin Openers(x)
  <2>1. SUFFICES ASSUME NEW x
                 PROVE  Holders(x)' = Holders(x) /\ Openers(x)' = Openers(x) /\ t \notin Openers(x)
    OBVIOUS
  <2>2. t \notin Openers(x) /\ Openers(x)' = Openers(x) \ {t}
    BY <1>1, <1>4, MovedSets
  <2>3. Openers(x)' = Openers(x)
    BY <2>2
  <2>4. Holders(x)' = Holders(x)
    <3>1. CASE x = r
      <4>1. Holders(x)' = Holders(x) \cup {t} /\ t \in Holders(x)
        BY <1>1, <1>4, <3>1, MovedSets
      <4> QED BY <4>1
    <3>2. CASE x # r
      <4>1. Holders(x)' = Holders(x) \ {t} /\ t \notin Holders(x)
        BY <1>1, <1>4, <3>2, MovedSets
      <4> QED BY <4>1
    <3> QED BY <3>1, <3>2
  <2> QED BY <2>2, <2>3, <2>4
<1>7. \A x : Handles(x)' = IF x = r /\ a \notin Handling THEN Handles(x) \ {t} ELSE Handles(x)
  <2>1. SUFFICES ASSUME NEW x
        PROVE  Handles(x)' = IF x = r /\ a \notin Handling THEN Handles(x) \ {t} ELSE Handles(x)
    OBVIOUS
  <2>2. CASE x # r
    <3>1. Handles(x)' = Handles(x) \ {t} /\ t \notin Handles(x)
      BY <1>1, <2>2, MovedSets
    <3> QED BY <2>2, <3>1
  <2>3. CASE x = r /\ a \in Handling
    <3>1. Handles(x)' = Handles(x) \cup {t} /\ t \in Handles(x)
      BY <1>1, <1>4, <2>3, MovedSets
    <3> QED BY <2>3, <3>1
  <2>4. CASE x = r /\ a \notin Handling
    BY <1>1, <2>4, MovedSets
  <2> QED BY <2>2, <2>3, <2>4
<1>8. Holders(c) = {} /\ Openers(c) = {} /\ Handles(c) = {}
  <2>1. \A u \in Thread : thr[u].at \in Holding \cup Opening => thr[u].s # c
    BY <1>2 DEF IInv, NoDangling, Holding, Handling, InSample, InMkqs, Opening
  <2>2. Handles(c) \subseteq Holders(c)
    BY HoldersFacts
  <2>3. Holders(c) = {} /\ Openers(c) = {}
    BY <2>1 DEF Holders, Openers
  <2> QED BY <2>2, <2>3
<1>9. FirstJob(c).s = c
  BY <1>2, <1>3, NewStepFacts
<1>10. \A j \in jobs : j.s # c
  BY <1>2 DEF IInv, NoDangling
<1>11. \A x : x # c => Queued(x)' = Queued(x)
  BY <1>1, <1>9 DEF Queued
<1>12. Queued(c)' = {FirstJob(c)}
  BY <1>1, <1>9, <1>10 DEF Queued
<1> QED BY <1>4, <1>5, <1>6, <1>7, <1>8, <1>11, <1>12 DEF ChildSets

\* The types of the new state; nothing dangles.
LEMMA EnqueueTyped ==
  ASSUME IInv, NEW t \in Thread, NEW r, NEW c, NEW z, NEW a, Enqueues(t, r, c, z, a), NewChild(t, r, c)
  PROVE  StateOK' /\ NoDangling'
<1>1. /\ r \in DOMAIN step /\ r = thr[t].s /\ z \in StepType /\ z.parent = step[r].parent
      /\ DOMAIN step' = DOMAIN step \cup {c} /\ step'[c] = NewStep(c, r) /\ step'[r] = z
      /\ \A x \in DOMAIN step : x # r => step'[x] = step[x]
      /\ step' \in [DOMAIN step' -> StepType]
      /\ jobs' = jobs \cup {FirstJob(c)} /\ todo' = [todo EXCEPT ![t] = todo[t] \ {c}]
      /\ fin' = fin /\ lcp' = lcp /\ inst' = inst /\ Moves(t, a, r)
      /\ thr' \in [Thread -> [at : Ats, s : StepId \cup {NoStep}]]
  BY DEF Enqueues
<1>2. c \notin DOMAIN step /\ c \in StepId
  BY DEF NewChild
<1>3. StateOK /\ inst \in Instances /\ r \in StepId
  BY <1>1 DEF IInv, StateOK
<1>4. NewStep(c, r).parent = r /\ FirstJob(c) \in JobType /\ FirstJob(c).s = c
  BY <1>2, <1>3, NewStepFacts
<1>5. DOMAIN step' \subseteq StepId /\ IsFiniteSet(DOMAIN step')
  <2>1. IsFiniteSet(DOMAIN step) /\ DOMAIN step \subseteq StepId
    BY <1>3 DEF StateOK
  <2>2. IsFiniteSet(DOMAIN step \cup {c})
    BY <2>1, FS_AddElement
  <2> QED BY <1>1, <1>2, <2>1, <2>2
<1>6. jobs' \subseteq JobType /\ IsFiniteSet(jobs')
  <2>1. jobs \subseteq JobType /\ IsFiniteSet(jobs)
    BY <1>3 DEF StateOK
  <2>2. IsFiniteSet(jobs \cup {FirstJob(c)})
    BY <2>1, FS_AddElement
  <2> QED BY <1>1, <1>4, <2>1, <2>2
<1>7. todo' \in [Thread -> SUBSET StepId]
  BY <1>1, <1>3 DEF StateOK
<1>8. fin' \in [Position -> Nat] /\ lcp' \in [Position -> Nat]
  BY <1>1, <1>3 DEF StateOK
<1>9. StateOK'
  BY <1>1, <1>3, <1>5, <1>6, <1>7, <1>8, StateOKNext
<1>10. \A j \in jobs' : j.s \in DOMAIN step'
  BY <1>1, <1>4 DEF IInv, NoDangling
<1>11. ASSUME NEW u \in Thread, thr'[u].at \notin {"idle", "reread"}
       PROVE  thr'[u].s \in DOMAIN step'
  <2>1. CASE u = t
    BY <1>1, <2>1 DEF Moves
  <2>2. CASE u # t
    BY <1>1, <1>11, <2>2 DEF Moves, IInv, NoDangling
  <2> QED BY <2>1, <2>2
<1>12. ASSUME NEW x \in DOMAIN step' PROVE step'[x].parent \in DOMAIN step' \cup {NoStep}
  <2>1. CASE x = c
    BY <1>1, <1>4, <2>1
  <2>2. CASE x # c
    <3>1. x \in DOMAIN step /\ step'[x].parent = step[x].parent
      BY <1>1, <2>2
    <3> QED BY <1>1, <3>1 DEF IInv, NoDangling
  <2> QED BY <2>1, <2>2
<1>13. NoDangling'
  BY <1>10, <1>11, <1>12 DEF NoDangling
<1> QED BY <1>9, <1>13

\* substep_add() counts the child.
LEMMA EnqueueCounted ==
  ASSUME IInv, NEW t \in Thread, NEW r, NEW c, NEW z, NEW a, Enqueues(t, r, c, z, a), NewChild(t, r, c)
  PROVE  AllCounted'
<1>1. /\ r \in DOMAIN step /\ z.parent = step[r].parent /\ z.cnt = step[r].cnt + 1
      /\ DOMAIN step' = DOMAIN step \cup {c} /\ step'[c] = NewStep(c, r) /\ step'[r] = z
      /\ \A x \in DOMAIN step : x # r => step'[x] = step[x]
  BY DEF Enqueues
<1>2. c \notin DOMAIN step /\ c \in StepId /\ c # r
  BY DEF NewChild
<1>3. StateOK /\ inst \in Instances /\ r \in StepId
  BY <1>1 DEF IInv, StateOK
<1>4. NewStep(c, r).parent = r /\ NewStep(c, r).cnt = 0
  BY <1>2, <1>3, NewStepFacts
<1>5. Holders(c) = {} /\ \A x : Holders(x)' = Holders(x)
  BY ChildSetsFacts DEF ChildSets
<1>6. \A x : Children(x)' = IF x = r THEN Children(x) \cup {c} ELSE Children(x)
  BY <1>1, <1>2, <1>4 DEF Children
<1>7. Children(c) = {}
  <2>1. c # NoStep
    BY <1>2, <1>3, RangeFacts
  <2> QED BY <1>2, <2>1 DEF Children, IInv, NoDangling
<1>8. Cardinality({}) = 0
  BY FS_EmptySet
<1>9. Counted(c)'
  BY <1>1, <1>2, <1>4, <1>5, <1>6, <1>7, <1>8 DEF Counted
<1>10. Counted(r)'
  <2>1. Children(r) \subseteq DOMAIN step /\ IsFiniteSet(DOMAIN step) /\ c \notin Children(r)
    BY <1>2, <1>3 DEF Children, StateOK
  <2>2. IsFiniteSet(Children(r)) /\ Cardinality(Children(r)) \in Nat
    BY <2>1, FS_Subset, FS_CardinalityType
  <2>3. Cardinality(Children(r) \cup {c}) = Cardinality(Children(r)) + 1
    BY <2>1, <2>2, FS_AddElement
  <2>4. Cardinality(Holders(r)) \in Nat
    BY HoldersFacts, FS_CardinalityType
  <2>5. step[r].cnt = Cardinality(Children(r)) + Cardinality(Holders(r))
    BY <1>1 DEF IInv, AllCounted, Counted
  <2>6. step'[r].cnt = Cardinality(Children(r) \cup {c}) + Cardinality(Holders(r))
    BY <1>1, <2>2, <2>3, <2>4, <2>5
  <2> QED BY <1>5, <1>6, <2>6 DEF Counted
<1>11. \A x \in DOMAIN step : x # r => Counted(x)'
  BY <1>1, <1>5, <1>6 DEF IInv, AllCounted, Counted
<1> QED BY <1>1, <1>9, <1>10, <1>11 DEF AllCounted

\* The child starts at its first stage; its parent has left its stages.
LEMMA EnqueueStaged ==
  ASSUME IInv, NEW t \in Thread, NEW r, NEW c, NEW z, NEW a, Enqueues(t, r, c, z, a), NewChild(t, r, c)
  PROVE  StagesOK' /\ StacksOK'
<1>1. /\ r \in DOMAIN step /\ z \in StepType /\ z.cnt = step[r].cnt + 1
      /\ z.stack = step[r].stack /\ z.front = step[r].front
      /\ DOMAIN step' = DOMAIN step \cup {c} /\ step'[c] = NewStep(c, r) /\ step'[r] = z
      /\ \A x \in DOMAIN step : x # r => step'[x] = step[x]
      /\ inst' = inst /\ Moves(t, a, r)
  BY DEF Enqueues
<1>2. c \notin DOMAIN step /\ c \in StepId /\ c # r /\ step[r].cnt > 0
  BY DEF NewChild
<1>3. StateOK /\ inst \in Instances /\ r \in StepId
  BY <1>1 DEF IInv, StateOK
<1>4. /\ NewStep(c, r) \in StepType /\ NewStep(c, r).cnt = 0 /\ NoStack(NewStep(c, r))
      /\ NewStep(c, r).bkt = <<>> /\ FirstJob(c).type \in {"sample", "small"}
  BY <1>2, <1>3, NewStepFacts
<1>5. ChildSets(t, r, c, a)
  BY ChildSetsFacts
<1>6. StageOK(c)'
  <2>1. PICK b \in {"sample", "small"} : b = FirstJob(c).type
    BY <1>4
  <2>2. Queued(c)' = {FirstJob(c)} /\ Openers(c)' = {}
    BY <1>5 DEF ChildSets
  <2>3. Weight(b, step'[c]) = 1 /\ b \in Opening /\ b \notin {"dist", "distfin"}
    BY <2>1 DEF Weight, Opening
  <2>4. Cardinality({FirstJob(c)}) = 1 /\ Cardinality({}) = 0
    BY FS_EmptySet, FS_Singleton
  <2>5. Cardinality(Queued(c)') + Cardinality(Openers(c)') = 1
    BY <2>2, <2>4
  <2>6. NoStack(step'[c]) /\ step'[c].bkt = <<>> /\ step'[c].cnt = 0
    BY <1>1, <1>4
  <2>7. /\ \A j \in Queued(c)' : j.type = b
        /\ \A u \in Openers(c)' : thr'[u].at = b
    BY <2>1, <2>2
  <2>8. Weight(b, step[c])' = 1 /\ NoStack(step[c])'
    BY <2>3, <2>6 DEF Weight, NoStack
  <2>9. Stage(c, b)'
    BY <2>3, <2>5, <2>6, <2>7, <2>8 DEF Stage
  <2> QED BY <2>3, <2>6, <2>9 DEF StageOK
<1>7. StageOK(r)'
  <2>1. Queued(r)' = {} /\ Openers(r)' = {}
    <3>1. step[r].cnt # 0
      BY <1>2
    <3>2. Queued(r) = {} /\ Openers(r) = {}
      BY <1>1, <3>1 DEF IInv, StagesOK, StageOK
    <3> QED BY <1>2, <1>5, <3>2 DEF ChildSets
  <2>2. step'[r].cnt # 0
    <3>1. step[r].cnt \in Nat
      BY <1>1, <1>3 DEF StateOK, StepType
    <3> QED BY <1>1, <3>1
  <2> QED BY <2>1, <2>2 DEF StageOK
<1>8. ASSUME NEW x \in DOMAIN step, x # r PROVE StageOK(x)'
  <2>1. step'[x] = step[x] /\ x # c
    BY <1>1, <1>2, <1>8
  <2>2. /\ Queued(x)' = Queued(x) /\ Openers(x)' = Openers(x) /\ t \notin Openers(x)
        /\ a \notin Opening
    BY <1>5, <2>1 DEF ChildSets
  <2>3. StageOK(x)
    BY DEF IInv, StagesOK
  <2> QED BY <1>1, <2>1, <2>2, <2>3, StageKept
<1>9. StagesOK'
  BY <1>1, <1>6, <1>7, <1>8 DEF StagesOK
<1>10. ASSUME NEW x \in DOMAIN step PROVE OrderOK(step'[x]) /\ NestOK(Whole(step'[x]), x[1], x[2], x[3])
  <2>1. OrderOK(step[x]) /\ NestOK(Whole(step[x]), x[1], x[2], x[3])
    BY DEF IInv, StacksOK, StackOK
  <2>2. step'[x].stack = step[x].stack /\ step'[x].front = step[x].front
    BY <1>1
  <2>3. Whole(step'[x]) = Whole(step[x]) /\ OrderOK(step'[x])
    BY <2>1, <2>2 DEF Whole, OrderOK
  <2> QED BY <2>1, <2>3
<1>11. OrderOK(step'[c]) /\ NestOK(Whole(step'[c]), c[1], c[2], c[3])
  BY <1>1, <1>2, <1>3, <1>4, NoStackFacts
<1>12. \A x \in DOMAIN step' : StackOK(x)'
  <2>1. \A x \in DOMAIN step' : OrderOK(step'[x]) /\ NestOK(Whole(step'[x]), x[1], x[2], x[3])
    BY <1>1, <1>10, <1>11
  <2> QED BY <1>1, <2>1, StackOKNext
<1>13. StacksOK'
  BY <1>12 DEF StacksOK
<1> QED BY <1>9, <1>13

\* The thread keeps its handle until it has made all children.
LEMMA EnqueueHandled ==
  ASSUME IInv, NEW t \in Thread, NEW r, NEW c, NEW z, NEW a, Enqueues(t, r, c, z, a), NewChild(t, r, c)
  PROVE  HandlesOK'
<1>1. /\ r \in DOMAIN step /\ r = thr[t].s /\ z \in StepType /\ z.bkt = step[r].bkt
      /\ z.stack = step[r].stack /\ z.front = step[r].front
      /\ DOMAIN step' = DOMAIN step \cup {c} /\ step'[c] = NewStep(c, r) /\ step'[r] = z
      /\ \A x \in DOMAIN step : x # r => step'[x] = step[x]
      /\ inst' = inst /\ Moves(t, a, r) /\ thr[t].at \in DOMAIN Then
      /\ a = (IF todo[t] \ {c} = {} THEN Then[thr[t].at] ELSE thr[t].at)
  BY DEF Enqueues
<1>2. c \notin DOMAIN step /\ c \in StepId /\ c # r
  BY DEF NewChild
<1>3. StateOK /\ inst \in Instances /\ r \in StepId
  BY <1>1 DEF IInv, StateOK
<1>4. NewStep(c, r) \in StepType /\ NoStack(NewStep(c, r))
  BY <1>2, <1>3, NewStepFacts
<1>5. /\ t \in Handles(r) /\ thr[t].at \in Handling /\ Handles(c) = {}
      /\ \A x : Handles(x)' = IF x = r /\ a \notin Handling THEN Handles(x) \ {t} ELSE Handles(x)
  BY ChildSetsFacts DEF ChildSets
<1>6. PICK s : s = step[r]
  OBVIOUS
<1>7. HandleOK(thr[t].at, r, s)
  BY <1>1, <1>5, <1>6 DEF IInv, HandlesOK
<1>8. a \in Handling => HandleOK(a, r, z)
  <2>1. a \in Handling => \/ a = thr[t].at
                          \/ a = "ss" /\ thr[t].at = "ssfree"
                          \/ a = "ms" /\ thr[t].at = "msfree"
    BY <1>1 DEF Then, Handling, InSample, InMkqs
  <2>2. z.bkt = s.bkt /\ z.stack = s.stack /\ z.front = s.front
    BY <1>1, <1>6
  <2>3. HandleOK(thr[t].at, r, z)
    BY <1>7, <2>2 DEF HandleOK, NoStack
  <2>4. a = "ss" /\ thr[t].at = "ssfree" => HandleOK(a, r, z)
    BY <2>3 DEF HandleOK, InSample, InMkqs
  <2>5. a = "ms" /\ thr[t].at = "msfree" => HandleOK(a, r, z)
    BY <2>3 DEF HandleOK, InSample, InMkqs
  <2> QED BY <2>1, <2>3, <2>4, <2>5
<1>9. a \notin Handling => Len(Whole(z)) = Freed(z)
  <2>1. a \notin Handling => thr[t].at = "split"
    BY <1>1 DEF Then, Handling, InSample, InMkqs
  <2>2. thr[t].at = "split" => NoStack(z)
    BY <1>1, <1>6, <1>7 DEF HandleOK, NoStack
  <2>3. NoStack(z) => Len(Whole(z)) = 0 /\ Freed(z) = 0
    BY <1>1, <1>3, NoStackFacts
  <2> QED BY <2>1, <2>2, <2>3
<1>10. Len(Whole(step'[c])) = 0 /\ Freed(step'[c]) = 0
  BY <1>1, <1>2, <1>3, <1>4, NoStackFacts
<1>11. \A x \in DOMAIN step' : \A u, v \in Handles(x)' : u = v
  BY <1>1, <1>5 DEF IInv, HandlesOK
<1>12. ASSUME NEW u \in Thread, thr'[u].at \in Handling
       PROVE  HandleOK(thr'[u].at, thr'[u].s, step'[thr'[u].s])
  <2>1. CASE u = t
    BY <1>1, <1>8, <1>12, <2>1 DEF Moves
  <2>2. CASE u # t
    <3>1. thr'[u] = thr[u] /\ thr[u].at \in Handling
      BY <1>1, <1>12, <2>2 DEF Moves
    <3>2. HandleOK(thr[u].at, thr[u].s, step[thr[u].s])
      BY <3>1 DEF IInv, HandlesOK
    <3>3. thr[u].s \in DOMAIN step
      BY <3>1, HolderFacts DEF Holding
    <3>4. thr[u].s # r
      <4>1. thr[u].s = r => u \in Handles(r)
        BY <3>1, HandlesDef
      <4> QED BY <1>1, <1>5, <2>2, <4>1 DEF IInv, HandlesOK
    <3> QED BY <1>1, <3>1, <3>2, <3>3, <3>4
  <2> QED BY <2>1, <2>2
<1>13. ASSUME NEW u \in Thread, thr'[u].at \in Handling
       PROVE  HandleOK(thr[u].at, thr[u].s, step[thr[u].s])'
  BY <1>1, <1>12, <1>13, StackOKNext
<1>14. ASSUME NEW x \in DOMAIN step', Handles(x)' = {}
       PROVE  Len(Whole(step'[x])) = Freed(step'[x])
  <2>1. CASE x = c
    BY <1>10, <2>1
  <2>2. CASE x = r
    <3>1. a \notin Handling
      BY <1>5, <1>14, <2>2
    <3> QED BY <1>1, <1>9, <2>2, <3>1
  <2>3. CASE x # c /\ x # r
    <3>1. x \in DOMAIN step /\ step'[x] = step[x] /\ Handles(x) = {}
      BY <1>1, <1>5, <1>14, <2>3
    <3> QED BY <3>1 DEF IInv, HandlesOK
  <2> QED BY <2>1, <2>2, <2>3
<1>15. \A x : Whole(step[x])' = Whole(step'[x]) /\ Freed(step[x])' = Freed(step'[x])
  BY DEF Whole, Freed
<1> QED BY <1>11, <1>13, <1>14, <1>15 DEF HandlesOK

\* The child among the live steps: in its parent, in whatever its parent is
\* in, and apart from the rest.
LEMMA ChildPlace ==
  ASSUME IInv, NEW t \in Thread, NEW r \in DOMAIN step, NEW c, NewChild(t, r, c), NEW y \in DOMAIN step
  PROVE  /\ y = r \/ Inside(r, y) \/ Apart(c, y)
         /\ Inside(r, y) => Inside(c, y)
         /\ ~Inside(y, c)
         /\ Apart(c, y) => Apart(y, c) /\ ~Inside(c, y)
<1>1. c \in StepId /\ Inside(c, r) /\ Cells(c) \subseteq Area(r)
  BY DEF NewChild
<1>2. inst \in Instances /\ r \in StepId /\ y \in StepId
  BY DEF IInv, StateOK
<1>3. r = y \/ Apart(r, y) \/ Inside(r, y) \/ Inside(y, r)
  BY DEF IInv, TreeOK
<1>4. Inside(y, r) => Area(r) \cap Cells(y) = {}
  BY DEF IInv, AreasApart
<1>5. Inside(y, r) => Apart(c, y)
  <2>1. Inside(y, r) => Cells(c) \cap Cells(y) = {}
    BY <1>1, <1>4
  <2> QED BY <2>1, <1>1, <1>2, ApartCells
<1>6. /\ Inside(r, y) => Inside(c, y)
      /\ Apart(r, y) => Apart(c, y)
  BY <1>1, <1>2, InsideFacts
<1>7. ~Inside(y, c)
  <2>1. SUFFICES ASSUME Inside(y, c) PROVE FALSE
    OBVIOUS
  <2>2. Cells(y) \subseteq Cells(c) /\ Inside(y, r)
    BY <1>1, <1>2, <2>1, InsideFacts
  <2>3. Cells(y) # {}
    BY <1>2, RangeFacts
  <2> QED BY <1>1, <1>4, <2>2, <2>3
<1>8. Apart(c, y) => Apart(y, c) /\ ~Inside(c, y)
  <2>1. Apart(c, y) => Apart(y, c)
    BY <1>1, <1>2, ApartCells
  <2>2. Inside(c, y) => ~Apart(c, y)
    BY <1>1, <1>2, InsideFacts
  <2> QED BY <2>1, <2>2
<1> QED BY <1>3, <1>5, <1>6, <1>7, <1>8

\* What the parent owes and works on goes to the child for its range.
AreaMoved(r, c) ==
  /\ Area(r)' \subseteq Area(r) /\ Area(r)' \cap Cells(c) = {} /\ Owed(r)' \cup Cells(c) = Owed(r)
  /\ Area(c)' = Cells(c) /\ Owed(c)' = Cells(c)
  /\ \A x \in DOMAIN step : x # r => Area(x)' = Area(x) /\ Owed(x)' = Owed(x)
  /\ \A x \in DOMAIN step : StackArea(step[x])' = StackArea(step[x])
  /\ Kids(r)' = Kids(r) \ {c} /\ \A x : x # r => Kids(x)' = Kids(x)

\* The same, from the action.
LEMMA AreaMovedFacts ==
  ASSUME IInv, NEW t \in Thread, NEW r, NEW c, NEW z, NEW a, Enqueues(t, r, c, z, a), NewChild(t, r, c)
  PROVE  AreaMoved(r, c)
<1>1. /\ r \in DOMAIN step /\ r = thr[t].s /\ c \in todo[t] /\ z.cnt = step[r].cnt + 1
      /\ z.stack = step[r].stack /\ z.front = step[r].front
      /\ DOMAIN step' = DOMAIN step \cup {c} /\ step'[c] = NewStep(c, r) /\ step'[r] = z
      /\ \A x \in DOMAIN step : x # r => step'[x] = step[x]
      /\ inst' = inst /\ Moves(t, a, r) /\ todo' = [todo EXCEPT ![t] = todo[t] \ {c}]
  BY DEF Enqueues
<1>2. /\ c \notin DOMAIN step /\ c \in StepId /\ c # r /\ Kids(r) = todo[t] /\ step[r].cnt > 0
      /\ Cells(c) \cap StackArea(step[r]) = {}
  BY DEF NewChild
<1>3. StateOK /\ inst \in Instances /\ r \in StepId /\ todo \in [Thread -> SUBSET StepId]
  BY <1>1 DEF IInv, StateOK
<1>4. NewStep(c, r).cnt = 0
  BY <1>2, <1>3, NewStepFacts
<1>5. /\ \A x : Kids(x)' = UNION {todo'[u] : u \in {v \in Thread : thr'[v].s = x}}
      /\ \A x : StackArea(step[x])' = StackArea(step'[x]) /\ StackOpen(step[x])' = StackOpen(step'[x])
      /\ \A x : Cells(x)' = Cells(x)
  BY DEF Kids, StackArea, StackOpen, LevelsArea, LevelsOpen, Whole, Freed, NextLo, Cells
<1>6. \A u \in Thread : thr'[u].s = thr[u].s /\ (u # t => todo'[u] = todo[u])
  BY <1>1, <1>3 DEF Moves
<1>7. \A x : x # r => Kids(x)' = Kids(x)
  <2>1. SUFFICES ASSUME NEW x, x # r PROVE Kids(x)' = Kids(x)
    OBVIOUS
  <2>2. \A u \in Thread : thr[u].s = x => todo'[u] = todo[u]
    BY <1>1, <1>6, <2>1
  <2> QED BY <1>5, <1>6, <2>2 DEF Kids
<1>8. \A u \in Thread : u # t /\ thr[u].s = r => todo[u] = {}
  <2>1. SUFFICES ASSUME NEW u \in Thread, u # t, thr[u].s = r, todo[u] # {} PROVE FALSE
    OBVIOUS
  <2>2. thr[u].at \in DOMAIN Then
    BY <2>1 DEF IInv, TodoOK
  <2>3. thr[u].at \in Handling
    BY <2>2 DEF Then, Handling, InSample, InMkqs
  <2>4. u \in Handles(r) /\ t \in Handles(r)
    <3>1. t \in Handles(r)
      BY ChildSetsFacts DEF ChildSets
    <3> QED BY <2>1, <2>3, <3>1, HandlesDef
  <2> QED BY <1>1, <2>1, <2>4 DEF IInv, HandlesOK
<1>9. Kids(r)' = Kids(r) \ {c}
  <2>1. todo'[t] = todo[t] \ {c}
    BY <1>1, <1>3
  <2>2. \A u \in Thread : u # t /\ thr[u].s = r => todo'[u] = {}
    BY <1>6, <1>8
  <2>3. t \in {v \in Thread : thr'[v].s = r}
    BY <1>1, <1>6
  <2>4. \A u \in {v \in Thread : thr'[v].s = r} : u = t \/ todo'[u] = {}
    BY <1>6, <2>2
  <2>5. UNION {todo'[u] : u \in {v \in Thread : thr'[v].s = r}} = todo'[t]
    BY <2>3, <2>4
  <2>6. Kids(r)' = todo'[t]
    BY <1>5, <2>5
  <2> QED BY <1>2, <2>1, <2>6
<1>10. \A x \in DOMAIN step : StackArea(step'[x]) = StackArea(step[x])
                              /\ StackOpen(step'[x]) = StackOpen(step[x])
  <2>1. \A x \in DOMAIN step : step'[x].stack = step[x].stack /\ step'[x].front = step[x].front
    BY <1>1
  <2> QED BY <2>1 DEF StackArea, StackOpen, Whole, Freed
<1>11. PICK U : U = UNION {Cells(d) : d \in Kids(r) \ {c}}
  OBVIOUS
<1>12. U \cap Cells(c) = {} /\ U \cup Cells(c) = UNION {Cells(d) : d \in Kids(r)}
  <2>1. \A d \in todo[t] : d = c \/ Apart(d, c)
    BY <1>1 DEF IInv, TodoOK
  <2>2. \A d \in todo[t] : d # c => Cells(d) \cap Cells(c) = {}
    BY <1>2, <1>3, <2>1, ApartCells
  <2> QED BY <1>1, <1>2, <1>11, <2>2
<1>13. step[r].cnt # 0 /\ step'[r].cnt # 0
  <2>1. step[r].cnt \in Nat
    BY <1>1, <1>3 DEF StateOK, StepType
  <2> QED BY <1>1, <1>2, <2>1
<1>14. /\ Area(r) = StackArea(step[r]) \cup UNION {Cells(d) : d \in Kids(r)}
       /\ Owed(r) = StackOpen(step[r]) \cup UNION {Cells(d) : d \in Kids(r)}
  BY <1>13 DEF Area, Owed
<1>15. /\ Area(r)' = StackArea(step'[r]) \cup U
       /\ Owed(r)' = StackOpen(step'[r]) \cup U
  <2>1. UNION {Cells(d) : d \in Kids(r)}' = U
    BY <1>5, <1>9, <1>11
  <2>2. step[r]'.cnt # 0
    BY <1>13
  <2> QED BY <1>5, <2>1, <2>2 DEF Area, Owed
<1>16. Area(c)' = Cells(c) /\ Owed(c)' = Cells(c)
  BY <1>1, <1>4, <1>5 DEF Area, Owed
<1>17. ASSUME NEW x \in DOMAIN step, x # r PROVE Area(x)' = Area(x) /\ Owed(x)' = Owed(x)
  <2>1. step'[x] = step[x] /\ Kids(x)' = Kids(x)
    BY <1>1, <1>7, <1>17
  <2> QED BY <1>5, <2>1 DEF Area, Owed
<1>18. Area(r)' \subseteq Area(r) /\ Area(r)' \cap Cells(c) = {} /\ Owed(r)' \cup Cells(c) = Owed(r)
  BY <1>1, <1>2, <1>10, <1>12, <1>14, <1>15
<1>19. \A x \in DOMAIN step : StackArea(step[x])' = StackArea(step[x])
  BY <1>5, <1>10
<1> QED BY <1>7, <1>9, <1>16, <1>17, <1>18, <1>19 DEF AreaMoved

\* The tree of steps with the child.
LEMMA EnqueueTree ==
  ASSUME IInv, NEW t \in Thread, NEW r, NEW c, NEW z, NEW a, Enqueues(t, r, c, z, a), NewChild(t, r, c)
  PROVE  TreeOK' /\ AreasApart'
<1>1. /\ r \in DOMAIN step /\ z.parent = step[r].parent
      /\ DOMAIN step' = DOMAIN step \cup {c} /\ step'[c] = NewStep(c, r) /\ step'[r] = z
      /\ \A x \in DOMAIN step : x # r => step'[x] = step[x]
  BY DEF Enqueues
<1>2. c \notin DOMAIN step /\ c \in StepId /\ c # r /\ Inside(c, r)
  BY DEF NewChild
<1>3. StateOK /\ inst \in Instances /\ r \in StepId
  BY <1>1 DEF IInv, StateOK
<1>4. step'[c].parent = r /\ r # NoStep /\ \A x \in DOMAIN step : step'[x].parent = step[x].parent
  <2>1. NewStep(c, r).parent = r /\ r # NoStep
    BY <1>2, <1>3, NewStepFacts, RangeFacts
  <2> QED BY <1>1, <2>1
<1>5. \A y \in DOMAIN step :
        /\ y = r \/ Inside(r, y) \/ Apart(c, y)
        /\ Inside(r, y) => Inside(c, y)
        /\ ~Inside(y, c)
        /\ Apart(c, y) => Apart(y, c) /\ ~Inside(c, y)
  BY <1>1, ChildPlace
<1>6. ~Inside(c, c)
  BY <1>2, <1>3, InsideFacts
<1>7. AreaMoved(r, c)
  BY AreaMovedFacts
<1>8. ASSUME NEW x \in DOMAIN step', NEW y \in DOMAIN step'
      PROVE  x = y \/ Apart(x, y) \/ Inside(x, y) \/ Inside(y, x)
  <2>1. CASE x \in DOMAIN step /\ y \in DOMAIN step
    BY <2>1 DEF IInv, TreeOK
  <2>2. CASE x = c \/ y = c
    BY <1>1, <1>2, <1>5, <2>2
  <2> QED BY <1>1, <2>1, <2>2
<1>9. ASSUME NEW x \in DOMAIN step', step'[x].parent # NoStep PROVE Inside(x, step'[x].parent)
  BY <1>1, <1>2, <1>4, <1>9 DEF IInv, TreeOK
<1>10. ASSUME NEW x \in DOMAIN step', NEW y \in DOMAIN step', Inside(x, y)
       PROVE  step'[x].parent = y \/ (step'[x].parent # NoStep /\ Inside(step'[x].parent, y))
  <2>1. CASE x \in DOMAIN step /\ y \in DOMAIN step
    BY <1>4, <1>10, <2>1 DEF IInv, TreeOK
  <2>2. CASE x = c
    BY <1>1, <1>4, <1>5, <1>6, <1>10, <2>2
  <2>3. CASE x \in DOMAIN step /\ y = c
    BY <1>5, <1>10, <2>3
  <2> QED BY <1>1, <2>1, <2>2, <2>3
<1>11. TreeOK'
  <2>1. \A x, y : /\ Apart(x, y)' <=> Apart(x, y)
                  /\ Inside(x, y)' <=> Inside(x, y)
    BY DEF Apart, Inside, Size
  <2> QED BY <1>8, <1>9, <1>10, <2>1 DEF TreeOK, Apart, Inside, Size
<1>12. ASSUME NEW x \in DOMAIN step', NEW y \in DOMAIN step', Inside(y, x)
       PROVE  Area(x)' \cap Cells(y) = {}
  <2>1. CASE x \in DOMAIN step /\ y \in DOMAIN step
    <3>1. Area(x) \cap Cells(y) = {}
      BY <1>12, <2>1 DEF IInv, AreasApart
    <3>2. Area(x)' \subseteq Area(x)
      BY <1>7, <2>1 DEF AreaMoved
    <3> QED BY <3>1, <3>2
  <2>2. CASE x = c
    BY <1>1, <1>5, <1>6, <1>12, <2>2
  <2>3. CASE x = r /\ y = c
    BY <1>7, <2>3 DEF AreaMoved
  <2>4. CASE x \in DOMAIN step /\ x # r /\ y = c
    <3>1. Inside(r, x)
      BY <1>5, <1>12, <2>4
    <3>2. Area(x) \cap Cells(r) = {}
      BY <1>1, <2>4, <3>1 DEF IInv, AreasApart
    <3>3. Cells(c) \subseteq Cells(r)
      BY <1>2, <1>3, InsideFacts
    <3>4. Area(x)' = Area(x)
      BY <1>7, <2>4 DEF AreaMoved
    <3> QED BY <2>4, <3>2, <3>3, <3>4
  <2> QED BY <1>1, <2>1, <2>2, <2>3, <2>4
<1>13. AreasApart'
  <2>1. \A x, y : (Inside(x, y)' <=> Inside(x, y)) /\ Cells(x)' = Cells(x)
    BY DEF Cells, Inside, Size
  <2> QED BY <1>12, <2>1 DEF AreasApart
<1> QED BY <1>11, <1>13

\* The area of a step's stacks depends on the step alone.
LEMMA SameArea == \A x : StackArea(step[x])' = StackArea(step'[x])
BY DEF StackArea, LevelsArea, Whole, Freed

\* The positions owed do not change; the children left are where they were.
LEMMA EnqueueOwed ==
  ASSUME IInv, NEW t \in Thread, NEW r, NEW c, NEW z, NEW a, Enqueues(t, r, c, z, a), NewChild(t, r, c)
  PROVE  TodoOK' /\ FinExact'
<1>1. /\ r \in DOMAIN step /\ r = thr[t].s /\ c \in todo[t] /\ thr[t].at \in DOMAIN Then
      /\ DOMAIN step' = DOMAIN step \cup {c}
      /\ inst' = inst /\ Moves(t, a, r) /\ todo' = [todo EXCEPT ![t] = todo[t] \ {c}]
      /\ a = (IF todo[t] \ {c} = {} THEN Then[thr[t].at] ELSE thr[t].at) /\ fin' = fin
  BY DEF Enqueues
<1>2. c \notin DOMAIN step
  BY DEF NewChild
<1>3. StateOK /\ todo \in [Thread -> SUBSET StepId]
  BY DEF IInv, StateOK
<1>4. AreaMoved(r, c)
  BY AreaMovedFacts
<1>5. a \in DOMAIN Then <=> todo[t] \ {c} # {}
  BY <1>1 DEF Then
<1>6. ASSUME NEW u \in Thread
      PROVE  /\ todo'[u] # {} <=> thr'[u].at \in DOMAIN Then
             /\ \A d \in todo'[u] : Inside(d, thr'[u].s) /\ StackArea(step'[thr'[u].s]) \cap Cells(d) = {}
             /\ \A d, e \in todo'[u] : d = e \/ Apart(d, e)
  <2>1. thr'[u].s = thr[u].s /\ todo'[u] \subseteq todo[u]
    BY <1>1, <1>3 DEF Moves
  <2>2. todo'[u] # {} <=> thr'[u].at \in DOMAIN Then
    <3>1. CASE u = t
      BY <1>1, <1>3, <1>5, <3>1 DEF Moves
    <3>2. CASE u # t
      BY <1>1, <1>3, <3>2 DEF Moves, IInv, TodoOK
    <3> QED BY <3>1, <3>2
  <2>3. ASSUME todo[u] # {} PROVE thr[u].s \in DOMAIN step
    <3>1. thr[u].at \in DOMAIN Then
      BY <2>3 DEF IInv, TodoOK
    <3>2. thr[u].at \in Holding
      BY <3>1 DEF Then, Holding, Handling, InSample, InMkqs
    <3> QED BY <3>2, HolderFacts
  <2>4. ASSUME NEW d \in todo'[u]
        PROVE  Inside(d, thr'[u].s) /\ StackArea(step'[thr'[u].s]) \cap Cells(d) = {}
    <3>1. d \in todo[u] /\ thr[u].s \in DOMAIN step
      BY <2>1, <2>3
    <3>2. Inside(d, thr[u].s) /\ StackArea(step[thr[u].s]) \cap Cells(d) = {}
      BY <3>1 DEF IInv, TodoOK
    <3>3. PICK x \in DOMAIN step : x = thr[u].s
      BY <3>1
    <3>4. StackArea(step[x])' = StackArea(step[x])
      BY <1>4 DEF AreaMoved
    <3>5. StackArea(step'[x]) = StackArea(step[x])
      BY <3>4, SameArea
    <3> QED BY <2>1, <3>2, <3>3, <3>5
  <2>5. \A d, e \in todo'[u] : d = e \/ Apart(d, e)
    BY <2>1 DEF IInv, TodoOK
  <2> QED BY <2>2, <2>4, <2>5
<1>7. TodoOK'
  <2>1. \A x : StackArea(step[x])' = StackArea(step'[x])
    BY SameArea
  <2>2. \A u \in Thread : StackArea(step[thr[u].s])' = StackArea(step'[thr'[u].s])
    BY <2>1
  <2> QED BY <1>6, <2>2 DEF TodoOK, Inside, Size, Apart, Cells, Then
<1>8. ASSUME NEW i \in Position
      PROVE  (\E x \in DOMAIN step : i \in Owed(x)) <=> (\E x \in DOMAIN step' : i \in Owed(x)')
  <2>1. \A x \in DOMAIN step : x # r => Owed(x)' = Owed(x)
    BY <1>4 DEF AreaMoved
  <2>2. Owed(r)' \cup Owed(c)' = Owed(r)
    BY <1>4 DEF AreaMoved
  <2> QED BY <1>1, <2>1, <2>2
<1>9. FinExact'
  <2>1. Position' = Position
    BY <1>1, Rigid
  <2> QED BY <1>1, <1>8, <2>1 DEF IInv, FinExact
<1> QED BY <1>7, <1>9

\* The LCPs inside the child's range are the child's to write; its ends are
\* borders of its parent, or ends of its parent that a step above holds.
LEMMA EnqueueLcp ==
  ASSUME IInv, LInv, NEW t \in Thread, NEW r, NEW c, NEW z, NEW a, Enqueues(t, r, c, z, a), NewChild(t, r, c)
  PROVE  LInv'
<1>1. /\ r \in DOMAIN step /\ r = thr[t].s /\ c \in todo[t] /\ z.cnt = step[r].cnt + 1
      /\ z.bkt = step[r].bkt /\ z.stack = step[r].stack /\ z.front = step[r].front
      /\ DOMAIN step' = DOMAIN step \cup {c} /\ step'[c] = NewStep(c, r) /\ step'[r] = z
      /\ \A x \in DOMAIN step : x # r => step'[x] = step[x]
      /\ inst' = inst /\ lcp' = lcp /\ Moves(t, a, r) /\ todo' = [todo EXCEPT ![t] = todo[t] \ {c}]
  BY DEF Enqueues
<1>2. /\ c \notin DOMAIN step /\ c \in StepId /\ c # r /\ Inside(c, r) /\ Kids(r) = todo[t] /\ step[r].cnt > 0
  BY DEF NewChild
<1>3. StateOK /\ inst \in Instances /\ r \in StepId /\ todo \in [Thread -> SUBSET StepId]
  BY <1>1 DEF IInv, StateOK
<1>4. AreaMoved(r, c)
  BY AreaMovedFacts
<1>5. PICK n : n = NewStep(c, r)
  OBVIOUS
<1>6. n \in StepType /\ n.cnt = 0 /\ n.bkt = <<>> /\ NoStack(n) /\ step'[c] = n
  BY <1>1, <1>2, <1>3, <1>5, NewStepFacts
<1>7. Len(Whole(n)) = 0
  BY <1>2, <1>3, <1>6, NoStackFacts
<1>8. RimsOf(n) = {} /\ LevelsAt(c, n)
  <2>1. RimsOf(n) = {}
    BY <1>6, <1>7, RimsStack, RimsFew
  <2>2. EndsOK(Whole(n), c)
    BY <1>7 DEF EndsOK
  <2> QED BY <2>1, <2>2, <1>6 DEF LevelsAt
<1>9. ASSUME NEW x \in DOMAIN step
      PROVE  /\ RimsOf(step'[x]) = RimsOf(step[x]) /\ StackOpen(step'[x]) = StackOpen(step[x])
             /\ LevelsAt(x, step'[x])
  <2>1. /\ step'[x].bkt = step[x].bkt /\ step'[x].stack = step[x].stack
        /\ step'[x].front = step[x].front
    BY <1>1
  <2>2. LevelsAt(x, step[x])
    BY DEF LInv, LevelsOK
  <2> QED BY <2>1, <2>2 DEF RimsOf, StackOpen, Whole, Freed, LevelsAt, NoStack
<1>10. step[r].cnt # 0 /\ step'[r].cnt # 0
  <2>1. step[r].cnt \in Nat
    BY <1>1, <1>3 DEF StateOK, StepType
  <2> QED BY <1>1, <1>2, <2>1
<1>11. Due(r)' \cup Inner(c) = Due(r)
  <2>1. Due(r)' = (StackOpen(step[r]) \cap Inner(r)) \cup InnerOf(Kids(r) \ {c}) \cup RimsOf(step[r])
    <3>1. Kids(r)' = Kids(r) \ {c}
      BY <1>4 DEF AreaMoved
    <3> QED BY <3>1, <1>1, <1>9, <1>10, RimsNext
  <2>2. Due(r) = (StackOpen(step[r]) \cap Inner(r)) \cup InnerOf(Kids(r)) \cup RimsOf(step[r])
    BY <1>10 DEF Due
  <2>3. InnerOf(Kids(r)) = InnerOf(Kids(r) \ {c}) \cup Inner(c)
    BY <1>1, <1>2 DEF InnerOf
  <2> QED BY <2>1, <2>2, <2>3
<1>12. Due(c)' = Inner(c)
  BY <1>1, <1>6, RimsNext
<1>13. ASSUME NEW x \in DOMAIN step, x # r PROVE Due(x)' = Due(x)
  <2>1. step'[x] = step[x] /\ Kids(x)' = Kids(x)
    BY <1>1, <1>4, <1>13 DEF AreaMoved
  <2> QED BY <2>1, <1>1, RimsNext DEF Due
<1>14. LcpExact'
  <2>1. ASSUME NEW i
        PROVE  (\E x \in DOMAIN step : i \in Due(x)) <=> (\E x \in DOMAIN step' : i \in Due(x)')
    BY <1>1, <1>11, <1>12, <1>13
  <2>2. Position' = Position
    BY <1>1, Rigid
  <2> QED BY <1>1, <2>1, <2>2 DEF LInv, LcpExact
<1>15. LevelsOK'
  <2>1. SUFFICES ASSUME NEW x \in DOMAIN step' PROVE LevelsAt(x, step[x])'
    BY DEF LevelsOK
  <2>2. LevelsAt(x, step'[x])
    BY <1>1, <1>6, <1>8, <1>9
  <2> QED BY <2>2, <1>1, RimsNext
<1>16. \A u \in Thread : thr'[u].s = thr[u].s /\ todo'[u] \subseteq todo[u]
  BY <1>1, <1>3 DEF Moves
<1>17. KidsOK'
  <2>1. ASSUME NEW u \in Thread, NEW d \in todo'[u] PROVE KidAt(d, thr'[u].s, RimsOf(step'[thr'[u].s]))
    <3>1. d \in todo[u] /\ thr'[u].s = thr[u].s
      BY <1>16, <2>1
    <3>2. thr[u].at \in Holding
      BY <3>1 DEF IInv, TodoOK, Then, Holding, Handling, InSample, InMkqs
    <3>3. thr[u].s \in DOMAIN step
      BY <3>2, HolderFacts
    <3> QED BY <3>1, <3>3, <1>9 DEF LInv, KidsOK
  <2>2. ASSUME NEW u \in Thread, NEW d \in todo'[u]
        PROVE  KidAt(d, thr'[u].s, RimsOf(step[thr[u].s])')
    <3>1. RimsOf(step[thr[u].s])' = RimsOf(step'[thr'[u].s])
      BY DEF RimsOf, Rims, Whole, Borders, Filled, BktNum
    <3> QED BY <3>1, <2>1
  <2> QED BY <2>2 DEF KidsOK, KidAt, Inner
<1>18. KidAt(c, r, RimsOf(step[r]))
  BY <1>1 DEF LInv, KidsOK
<1>19. ASSUME NEW x \in DOMAIN step
       PROVE  /\ Inside(c, x) => x = r \/ Inside(r, x)
              /\ Inside(r, x) => Inside(c, x)
              /\ ~Inside(x, c)
  BY <1>1, ChildPlace
<1>20. ASSUME NEW x \in DOMAIN step, Inside(c, x) PROVE RimsOf(step[x]) \cap Inner(c) = {}
  <2>1. CASE x = r
    BY <2>1, <1>18 DEF KidAt
  <2>2. CASE Inside(r, x)
    <3>1. Inner(c) \subseteq Inner(r)
      <4>1. Cells(c) \subseteq Cells(r)
        BY <1>2, <1>3, InsideFacts
      <4> QED BY <4>1, <1>2, <1>3, InnerIn, InnerFacts
    <3>2. RimsOf(step[x]) \cap Inner(r) = {}
      BY <1>1, <2>2 DEF LInv, RimsApart
    <3> QED BY <3>1, <3>2
  <2> QED BY <1>19, <1>20, <2>1, <2>2
<1>21. RimsApart'
  <2>1. SUFFICES ASSUME NEW x \in DOMAIN step', NEW y \in DOMAIN step', Inside(y, x)
                 PROVE  RimsOf(step'[x]) \cap Inner(y) = {}
    BY <1>1, RimsNext DEF RimsApart, Inside, Size, Inner
  <2>2. CASE x = c
    BY <2>2, <1>6, <1>8
  <2>3. CASE x # c
    <3>1. x \in DOMAIN step
      BY <2>3, <1>1
    <3>2. CASE y = c
      BY <2>1, <3>1, <3>2, <1>9, <1>20
    <3>3. CASE y # c
      BY <2>1, <3>1, <3>3, <1>1, <1>9 DEF LInv, RimsApart
    <3> QED BY <3>2, <3>3
  <2> QED BY <2>2, <2>3
<1>22. EndsHeld'
  <2>1. SUFFICES ASSUME NEW y \in DOMAIN step'
                 PROVE  /\ y[1] = 0 \/ \E x \in DOMAIN step' : Inside(y, x) /\ y[1] \in RimsOf(step'[x])
                        /\ y[2] = N \/ \E x \in DOMAIN step' : Inside(y, x) /\ y[2] \in RimsOf(step'[x])
    BY <1>1, RimsNext, Rigid DEF EndsHeld, Inside, Size
  <2>2. ASSUME NEW w \in DOMAIN step
        PROVE  /\ w[1] = 0 \/ \E x \in DOMAIN step : Inside(w, x) /\ w[1] \in RimsOf(step'[x])
               /\ w[2] = N \/ \E x \in DOMAIN step : Inside(w, x) /\ w[2] \in RimsOf(step'[x])
    BY <1>9 DEF LInv, EndsHeld
  <2>3. CASE y = c
    <3>1. /\ r[1] = 0 \/ \E x \in DOMAIN step : Inside(c, x) /\ r[1] \in RimsOf(step'[x])
          /\ r[2] = N \/ \E x \in DOMAIN step : Inside(c, x) /\ r[2] \in RimsOf(step'[x])
      BY <1>1, <1>19, <2>2
    <3>2. Inside(c, r) /\ RimsOf(step'[r]) = RimsOf(step[r])
      BY <1>1, <1>2, <1>9
    <3>3. /\ c[1] = r[1] \/ c[1] \in RimsOf(step[r])
          /\ c[2] = r[2] \/ c[2] \in RimsOf(step[r])
      BY <1>18 DEF KidAt
    <3> QED BY <1>1, <2>3, <3>1, <3>2, <3>3
  <2>4. CASE y # c
    BY <1>1, <2>2, <2>4
  <2> QED BY <2>3, <2>4
<1> QED BY <1>14, <1>15, <1>17, <1>21, <1>22 DEF LInv

\* EnqueueChild: substep_add(), then the child and its first job.
LEMMA EnqueueChildKeeps ==
  ASSUME IInv, NEW t \in Thread, EnqueueChild(t), inst' = inst
  PROVE  IInv' /\ (LInv => LInv')
<1>1. PICK r, c, z, a : Enqueues(t, r, c, z, a) /\ NewChild(t, r, c)
  BY EnqueueFacts
<1>2. StateOK' /\ NoDangling'
  BY <1>1, EnqueueTyped
<1>3. AllCounted'
  BY <1>1, EnqueueCounted
<1>4. StagesOK' /\ StacksOK'
  BY <1>1, EnqueueStaged
<1>5. HandlesOK'
  BY <1>1, EnqueueHandled
<1>6. TreeOK' /\ AreasApart'
  BY <1>1, EnqueueTree
<1>7. TodoOK' /\ FinExact'
  BY <1>1, EnqueueOwed
<1>8. IInv'
  BY <1>2, <1>3, <1>4, <1>5, <1>6, <1>7 DEF IInv
<1>9. LInv => LInv'
  BY <1>1, EnqueueLcp
<1> QED BY <1>8, <1>9

---------------------------------------------------------------------------
(* SortStep *)

\* Notify, when other substeps are left: the handle is given back.
LEMMA NotifyCounts ==
  ASSUME IInv, inst' = inst, UNCHANGED <<jobs, todo, fin, lcp>>,
         NEW t \in Thread, thr[t].at = "notify", NEW r \in DOMAIN step, r = thr[t].s,
         step[r].cnt > 1, step' = [step EXCEPT ![r].cnt = @ - 1], Rest(t)
  PROVE  IInv' /\ (LInv => LInv')
<1>1. StateOK /\ inst \in Instances /\ step[r] \in StepType /\ r \in StepId
  BY DEF IInv, StateOK
<1>2. PICK z : z = [step[r] EXCEPT !.cnt = @ - 1]
  OBVIOUS
<1>3. /\ step[r].cnt \in Nat /\ step[r].cnt - 1 \in Nat /\ step[r].cnt - 1 # 0 /\ step[r].cnt # 0
  BY <1>1 DEF StepType
<1>4. /\ z \in StepType /\ z.cnt = step[r].cnt - 1 /\ Same(step[r], z) /\ z.bkt = step[r].bkt
      /\ step' = [step EXCEPT ![r] = z]
  BY <1>1, <1>2, <1>3 DEF StepType, Same
<1>5. /\ DOMAIN step' = DOMAIN step /\ step'[r] = z
      /\ \A x \in DOMAIN step : x # r => step'[x] = step[x]
      /\ DOMAIN step' \subseteq StepId /\ step' \in [DOMAIN step' -> StepType]
      /\ IsFiniteSet(DOMAIN step')
  BY <1>1, <1>4, StepSet
<1>6. Moves(t, "idle", NoStep) /\ thr' \in [Thread -> [at : Ats, s : StepId \cup {NoStep}]]
  BY <1>1, RestFacts DEF StateOK
<1>7. /\ "notify" \notin DOMAIN Then /\ "notify" \notin Opening /\ "notify" \in Holding
      /\ "notify" \notin Handling /\ "idle" \notin DOMAIN Then /\ "idle" \notin Opening
      /\ "idle" \notin Handling /\ "idle" \notin Holding
  BY DEF Then, Opening, Holding, Handling, InSample, InMkqs
<1>8. todo[t] = {}
  BY <1>7 DEF IInv, TodoOK
<1>9. Calm(t)
  <2>1. \A x \in DOMAIN step : Same(step[x], step'[x])
    BY <1>4, <1>5 DEF Same
  <2> QED BY <1>5, <1>6, <1>7, <1>8, <2>1 DEF Calm, Moves
<1>10. StateOK'
  BY <1>1, <1>5, <1>6, StateOKNext DEF StateOK
<1>11. NoDangling'
  <2>1. ASSUME NEW u \in Thread, thr'[u].at \notin {"idle", "reread"} PROVE thr'[u].s \in DOMAIN step
    BY <1>6, <2>1 DEF Moves, IInv, NoDangling
  <2>2. \A x \in DOMAIN step : step'[x].parent = step[x].parent
    BY <1>4, <1>5 DEF Same
  <2> QED BY <1>5, <2>1, <2>2 DEF IInv, NoDangling
<1>12. AllCounted'
  <2>1. t \in Holders(r) /\ Holders(r)' = Holders(r) \ {t}
    BY <1>6, <1>7, MovedSets
  <2>2. \A x \in DOMAIN step : x # r => step'[x].cnt = step[x].cnt /\ Holders(x)' = Holders(x)
    <3>1. SUFFICES ASSUME NEW x \in DOMAIN step, x # r
                   PROVE  step'[x].cnt = step[x].cnt /\ Holders(x)' = Holders(x)
      OBVIOUS
    <3>2. t \notin Holders(x) /\ Holders(x)' = Holders(x) \ {t}
      BY <1>6, <1>7, <3>1, MovedSets
    <3> QED BY <1>5, <3>1, <3>2
  <2>3. \A x \in DOMAIN step : step'[x].parent = step[x].parent
    BY <1>4, <1>5 DEF Same
  <2>4. step'[r].cnt = step[r].cnt - 1
    BY <1>4, <1>5
  <2> QED BY <1>1, <1>5, <2>1, <2>2, <2>3, <2>4, CountGiven DEF IInv
<1>13. StagesOK'
  <2>1. ASSUME NEW x \in DOMAIN step
        PROVE  /\ t \notin Openers(x) /\ Openers(x)' = Openers(x) /\ Queued(x)' = Queued(x)
    <3>1. t \notin Openers(x) /\ Openers(x)' = Openers(x) \ {t}
      BY <1>6, <1>7, MovedSets
    <3> QED BY <3>1 DEF Queued
  <2>2. StageOK(r)'
    <3>1. Queued(r) = {} /\ Openers(r) = {}
      BY <1>3 DEF IInv, StagesOK, StageOK
    <3> QED BY <1>3, <1>4, <1>5, <2>1, <3>1 DEF StageOK
  <2>3. ASSUME NEW x \in DOMAIN step, x # r PROVE StageOK(x)'
    <3>1. StageOK(x)
      BY DEF IInv, StagesOK
    <3> QED BY <1>5, <1>6, <1>7, <2>1, <2>3, <3>1, StageKept
  <2> QED BY <1>5, <2>2, <2>3 DEF StagesOK
<1>14. HandlesOK'
  BY <1>4, <1>5, <1>6, <1>7, <1>9, CalmHandles DEF Moves
<1>15. IInv'
  BY <1>9, <1>10, <1>11, <1>12, <1>13, <1>14, CalmKeeps DEF IInv
<1>16. LInv => LInv'
  BY <1>4, <1>5, <1>9, CalmLcp
<1> QED BY <1>15, <1>16

\* Among some ranges one lies inside no other.
LEMMA Topmost ==
  ASSUME inst \in Instances, NEW B, B \subseteq StepId, B # {}
  PROVE  \E y \in B : \A w \in B : ~Inside(y, w)
<1> DEFINE h(y) == (N - Size(y)) + y[3]
<1>1. \A y \in B : /\ y[1] \in Int /\ y[2] \in Int /\ y[3] \in Int
                   /\ 0 <= y[1] /\ y[1] < y[2] /\ y[2] <= N /\ 0 <= y[3]
  <2>1. \A y \in B : /\ y[1] \in Int /\ y[2] \in Int /\ y[3] \in 0 .. MaxDepth
                     /\ 0 <= y[1] /\ y[1] < y[2] /\ y[2] <= N
    BY RangeFacts
  <2>2. MaxDepth \in Nat
    BY SizesFacts
  <2> QED BY <2>1, <2>2
<1>2. N \in Nat
  BY SizesFacts
<1>3. \A y \in B : h(y) \in Nat
  BY <1>1, <1>2 DEF Size
<1>4. \A y, w \in B : Inside(y, w) => h(w) < h(y)
  BY <1>1, <1>2 DEF Inside, Size
<1>5. PICK T : T = {h(y) : y \in B}
  OBVIOUS
<1> HIDE DEF h
<1>6. T \subseteq Nat /\ T # {}
  BY <1>3, <1>5
<1>7. PICK x \in T : \A y \in T : x <= y
  BY <1>6, NatLeast
<1>8. PICK y \in B : h(y) = x
  BY <1>5, <1>7
<1>9. \A w \in B : h(y) <= h(w)
  BY <1>5, <1>7, <1>8
<1>10. \A w \in B : ~(h(w) < h(y))
  BY <1>3, <1>8, <1>9
<1> QED BY <1>4, <1>10

\* And one has none of them inside.
LEMMA Innermost ==
  ASSUME inst \in Instances, NEW B, B \subseteq StepId, B # {}
  PROVE  \E y \in B : \A w \in B : ~Inside(w, y)
<1> DEFINE h(y) == Size(y) + (MaxDepth - y[3])
<1>1. \A y \in B : /\ y[1] \in Int /\ y[2] \in Int /\ y[3] \in Int
                   /\ y[1] < y[2] /\ y[3] <= MaxDepth
  <2>1. \A y \in B : /\ y[1] \in Int /\ y[2] \in Int /\ y[3] \in 0 .. MaxDepth /\ y[1] < y[2]
    BY RangeFacts
  <2>2. MaxDepth \in Nat
    BY SizesFacts
  <2> QED BY <2>1, <2>2
<1>2. MaxDepth \in Nat
  BY SizesFacts
<1>3. \A y \in B : h(y) \in Nat
  BY <1>1, <1>2 DEF Size
<1>4. \A y, w \in B : Inside(w, y) => h(w) < h(y)
  BY <1>1, <1>2 DEF Inside, Size
<1>5. PICK T : T = {h(y) : y \in B}
  OBVIOUS
<1> HIDE DEF h
<1>6. T \subseteq Nat /\ T # {}
  BY <1>3, <1>5
<1>7. PICK x \in T : \A y \in T : x <= y
  BY <1>6, NatLeast
<1>8. PICK y \in B : h(y) = x
  BY <1>5, <1>7
<1>9. \A w \in B : h(y) <= h(w)
  BY <1>5, <1>7, <1>8
<1>10. \A w \in B : ~(h(w) < h(y))
  BY <1>3, <1>8, <1>9
<1> QED BY <1>4, <1>10

\* Thread t was the only substep of step r left: nothing below r is alive, and
\* r has no position to finish.
LastOf(t, r) ==
  /\ step[r].cnt = 1 /\ Holders(r) = {t} /\ Children(r) = {}
  /\ Queued(r) = {} /\ Openers(r) = {} /\ Handles(r) = {} /\ Kids(r) = {}
  /\ Owed(r) = {} /\ Area(r) = {}
  /\ \A x \in DOMAIN step : step[x].parent # r /\ ~Inside(x, r)

\* The last substep of a step.
LEMMA LastSubstep ==
  ASSUME IInv, NEW t \in Thread, thr[t].at = "notify", NEW r \in DOMAIN step, r = thr[t].s,
         ~(step[r].cnt > 1)
  PROVE  LastOf(t, r)
<1>1. StateOK /\ inst \in Instances /\ step[r] \in StepType /\ r \in StepId
  BY DEF IInv, StateOK
<1>2. thr[t].at \in Holding /\ thr[t].at \notin Handling
  BY DEF Holding, Handling, InSample, InMkqs
<1>3. /\ t \in Holders(r) /\ step[r].cnt >= 1
      /\ Queued(r) = {} /\ Openers(r) = {}
  BY <1>2, HolderFacts
<1>4. step[r].cnt = 1
  <2>1. step[r].cnt \in Nat
    BY <1>1 DEF StepType
  <2> QED BY <1>3, <2>1
<1>5. IsFiniteSet(Children(r)) /\ IsFiniteSet(Holders(r))
  <2>1. Children(r) \subseteq DOMAIN step /\ IsFiniteSet(DOMAIN step)
    BY <1>1 DEF Children, StateOK
  <2> QED BY <2>1, FS_Subset, HoldersFacts
<1>6. Holders(r) = {t} /\ Children(r) = {}
  <2>1. PICK c, h, g \in Nat : /\ c = Cardinality(Children(r)) /\ h = Cardinality(Holders(r))
                               /\ g = Cardinality(Holders(r) \ {t})
    <3>1. IsFiniteSet(Holders(r) \ {t})
      BY <1>5, FS_Difference, FS_Subset
    <3> QED BY <1>5, <3>1, FS_CardinalityType
  <2>2. g = h - 1
    BY <1>3, <1>5, <2>1, FS_RemoveElement
  <2>3. c + h = 1
    BY <1>4, <2>1 DEF IInv, AllCounted, Counted
  <2>4. c = 0 /\ g = 0
    BY <2>2, <2>3
  <2>5. Children(r) = {} /\ Holders(r) \ {t} = {}
    <3>1. IsFiniteSet(Holders(r) \ {t})
      BY <1>5, FS_Subset
    <3> QED BY <1>5, <2>1, <2>4, <3>1, FS_EmptySet
  <2> QED BY <1>3, <2>5
<1>7. Handles(r) = {}
  <2>1. Handles(r) \subseteq {t} /\ t \notin Handles(r)
    BY <1>2, <1>6, HoldersFacts, HandlesDef
  <2> QED BY <2>1
<1>8. Kids(r) = {}
  BY <1>7, KidsFacts DEF IInv
<1>9. Owed(r) = {} /\ Area(r) = {}
  <2>1. Len(Whole(step[r])) = Freed(step[r])
    BY <1>7 DEF IInv, HandlesOK
  <2>2. Freed(step[r]) \in Nat
    BY <1>1 DEF Freed, StepType
  <2>3. StackOpen(step[r]) = {} /\ StackArea(step[r]) = {}
    BY <2>1, <2>2 DEF StackOpen, StackArea, LevelsOpen, LevelsArea
  <2> QED BY <1>4, <1>8, <2>3 DEF Owed, Area
<1>10. \A x \in DOMAIN step : step[x].parent # r
  BY <1>6 DEF Children
<1>11. ASSUME NEW x \in DOMAIN step, Inside(x, r) PROVE FALSE
  <2> DEFINE Below == {y \in DOMAIN step : Inside(y, r)}
  <2>1. Below \subseteq DOMAIN step /\ x \in Below
    BY <1>11
  <2>2. \A y \in Below : step[y].parent \in Below /\ Inside(y, step[y].parent)
    <3>1. SUFFICES ASSUME NEW y \in DOMAIN step, Inside(y, r)
                   PROVE  /\ step[y].parent \in DOMAIN step /\ Inside(step[y].parent, r)
                          /\ Inside(y, step[y].parent)
      OBVIOUS
    <3>2. step[y].parent # NoStep /\ Inside(step[y].parent, r)
      BY <1>10, <3>1 DEF IInv, TreeOK
    <3> QED BY <3>1, <3>2 DEF IInv, TreeOK, NoDangling
  <2>3. PICK y \in Below : \A w \in Below : ~Inside(y, w)
    <3> HIDE DEF Below
    <3>1. Below \subseteq StepId
      BY <1>1, <2>1 DEF StateOK
    <3> QED BY <1>1, <2>1, <3>1, Topmost
  <2> QED BY <2>2, <2>3
<1> QED BY <1>3, <1>4, <1>6, <1>7, <1>8, <1>9, <1>10, <1>11 DEF LastOf

\* Thread t deletes step r and goes on to notify its parent p, if it has one.
Deletes(t, r, p, a) ==
  /\ r \in DOMAIN step /\ r = thr[t].s /\ thr[t].at = "notify" /\ p = step[r].parent
  /\ DOMAIN step' = DOMAIN step \ {r} /\ \A x \in DOMAIN step : x # r => step'[x] = step[x]
  /\ step' \in [DOMAIN step' -> StepType]
  /\ jobs' = jobs /\ todo' = todo /\ fin' = fin /\ inst' = inst /\ lcp' \in [Position -> Nat]
  /\ a = (IF p = NoStep THEN "idle" ELSE "notify") /\ Moves(t, a, p)
  /\ thr' \in [Thread -> [at : Ats, s : StepId \cup {NoStep}]]

\* The thread moves from the holders of r to those of its parent.
DeleteSets(t, r, p, a) ==
  /\ a \notin Opening /\ a \notin Handling /\ a \notin DOMAIN Then
  /\ todo[t] = {} /\ p # r /\ p \in (DOMAIN step \ {r}) \cup {NoStep}
  /\ \A x : /\ Openers(x)' = Openers(x) /\ Handles(x)' = Handles(x) /\ t \notin Openers(x)
            /\ Queued(x)' = Queued(x) /\ t \notin Handles(x)
  /\ \A x : x # r /\ x # p => Holders(x)' = Holders(x)
  /\ p # NoStep => Holders(p)' = Holders(p) \cup {t} /\ t \notin Holders(p)

\* The same, from the move.
LEMMA DeleteSetsFacts ==
  ASSUME IInv, NEW t \in Thread, NEW r, NEW p, NEW a, Deletes(t, r, p, a), LastOf(t, r)
  PROVE  DeleteSets(t, r, p, a)
<1>1. /\ r \in DOMAIN step /\ r = thr[t].s /\ thr[t].at = "notify" /\ p = step[r].parent
      /\ jobs' = jobs /\ a = (IF p = NoStep THEN "idle" ELSE "notify") /\ Moves(t, a, p)
  BY DEF Deletes
<1>2. /\ "notify" \notin DOMAIN Then /\ "notify" \notin Opening /\ "notify" \in Holding
      /\ "notify" \notin Handling /\ "idle" \notin DOMAIN Then /\ "idle" \notin Opening
      /\ "idle" \notin Handling /\ "idle" \notin Holding
  BY DEF Then, Opening, Holding, Handling, InSample, InMkqs
<1>3. a \notin Opening /\ a \notin Handling /\ a \notin DOMAIN Then /\ (p # NoStep => a \in Holding)
      /\ (p = NoStep => a \notin Holding)
  BY <1>1, <1>2
<1>4. todo[t] = {}
  BY <1>1, <1>2 DEF IInv, TodoOK
<1>5. p # r /\ p \in (DOMAIN step \ {r}) \cup {NoStep}
  <2>1. p # r
    BY <1>1 DEF LastOf
  <2> QED BY <1>1, <2>1 DEF IInv, NoDangling
<1>6. ASSUME NEW x
      PROVE  /\ Openers(x)' = Openers(x) /\ Handles(x)' = Handles(x) /\ t \notin Openers(x)
             /\ Queued(x)' = Queued(x) /\ t \notin Handles(x)
  <2>1. Openers(x)' = Openers(x) \ {t} /\ t \notin Openers(x)
    BY <1>1, <1>2, <1>3, MovedSets
  <2>2. Handles(x)' = Handles(x) \ {t} /\ t \notin Handles(x)
    BY <1>1, <1>2, <1>3, MovedSets
  <2>3. Queued(x)' = Queued(x)
    BY <1>1 DEF Queued
  <2> QED BY <2>1, <2>2, <2>3
<1>7. ASSUME NEW x, x # r, x # p PROVE Holders(x)' = Holders(x)
  <2>1. Holders(x)' = Holders(x) \ {t} /\ t \notin Holders(x)
    BY <1>1, <1>2, <1>7, MovedSets
  <2> QED BY <2>1
<1>8. ASSUME p # NoStep PROVE Holders(p)' = Holders(p) \cup {t} /\ t \notin Holders(p)
  <2>1. Holders(p)' = Holders(p) \cup {t}
    BY <1>1, <1>3, <1>8, MovedSets
  <2>2. t \notin Holders(p)
    BY <1>1, <1>5, MovedSets
  <2> QED BY <2>1, <2>2
<1> QED BY <1>3, <1>4, <1>5, <1>6, <1>7, <1>8 DEF DeleteSets

\* The types of the new state; nothing refers to the step that is gone.
LEMMA DeleteTyped ==
  ASSUME IInv, NEW t \in Thread, NEW r, NEW p, NEW a, Deletes(t, r, p, a), LastOf(t, r)
  PROVE  StateOK' /\ NoDangling'
<1>1. /\ r \in DOMAIN step /\ r = thr[t].s /\ thr[t].at = "notify" /\ p = step[r].parent
      /\ DOMAIN step' = DOMAIN step \ {r} /\ \A x \in DOMAIN step : x # r => step'[x] = step[x]
      /\ step' \in [DOMAIN step' -> StepType]
      /\ jobs' = jobs /\ todo' = todo /\ fin' = fin /\ inst' = inst /\ lcp' \in [Position -> Nat]
      /\ a = (IF p = NoStep THEN "idle" ELSE "notify") /\ Moves(t, a, p)
      /\ thr' \in [Thread -> [at : Ats, s : StepId \cup {NoStep}]]
  BY DEF Deletes
<1>2. DeleteSets(t, r, p, a)
  BY DeleteSetsFacts
<1>3. StateOK /\ inst \in Instances
  BY DEF IInv, StateOK
<1>4. DOMAIN step' \subseteq StepId /\ IsFiniteSet(DOMAIN step')
  BY <1>1, <1>3, FS_Subset DEF StateOK
<1>5. StateOK'
  BY <1>1, <1>3, <1>4, StateOKNext DEF StateOK
<1>6. \A j \in jobs' : j.s \in DOMAIN step'
  <2>1. \A j \in jobs : j.s # r
    BY DEF LastOf, Queued
  <2> QED BY <1>1, <2>1 DEF IInv, NoDangling
<1>7. ASSUME NEW u \in Thread, thr'[u].at \notin {"idle", "reread"}
      PROVE  thr'[u].s \in DOMAIN step'
  <2>1. CASE u = t
    BY <1>1, <1>2, <1>7, <2>1 DEF Moves, DeleteSets
  <2>2. CASE u # t
    <3>1. thr'[u] = thr[u]
      BY <1>1, <2>2 DEF Moves
    <3>2. thr[u].s \in DOMAIN step
      BY <1>7, <3>1 DEF IInv, NoDangling
    <3>3. thr[u].at \in Opening \cup Holding
      <4>1. thr[u].at \in Ats
        BY <1>3 DEF StateOK
      <4> QED BY <1>7, <3>1, <4>1 DEF Ats, Opening, Holding, Handling, InSample, InMkqs
    <3>4. thr[u].s # r
      <4>1. u \notin Openers(r) /\ u \notin Holders(r)
        BY <2>2 DEF LastOf
      <4> QED BY <3>3, <4>1 DEF Openers, Holders
    <3> QED BY <1>1, <3>1, <3>2, <3>4
  <2> QED BY <2>1, <2>2
<1>8. ASSUME NEW x \in DOMAIN step' PROVE step'[x].parent \in DOMAIN step' \cup {NoStep}
  <2>1. x \in DOMAIN step /\ step'[x] = step[x]
    BY <1>1
  <2>2. step[x].parent # r
    BY <2>1 DEF LastOf
  <2> QED BY <1>1, <2>1, <2>2 DEF IInv, NoDangling
<1>9. NoDangling'
  BY <1>6, <1>7, <1>8 DEF NoDangling
<1> QED BY <1>5, <1>9

\* The parent loses a child and gains a notifier.
LEMMA DeleteCounted ==
  ASSUME IInv, NEW t \in Thread, NEW r, NEW p, NEW a, Deletes(t, r, p, a), LastOf(t, r)
  PROVE  AllCounted'
<1>1. /\ r \in DOMAIN step /\ p = step[r].parent
      /\ DOMAIN step' = DOMAIN step \ {r} /\ \A x \in DOMAIN step : x # r => step'[x] = step[x]
  BY DEF Deletes
<1>2. DeleteSets(t, r, p, a)
  BY DeleteSetsFacts
<1>3. ASSUME NEW x PROVE Children(x)' = Children(x) \ {r}
  BY <1>1 DEF Children
<1>4. ASSUME NEW x \in DOMAIN step', x # p PROVE Counted(x)'
  <2>1. x \in DOMAIN step /\ x # r /\ step'[x] = step[x]
    BY <1>1
  <2>2. Children(x)' = Children(x)
    BY <1>1, <1>3, <1>4 DEF Children
  <2>3. Holders(x)' = Holders(x)
    BY <1>2, <1>4, <2>1 DEF DeleteSets
  <2> QED BY <2>1, <2>2, <2>3 DEF Counted, IInv, AllCounted
<1>5. ASSUME p \in DOMAIN step' PROVE Counted(p)'
  <2>1. p \in DOMAIN step /\ p # r /\ step'[p] = step[p]
    BY <1>1, <1>5
  <2>2. p # NoStep
    BY <2>1, RangeFacts DEF IInv, StateOK
  <2>3. Holders(p)' = Holders(p) \cup {t} /\ t \notin Holders(p)
    BY <1>2, <2>2 DEF DeleteSets
  <2>4. r \in Children(p) /\ IsFiniteSet(Children(p)) /\ IsFiniteSet(Holders(p))
    <3>1. r \in Children(p) /\ Children(p) \subseteq DOMAIN step /\ IsFiniteSet(DOMAIN step)
      BY <1>1 DEF Children, IInv, StateOK
    <3> QED BY <3>1, FS_Subset, HoldersFacts
  <2>5. PICK c, h \in Nat : c = Cardinality(Children(p)) /\ h = Cardinality(Holders(p))
    BY <2>4, FS_CardinalityType
  <2>6. Cardinality(Children(p) \ {r}) = c - 1 /\ Cardinality(Holders(p) \cup {t}) = h + 1
    BY <2>3, <2>4, <2>5, FS_AddElement, FS_RemoveElement
  <2>7. step[p].cnt = c + h
    BY <2>1, <2>5 DEF IInv, AllCounted, Counted
  <2>8. step'[p].cnt = (c - 1) + (h + 1)
    BY <2>1, <2>5, <2>7
  <2>9. step'[p].cnt = Cardinality(Children(p) \ {r}) + Cardinality(Holders(p) \cup {t})
    BY <2>6, <2>8
  <2> QED BY <1>3, <2>3, <2>9 DEF Counted
<1> QED BY <1>4, <1>5 DEF AllCounted

\* The other steps stay at their stages, with their stacks and handles.
LEMMA DeleteStaged ==
  ASSUME IInv, NEW t \in Thread, NEW r, NEW p, NEW a, Deletes(t, r, p, a), LastOf(t, r)
  PROVE  StagesOK' /\ StacksOK' /\ HandlesOK'
<1>1. /\ r \in DOMAIN step /\ r = thr[t].s /\ thr[t].at = "notify"
      /\ DOMAIN step' = DOMAIN step \ {r} /\ \A x \in DOMAIN step : x # r => step'[x] = step[x]
      /\ inst' = inst /\ Moves(t, a, p)
  BY DEF Deletes
<1>2. DeleteSets(t, r, p, a)
  BY DeleteSetsFacts
<1>3. ASSUME NEW x \in DOMAIN step' PROVE StageOK(x)'
  <2>1. x \in DOMAIN step /\ x # r /\ step'[x] = step[x]
    BY <1>1
  <2>2. StageOK(x)
    BY <2>1 DEF IInv, StagesOK
  <2>3. /\ Queued(x)' = Queued(x) /\ Openers(x)' = Openers(x) /\ t \notin Openers(x)
        /\ a \notin Opening
    BY <1>2 DEF DeleteSets
  <2> QED BY <1>1, <2>1, <2>2, <2>3, StageKept
<1>4. ASSUME NEW x \in DOMAIN step' PROVE StackOK(x)'
  <2>1. x \in DOMAIN step /\ step'[x] = step[x]
    BY <1>1
  <2>2. OrderOK(step'[x]) /\ NestOK(Whole(step'[x]), x[1], x[2], x[3])
    BY <2>1 DEF IInv, StacksOK, StackOK
  <2> QED BY <1>1, <2>2, StackOKNext
<1>5. \A x \in DOMAIN step' : \A u, v \in Handles(x)' : u = v
  BY <1>1, <1>2 DEF DeleteSets, IInv, HandlesOK
<1>6. ASSUME NEW u \in Thread, thr'[u].at \in Handling
      PROVE  HandleOK(thr[u].at, thr[u].s, step[thr[u].s])'
  <2>1. u # t
    BY <1>1, <1>2, <1>6 DEF DeleteSets, Moves
  <2>2. thr'[u] = thr[u]
    BY <1>1, <2>1 DEF Moves
  <2>3. thr[u].s \in DOMAIN step /\ u \in Holders(thr[u].s)
    BY <1>6, <2>2, HolderFacts DEF Holding
  <2>4. thr[u].s # r
    BY <2>1, <2>3 DEF LastOf
  <2>5. HandleOK(thr[u].at, thr[u].s, step[thr[u].s])
    BY <1>6, <2>2 DEF IInv, HandlesOK
  <2>6. step'[thr[u].s] = step[thr[u].s]
    BY <1>1, <2>3, <2>4
  <2>7. HandleOK(thr'[u].at, thr'[u].s, step'[thr'[u].s])
    BY <2>2, <2>5, <2>6
  <2> QED BY <1>1, <2>7, StackOKNext
<1>7. \A x \in DOMAIN step' : Handles(x)' = {} => Len(Whole(step'[x])) = Freed(step'[x])
  BY <1>1, <1>2 DEF DeleteSets, IInv, HandlesOK
<1>8. HandlesOK'
  <2>1. \A x \in DOMAIN step' : Whole(step[x])' = Whole(step'[x]) /\ Freed(step[x])' = Freed(step'[x])
    BY DEF Whole, Freed
  <2> QED BY <1>5, <1>6, <1>7, <2>1 DEF HandlesOK
<1> QED BY <1>3, <1>4, <1>8 DEF StagesOK, StacksOK

\* The step that is gone had no position left, and no step below it.
LEMMA DeleteTree ==
  ASSUME IInv, NEW t \in Thread, NEW r, NEW p, NEW a, Deletes(t, r, p, a), LastOf(t, r)
  PROVE  TreeOK' /\ AreasApart' /\ TodoOK' /\ FinExact'
<1>1. /\ r \in DOMAIN step /\ r = thr[t].s /\ thr[t].at = "notify" /\ p = step[r].parent
      /\ DOMAIN step' = DOMAIN step \ {r} /\ \A x \in DOMAIN step : x # r => step'[x] = step[x]
      /\ todo' = todo /\ fin' = fin /\ inst' = inst /\ Moves(t, a, p)
  BY DEF Deletes
<1>2. DeleteSets(t, r, p, a)
  BY DeleteSetsFacts
<1>3. \A x \in DOMAIN step : step[x].parent # r /\ ~Inside(x, r)
  BY DEF LastOf
<1>4. \A x, y : /\ (Apart(x, y)' <=> Apart(x, y)) /\ (Inside(x, y)' <=> Inside(x, y))
                /\ Cells(x)' = Cells(x)
  BY DEF Apart, Inside, Size, Cells
<1>5. TreeOK'
  <2>1. \A x, y \in DOMAIN step' : x = y \/ Apart(x, y) \/ Inside(x, y) \/ Inside(y, x)
    BY <1>1 DEF IInv, TreeOK
  <2>2. \A x \in DOMAIN step' : step'[x].parent # NoStep => Inside(x, step'[x].parent)
    BY <1>1 DEF IInv, TreeOK
  <2>3. \A x, y \in DOMAIN step' : Inside(x, y) =>
          step'[x].parent = y \/ (step'[x].parent # NoStep /\ Inside(step'[x].parent, y))
    BY <1>1 DEF IInv, TreeOK
  <2> QED BY <1>4, <2>1, <2>2, <2>3 DEF TreeOK, Apart, Inside, Size
<1>6. ASSUME NEW x, x # r PROVE Kids(x)' = Kids(x)
  <2>1. Kids(x)' = UNION {todo[u] : u \in {v \in Thread : thr'[v].s = x}}
    BY <1>1 DEF Kids
  <2>2. Kids(x) = UNION {todo[u] : u \in {v \in Thread : thr[v].s = x}}
    BY DEF Kids
  <2>3. \A u \in Thread : u # t => thr'[u].s = thr[u].s
    BY <1>1 DEF Moves
  <2>4. todo[t] = {}
    BY <1>2 DEF DeleteSets
  <2> QED BY <2>1, <2>2, <2>3, <2>4
<1>7. ASSUME NEW x \in DOMAIN step'
      PROVE  Area(x)' = Area(x) /\ Owed(x)' = Owed(x)
  <2>1. x \in DOMAIN step /\ x # r /\ step'[x] = step[x]
    BY <1>1
  <2>2. Kids(x)' = Kids(x)
    BY <1>6, <2>1
  <2>3. StackArea(step[x])' = StackArea(step[x]) /\ StackOpen(step[x])' = StackOpen(step[x])
    BY <2>1 DEF StackArea, StackOpen, LevelsArea, LevelsOpen, Whole, Freed, NextLo
  <2> QED BY <1>4, <2>1, <2>2, <2>3 DEF Area, Owed
<1>8. AreasApart'
  BY <1>1, <1>4, <1>7 DEF IInv, AreasApart, Inside, Size
<1>9. TodoOK'
  <2>1. SUFFICES ASSUME NEW u \in Thread
                 PROVE  /\ todo[u] # {} <=> thr'[u].at \in DOMAIN Then
                        /\ \A c \in todo[u] : /\ Inside(c, thr'[u].s)
                                              /\ StackArea(step'[thr'[u].s]) \cap Cells(c) = {}
                        /\ \A c, d \in todo[u] : c = d \/ Apart(c, d)
    <3>1. \A v \in Thread : StackArea(step[thr[v].s])' = StackArea(step'[thr'[v].s])
      BY SameArea
    <3> QED BY <1>1, <1>4, <3>1 DEF TodoOK, Inside, Size, Apart, Cells, Then
  <2>2. CASE u = t
    BY <1>1, <1>2, <2>2 DEF DeleteSets, Moves
  <2>3. CASE u # t
    <3>1. thr'[u] = thr[u]
      BY <1>1, <2>3 DEF Moves
    <3>2. CASE todo[u] = {}
      BY <3>1, <3>2 DEF IInv, TodoOK
    <3>3. CASE todo[u] # {}
      <4>1. thr[u].at \in DOMAIN Then
        BY <3>3 DEF IInv, TodoOK
      <4>2. thr[u].at \in Holding
        BY <4>1 DEF Then, Holding, Handling, InSample, InMkqs
      <4>3. thr[u].s \in DOMAIN step /\ thr[u].s # r
        BY <2>3, <4>2, HolderFacts DEF LastOf
      <4>4. step'[thr[u].s] = step[thr[u].s]
        BY <1>1, <4>3
      <4> QED BY <3>1, <4>4 DEF IInv, TodoOK
    <3> QED BY <3>2, <3>3
  <2> QED BY <2>2, <2>3
<1>10. FinExact'
  <2>1. Position' = Position
    BY <1>1, Rigid
  <2>2. Owed(r) = {}
    BY DEF LastOf
  <2>3. \A i : (\E x \in DOMAIN step : i \in Owed(x)) <=> (\E x \in DOMAIN step' : i \in Owed(x)')
    BY <1>1, <1>7, <2>2
  <2> QED BY <1>1, <2>1, <2>3 DEF IInv, FinExact
<1> QED BY <1>5, <1>8, <1>9, <1>10

\* The last substep deletes the step.
LEMMA DeletesKeeps ==
  ASSUME IInv, NEW t \in Thread, NEW r, NEW p, NEW a, Deletes(t, r, p, a), LastOf(t, r)
  PROVE  IInv'
BY DeleteTyped, DeleteCounted, DeleteStaged, DeleteTree DEF IInv

\* The levels left for substep_all_done() are a sequence of levels.
LEMMA OpenLevelsFacts ==
  ASSUME NEW s \in StepType, OrderOK(s), NEW i
  PROVE  Cardinality({k \in DOMAIN OpenLevels(s) : i \in Borders(OpenLevels(s)[k])}) \in Nat
<1>1. s.bkt \in Seq(LevelType) /\ s.stack.ms \in Seq(LevelType) /\ s.stack.ss \in Seq(LevelType)
      /\ s.front.ms \in Nat /\ s.front.ss \in Nat
  BY DEF StepType
<1>2. s.front.ms <= Len(s.stack.ms) /\ s.front.ss <= Len(s.stack.ss)
  BY DEF OrderOK
<1>3. PICK M, S \in Seq(LevelType) : /\ M = SubSeq(s.stack.ms, 1, s.front.ms)
                                     /\ S = SubSeq(s.stack.ss, 1, s.front.ss)
  <2>1. \A T \in Seq(LevelType), n \in Nat : n <= Len(T) => SubSeq(T, 1, n) \in Seq(LevelType)
    <3>1. SUFFICES ASSUME NEW T \in Seq(LevelType), NEW n \in Nat, n <= Len(T)
                   PROVE  SubSeq(T, 1, n) \in Seq(LevelType)
      OBVIOUS
    <3>2. \A m \in 1 .. n : T[m] \in LevelType
      BY <3>1
    <3> QED BY <3>2, SubSeqProperties
  <2> QED BY <1>1, <1>2, <2>1
<1>4. OpenLevels(s) = (s.bkt \o M) \o S
  BY <1>3, Zenon DEF OpenLevels
<1>5. OpenLevels(s) \in Seq(LevelType)
  BY <1>1, <1>3, <1>4
<1>6. PICK n \in Nat : DOMAIN OpenLevels(s) = 1 .. n
  BY <1>5
<1>7. IsFiniteSet(1 .. n)
  BY FS_Interval
<1>8. {k \in DOMAIN OpenLevels(s) : i \in Borders(OpenLevels(s)[k])} \subseteq 1 .. n
  BY <1>6
<1>9. IsFiniteSet({k \in DOMAIN OpenLevels(s) : i \in Borders(OpenLevels(s)[k])})
  BY <1>7, <1>8, FS_Subset
<1> QED BY <1>9, FS_CardinalityType

\* A border is a border of one level of a stack only.
LEMMA RimOnce ==
  ASSUME inst \in Instances, NEW S \in Seq(LevelType), NEW lo \in Int, NEW hi \in Int, NEW d \in Int,
         NestOK(S, lo, hi, d), NEW m \in 1 .. Len(S), NEW n \in 1 .. Len(S),
         NEW i, i \in Borders(S[m]), i \in Borders(S[n])
  PROVE  m = n
<1>1. ASSUME NEW x \in 1 .. Len(S), NEW y \in 1 .. Len(S), x < y, i \in Borders(S[x]), i \in Borders(S[y])
      PROVE  FALSE
  <2>1. i <= S[y].b[1] \/ S[y].b[4] <= i
    BY <1>1, NestRims
  <2>2. S[y] \in LevelType /\ LevelOK(S[y])
    BY <1>1, NestFacts
  <2>3. i \in Int /\ S[y].b[1] < i /\ i < S[y].b[4]
    BY <1>1, <2>2, BordersFacts
  <2>4. S[y].b[1] \in Int /\ S[y].b[4] \in Int
    <3>1. \A z \in Bound : z \in Int
      BY SizesFacts DEF Bound
    <3> QED BY <2>2, <3>1, LevelBounds
  <2>5. PICK u \in Int, v \in Int : u = S[y].b[1] /\ v = S[y].b[4]
    BY <2>4
  <2>6. (i <= u \/ v <= i) /\ i \in Int /\ u < i /\ i < v
    BY <2>1, <2>3, <2>5
  <2> QED BY <2>6
<1>2. ~(m < n) /\ ~(n < m)
  BY <1>1
<1> QED BY <1>2

\* The levels of a step that was given away whole, quicksort levels first.
LEMMA AllFreed ==
  ASSUME NEW s \in StepType, OrderOK(s), Len(Whole(s)) = Freed(s)
  PROVE  OpenLevels(s) = (s.bkt \o s.stack.ms) \o s.stack.ss
<1>1. PICK P \in Seq(LevelType), Q \in Seq(LevelType), f \in Nat, g \in Nat :
        P = s.stack.ss /\ Q = s.stack.ms /\ f = s.front.ss /\ g = s.front.ms
  BY DEF StepType
<1>2. /\ Len(P) \in Nat /\ Len(Q) \in Nat /\ f <= Len(P) /\ g <= Len(Q)
      /\ Len(P) + Len(Q) = f + g
  BY <1>1, WholeFacts DEF OrderOK, Freed
<1>3. f = Len(P) /\ g = Len(Q)
  BY <1>2
<1>4. SubSeq(Q, 1, g) = Q /\ SubSeq(P, 1, f) = P
  BY <1>3, SubSeqFull
<1>5. OpenLevels(s) = (s.bkt \o SubSeq(Q, 1, g)) \o SubSeq(P, 1, f)
  BY <1>1, Zenon DEF OpenLevels
<1> QED BY <1>1, <1>4, <1>5

\* substep_all_done() writes each border of the step once, and nothing else.
LEMMA RimsWritten ==
  ASSUME inst \in Instances, NEW r \in StepId, NEW s \in StepType, OrderOK(s),
         NestOK(Whole(s), r[1], r[2], r[3]), LevelsAt(r, s), Len(Whole(s)) = Freed(s),
         NEW L, L = OpenLevels(s), NEW i
  PROVE  Cardinality({k \in DOMAIN L : i \in Borders(L[k])}) = IF i \in RimsOf(s) THEN 1 ELSE 0
<1>1. L = (s.bkt \o s.stack.ms) \o s.stack.ss
  BY AllFreed
<1>2. CASE s.bkt # <<>>
  <2>1. PICK l : s.bkt = <<l>> /\ l \in Splits(r) /\ NoStack(s)
    BY <1>2 DEF LevelsAt
  <2>2. L = <<l>>
    <3>1. s.stack.ms = <<>> /\ s.stack.ss = <<>>
      BY <2>1 DEF NoStack
    <3>2. <<l>> \in Seq(LevelType)
      BY <2>1 DEF StepType
    <3>3. (<<l>> \o <<>>) \o <<>> = <<l>>
      BY <3>2, ConcatEmptySeq
    <3> QED BY <1>1, <2>1, <3>1, <3>3
  <2>3. RimsOf(s) = Borders(l)
    <3>1. Len(<<l>>) = 1 /\ <<l>>[1] = l
      OBVIOUS
    <3>2. Rims(<<l>>) = Borders(l)
      BY <3>1, RimsFew
    <3>3. Rims(Whole(s)) = {}
      BY <2>1, NoStackFacts, RimsFew
    <3> QED BY <2>1, <3>2, <3>3 DEF RimsOf
  <2>4. DOMAIN L = {1} /\ L[1] = l
    <3>1. DOMAIN <<l>> = 1 .. 1 /\ <<l>>[1] = l
      OBVIOUS
    <3> QED BY <2>2, <3>1
  <2>5. {k \in DOMAIN L : i \in Borders(L[k])} = IF i \in RimsOf(s) THEN {1} ELSE {}
    BY <2>3, <2>4
  <2> QED BY <2>5, FS_Singleton, FS_EmptySet
<1>3. CASE s.bkt = <<>>
  <2>1. PICK P \in Seq(LevelType), Q \in Seq(LevelType), S \in Seq(LevelType) :
          P = s.stack.ss /\ Q = s.stack.ms /\ S = Whole(s)
    BY WholeFacts
  <2>2. PICK p \in Nat, q \in Nat : p = Len(P) /\ q = Len(Q)
    BY <2>1
  <2>3. L = Q \o P
    BY <1>1, <1>3, <2>1, ConcatEmptySeq
  <2>4. DOMAIN L = 1 .. q + p /\ \A k \in 1 .. q + p : L[k] = IF k <= q THEN Q[k] ELSE P[k - q]
    BY <2>2, <2>3
  <2>5. /\ Len(S) = p + q
        /\ \A k \in 1 .. p : S[k] = P[k]
        /\ \A k \in 1 .. q : S[p + k] = Q[k]
    BY <2>1, <2>2, WholeFacts
  <2> DEFINE at(k) == IF k <= q THEN p + k ELSE k - q
  <2>6. ASSUME NEW k \in 1 .. q + p PROVE at(k) \in 1 .. Len(S) /\ L[k] = S[at(k)]
    <3>1. CASE k <= q
      <4>1. k \in 1 .. q /\ at(k) = p + k /\ p + k \in 1 .. p + q
        BY <3>1
      <4> QED BY <3>1, <4>1, <2>4, <2>5
    <3>2. CASE ~(k <= q)
      <4>1. at(k) = k - q /\ k - q \in 1 .. p /\ k - q \in 1 .. p + q
        BY <3>2
      <4> QED BY <3>2, <4>1, <2>4, <2>5
    <3> QED BY <3>1, <3>2
  <2>7. \A j, k \in 1 .. q + p : at(j) = at(k) => j = k
    OBVIOUS
  <2>8. ASSUME NEW m \in 1 .. p + q PROVE \E k \in 1 .. q + p : at(k) = m
    <3>1. CASE m <= p
      <4>1. m + q \in 1 .. q + p /\ at(m + q) = m
        BY <3>1
      <4> QED BY <4>1
    <3>2. CASE ~(m <= p)
      <4>1. m - p \in 1 .. q + p /\ at(m - p) = m
        BY <3>2
      <4> QED BY <4>1
    <3> QED BY <3>1, <3>2
  <2> HIDE DEF at
  <2>9. PICK lo \in Int, hi \in Int, d \in Int : NestOK(S, lo, hi, d)
    <3>1. r[1] \in Int /\ r[2] \in Int /\ r[3] \in Int
      BY RangeFacts
    <3> QED BY <2>1, <3>1
  <2>10. RimsOf(s) = Rims(S)
    BY <1>3, <2>1, RimsStack
  <2>11. ASSUME NEW j \in DOMAIN L, NEW k \in DOMAIN L, i \in Borders(L[j]), i \in Borders(L[k])
         PROVE  j = k
    <3>1. j \in 1 .. q + p /\ k \in 1 .. q + p
      BY <2>4, <2>11
    <3>2. /\ at(j) \in 1 .. Len(S) /\ i \in Borders(S[at(j)])
          /\ at(k) \in 1 .. Len(S) /\ i \in Borders(S[at(k)])
      BY <2>6, <2>11, <3>1
    <3>3. at(j) = at(k)
      BY <2>9, <3>2, RimOnce
    <3> QED BY <2>7, <3>1, <3>3
  <2>12. CASE i \in RimsOf(s)
    <3>1. PICK m \in 1 .. Len(S) : i \in Borders(S[m])
      BY <2>10, <2>12, RimsFacts
    <3>2. PICK k \in 1 .. q + p : at(k) = m
      BY <2>5, <2>8, <3>1
    <3>3. k \in DOMAIN L /\ i \in Borders(L[k])
      BY <2>4, <2>6, <3>1, <3>2
    <3>4. {j \in DOMAIN L : i \in Borders(L[j])} = {k}
      BY <2>11, <3>3
    <3> QED BY <2>12, <3>4, FS_Singleton
  <2>13. CASE i \notin RimsOf(s)
    <3>1. ASSUME NEW k \in DOMAIN L PROVE i \notin Borders(L[k])
      <4>1. at(k) \in 1 .. Len(S) /\ L[k] = S[at(k)]
        BY <2>4, <2>6
      <4>2. \A m \in 1 .. Len(S) : i \notin Borders(S[m])
        BY <2>10, <2>13, RimsFacts
      <4> QED BY <4>1, <4>2
    <3>2. {j \in DOMAIN L : i \in Borders(L[j])} = {}
      BY <3>1
    <3> QED BY <2>13, <3>2, FS_EmptySet
  <2> QED BY <2>12, <2>13
<1> QED BY <1>2, <1>3

\* The last substep writes the borders of its step; no live step needs them.
LEMMA DeleteLcp ==
  ASSUME IInv, LInv, NEW t \in Thread, NEW r, NEW p, NEW a, Deletes(t, r, p, a), LastOf(t, r),
         lcp' = [i \in Position |-> IF i \in RimsOf(step[r]) THEN lcp[i] + 1 ELSE lcp[i]]
  PROVE  LInv'
<1>1. /\ r \in DOMAIN step /\ r = thr[t].s /\ thr[t].at = "notify" /\ p = step[r].parent
      /\ DOMAIN step' = DOMAIN step \ {r} /\ \A x \in DOMAIN step : x # r => step'[x] = step[x]
      /\ todo' = todo /\ inst' = inst /\ Moves(t, a, p)
  BY DEF Deletes
<1>2. todo[t] = {}
  BY DeleteSetsFacts DEF DeleteSets
<1>3. /\ Kids(r) = {} /\ Owed(r) = {} /\ Handles(r) = {}
      /\ \A x \in DOMAIN step : ~Inside(x, r)
  BY DEF LastOf
<1>4. Due(r) = RimsOf(step[r])
  BY <1>1, <1>3, DueOwed
<1>5. ASSUME NEW x, x # r PROVE Kids(x)' = Kids(x)
  <2>1. Kids(x)' = UNION {todo[u] : u \in {v \in Thread : thr'[v].s = x}}
    BY <1>1 DEF Kids
  <2>2. Kids(x) = UNION {todo[u] : u \in {v \in Thread : thr[v].s = x}}
    BY DEF Kids
  <2>3. \A u \in Thread : u # t => thr'[u].s = thr[u].s
    BY <1>1 DEF Moves
  <2> QED BY <1>2, <2>1, <2>2, <2>3
<1>6. ASSUME NEW x \in DOMAIN step' PROVE Due(x)' = Due(x)
  <2>1. step'[x] = step[x] /\ Kids(x)' = Kids(x)
    BY <1>1, <1>5
  <2> QED BY <2>1, <1>1, RimsNext DEF Due
<1>7. LcpExact'
  <2>1. Position' = Position
    BY <1>1, Rigid
  <2>2. SUFFICES ASSUME NEW i \in Position
                 PROVE  lcp'[i] = IF i = 0 \/ \E x \in DOMAIN step' : i \in Due(x)' THEN 0 ELSE 1
    BY <2>1 DEF LcpExact
  <2>3. lcp[i] = IF i = 0 \/ \E x \in DOMAIN step : i \in Due(x) THEN 0 ELSE 1
    BY DEF LInv, LcpExact
  <2>4. CASE i \in Due(r)
    <3>1. i # 0
      <4>1. Due(r) \subseteq Inner(r) /\ r \in StepId /\ inst \in Instances
        BY <1>1, DueFacts, LiveFacts
      <4> QED BY <2>4, <4>1, InnerFacts
    <3>2. \A x \in DOMAIN step : x # r => i \notin Due(x)
      BY <1>1, <2>4, DueApart
    <3>3. \A x \in DOMAIN step' : i \notin Due(x)'
      BY <1>1, <1>6, <3>2
    <3>4. lcp'[i] = 0 + 1
      BY <1>1, <1>4, <2>3, <2>4
    <3> QED BY <3>1, <3>3, <3>4
  <2>5. CASE i \notin Due(r)
    <3>1. (\E x \in DOMAIN step : i \in Due(x)) <=> (\E x \in DOMAIN step' : i \in Due(x)')
      BY <1>1, <1>6, <2>5
    <3>2. lcp'[i] = lcp[i]
      BY <1>4, <2>5
    <3> QED BY <2>3, <3>1, <3>2
  <2> QED BY <2>4, <2>5
<1>8. LevelsOK'
  <2>1. SUFFICES ASSUME NEW x \in DOMAIN step' PROVE LevelsAt(x, step[x])'
    BY DEF LevelsOK
  <2>2. LevelsAt(x, step'[x])
    BY <1>1 DEF LInv, LevelsOK
  <2> QED BY <2>2, <1>1, RimsNext
<1>9. KidsOK'
  <2>1. ASSUME NEW u \in Thread, NEW d \in todo'[u] PROVE KidAt(d, thr'[u].s, RimsOf(step'[thr'[u].s]))
    <3>1. d \in todo[u] /\ u # t /\ thr'[u] = thr[u]
      BY <1>1, <1>2, <2>1 DEF Moves
    <3>2. thr[u].at \in Handling
      BY <3>1 DEF IInv, TodoOK, Then, Handling, InSample, InMkqs
    <3>3. thr[u].s \in DOMAIN step /\ thr[u].s # r
      BY <1>3, <3>2, HolderFacts, HandlesDef DEF Holding
    <3> QED BY <1>1, <3>1, <3>3 DEF LInv, KidsOK
  <2>2. ASSUME NEW u \in Thread, NEW d \in todo'[u]
        PROVE  KidAt(d, thr'[u].s, RimsOf(step[thr[u].s])')
    <3>1. RimsOf(step[thr[u].s])' = RimsOf(step'[thr'[u].s])
      BY DEF RimsOf, Rims, Whole, Borders, Filled, BktNum
    <3> QED BY <3>1, <2>1
  <2> QED BY <2>2 DEF KidsOK, KidAt, Inner
<1>10. RimsApart'
  <2>1. SUFFICES ASSUME NEW x \in DOMAIN step', NEW y \in DOMAIN step', Inside(y, x)
                 PROVE  RimsOf(step'[x]) \cap Inner(y) = {}
    BY <1>1, RimsNext DEF RimsApart, Inside, Size, Inner
  <2> QED BY <1>1, <2>1 DEF LInv, RimsApart
<1>11. EndsHeld'
  <2>1. SUFFICES ASSUME NEW y \in DOMAIN step'
                 PROVE  /\ y[1] = 0 \/ \E x \in DOMAIN step' : Inside(y, x) /\ y[1] \in RimsOf(step'[x])
                        /\ y[2] = N \/ \E x \in DOMAIN step' : Inside(y, x) /\ y[2] \in RimsOf(step'[x])
    BY <1>1, RimsNext, Rigid DEF EndsHeld, Inside, Size
  <2>2. \A x \in DOMAIN step : Inside(y, x) => x \in DOMAIN step' /\ step'[x] = step[x]
    BY <1>1, <1>3
  <2>3. /\ y[1] = 0 \/ \E x \in DOMAIN step : Inside(y, x) /\ y[1] \in RimsOf(step[x])
        /\ y[2] = N \/ \E x \in DOMAIN step : Inside(y, x) /\ y[2] \in RimsOf(step[x])
    BY <1>1 DEF LInv, EndsHeld
  <2> QED BY <2>2, <2>3
<1> QED BY <1>7, <1>8, <1>9, <1>10, <1>11 DEF LInv

\* Notify: substep_notify_done().
LEMMA NotifyKeeps ==
  ASSUME IInv, NEW t \in Thread, Notify(t), inst' = inst
  PROVE  IInv' /\ (LInv => LInv')
<1>1. PICK r : r = thr[t].s
  OBVIOUS
<1>2. PICK L : L = OpenLevels(step[r])
  OBVIOUS
<1>3. /\ thr[t].at = "notify" /\ r \in DOMAIN step /\ UNCHANGED <<jobs, todo>>
      /\ IF step[r].cnt > 1
         THEN /\ step' = [step EXCEPT ![r].cnt = @ - 1]
              /\ Rest(t)
              /\ UNCHANGED <<fin, lcp>>
         ELSE /\ lcp' = [i \in Position |->
                          lcp[i] + Cardinality({k \in DOMAIN L : i \in Borders(L[k])})]
              /\ step' = Restrict(step, DOMAIN step \ {r})
              /\ IF step[r].parent = NoStep THEN Rest(t) ELSE At(t, "notify", step[r].parent)
              /\ UNCHANGED fin
  BY <1>1, <1>2 DEF Notify, Is
<1>4. StateOK /\ inst \in Instances /\ step[r] \in StepType
  BY <1>3 DEF IInv, StateOK
<1>5. CASE step[r].cnt > 1
  BY <1>1, <1>3, <1>5, NotifyCounts
<1>6. CASE ~(step[r].cnt > 1)
  <2>1. LastOf(t, r)
    BY <1>1, <1>3, <1>6, LastSubstep
  <2>2. PICK p, a : p = step[r].parent /\ a = (IF p = NoStep THEN "idle" ELSE "notify")
    OBVIOUS
  <2>3. step' = [x \in DOMAIN step \ {r} |-> step[x]]
    BY <1>3, <1>6 DEF Restrict
  <2>4. /\ DOMAIN step' = DOMAIN step \ {r} /\ \A x \in DOMAIN step : x # r => step'[x] = step[x]
        /\ step' \in [DOMAIN step' -> StepType]
    BY <1>4, <2>3 DEF StateOK
  <2>5. lcp' \in [Position -> Nat]
    <3>1. OrderOK(step[r])
      BY <1>3 DEF IInv, StacksOK, StackOK
    <3>2. \A i : Cardinality({k \in DOMAIN L : i \in Borders(L[k])}) \in Nat
      BY <1>2, <1>4, <3>1, OpenLevelsFacts
    <3>3. \A i \in Position : lcp[i] \in Nat
      BY <1>4 DEF StateOK
    <3>4. PICK g : g = [i \in Position |-> Cardinality({k \in DOMAIN L : i \in Borders(L[k])})]
      OBVIOUS
    <3>5. g \in [Position -> Nat] /\ lcp' = [i \in Position |-> lcp[i] + g[i]]
      BY <1>3, <1>6, <3>2, <3>4, Zenon
    <3> HIDE <3>4
    <3> QED BY <3>3, <3>5
  <2>6. Moves(t, a, p) /\ thr' \in [Thread -> [at : Ats, s : StepId \cup {NoStep}]]
    <3>1. CASE p = NoStep
      BY <1>3, <1>4, <1>6, <2>2, <3>1, RestFacts DEF StateOK
    <3>2. CASE p # NoStep
      <4>1. "notify" \in Ats /\ p \in StepId \cup {NoStep}
        BY <1>4, <2>2 DEF Ats, StepType
      <4> QED BY <1>3, <1>4, <1>6, <2>2, <3>2, <4>1, MovesFacts DEF StateOK
    <3> QED BY <3>1, <3>2
  <2>7. Deletes(t, r, p, a)
    BY <1>1, <1>3, <1>6, <2>2, <2>4, <2>5, <2>6 DEF Deletes
  <2>8. IInv'
    BY <2>1, <2>7, DeletesKeeps
  <2>9. ASSUME LInv PROVE LInv'
    <3>1. Len(Whole(step[r])) = Freed(step[r])
      BY <1>3, <2>1 DEF LastOf, IInv, HandlesOK
    <3>2. \A i : Cardinality({k \in DOMAIN L : i \in Borders(L[k])}) = IF i \in RimsOf(step[r]) THEN 1 ELSE 0
      BY <1>2, <1>3, <2>9, <3>1, LiveFacts, RimsWritten
    <3>3. \A i \in Position : lcp[i] \in Nat
      BY <1>4 DEF StateOK
    <3>4. \A n \in Nat : n + 0 = n
      OBVIOUS
    <3>5. lcp' = [i \in Position |-> lcp[i] + IF i \in RimsOf(step[r]) THEN 1 ELSE 0]
      BY <1>3, <1>6, <3>2, Zenon
    <3>6. lcp' = [i \in Position |-> IF i \in RimsOf(step[r]) THEN lcp[i] + 1 ELSE lcp[i]]
      BY <3>3, <3>5
    <3> QED BY <2>1, <2>7, <2>9, <3>6, DeleteLcp
  <2> QED BY <2>8, <2>9
<1> QED BY <1>5, <1>6

---------------------------------------------------------------------------
(* The invariant *)

\* The sort starts with one step for the whole input and its first job.
LEMMA InitIInv == Init => IInv
<1> SUFFICES ASSUME Init PROVE IInv
  OBVIOUS
<1>1. /\ inst \in Instances /\ step = [r \in {Root} |-> NewStep(r, NoStep)]
      /\ jobs = {FirstJob(Root)} /\ thr = [t \in Thread |-> Idle]
      /\ todo = [t \in Thread |-> {}]
      /\ fin = [i \in Position |-> 0] /\ lcp = [i \in Position |-> 0]
  BY DEF Init
<1>2. N \in Nat \ {0} /\ MaxDepth \in Nat
  BY <1>1, SizesFacts
<1>3. Root \in StepId /\ Cells(Root) = Position
  BY <1>2 DEF Root, StepId, Cells, Position
<1>4. /\ NewStep(Root, NoStep) \in StepType /\ NewStep(Root, NoStep).parent = NoStep
      /\ NewStep(Root, NoStep).cnt = 0
      /\ NoStack(NewStep(Root, NoStep)) /\ NewStep(Root, NoStep).bkt = <<>>
      /\ FirstJob(Root) \in JobType /\ FirstJob(Root).s = Root
      /\ FirstJob(Root).type \in {"sample", "small"}
  BY <1>1, <1>3, NewStepFacts
<1>5. DOMAIN step = {Root} /\ step[Root] = NewStep(Root, NoStep) /\ Root # NoStep
  BY <1>1, <1>3, RangeFacts
<1>6. \A t \in Thread : thr[t].at = "idle" /\ thr[t].s = NoStep /\ thr[t] = Idle /\ todo[t] = {}
  BY <1>1 DEF Idle
<1>7. /\ "idle" \notin DOMAIN Then /\ "idle" \notin Opening
      /\ "idle" \notin Handling /\ "idle" \notin Holding /\ "idle" \in Ats
  BY DEF Then, Opening, Holding, Handling, InSample, InMkqs, Ats
<1>8. StateOK
  <2>1. IsFiniteSet({Root}) /\ IsFiniteSet({FirstJob(Root)})
    BY FS_Singleton
  <2>2. thr \in [Thread -> [at : Ats, s : StepId \cup {NoStep}]]
    BY <1>1, <1>7 DEF Idle
  <2>3. step \in [{Root} -> StepType]
    BY <1>1, <1>4
  <2> QED BY <1>1, <1>3, <1>4, <1>5, <2>1, <2>2, <2>3 DEF StateOK
<1>9. NoDangling
  BY <1>1, <1>4, <1>5, <1>6 DEF NoDangling
<1>10. Holders(Root) = {} /\ Openers(Root) = {} /\ Handles(Root) = {} /\ Children(Root) = {}
  <2>1. Holders(Root) = {} /\ Openers(Root) = {}
    BY <1>6, <1>7 DEF Holders, Openers
  <2>2. Handles(Root) = {}
    BY <2>1, HoldersFacts
  <2>3. Children(Root) = {}
    BY <1>4, <1>5 DEF Children
  <2> QED BY <2>1, <2>2, <2>3
<1>11. AllCounted
  <2>1. Cardinality({}) = 0
    BY FS_EmptySet
  <2>2. step[Root].cnt = 0 /\ 0 = Cardinality(Children(Root)) + Cardinality(Holders(Root))
    BY <1>4, <1>5, <1>10, <2>1
  <2> QED BY <1>5, <2>2 DEF AllCounted, Counted
<1>12. StagesOK
  <2>1. PICK b \in {"sample", "small"} : b = FirstJob(Root).type
    BY <1>4
  <2>2. Queued(Root) = {FirstJob(Root)}
    BY <1>1, <1>4 DEF Queued
  <2>3. Weight(b, step[Root]) = 1 /\ b \in Opening /\ b \notin {"dist", "distfin"}
    BY <2>1 DEF Weight, Opening
  <2>4. Cardinality({FirstJob(Root)}) = 1 /\ Cardinality({}) = 0
    BY FS_EmptySet, FS_Singleton
  <2>5. Cardinality(Queued(Root)) + Cardinality(Openers(Root)) = 1
    BY <1>10, <2>2, <2>4
  <2>6. /\ \A j \in Queued(Root) : j.type = b
        /\ \A u \in Openers(Root) : thr[u].at = b
    BY <1>10, <2>1, <2>2
  <2>7. NoStack(step[Root]) /\ step[Root].bkt = <<>> /\ step[Root].cnt = 0
    BY <1>4, <1>5
  <2>8. Stage(Root, b)
    BY <2>3, <2>5, <2>6, <2>7 DEF Stage
  <2>9. StageOK(Root)
    BY <2>3, <2>7, <2>8 DEF StageOK
  <2> QED BY <1>5, <2>9 DEF StagesOK
<1>13. /\ Len(Whole(step[Root])) = 0 /\ Freed(step[Root]) = 0
       /\ OrderOK(step[Root]) /\ NestOK(Whole(step[Root]), Root[1], Root[2], Root[3])
  BY <1>1, <1>3, <1>4, <1>5, NoStackFacts
<1>14. StacksOK
  BY <1>5, <1>13 DEF StacksOK, StackOK
<1>15. HandlesOK
  BY <1>5, <1>6, <1>7, <1>10, <1>13 DEF HandlesOK
<1>16. ~Inside(Root, Root)
  BY <1>1, <1>3, InsideFacts
<1>17. TreeOK /\ AreasApart
  BY <1>4, <1>5, <1>16 DEF TreeOK, AreasApart
<1>18. TodoOK
  BY <1>6, <1>7 DEF TodoOK
<1>19. FinExact
  <2>1. Owed(Root) = Position
    BY <1>3, <1>4, <1>5 DEF Owed
  <2> QED BY <1>1, <1>5, <2>1 DEF FinExact
<1> QED BY <1>8, <1>9, <1>11, <1>12, <1>14, <1>15, <1>17, <1>18, <1>19 DEF IInv

\* The first step may write every LCP, and nothing else has one open.
LEMMA InitLInv == Init => LInv
<1> SUFFICES ASSUME Init PROVE LInv
  OBVIOUS
<1>1. /\ inst \in Instances /\ step = [r \in {Root} |-> NewStep(r, NoStep)]
      /\ todo = [t \in Thread |-> {}] /\ lcp = [i \in Position |-> 0]
  BY DEF Init
<1>2. N \in Nat \ {0} /\ MaxDepth \in Nat
  BY <1>1, SizesFacts
<1>3. Root \in StepId /\ Root[1] = 0 /\ Root[2] = N
  BY <1>2 DEF Root, StepId
<1>4. PICK s \in StepType : s = NewStep(Root, NoStep) /\ NoStack(s) /\ s.bkt = <<>> /\ s.cnt = 0
  BY <1>1, <1>3, NewStepFacts
<1>5. DOMAIN step = {Root} /\ step[Root] = s
  BY <1>1, <1>4
<1>6. Len(Whole(s)) = 0
  BY <1>1, <1>3, <1>4, NoStackFacts
<1>7. LevelsOK
  <2>1. EndsOK(Whole(s), Root)
    BY <1>6 DEF EndsOK
  <2> QED BY <1>4, <1>5, <2>1 DEF LevelsOK, LevelsAt
<1>8. KidsOK
  BY <1>1 DEF KidsOK
<1>9. ~Inside(Root, Root)
  BY <1>1, <1>3, InsideFacts
<1>10. RimsApart
  BY <1>5, <1>9 DEF RimsApart
<1>11. EndsHeld
  BY <1>3, <1>5 DEF EndsHeld
<1>12. LcpExact
  <2>1. Due(Root) = Inner(Root)
    BY <1>4, <1>5 DEF Due
  <2>2. ASSUME NEW i \in Position, i # 0 PROVE i \in Inner(Root)
    BY <1>2, <1>3, <2>2 DEF Position, Inner
  <2> QED BY <1>1, <1>5, <2>1, <2>2 DEF LcpExact
<1> QED BY <1>7, <1>8, <1>10, <1>11, <1>12 DEF LInv

\* A state in which nothing changes is as good as before.
LEMMA StutterKeeps ==
  ASSUME IInv, UNCHANGED vars
  PROVE  IInv'
<1>1. inst' = inst /\ UNCHANGED <<step, jobs, thr, todo, fin, lcp>>
  BY DEF vars, state
<1>2. StateOK /\ inst \in Instances
  BY DEF IInv, StateOK
<1>3. StateOK'
  BY <1>1, <1>2, StateOKNext DEF StateOK
<1>4. NoDangling'
  BY <1>1 DEF IInv, NoDangling
<1>5. \A x : /\ Holders(x)' = Holders(x) /\ Handles(x)' = Handles(x) /\ Openers(x)' = Openers(x)
             /\ Queued(x)' = Queued(x) /\ Kids(x)' = Kids(x)
  BY <1>1 DEF Holders, Handles, Openers, Queued, Kids
<1>6. AllCounted'
  BY <1>1, <1>5, CountKept DEF IInv
<1>7. StagesOK'
  <2>1. ASSUME NEW x \in DOMAIN step PROVE StageOK(x)'
    <3>1. StageOK(x)
      BY DEF IInv, StagesOK
    <3>2. \A a : Stage(x, a) => Stage(x, a)'
      <4>1. Splits(x)' = Splits(x)
        BY <1>1, Rigid
      <4> QED BY <1>1, <1>5, <4>1 DEF Stage, Weight, NoStack
    <3> QED BY <1>1, <1>5, <3>1, <3>2 DEF StageOK
  <2> QED BY <1>1, <2>1 DEF StagesOK
<1>8. StacksOK'
  <2>1. \A x \in DOMAIN step : OrderOK(step'[x]) /\ NestOK(Whole(step'[x]), x[1], x[2], x[3])
    BY <1>1 DEF IInv, StacksOK, StackOK
  <2>2. \A x \in DOMAIN step' : StackOK(x)'
    BY <1>1, <2>1, StackOKNext
  <2> QED BY <2>2 DEF StacksOK
<1>9. HandlesOK'
  <2>1. ASSUME NEW u \in Thread, thr'[u].at \in Handling
        PROVE  HandleOK(thr[u].at, thr[u].s, step[thr[u].s])'
    <3>1. HandleOK(thr'[u].at, thr'[u].s, step'[thr'[u].s])
      BY <1>1, <2>1 DEF IInv, HandlesOK
    <3> QED BY <1>1, <3>1, StackOKNext
  <2>2. \A x \in DOMAIN step : Whole(step[x])' = Whole(step[x]) /\ Freed(step[x])' = Freed(step[x])
    BY <1>1 DEF Whole, Freed
  <2> QED BY <1>1, <1>5, <2>1, <2>2 DEF IInv, HandlesOK
<1>10. \A x : /\ StackArea(step[x])' = StackArea(step[x]) /\ StackOpen(step[x])' = StackOpen(step[x])
              /\ Cells(x)' = Cells(x)
  BY <1>1 DEF StackArea, StackOpen, LevelsArea, LevelsOpen, Whole, Freed, NextLo, Cells
<1>11. \A x \in DOMAIN step : Area(x)' = Area(x) /\ Owed(x)' = Owed(x)
  BY <1>1, <1>5, <1>10 DEF Area, Owed
<1>12. TreeOK' /\ AreasApart'
  BY <1>1, <1>11, TreeKept
<1>13. TodoOK'
  <2>1. \A u \in Thread : StackArea(step[thr[u].s])' = StackArea(step[thr[u].s])
    <3>1. \A u \in Thread : StackArea(step[thr[u].s])' = StackArea(step'[thr'[u].s])
      BY SameArea
    <3> QED BY <1>1, <3>1
  <2> QED BY <1>1, <2>1 DEF IInv, TodoOK, Inside, Size, Apart, Cells, Then
<1>14. FinExact'
  <2>1. Position' = Position
    BY <1>1, Rigid
  <2> QED BY <1>1, <1>11, <2>1 DEF IInv, FinExact
<1> QED BY <1>3, <1>4, <1>6, <1>7, <1>8, <1>9, <1>12, <1>13, <1>14 DEF IInv

\* The LCPs are divided as before when nothing changes.
LEMMA StutterLcp ==
  ASSUME LInv, UNCHANGED vars
  PROVE  LInv'
<1>1. inst' = inst /\ UNCHANGED <<step, thr, todo, lcp>>
  BY DEF vars, state
<1>2. \A x : RimsOf(step[x])' = RimsOf(step[x])
  BY <1>1, RimsNext
<1>3. \A x : Due(x)' = Due(x)
  <2>1. \A x : Kids(x)' = Kids(x)
    BY <1>1 DEF Kids
  <2> QED BY <1>1, <2>1, RimsNext DEF Due
<1>4. LevelsOK'
  BY <1>1, RimsNext DEF LInv, LevelsOK
<1>5. KidsOK'
  <2>1. \A u \in Thread : RimsOf(step[thr[u].s])' = RimsOf(step[thr[u].s])
    BY <1>1 DEF RimsOf, Rims, Whole, Borders, Filled, BktNum
  <2> QED BY <1>1, <2>1 DEF LInv, KidsOK, KidAt, Inner
<1>6. RimsApart'
  BY <1>1, <1>2 DEF LInv, RimsApart, Inside, Size, Inner
<1>7. EndsHeld'
  BY <1>1, <1>2, Rigid DEF LInv, EndsHeld, Inside, Size
<1>8. LcpExact'
  BY <1>1, <1>3, Rigid DEF LInv, LcpExact
<1> QED BY <1>4, <1>5, <1>6, <1>7, <1>8 DEF LInv

\* Every step of the program keeps the invariant, and with it the LCPs'.
LEMMA NextIInv == IInv /\ [Next]_vars => IInv' /\ (LInv => LInv')
<1> SUFFICES ASSUME IInv, [Next]_vars PROVE IInv' /\ (LInv => LInv')
  OBVIOUS
<1>1. CASE UNCHANGED vars
  BY <1>1, StutterKeeps, StutterLcp
<1>2. CASE Returned
  BY <1>2, StutterKeeps, StutterLcp DEF Returned
<1>3. ASSUME NEW t \in Thread, Work(t) PROVE IInv' /\ (LInv => LInv')
  <2>1. inst' = inst /\ (TakeJob(t) \/ RunJob(t))
    BY <1>3 DEF Work
  <2>2. CASE TakeJob(t)
    BY <2>1, <2>2, TakeJobKeeps
  <2>3. CASE Sample(t)
    BY <2>1, <2>3, SampleKeeps
  <2>4. CASE Count(t)
    BY <2>1, <2>4, CountKeeps
  <2>5. CASE Reread(t)
    BY <2>1, <2>5, RereadKeeps
  <2>6. CASE Distribute(t)
    BY <2>1, <2>6, DistributeKeeps
  <2>7. CASE DistributeFinished(t)
    BY <2>1, <2>7, DistributeFinishedKeeps
  <2>8. CASE EnqueueChild(t)
    BY <2>1, <2>8, EnqueueChildKeeps
  <2>9. CASE RunSmall(t)
    BY <2>1, <2>9, RunSmallKeeps
  <2>10. CASE RunBucket(t)
    BY <2>1, <2>10, RunBucketKeeps
  <2>11. CASE PopLevel(t)
    BY <2>1, <2>11, PopLevelKeeps
  <2>12. CASE LeaveLoop(t)
    BY <2>1, <2>12, LeaveLoopKeeps
  <2>13. CASE KeepWork(t)
    BY <2>1, <2>13, KeepWorkKeeps
  <2>14. CASE FreeWork(t)
    BY <2>1, <2>14, FreeWorkKeeps
  <2>15. CASE Notify(t)
    BY <2>1, <2>15, NotifyKeeps
  <2> QED BY <2>1, <2>2, <2>3, <2>4, <2>5, <2>6, <2>7, <2>8, <2>9, <2>10, <2>11, <2>12, <2>13, <2>14,
             <2>15 DEF RunJob
<1> QED BY <1>1, <1>2, <1>3 DEF Next

\* The invariant holds in every reachable state.
THEOREM Inductive == Spec => []IInv
<1>1. Init => IInv
  BY InitIInv
<1>2. IInv /\ [Next]_vars => IInv'
  BY NextIInv
<1> QED BY <1>1, <1>2, PTL DEF Spec

\* So does the invariant of the LCPs.
THEOREM LcpInductive == Spec => [](IInv /\ LInv)
<1>1. Init => IInv /\ LInv
  BY InitIInv, InitLInv
<1>2. (IInv /\ LInv) /\ [Next]_vars => (IInv /\ LInv)'
  BY NextIInv
<1> QED BY <1>1, <1>2, PTL DEF Spec

---------------------------------------------------------------------------
(* What it says of the sort *)

\* A stack never has more levels given away than it has levels.
LEMMA IInvTypeOK == IInv => TypeOK
<1> SUFFICES ASSUME IInv PROVE TypeOK
  OBVIOUS
<1>1. StateOK /\ StacksOK
  BY DEF IInv
<1>2. ASSUME NEW r \in DOMAIN step
      PROVE  /\ step[r].parent \in StepId \cup {NoStep}
             /\ step[r].cnt \in Nat /\ step[r].pwork \in Nat
             /\ \A a \in {"ss", "ms"} : step[r].front[a] \in 0 .. Len(step[r].stack[a])
  <2>1. step[r] \in StepType /\ OrderOK(step[r])
    BY <1>1 DEF StateOK, StacksOK, StackOK
  <2> QED BY <2>1 DEF StepType, OrderOK
<1> QED BY <1>1, <1>2 DEF TypeOK, StateOK, JobType

\* A sample sort level left means no quicksort level was given away; the thread
\* in the sample sort loop has no quicksort level at all.
LEMMA IInvPopFrontOrder == IInv => PopFrontOrder
<1> SUFFICES ASSUME IInv, NEW r \in DOMAIN step, Len(step[r].stack.ss) > step[r].front.ss
             PROVE  /\ step[r].front.ms = 0
                    /\ \A t \in Thread : thr[t] = [at |-> "ss", s |-> r] => step[r].stack.ms = <<>>
  BY DEF PopFrontOrder
<1>1. OrderOK(step[r]) /\ step[r] \in StepType
  BY DEF IInv, StacksOK, StackOK, StateOK
<1>2. step[r].front.ms = 0
  BY <1>1 DEF OrderOK, StepType
<1>3. ASSUME NEW t \in Thread, thr[t] = [at |-> "ss", s |-> r] PROVE step[r].stack.ms = <<>>
  <2>1. thr[t].at = "ss" /\ thr[t].s = r /\ "ss" \in Handling /\ "ss" \in InSample
    BY <1>3 DEF Handling, InSample
  <2>2. HandleOK("ss", r, step[r])
    BY <2>1 DEF IInv, HandlesOK
  <2>3. Len(step[r].stack.ms) = 0
    BY <1>2, <2>1, <2>2 DEF HandleOK
  <2>4. step[r].stack.ms \in Seq(LevelType)
    BY <1>1 DEF StepType
  <2> QED BY <2>3, <2>4
<1> QED BY <1>2, <1>3

\* No position is final twice.
SortedOnce == \A i \in Position : fin[i] <= 1

\* When the queue is dry no step is left and every position is final.
SortedAll == Quiet => DOMAIN step = {} /\ \A i \in Position : fin[i] = 1

\* A position is final at most once; it is final when no step is left: an
\* innermost step would need a job, a thread or a child.
LEMMA IInvSorted == IInv => SortedOnce /\ SortedAll
<1> SUFFICES ASSUME IInv PROVE SortedOnce /\ SortedAll
  OBVIOUS
<1>1. SortedOnce
  BY DEF SortedOnce, IInv, FinExact
<1>2. ASSUME Quiet, DOMAIN step # {} PROVE FALSE
  <2>1. StateOK /\ inst \in Instances /\ DOMAIN step \subseteq StepId
    BY DEF IInv, StateOK
  <2>2. PICK r \in DOMAIN step : \A x \in DOMAIN step : ~Inside(x, r)
    BY <1>2, <2>1, Innermost
  <2>3. Children(r) = {}
    <3>1. r # NoStep
      BY <2>1, RangeFacts
    <3> QED BY <2>2, <3>1 DEF Children, IInv, TreeOK
  <2>4. Holders(r) = {} /\ Openers(r) = {} /\ Queued(r) = {}
    BY <1>2 DEF Quiet, Idle, Holders, Openers, Queued, Holding, Handling, InSample, InMkqs, Opening
  <2>5. Cardinality({}) = 0
    BY FS_EmptySet
  <2>6. step[r].cnt = 0
    BY <2>3, <2>4, <2>5 DEF IInv, AllCounted, Counted
  <2>7. PICK a \in Opening : Stage(r, a)
    BY <2>6 DEF IInv, StagesOK, StageOK
  <2>8. 0 + 0 > 0
    BY <2>4, <2>5, <2>7 DEF Stage
  <2> QED BY <2>8
<1>3. SortedAll
  BY <1>2 DEF SortedAll, IInv, FinExact
<1> QED BY <1>1, <1>3

\* Where a live step ends inside the array some live step has the LCP open.
LEMMA EdgeDue ==
  ASSUME IInv, LInv, NEW r \in DOMAIN step, NEW i \in Position, i # 0, i = r[1] \/ i = r[2]
  PROVE  \E x \in DOMAIN step : i \in Due(x)
<1>1. i # N
  <2>1. N \in Nat
    BY SizesFacts DEF IInv, StateOK
  <2> QED BY <2>1 DEF Position
<1>2. \E x \in DOMAIN step : i \in RimsOf(step[x])
  BY <1>1 DEF LInv, EndsHeld
<1> QED BY <1>2, DueFacts

\* A string waits with the LCPs on both its sides: the step that owes it, or
\* one above, has them open.
LEMMA OwedWaits ==
  ASSUME IInv, LInv, NEW r \in DOMAIN step, NEW i \in Position, i # 0,
         i \in Owed(r) \/ i - 1 \in Owed(r)
  PROVE  \E x \in DOMAIN step : i \in Due(x)
<1>1. /\ inst \in Instances /\ r \in StepId /\ step[r] \in StepType
      /\ OrderOK(step[r]) /\ NestOK(Whole(step[r]), r[1], r[2], r[3])
      /\ LevelsAt(r, step[r])
  BY LiveFacts
<1>2. i \in Int
  BY <1>1, SizesFacts DEF Position
<1>3. \A x \in DOMAIN step : RimsOf(step[x]) \subseteq Due(x)
  BY DueFacts
<1>4. ASSUME NEW c \in StepId, i \in Cells(c) \/ i - 1 \in Cells(c)
      PROVE  i \in Inner(c) \/ i = c[1] \/ i = c[2]
  <2>1. PICK a \in Int, b \in Int : a = c[1] /\ b = c[2]
    BY <1>1, RangeFacts
  <2>2. i \in a .. b - 1 \/ i - 1 \in a .. b - 1
    BY <1>4, <2>1 DEF Cells
  <2>3. (a < i /\ i < b) \/ i = a \/ i = b
    BY <1>2, <2>2
  <2> QED BY <1>1, <1>2, <2>1, <2>3, InnerFacts
<1>5. CASE step[r].cnt = 0
  <2>1. Owed(r) = Cells(r) /\ Due(r) = Inner(r)
    BY <1>5 DEF Owed, Due
  <2>2. i \in Inner(r) \/ i = r[1] \/ i = r[2]
    BY <1>1, <1>4, <2>1
  <2> QED BY <2>1, <2>2, EdgeDue
<1>6. CASE step[r].cnt # 0
  <2>1. /\ Owed(r) = StackOpen(step[r]) \cup UNION {Cells(c) : c \in Kids(r)}
        /\ Due(r) = (StackOpen(step[r]) \cap Inner(r)) \cup InnerOf(Kids(r)) \cup RimsOf(step[r])
    BY <1>6 DEF Owed, Due
  <2>2. ASSUME NEW c \in Kids(r), i \in Cells(c) \/ i - 1 \in Cells(c)
        PROVE  \E x \in DOMAIN step : i \in Due(x)
    <3>1. c \in StepId /\ KidAt(c, r, RimsOf(step[r]))
      BY KidsInside DEF LInv, KidsOK, Kids
    <3>2. i \in Inner(c) \/ i = c[1] \/ i = c[2]
      BY <1>4, <2>2, <3>1
    <3>3. i \in Inner(c) => i \in Due(r)
      BY <2>1 DEF InnerOf
    <3>4. i = c[1] \/ i = c[2] => i \in RimsOf(step[r]) \/ i = r[1] \/ i = r[2]
      BY <3>1 DEF KidAt
    <3> QED BY <1>3, <3>2, <3>3, <3>4, EdgeDue
  <2>3. ASSUME i \in StackOpen(step[r]) PROVE \E x \in DOMAIN step : i \in Due(x)
    <3>1. i \in Cells(r)
      BY <1>1, <2>3, StackAreaFacts
    <3>2. i \in Inner(r) \/ i = r[1]
      BY <1>1, <3>1, InnerFacts
    <3> QED BY <2>1, <2>3, <3>2, EdgeDue
  <2>4. ASSUME i - 1 \in StackOpen(step[r]), i \notin StackOpen(step[r])
        PROVE  \E x \in DOMAIN step : i \in Due(x)
    <3>1. PICK S \in Seq(LevelType) : S = Whole(step[r])
      BY <1>1, WholeFacts
    <3>2. PICK f \in Nat : f = Freed(step[r])
      BY <1>1, StackAreaFacts
    <3>3. Len(S) > f /\ i - 1 \in NextLo(S[Len(S)]) .. S[f + 1].b[4] - 1
          /\ i \notin NextLo(S[Len(S)]) .. S[f + 1].b[4] - 1
      BY <2>4, <3>1, <3>2 DEF StackOpen, LevelsOpen
    <3>4. f + 1 \in 1 .. Len(S) /\ Len(S) \in 1 .. Len(S)
      BY <3>3
    <3>5. NextLo(S[Len(S)]) \in Int /\ S[f + 1].b[4] \in Int
      <4>1. \A z \in Bound : z \in Int
        BY <1>1, SizesFacts DEF Bound
      <4>2. r[1] \in Int /\ r[2] \in Int /\ r[3] \in Int
        BY <1>1, RangeFacts
      <4>3. NextLo(S[Len(S)]) \in Bound
        BY <1>1, <3>1, <3>4, <4>2, NestFacts
      <4>4. S[f + 1].b[4] \in Bound
        <5>1. S[f + 1] \in LevelType
          BY <3>4
        <5> QED BY <1>1, <5>1, LevelBounds
      <4> QED BY <4>1, <4>3, <4>4
    <3>6. i = S[f + 1].b[4]
      <4>1. PICK o \in Int, b \in Int : o = NextLo(S[Len(S)]) /\ b = S[f + 1].b[4]
        BY <3>5
      <4>2. i - 1 \in o .. b - 1 /\ i \notin o .. b - 1
        BY <3>3, <4>1
      <4>3. i = b
        BY <1>2, <4>2
      <4> QED BY <4>1, <4>3
    <3>7. EndsOK(S, r)
      BY <1>1, <3>1 DEF LevelsAt
    <3>8. i = r[2] \/ \E m \in 1 .. (f + 1) - 1 : i \in Borders(S[m])
      BY <3>4, <3>6, <3>7 DEF EndsOK
    <3>9. ASSUME NEW m \in 1 .. (f + 1) - 1, i \in Borders(S[m]) PROVE i \in RimsOf(step[r])
      <4>1. m \in 1 .. Len(S)
        BY <3>3
      <4>2. i \in Rims(S)
        BY <3>9, <4>1, RimsFacts
      <4> QED BY <3>1, <4>2 DEF RimsOf
    <3> QED BY <1>3, <3>8, <3>9, EdgeDue
  <2> QED BY <2>1, <2>2, <2>3, <2>4
<1> QED BY <1>5, <1>6

\* An LCP that is written has both its strings final.
LEMMA InvLcpAfterFinal == IInv /\ LInv => LcpAfterFinal
<1> SUFFICES ASSUME IInv, LInv, NEW i \in Position, lcp[i] > 0
             PROVE  fin[i] > 0 /\ fin[i - 1] > 0
  BY DEF LcpAfterFinal
<1>1. i # 0 /\ ~\E x \in DOMAIN step : i \in Due(x)
  <2>1. lcp[i] # 0
    BY DEF IInv, StateOK
  <2> QED BY <2>1 DEF LInv, LcpExact
<1>2. i - 1 \in Position
  <2>1. N \in Nat
    BY SizesFacts DEF IInv, StateOK
  <2> QED BY <1>1, <2>1 DEF Position
<1>3. ~\E x \in DOMAIN step : i \in Owed(x) \/ i - 1 \in Owed(x)
  BY <1>1, OwedWaits
<1>4. fin[i] = 1 /\ fin[i - 1] = 1
  BY <1>2, <1>3 DEF IInv, FinExact
<1> QED BY <1>4

\* No string and no LCP is written twice; the first LCP is never written.
LEMMA InvWrittenOnce == IInv /\ LInv => WrittenOnce
<1> SUFFICES ASSUME IInv, LInv, NEW i \in Position
             PROVE  fin[i] <= 1 /\ lcp[i] <= (IF i = 0 THEN 0 ELSE 1)
  BY DEF WrittenOnce
<1>1. fin[i] <= 1
  BY IInvSorted DEF SortedOnce
<1>2. lcp[i] = IF i = 0 \/ \E r \in DOMAIN step : i \in Due(r) THEN 0 ELSE 1
  BY DEF LInv, LcpExact
<1> QED BY <1>1, <1>2

\* With no step left no LCP is open.
LEMMA InvSortComplete == IInv /\ LInv => SortComplete
<1> SUFFICES ASSUME IInv, LInv, Quiet
             PROVE  /\ \A i \in Position : fin[i] = 1 /\ (i > 0 => lcp[i] = 1)
                    /\ DOMAIN step = {}
  BY DEF SortComplete
<1>1. DOMAIN step = {} /\ \A i \in Position : fin[i] = 1
  BY IInvSorted DEF SortedAll
<1>2. ASSUME NEW i \in Position, i > 0 PROVE lcp[i] = 1
  <2>1. i # 0
    BY <1>2
  <2> QED BY <1>1, <2>1 DEF LInv, LcpExact
<1> QED BY <1>1, <1>2

\* Every variable has its type: no step has given away more levels than it has.
THEOREM SampleSortTypeCorrect == Spec => []TypeOK
BY Inductive, IInvTypeOK, PTL

\* No job, thread or child refers to a step that was deleted.
THEOREM NothingDangles == Spec => []NoDangling
<1>1. IInv => NoDangling
  BY DEF IInv
<1> QED BY <1>1, Inductive, PTL

\* m_substep_working counts the children and handles of a step exactly: it is
\* deleted by its last substep.
THEOREM CounterExact == Spec => []CountExact
<1>1. IInv => CountExact
  BY CountExactCounted DEF IInv
<1> QED BY <1>1, Inductive, PTL

\* The assertions on the quicksort stack at the head of sort_mkqs_cache() hold.
THEOREM OldestFirst == Spec => []PopFrontOrder
BY Inductive, IInvPopFrontOrder, PTL

\* Every position is sorted exactly once, and all are when the queue runs dry.
THEOREM EverythingSorted == Spec => [](SortedOnce /\ SortedAll)
BY Inductive, IInvSorted, PTL

\* No string is made final twice and no LCP written twice: two substeps of
\* calculate_lcp() never meet, whatever was given away.
THEOREM SampleSortWrittenOnce == Spec => []WrittenOnce
BY LcpInductive, InvWrittenOnce, PTL

\* An LCP is written only when the strings on both its sides are in place: the
\* LCP array may be the memory of the shadow array.
THEOREM LcpsLast == Spec => []LcpAfterFinal
BY LcpInductive, InvLcpAfterFinal, PTL

\* When the queue runs dry every string and every LCP is written and every step
\* deleted.
THEOREM SampleSortComplete == Spec => []SortComplete
BY LcpInductive, InvSortComplete, PTL
=============================================================================
