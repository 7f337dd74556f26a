--------------------------- MODULE JobQueueProofs ---------------------------
(***************************************************************************)
(* Proofs about JobQueue for every number of threads, queues and jobs.     *)
(*                                                                         *)
(* The inductive invariant is IInv.  Its heart is WorkHasOwner: a queue    *)
(* that holds a job has a thread that will pop from it before it leaves.   *)
(* The idle counter plays no part in it: a thread may leave on a stale     *)
(* count, but only a thread that runs a job of a queue makes the queue     *)
(* nonempty, and that thread always comes back to it.                      *)
(***************************************************************************)
EXTENDS JobQueue, FiniteSetTheorems, TLAPS

\* A thread holds a job exactly while it runs it, or is about to.
RunningOK ==
  \A t \in Thread : running[t] # NoJob <=> pc[t] \in {"run", "help", "dec"}

\* The team of a queue is unborn before its loop and gone after it.
LoopOK ==
  \A t \in Thread :
    /\ loop[Home(t)] = "pending" => pc[t] = "off"
    /\ loop[Home(t)] = "ended" => pc[t] = "done"

\* A thread inside assist() is at an iteration of its loop.
ScanOK ==
  \A t \in Thread :
    pc[t] \in {"assist", "asscheck", "help"} => scan[t] \in 1 .. NumQueues - 1

IInv ==
  /\ TypeOK
  /\ RunningOK
  /\ LoopOK
  /\ ScanOK
  /\ IdleExact
  /\ WorkHasOwner

---------------------------------------------------------------------------
\* Every queue gets at least one thread: numaLaunch() raises 0 to 1.
LEMMA NodeThreadsType ==
  ASSUME NEW k \in Queue
  PROVE  NodeThreads(k) \in Nat \ {0}
<1>1. MaxThreads \div NumQueues \in Nat
  BY ThreadsAssumption, QueuesAssumption
<1> QED BY <1>1 DEF NodeThreads

\* A thread belongs to the team of its home queue.
LEMMA ThreadFacts ==
  /\ \A t \in Thread : Home(t) \in Queue
  /\ \A q \in Queue : <<q, 1>> \in Thread /\ Home(<<q, 1>>) = q
<1>1. \A q \in Queue : 1 \in 1 .. NodeThreads(q)
  BY NodeThreadsType
<1> QED BY <1>1 DEF Thread, Home

\* The teams are finite: their sizes can be counted.
LEMMA TeamFinite ==
  ASSUME NEW q \in Queue
  PROVE  IsFiniteSet(Team(q))
<1>1. IsFiniteSet(1 .. NodeThreads(q))
  BY NodeThreadsType, FS_Interval
<1>2. IsFiniteSet({q}) 
  BY FS_Singleton
<1>3. IsFiniteSet({q} \X (1 .. NodeThreads(q)))
  BY <1>1, <1>2, FS_Product
<1>4. Team(q) \subseteq {q} \X (1 .. NodeThreads(q))
  BY DEF Team, Thread, Home
<1> QED BY <1>3, <1>4, FS_Subset

\* The queue looked at by assist() is another queue of the group.
LEMMA VisitType ==
  ASSUME NEW t \in Thread, NEW i \in 1 .. NumQueues - 1
  PROVE  Visit(t, i) \in Queue \ {Home(t)}
BY ThreadFacts, QueuesAssumption DEF Visit, Queue

\* A scan from the first iteration on looks at every other queue.
LEMMA ScanVisitsAll ==
  ASSUME NEW t \in Thread, NEW q \in Queue, q # Home(t)
  PROVE  \E i \in 1 .. NumQueues - 1 : Visit(t, i) = q
<1> DEFINE i == IF q > Home(t) THEN q - Home(t) ELSE NumQueues + q - Home(t)
<1>1. Home(t) \in Queue
  BY ThreadFacts
<1>2. i \in 1 .. NumQueues - 1 /\ Visit(t, i) = q
  BY <1>1, QueuesAssumption DEF Visit, Queue
<1> QED BY <1>2

---------------------------------------------------------------------------
\* Before the first loop is launched the invariant holds.
LEMMA InitIInv == Init => IInv
<1> SUFFICES ASSUME Init PROVE IInv
  OBVIOUS
<1> USE ThreadFacts
<1>1. TypeOK
  BY QueuesAssumption DEF Init, TypeOK, PcStates, IdleStates
<1>2. RunningOK /\ LoopOK /\ ScanOK
  BY DEF Init, RunningOK, LoopOK, ScanOK
<1>3. IdleExact
  <2> SUFFICES ASSUME NEW q \in Queue
      PROVE idle[q] = Cardinality({t \in Team(q) : pc[t] \in IdleStates})
    BY DEF IdleExact
  <2>1. {t \in Team(q) : pc[t] \in IdleStates} = {}
    BY DEF Init, Team, IdleStates
  <2> QED BY <2>1, FS_EmptySet DEF Init
<1>4. WorkHasOwner
  BY DEF Init, WorkHasOwner, WillPop
<1> QED BY <1>1, <1>2, <1>3, <1>4 DEF IInv

---------------------------------------------------------------------------
\* The idle counter stays exact over a step of one thread that moves the
\* counter of its home queue by its own move into or out of IdleStates.
LEMMA IdleStep ==
  ASSUME IInv, NEW t \in Thread, NEW s \in PcStates,
         pc' = [pc EXCEPT ![t] = s],
         IF pc[t] \in IdleStates
         THEN IF s \in IdleStates
              THEN idle' = idle
              ELSE idle' = [idle EXCEPT ![Home(t)] = @ - 1]
         ELSE IF s \in IdleStates
              THEN idle' = [idle EXCEPT ![Home(t)] = @ + 1]
              ELSE idle' = idle
  PROVE  IdleExact' /\ idle' \in [Queue -> Nat]
<1> DEFINE In(q) == {u \in Team(q) : pc[u] \in IdleStates}
<1> DEFINE Out(q) == {u \in Team(q) : pc'[u] \in IdleStates}
<1>1. /\ pc \in [Thread -> PcStates] /\ idle \in [Queue -> Nat]
      /\ \A q \in Queue : idle[q] = Cardinality(In(q))
      /\ Home(t) \in Queue
  BY ThreadFacts DEF IInv, TypeOK, IdleExact
<1>2. \A q \in Queue : IsFiniteSet(In(q)) /\ Cardinality(In(q)) \in Nat
  <2> TAKE q \in Queue
  <2>1. IsFiniteSet(In(q))
    BY TeamFinite, FS_Subset
  <2> QED BY <2>1, FS_CardinalityType
<1>3. \A q \in Queue : q # Home(t) => Out(q) = In(q)
  BY <1>1 DEF Team
<1>4. t \in Team(Home(t))
  BY DEF Team
<1>5. CASE pc[t] \in IdleStates <=> s \in IdleStates
  <2>1. \A q \in Queue : Out(q) = In(q)
    BY <1>1, <1>5 DEF Team
  <2>2. idle' = idle
    BY <1>5
  <2>3. \A q \in Queue : idle'[q] = Cardinality(Out(q))
    BY <1>1, <2>1, <2>2
  <2> QED BY <1>1, <2>2, <2>3 DEF IdleExact, Team
<1>6. CASE pc[t] \in IdleStates /\ s \notin IdleStates
  <2>1. Out(Home(t)) = In(Home(t)) \ {t} /\ t \in In(Home(t))
    BY <1>1, <1>4, <1>6 DEF Team
  <2> HIDE DEF In, Out
  <2>2. /\ IsFiniteSet(Out(Home(t)))
        /\ Cardinality(Out(Home(t))) = Cardinality(In(Home(t))) - 1
    BY <1>1, <1>2, <2>1, FS_RemoveElement
  <2>3. Cardinality(Out(Home(t))) \in Nat
    BY <2>2, FS_CardinalityType
  <2>4. \A q \in Queue : idle'[q] = Cardinality(Out(q))
    BY <1>1, <1>2, <1>3, <1>6, <2>2
  <2>5. idle' \in [Queue -> Nat]
    BY <1>1, <1>2, <1>6, <2>2, <2>3
  <2> QED BY <2>4, <2>5 DEF IdleExact, Team, Out
<1>7. CASE pc[t] \notin IdleStates /\ s \in IdleStates
  <2>1. Out(Home(t)) = In(Home(t)) \cup {t} /\ t \notin In(Home(t))
    BY <1>1, <1>4, <1>7 DEF Team
  <2> HIDE DEF In, Out
  <2>2. Cardinality(Out(Home(t))) = Cardinality(In(Home(t))) + 1
    BY <1>1, <1>2, <2>1, FS_AddElement
  <2>4. \A q \in Queue : idle'[q] = Cardinality(Out(q))
    BY <1>1, <1>2, <1>3, <1>7, <2>2
  <2>5. idle' \in [Queue -> Nat]
    BY <1>1, <1>7
  <2> QED BY <2>4, <2>5 DEF IdleExact, Team, Out
<1> QED BY <1>5, <1>6, <1>7

\* Over a step of one thread the other threads keep what they will pop, so
\* only the queues it fills or was bound to come back to need a new owner.
LEMMA OwnerStep ==
  ASSUME IInv, NEW t \in Thread,
         \A u \in Thread \ {t} : pc'[u] = pc[u] /\ scan'[u] = scan[u],
         \A q \in Queue :
            queue'[q] # {} => (queue[q] # {} /\ ~WillPop(t, q)) \/ WillPop(t, q)'
  PROVE  WorkHasOwner'
<1> SUFFICES ASSUME NEW q \in Queue, queue'[q] # {}
             PROVE  \E u \in Thread : WillPop(u, q)'
  BY DEF WorkHasOwner
<1>1. CASE WillPop(t, q)'
  BY <1>1
<1>2. CASE queue[q] # {} /\ ~WillPop(t, q)
  <2>1. PICK u \in Thread : WillPop(u, q)
    BY <1>2 DEF IInv, WorkHasOwner
  <2>2. u # t
    BY <1>2, <2>1
  <2>3. WillPop(u, q)'
    BY <2>1, <2>2 DEF WillPop
  <2> QED BY <2>3
<1> QED BY <1>1, <1>2

\* A thread that is in executeThreadWork() belongs to a running loop.
LEMMA LoopStable ==
  ASSUME IInv, NEW t \in Thread, NEW s, pc[t] \notin {"off", "done"},
         pc' = [pc EXCEPT ![t] = s], loop' = loop
  PROVE  LoopOK'
<1>1. loop[Home(t)] = "running"
  BY ThreadFacts DEF IInv, TypeOK, LoopOK
<1> QED BY <1>1 DEF IInv, TypeOK, LoopOK

\* try_pop, for the three places that call it.
LEMMA TakeStep ==
  ASSUME IInv, NEW t \in Thread, NEW q \in Queue, NEW s \in {"run", "dec", "help"},
         <<pc[t], s>> \in {<<"pop", "run">>, <<"idlepop", "dec">>, <<"assist", "help">>},
         q = IF s = "help" THEN Visit(t, scan[t]) ELSE Home(t),
         TakeJob(t, q, s)
  PROVE  IInv'
<1> USE DEF TakeJob, Goto
<1>1. TypeOK'
  <2>1. PICK j \in queue[q] : /\ queue' = [queue EXCEPT ![q] = @ \ {j}]
                              /\ running' = [running EXCEPT ![t] = j]
    OBVIOUS
  <2>2. queue' \in [Queue -> SUBSET Job] /\ running' \in [Thread -> Job \cup {NoJob}]
    BY <2>1 DEF IInv, TypeOK
  <2> QED BY <2>2 DEF IInv, TypeOK, PcStates, IdleStates
<1>2. RunningOK'
  BY JobAssumption DEF IInv, TypeOK, RunningOK
<1>3. LoopOK'
  BY LoopStable
<1>4. ScanOK'
  BY DEF IInv, TypeOK, ScanOK
<1>5. IdleExact'
  BY IdleStep DEF IInv, TypeOK, PcStates, IdleStates
<1>6. WorkHasOwner'
  <2> SUFFICES ASSUME NEW p \in Queue, queue'[p] # {}, queue[p] = {} \/ WillPop(t, p)
               PROVE  WillPop(t, p)'
    BY OwnerStep DEF IInv, TypeOK
  <2>1. queue[p] # {}
    BY DEF IInv, TypeOK
  <2>2. WillPop(t, p)
    BY <2>1
  <2>3. CASE s # "help"
    BY <2>2, <2>3 DEF WillPop, IInv, TypeOK
  <2>4. CASE s = "help"
    <3>1. p # Home(t)
      BY <2>2, <2>4, VisitType DEF WillPop, IInv, ScanOK, TypeOK
    <3> QED BY <3>1, <2>4 DEF WillPop, IInv, TypeOK
  <2> QED BY <2>3, <2>4
<1> QED BY <1>1, <1>2, <1>3, <1>4, <1>5, <1>6 DEF IInv

\* A try_pop that fails keeps the invariant: the thread saw the queue empty.
LEMMA MissStep ==
  ASSUME IInv, NEW t \in Thread, NEW q \in Queue, NEW s \in {"inc", "check", "asscheck"},
         <<pc[t], s>> \in {<<"pop", "inc">>, <<"idlepop", "check">>, <<"assist", "asscheck">>},
         q = IF s = "asscheck" THEN Visit(t, scan[t]) ELSE Home(t),
         MissJob(t, q, s)
  PROVE  IInv'
<1> USE DEF MissJob, Goto
<1>1. TypeOK'
  BY DEF IInv, TypeOK, PcStates, IdleStates
<1>2. RunningOK'
  BY DEF IInv, TypeOK, RunningOK
<1>3. LoopOK'
  BY LoopStable
<1>4. ScanOK'
  BY DEF IInv, TypeOK, ScanOK
<1>5. IdleExact'
  BY IdleStep DEF IInv, TypeOK, PcStates, IdleStates
<1>6. WorkHasOwner'
  <2> SUFFICES ASSUME NEW p \in Queue, queue[p] # {}, WillPop(t, p), p # q
               PROVE  WillPop(t, p)'
    BY OwnerStep DEF IInv, TypeOK
  <2>1. CASE s # "asscheck"
    BY <2>1 DEF WillPop, IInv, TypeOK
  <2>2. CASE s = "asscheck"
    <3>1. PICK i \in scan[t] .. NumQueues - 1 : Visit(t, i) = p
      BY <2>2 DEF WillPop
    <3>2. i # scan[t] /\ scan[t] \in 1 .. NumQueues - 1
      BY <3>1, <2>2 DEF IInv, ScanOK
    <3>3. i \in scan[t] + 1 .. NumQueues - 1
      BY <3>1, <3>2, QueuesAssumption
    <3> QED BY <2>2, <3>1, <3>3 DEF WillPop, IInv, TypeOK, Visit
  <2> QED BY <2>1, <2>2
<1> QED BY <1>1, <1>2, <1>3, <1>4, <1>5, <1>6 DEF IInv

\* assist() entered at its first iteration, or past the last one: the thread
\* that starts a scan will look at every queue but its own.
LEMMA ScanStart ==
  ASSUME IInv, NEW t \in Thread, NEW q \in Queue, q # Home(t), ScanFrom(t, 1)
  PROVE  WillPop(t, q)'
<1>1. PICK i \in 1 .. NumQueues - 1 : Visit(t, i) = q
  BY ScanVisitsAll
<1>2. 1 < NumQueues
  BY <1>1, QueuesAssumption
<1> QED BY <1>1, <1>2 DEF ScanFrom, Goto, WillPop, Visit, IInv, TypeOK

\* assist() from any iteration on leaves a well-typed state.
LEMMA ScanFromType ==
  ASSUME IInv, NEW t \in Thread, NEW i \in 1 .. NumQueues, ScanFrom(t, i)
  PROVE  /\ \E s \in {"assist", "done"} :
                /\ pc' = [pc EXCEPT ![t] = s]
                /\ s = "assist" => i \in 1 .. NumQueues - 1 /\ scan'[t] = i
                /\ s = "done" => i = NumQueues
         /\ scan' \in [Thread -> 1 .. NumQueues]
         /\ \A u \in Thread \ {t} : pc'[u] = pc[u] /\ scan'[u] = scan[u]
BY QueuesAssumption DEF ScanFrom, Goto, IInv, TypeOK

---------------------------------------------------------------------------
\* A thread that enters executeThreadWork() keeps the invariant.
LEMMA StartThreadStep ==
  ASSUME IInv, NEW t \in Thread, StartThread(t) PROVE IInv'
<1> USE DEF StartThread, Goto
<1>1. TypeOK'
  BY ThreadFacts, NodeThreadsType DEF IInv, TypeOK, PcStates
<1>2. RunningOK' /\ ScanOK'
  BY DEF IInv, TypeOK, RunningOK, ScanOK
<1>3. LoopOK'
  BY LoopStable
<1>4. IdleExact'
  BY IdleStep DEF IInv, TypeOK, PcStates, IdleStates
<1>5. WorkHasOwner'
  BY OwnerStep DEF WillPop, IInv, TypeOK
<1> QED BY <1>1, <1>2, <1>3, <1>4, <1>5 DEF IInv

\* ++m_idle_count keeps the invariant.
LEMMA IncIdleStep ==
  ASSUME IInv, NEW t \in Thread, IncIdle(t) PROVE IInv'
<1> USE DEF IncIdle, Goto
<1>1. IdleExact' /\ idle' \in [Queue -> Nat]
  BY IdleStep DEF IInv, TypeOK, PcStates, IdleStates
<1>2. TypeOK'
  BY <1>1 DEF IInv, TypeOK, PcStates, IdleStates
<1>3. RunningOK' /\ ScanOK'
  BY DEF IInv, TypeOK, RunningOK, ScanOK
<1>4. LoopOK'
  BY LoopStable
<1>5. WorkHasOwner'
  BY OwnerStep DEF WillPop, IInv, TypeOK
<1> QED BY <1>1, <1>2, <1>3, <1>4, <1>5 DEF IInv

\* --m_idle_count keeps the invariant; the counter is above zero there.
LEMMA DecIdleStep ==
  ASSUME IInv, NEW t \in Thread, DecIdle(t) PROVE IInv'
<1> USE DEF DecIdle, Goto
<1>1. IdleExact' /\ idle' \in [Queue -> Nat]
  BY IdleStep DEF IInv, TypeOK, PcStates, IdleStates
<1>2. TypeOK'
  BY <1>1 DEF IInv, TypeOK, PcStates, IdleStates
<1>3. RunningOK' /\ ScanOK'
  BY DEF IInv, TypeOK, RunningOK, ScanOK
<1>4. LoopOK'
  BY LoopStable
<1>5. WorkHasOwner'
  BY OwnerStep DEF WillPop, IInv, TypeOK
<1> QED BY <1>1, <1>2, <1>3, <1>4, <1>5 DEF IInv

\* The thread that leaves its queue had just found it empty: "check" owns
\* nothing, so nothing is given up.
LEMMA CheckIdleStep ==
  ASSUME IInv, NEW t \in Thread, CheckIdle(t) PROVE IInv'
<1> USE DEF CheckIdle
<1>1. CASE idle[Home(t)] = numthrs[Home(t)]
  <2>1. PICK s \in {"assist", "done"} :
          /\ pc' = [pc EXCEPT ![t] = s]
          /\ s = "assist" => 1 \in 1 .. NumQueues - 1 /\ scan'[t] = 1
          /\ scan' \in [Thread -> 1 .. NumQueues]
          /\ \A u \in Thread \ {t} : pc'[u] = pc[u] /\ scan'[u] = scan[u]
    BY <1>1, ScanFromType, QueuesAssumption
  <2>2. TypeOK' /\ RunningOK' /\ ScanOK'
    BY <2>1 DEF IInv, TypeOK, RunningOK, ScanOK, PcStates, IdleStates
  <2>3. LoopOK'
    BY <2>1, LoopStable
  <2>4. IdleExact'
    BY <2>1, IdleStep DEF PcStates, IdleStates
  <2>5. WorkHasOwner'
    BY <2>1, OwnerStep DEF WillPop
  <2> QED BY <2>2, <2>3, <2>4, <2>5 DEF IInv
<1>2. CASE idle[Home(t)] # numthrs[Home(t)]
  <2> USE <1>2 DEF Goto
  <2>1. TypeOK' /\ RunningOK' /\ ScanOK'
    BY DEF IInv, TypeOK, RunningOK, ScanOK, PcStates, IdleStates
  <2>2. LoopOK'
    BY LoopStable
  <2>3. IdleExact'
    BY IdleStep DEF PcStates, IdleStates
  <2>4. WorkHasOwner'
    BY OwnerStep DEF WillPop, IInv, TypeOK
  <2> QED BY <2>1, <2>2, <2>3, <2>4 DEF IInv
<1> QED BY <1>1, <1>2

\* The return of try_run() without a job keeps the invariant: the queue passed
\* over was seen empty, and the rest of the scan is still ahead.
LEMMA AssistCheckStep ==
  ASSUME IInv, NEW t \in Thread, AssistCheck(t) PROVE IInv'
<1> PICK n \in SeenThrs(Visit(t, scan[t])) :
      ScanFrom(t, IF TryRunMiss(Visit(t, scan[t]), n) THEN 1 ELSE scan[t] + 1)
  BY DEF AssistCheck
<1> DEFINE i == IF TryRunMiss(Visit(t, scan[t]), n) THEN 1 ELSE scan[t] + 1
<1>1. /\ pc[t] = "asscheck" /\ scan[t] \in 1 .. NumQueues - 1
      /\ i \in 1 .. NumQueues /\ ScanFrom(t, i)
      /\ UNCHANGED <<queue, numthrs, idle, loop, running, finished>>
  BY QueuesAssumption DEF AssistCheck, IInv, ScanOK
<1>2. PICK s \in {"assist", "done"} :
        /\ pc' = [pc EXCEPT ![t] = s]
        /\ s = "assist" => i \in 1 .. NumQueues - 1 /\ scan'[t] = i
        /\ s = "done" => i = NumQueues
        /\ scan' \in [Thread -> 1 .. NumQueues]
        /\ \A u \in Thread \ {t} : pc'[u] = pc[u] /\ scan'[u] = scan[u]
  <2> HIDE DEF i
  <2> QED BY <1>1, ScanFromType
<1>3. TypeOK' /\ RunningOK' /\ ScanOK'
  BY <1>1, <1>2 DEF IInv, TypeOK, RunningOK, ScanOK, PcStates, IdleStates
<1>4. LoopOK'
  BY <1>1, <1>2, LoopStable
<1>5. IdleExact'
  BY <1>1, <1>2, IdleStep DEF PcStates, IdleStates
<1>6. WorkHasOwner'
  <2> SUFFICES ASSUME NEW q \in Queue, WillPop(t, q) PROVE WillPop(t, q)'
    BY <1>1, <1>2, OwnerStep
  <2>1. PICK k \in scan[t] + 1 .. NumQueues - 1 : Visit(t, k) = q
    BY <1>1 DEF WillPop
  <2>2. i \in 1 .. NumQueues - 1 /\ k \in i .. NumQueues - 1
    BY <1>1, <2>1, QueuesAssumption
  <2>3. s = "assist" /\ pc'[t] = "assist" /\ scan'[t] = i
    BY <1>2, <2>2, QueuesAssumption DEF IInv, TypeOK
  <2> HIDE DEF i
  <2> QED BY <2>1, <2>2, <2>3 DEF WillPop, Visit
<1> QED BY <1>1, <1>3, <1>4, <1>5, <1>6 DEF IInv

\* A job that returns keeps the invariant: its thread pops or scans again.
LEMMA FinishJobStep ==
  ASSUME IInv, NEW t \in Thread, FinishJob(t) PROVE IInv'
<1> USE DEF FinishJob, EndJob, Runs
<1>1. finished' \subseteq Job /\ running' \in [Thread -> Job \cup {NoJob}]
  BY DEF IInv, TypeOK, RunningOK
<1>2. CASE pc[t] = "run"
  <2> USE <1>2 DEF Goto
  <2>1. TypeOK' /\ RunningOK' /\ ScanOK'
    BY <1>1 DEF IInv, TypeOK, RunningOK, ScanOK, PcStates, IdleStates
  <2>2. LoopOK'
    BY LoopStable
  <2>3. IdleExact'
    BY IdleStep DEF PcStates, IdleStates
  <2>4. WorkHasOwner'
    BY OwnerStep DEF WillPop, IInv, TypeOK
  <2> QED BY <2>1, <2>2, <2>3, <2>4 DEF IInv
<1>3. CASE pc[t] = "help"
  <2> USE <1>3
  <2>1. PICK s \in {"assist", "done"} :
          /\ pc' = [pc EXCEPT ![t] = s]
          /\ s = "assist" => 1 \in 1 .. NumQueues - 1 /\ scan'[t] = 1
          /\ scan' \in [Thread -> 1 .. NumQueues]
          /\ \A u \in Thread \ {t} : pc'[u] = pc[u] /\ scan'[u] = scan[u]
    BY ScanFromType, QueuesAssumption
  <2>2. TypeOK' /\ RunningOK' /\ ScanOK'
    BY <1>1, <2>1 DEF IInv, TypeOK, RunningOK, ScanOK, PcStates, IdleStates
  <2>3. LoopOK'
    BY <2>1, LoopStable
  <2>4. IdleExact'
    BY <2>1, IdleStep DEF PcStates, IdleStates
  <2>5. \A q \in Queue : WillPop(t, q) => WillPop(t, q)'
    BY ScanStart DEF WillPop
  <2>6. queue' = queue
    OBVIOUS
  <2>7. WorkHasOwner'
    <3> HIDE DEF FinishJob, EndJob, Runs
    <3> SUFFICES ASSUME NEW q \in Queue, WillPop(t, q) PROVE WillPop(t, q)'
      BY <2>1, <2>6, OwnerStep
    <3> QED BY <2>5
  <2> QED BY <2>2, <2>3, <2>4, <2>7 DEF IInv
<1> QED BY <1>2, <1>3

\* The thread whose job fills a queue is an owner of that queue.
LEMMA EnqueueStep ==
  ASSUME IInv, NEW t \in Thread, NEW j \in Job, Enqueue(t, j) PROVE IInv'
<1> USE DEF Enqueue, Runs
<1>1. QueueOf(t) \in Queue
  BY ThreadFacts, VisitType DEF QueueOf, IInv, ScanOK
<1>2. TypeOK' /\ RunningOK' /\ LoopOK' /\ ScanOK'
  BY <1>1 DEF IInv, TypeOK, RunningOK, LoopOK, ScanOK
<1>3. IdleExact'
  BY DEF IInv, IdleExact, Team
<1>4. ASSUME NEW q \in Queue, q = QueueOf(t) PROVE WillPop(t, q)'
  BY <1>4, VisitType DEF WillPop, QueueOf, IInv, ScanOK
<1>5. WorkHasOwner'
  <2> SUFFICES ASSUME NEW q \in Queue, queue'[q] # {}
               PROVE  \E u \in Thread : WillPop(u, q)'
    BY DEF WorkHasOwner
  <2>1. CASE q = QueueOf(t)
    BY <1>4, <2>1
  <2>2. CASE q # QueueOf(t)
    <3>1. queue[q] # {}
      BY <2>2 DEF IInv, TypeOK
    <3>2. PICK u \in Thread : WillPop(u, q)
      BY <3>1 DEF IInv, WorkHasOwner
    <3> QED BY <3>2 DEF WillPop, Visit
  <2> QED BY <2>1, <2>2
<1> QED BY <1>2, <1>3, <1>5 DEF IInv

\* numaLaunch() starting a queue keeps the invariant.
LEMMA LaunchLoopStep ==
  ASSUME IInv, NEW q \in Queue, LaunchLoop(q) PROVE IInv'
<1> USE DEF LaunchLoop
<1>1. \A t \in Thread : Home(t) = q => pc[t] = "off"
  BY DEF IInv, LoopOK
<1>2. TypeOK' /\ RunningOK' /\ ScanOK' /\ LoopOK'
  BY <1>1, ThreadFacts
     DEF IInv, TypeOK, RunningOK, ScanOK, LoopOK, PcStates, IdleStates
<1>3. IdleExact'
  <2> SUFFICES ASSUME NEW p \in Queue
               PROVE  {t \in Team(p) : pc'[t] \in IdleStates}
                        = {t \in Team(p) : pc[t] \in IdleStates}
    BY DEF IInv, IdleExact, Team
  <2> QED BY <1>1 DEF Team, IdleStates
<1>4. \A u \in Thread, p \in Queue : WillPop(u, p) => WillPop(u, p)'
  BY <1>1 DEF WillPop, Visit
<1>5. WorkHasOwner'
  BY <1>4 DEF IInv, WorkHasOwner
<1> QED BY <1>2, <1>3, <1>5 DEF IInv

\* The barrier at the end of a queue keeps the invariant.
LEMMA JoinLoopStep ==
  ASSUME IInv, NEW q \in Queue, JoinLoop(q) PROVE IInv'
<1> USE DEF JoinLoop
<1>1. TypeOK' /\ RunningOK' /\ ScanOK'
  BY DEF IInv, TypeOK, RunningOK, ScanOK
<1>2. LoopOK'
  BY ThreadFacts DEF IInv, TypeOK, LoopOK, Team
<1>3. IdleExact' /\ WorkHasOwner'
  BY DEF IInv, IdleExact, WorkHasOwner, WillPop, Team, Visit
<1> QED BY <1>1, <1>2, <1>3 DEF IInv

\* The invariant is about the state only.
LEMMA StutterStep == IInv /\ UNCHANGED vars => IInv'
BY DEF vars, IInv, TypeOK, RunningOK, LoopOK, ScanOK, IdleExact, WorkHasOwner,
       WillPop, Team, Visit

\* The invariant is inductive.
LEMMA NextIInv == IInv /\ [Next]_vars => IInv'
<1> SUFFICES ASSUME IInv, [Next]_vars PROVE IInv'
  OBVIOUS
<1>1. ASSUME NEW t \in Thread, ThreadStep(t) PROVE IInv'
  <2>1. CASE WorkPop(t)
    BY <2>1, ThreadFacts, TakeStep, MissStep DEF WorkPop
  <2>2. CASE IdlePop(t)
    BY <2>2, ThreadFacts, TakeStep, MissStep DEF IdlePop
  <2>3. CASE AssistPop(t)
    <3>1. Visit(t, scan[t]) \in Queue
      BY <2>3, VisitType DEF AssistPop, IInv, ScanOK
    <3> QED BY <2>3, <3>1, TakeStep, MissStep DEF AssistPop
  <2> QED BY <1>1, <2>1, <2>2, <2>3, StartThreadStep, IncIdleStep, DecIdleStep,
             CheckIdleStep, AssistCheckStep, FinishJobStep, EnqueueStep
          DEF ThreadStep
<1> QED BY <1>1, LaunchLoopStep, JoinLoopStep, StutterStep
        DEF Next, LoopStep, Terminated

\* Nobody owns a queue once every thread is gone, so every queue is empty.
LEMMA LoseNothing == IInv => NoLostJob
<1> SUFFICES ASSUME IInv, Returned PROVE Queued = {} /\ Active = {}
  BY DEF NoLostJob
<1>1. \A t \in Thread : pc[t] = "done"
  BY ThreadFacts DEF IInv, LoopOK, Returned
<1>2. \A q \in Queue : queue[q] = {}
  BY <1>1 DEF IInv, WorkHasOwner, WillPop
<1>3. \A t \in Thread : running[t] = NoJob
  BY <1>1 DEF IInv, RunningOK
<1> QED BY <1>2, <1>3 DEF Queued, Active

---------------------------------------------------------------------------
\* The inductive invariant, and with it every conjunct, holds of JobQueue.
THEOREM Invariance == Spec => []IInv
BY InitIInv, NextIInv, PTL DEF Spec

\* Type correctness; in particular no counter is ever decremented below zero.
THEOREM TypeCorrect == Spec => []TypeOK
<1>1. IInv => TypeOK
  BY DEF IInv
<1> QED BY <1>1, Invariance, PTL

\* The idle counter of a queue counts its idle threads, no more, no less.
THEOREM IdleCorrect == Spec => []IdleExact
<1>1. IInv => IdleExact
  BY DEF IInv
<1> QED BY <1>1, Invariance, PTL

\* No job is stranded while any thread can still leave.
THEOREM OwnerCorrect == Spec => []WorkHasOwner
<1>1. IInv => WorkHasOwner
  BY DEF IInv
<1> QED BY <1>1, Invariance, PTL

\* When the call that started the queues returns, every job has been run.
THEOREM NothingLost == Spec => []NoLostJob
BY LoseNothing, Invariance, PTL

\* With one queue the assertion at the end of loop() holds: there is nobody
\* else to run its jobs.  (With several queues it does not: see the runs.)
THEOREM SingleQueueEmptyAtEnd ==
  ASSUME NumQueues = 1
  PROVE  Spec => QueueEmptyAtLoopEnd
<1>1. IInv /\ [Next]_vars =>
        [\A q \in Queue : JoinLoop(q) => queue[q] = {}]_vars
  <2> SUFFICES ASSUME IInv, NEW q \in Queue, JoinLoop(q) PROVE queue[q] = {}
    OBVIOUS
  <2>1. \A t \in Thread : Home(t) = q
    BY ThreadFacts DEF Queue
  <2>2. \A t \in Thread : pc[t] = "done"
    BY <2>1 DEF JoinLoop, Team
  <2> QED BY <2>2 DEF IInv, WorkHasOwner, WillPop
<1> QED BY <1>1, Invariance, PTL DEF Spec, QueueEmptyAtLoopEnd

---------------------------------------------------------------------------
(* The queues implement JobPool *)

\* A job is in one queue, or held by one thread, and never both.
JobsOnce ==
  /\ \A p, q \in Queue : p # q => queue[p] \cap queue[q] = {}
  /\ \A t \in Thread, q \in Queue : running[t] \notin queue[q]
  /\ \A t, u \in Thread : t # u /\ running[t] # NoJob => running[u] # running[t]

\* A successful try_pop is a Take of the pool, and keeps every job unique.
LEMMA TakeOnce ==
  ASSUME IInv, JobsOnce, NEW t \in Thread, NEW q \in Queue, NEW s,
         running[t] = NoJob, TakeJob(t, q, s)
  PROVE  JobsOnce' /\ \E j \in Job : Pool!Take(j)
<1>1. PICK j \in queue[q] : /\ queue' = [queue EXCEPT ![q] = @ \ {j}]
                            /\ running' = [running EXCEPT ![t] = j]
  BY DEF TakeJob
<1>2. j \in Job /\ j # NoJob
  BY JobAssumption DEF IInv, TypeOK
<1>3. JobsOnce'
  BY <1>1, <1>2 DEF JobsOnce, IInv, TypeOK
<1>4. Queued' = Queued \ {j} /\ j \in Queued
  BY <1>1, <1>2 DEF Queued, JobsOnce, IInv, TypeOK
<1>5. Active' = Active \cup {j}
  BY <1>1, <1>2 DEF Active, IInv, TypeOK
<1>6. UNCHANGED <<finished, Returned>>
  BY DEF TakeJob, Returned
<1> QED BY <1>2, <1>3, <1>4, <1>5, <1>6 DEF Pool!Take

\* The return of a run() is a Complete of the pool.
LEMMA FinishOnce ==
  ASSUME IInv, JobsOnce, NEW t \in Thread, FinishJob(t)
  PROVE  JobsOnce' /\ \E j \in Job : Pool!Complete(j)
<1> DEFINE j == running[t]
<1>1. j \in Job /\ j # NoJob
  BY DEF FinishJob, EndJob, Runs, IInv, TypeOK, RunningOK
<1>2. JobsOnce'
  BY <1>1, JobAssumption DEF FinishJob, EndJob, JobsOnce, IInv, TypeOK
<1>3. Active' = Active \ {j} /\ j \in Active
  BY <1>1 DEF FinishJob, EndJob, Active, JobsOnce, IInv, TypeOK
<1>4. finished' = finished \cup {j} /\ UNCHANGED <<Queued, Returned>>
  BY DEF FinishJob, EndJob, Queued, Returned
<1> HIDE DEF j
<1> QED BY <1>1, <1>2, <1>3, <1>4 DEF Pool!Complete

\* enqueue() by a running job is a Submit of the pool.
LEMMA EnqueueOnce ==
  ASSUME IInv, JobsOnce, NEW t \in Thread, NEW j \in Job, Enqueue(t, j)
  PROVE  JobsOnce' /\ Pool!Submit(j)
<1>1. QueueOf(t) \in Queue
  BY ThreadFacts, VisitType DEF Enqueue, Runs, QueueOf, IInv, ScanOK
<1>2. j \notin Queued /\ j \notin Active /\ j \notin finished
  BY DEF Enqueue, Born
<1>3. \A u \in Thread : running[u] # j
  BY <1>2, JobAssumption DEF Active
<1>4. JobsOnce'
  BY <1>1, <1>2, <1>3 DEF Enqueue, JobsOnce, Queued, IInv, TypeOK
<1>5. Queued' = Queued \cup {j}
  BY <1>1 DEF Enqueue, Queued, IInv, TypeOK
<1>6. Active # {}
  BY DEF Enqueue, Runs, Active, IInv, RunningOK
<1>7. UNCHANGED <<Active, finished, Returned>>
  BY DEF Enqueue, Active, Returned
<1> QED BY <1>2, <1>4, <1>5, <1>6, <1>7 DEF Pool!Submit, Pool!Fresh

\* Every other step changes neither the jobs nor, unless it is the last join,
\* whether the call has returned.
LEMMA QuietOnce ==
  ASSUME JobsOnce, UNCHANGED <<queue, running, finished, loop>>
  PROVE  JobsOnce' /\ UNCHANGED Pool!poolVars
BY DEF JobsOnce, Queued, Active, Returned, Pool!poolVars

\* The last join is the Close of the pool; every other loop step is a stutter.
LEMMA LoopOnce ==
  ASSUME IInv, IInv', JobsOnce, NEW q \in Queue, LoopStep(q)
  PROVE  JobsOnce' /\ (Pool!Close \/ UNCHANGED Pool!poolVars)
<1>1. UNCHANGED <<queue, running, finished>> /\ ~Returned
  BY DEF LoopStep, LaunchLoop, JoinLoop, Returned
<1>2. JobsOnce' /\ UNCHANGED <<Queued, Active, finished>>
  BY <1>1 DEF JobsOnce, Queued, Active
<1>3. CASE Returned'
  <2>1. Queued' = {} /\ Active' = {}
    <3>1. NoLostJob'
      BY LoseNothing, PTL
    <3> QED BY <1>3, <3>1 DEF NoLostJob
  <2>2. Pool!Close
    BY <1>2, <1>3, <2>1 DEF Pool!Close
  <2> QED BY <1>2, <2>2
<1>4. CASE ~Returned'
  <2>1. Returned' = Returned
    BY <1>1, <1>4 DEF Returned
  <2> QED BY <1>2, <2>1 DEF Pool!poolVars
<1> QED BY <1>3, <1>4

\* Every step of the queues is a step of the pool or a stutter.
LEMMA PoolStep ==
  IInv /\ IInv' /\ JobsOnce /\ [Next]_vars
    => JobsOnce' /\ [Pool!PoolNext]_(Pool!poolVars)
<1> SUFFICES ASSUME IInv, IInv', JobsOnce, [Next]_vars
             PROVE  JobsOnce' /\ [Pool!PoolNext]_(Pool!poolVars)
  OBVIOUS
<1>1. ASSUME NEW t \in Thread, ThreadStep(t)
      PROVE  JobsOnce' /\ [Pool!PoolNext]_(Pool!poolVars)
  <2>1. CASE \E q \in Queue, s \in PcStates : TakeJob(t, q, s) /\ running[t] = NoJob
    BY <2>1, TakeOnce DEF Pool!PoolNext
  <2>2. CASE UNCHANGED <<queue, running, finished, loop>>
    BY <2>2, QuietOnce
  <2>3. CASE WorkPop(t) \/ IdlePop(t) \/ AssistPop(t)
    <3>1. running[t] = NoJob
      BY <2>3 DEF WorkPop, IdlePop, AssistPop, IInv, RunningOK
    <3>2. Home(t) \in Queue /\ (pc[t] = "assist" => Visit(t, scan[t]) \in Queue)
      BY ThreadFacts, VisitType DEF IInv, ScanOK
    <3>3. {"run", "dec", "help"} \subseteq PcStates
      BY DEF PcStates, IdleStates
    <3> QED BY <2>1, <2>2, <2>3, <3>1, <3>2, <3>3
            DEF WorkPop, IdlePop, AssistPop, MissJob
  <2>4. CASE FinishJob(t)
    BY <2>4, FinishOnce DEF Pool!PoolNext
  <2>5. CASE \E j \in Job : Enqueue(t, j)
    BY <2>5, EnqueueOnce DEF Pool!PoolNext
  <2>6. CASE StartThread(t) \/ IncIdle(t) \/ DecIdle(t) \/ CheckIdle(t) \/ AssistCheck(t)
    BY <2>2, <2>6 DEF StartThread, IncIdle, DecIdle, CheckIdle, AssistCheck
  <2> QED BY <1>1, <2>3, <2>4, <2>5, <2>6 DEF ThreadStep
<1>2. CASE \E q \in Queue : LoopStep(q)
  BY <1>2, LoopOnce DEF Pool!PoolNext
<1>3. CASE UNCHANGED vars
  BY <1>3, QuietOnce DEF vars
<1> QED BY <1>1, <1>2, <1>3 DEF Next, Terminated

\* The queues, any number of them with any number of threads, implement the
\* pool: no job is taken twice, none is run twice, and the call that started
\* them returns only when nothing is left.
THEOREM ImplementsPool == Spec => PoolSafety
<1>1. Init => JobsOnce /\ Pool!PoolInit
  <2> SUFFICES ASSUME Init PROVE JobsOnce /\ Pool!PoolInit
    OBVIOUS
  <2>1. JobsOnce
    BY JobAssumption DEF Init, JobsOnce
  <2>2. Queued \subseteq Job /\ Active = {}
    BY DEF Init, Queued, Active
  <2>3. Returned = FALSE
    <3>1. 0 \in Queue
      BY QueuesAssumption DEF Queue
    <3>2. loop[0] # "ended"
      BY <3>1 DEF Init
    <3> QED BY <3>1, <3>2, Zenon DEF Returned
  <2> QED BY <2>1, <2>2, <2>3 DEF Init, Pool!PoolInit
<1>2. Spec => []JobsOnce /\ [][Pool!PoolNext]_(Pool!poolVars)
  BY <1>1, PoolStep, Invariance, PTL DEF Spec
<1> QED BY <1>1, <1>2, PTL DEF Spec, PoolSafety, Pool!PoolSpec
=============================================================================
