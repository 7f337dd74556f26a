------------------------------ MODULE JobQueue ------------------------------
(***************************************************************************)
(* src/src/tools/jobqueue.hpp: the job queues every parallel sorter runs   *)
(* on, and the group of queues (one per NUMA node) that assist each other. *)
(*                                                                         *)
(* A thread works its own queue until the idle counter says that all its   *)
(* threads are idle, then scans the other queues of the group, running     *)
(* their jobs, until one whole scan finds every other queue finished.      *)
(* One action is one access to shared state (tbb queue, atomic counter,    *)
(* m_numthrs).  NumQueues = 1 is the standard JobQueue::loop():            *)
(* DefaultJobQueueGroup::assist returns false, as does a scan of no queue. *)
(***************************************************************************)
EXTENDS Integers, FiniteSets

CONSTANTS
  MaxThreads,           \* omp_get_max_threads()
  NumQueues,            \* m_queues.size()
  Job,                  \* the jobs that can ever exist
  NoJob                 \* NULL

ASSUME ThreadsAssumption == MaxThreads \in Nat \ {0}
ASSUME QueuesAssumption  == NumQueues \in Nat \ {0}
ASSUME JobAssumption     == NoJob \notin Job /\ IsFiniteSet(Job)

Queue == 0 .. NumQueues - 1

\* numaLaunch: the threads are divided evenly, the first queues get the
\* remainder, and a queue left without threads gets one all the same.
NodeThreads(k) ==
  LET perNode == MaxThreads \div NumQueues
      extra   == IF k < MaxThreads % NumQueues THEN 1 ELSE 0
  IN  IF perNode + extra = 0 THEN 1 ELSE perNode + extra

\* std::min(omp_get_max_threads(), numJobQueues) threads launch the queues.
RunThreads == IF MaxThreads < NumQueues THEN MaxThreads ELSE NumQueues

\* Thread <<q, i>> is the i-th of the OpenMP team of queue q.
Thread == UNION {{q} \X (1 .. NodeThreads(q)) : q \in Queue}
Home(t) == t[1]
Team(q) == {t \in Thread : Home(t) = q}

VARIABLES
  queue,        \* m_queue of each queue, as a set: no property needs FIFO order
  numthrs,      \* m_numthrs of each queue
  idle,         \* m_idle_count of each queue
  loop,         \* where the numaLoop() of each queue is
  pc,           \* where each thread is in executeThreadWork() and assist()
  scan,         \* the i of the for loop of assist()
  running,      \* the job a thread runs
  finished      \* history: the jobs whose run() has returned

vars == <<queue, numthrs, idle, loop, pc, scan, running, finished>>

\* Threads counted in m_idle_count: all between ++ and --, and those gone.
IdleStates == {"idlepop", "check", "dec", "assist", "asscheck", "help", "done"}
PcStates   == IdleStates \cup {"off", "start", "pop", "run", "inc"}

TypeOK ==
  /\ queue \in [Queue -> SUBSET Job]
  /\ numthrs \in [Queue -> Nat]
  /\ idle \in [Queue -> Nat]
  /\ loop \in [Queue -> {"pending", "running", "ended"}]
  /\ pc \in [Thread -> PcStates]
  /\ scan \in [Thread -> 1 .. NumQueues]
  /\ running \in [Thread -> Job \cup {NoJob}]
  /\ finished \subseteq Job

Queued == UNION {queue[q] : q \in Queue}
Active == {running[t] : t \in Thread} \ {NoJob}
Born   == Queued \cup Active \cup finished

\* The sorter enqueues its first jobs before it starts the loop.
Init ==
  /\ queue \in {f \in [Queue -> SUBSET Job] :
                  \A p, q \in Queue : p # q => f[p] \cap f[q] = {}}
  /\ numthrs = [q \in Queue |-> 0]
  /\ idle = [q \in Queue |-> 0]
  /\ loop = [q \in Queue |-> "pending"]
  /\ pc = [t \in Thread |-> "off"]
  /\ scan = [t \in Thread |-> 1]
  /\ running = [t \in Thread |-> NoJob]
  /\ finished = {}

\* The queue assist() looks at in iteration i: ++id, wrapping at size.
Visit(t, i) == IF Home(t) + i >= NumQueues
               THEN Home(t) + i - NumQueues ELSE Home(t) + i

\* The queue whose job t runs, and whose cookie the job enqueues into.
QueueOf(t) == IF pc[t] = "help" THEN Visit(t, scan[t]) ELSE Home(t)

---------------------------------------------------------------------------
(* numaLaunch(): parallel for, schedule(dynamic), and the fork of numaLoop() *)

LaunchLoop(q) ==
  /\ loop[q] = "pending"
  /\ \A k \in Queue : k < q => loop[k] # "pending"
  /\ Cardinality({k \in Queue : loop[k] = "running"}) < RunThreads
  /\ loop' = [loop EXCEPT ![q] = "running"]
  /\ pc' = [t \in Thread |-> IF Home(t) = q THEN "start" ELSE pc[t]]
  /\ UNCHANGED <<queue, numthrs, idle, scan, running, finished>>

\* The implicit barrier at the end of the parallel region of numaLoop().
JoinLoop(q) ==
  /\ loop[q] = "running"
  /\ \A t \in Team(q) : pc[t] = "done"
  /\ loop' = [loop EXCEPT ![q] = "ended"]
  /\ UNCHANGED <<queue, numthrs, idle, pc, scan, running, finished>>

---------------------------------------------------------------------------
(* executeThreadWork() *)

Goto(t, s) == pc' = [pc EXCEPT ![t] = s]

StartThread(t) ==
  /\ pc[t] = "start"
  /\ numthrs' = [numthrs EXCEPT ![Home(t)] = NodeThreads(Home(t))]
  /\ Goto(t, "pop")
  /\ UNCHANGED <<queue, idle, loop, scan, running, finished>>

\* Mutant: the job is read and left in the queue.
TakeJob_Peek(t, q, s) ==
  /\ \E j \in queue[q] : running' = [running EXCEPT ![t] = j]
  /\ Goto(t, s)
  /\ UNCHANGED <<queue, numthrs, idle, loop, scan, finished>>

\* A try_pop that succeeds, on queue q; the thread goes on at s.
TakeJob(t, q, s) ==
  /\ \E j \in queue[q] :
       /\ queue' = [queue EXCEPT ![q] = @ \ {j}]
       /\ running' = [running EXCEPT ![t] = j]
  /\ Goto(t, s)
  /\ UNCHANGED <<numthrs, idle, loop, scan, finished>>

\* A try_pop that fails.
MissJob(t, q, s) ==
  /\ queue[q] = {}
  /\ Goto(t, s)
  /\ UNCHANGED <<queue, numthrs, idle, loop, scan, running, finished>>

WorkPop(t) ==
  /\ pc[t] = "pop"
  /\ TakeJob(t, Home(t), "run") \/ MissJob(t, Home(t), "inc")

\* Mutant: the thread never counts itself idle.
IncIdle_Uncounted(t) ==
  /\ pc[t] = "inc"
  /\ Goto(t, "idlepop")
  /\ UNCHANGED <<queue, numthrs, idle, loop, scan, running, finished>>

IncIdle(t) ==
  /\ pc[t] = "inc"
  /\ idle' = [idle EXCEPT ![Home(t)] = @ + 1]
  /\ Goto(t, "idlepop")
  /\ UNCHANGED <<queue, numthrs, loop, scan, running, finished>>

IdlePop(t) ==
  /\ pc[t] = "idlepop"
  /\ TakeJob(t, Home(t), "dec") \/ MissJob(t, Home(t), "check")

\* Mutant: the thread stays counted while it works.
DecIdle_Kept(t) ==
  /\ pc[t] = "dec"
  /\ Goto(t, "run")
  /\ UNCHANGED <<queue, numthrs, idle, loop, scan, running, finished>>

DecIdle(t) ==
  /\ pc[t] = "dec"
  /\ idle' = [idle EXCEPT ![Home(t)] = @ - 1]
  /\ Goto(t, "run")
  /\ UNCHANGED <<queue, numthrs, loop, scan, running, finished>>

\* assist() from iteration i on: past the last queue it returns false, and
\* the thread leaves executeThreadWork().
ScanFrom(t, i) ==
  IF i < NumQueues
  THEN Goto(t, "assist") /\ scan' = [scan EXCEPT ![t] = i]
  ELSE Goto(t, "done") /\ scan' = [scan EXCEPT ![t] = 1]

\* Mutant: the counter is compared with omp_get_max_threads(), not the team.
CheckIdle_AllThreads(t) ==
  /\ pc[t] = "check"
  /\ IF idle[Home(t)] = MaxThreads
     THEN ScanFrom(t, 1)
     ELSE Goto(t, "idlepop") /\ UNCHANGED scan
  /\ UNCHANGED <<queue, numthrs, idle, loop, running, finished>>

CheckIdle(t) ==
  /\ pc[t] = "check"
  /\ IF idle[Home(t)] = numthrs[Home(t)]
     THEN ScanFrom(t, 1)
     ELSE Goto(t, "idlepop") /\ UNCHANGED scan
  /\ UNCHANGED <<queue, numthrs, idle, loop, running, finished>>

---------------------------------------------------------------------------
(* assist() and try_run() on another queue *)

AssistPop(t) ==
  /\ pc[t] = "assist"
  /\ \/ TakeJob(t, Visit(t, scan[t]), "help")
     \/ MissJob(t, Visit(t, scan[t]), "asscheck")

\* m_numthrs as a helper reads it.  It is a plain variable: until the team of
\* q has raised the atomic counter, the initial zero may still be seen.
SeenThrs(q) == {numthrs[q]} \cup {n \in {0} : idle[q] = 0}

\* What try_run() returns when it found no job.
TryRunMiss(q, n) == idle[q] # n

\* try_run() true ends this assist(), and the while loop begins a new scan.
AssistCheck(t) ==
  /\ pc[t] = "asscheck"
  /\ \E n \in SeenThrs(Visit(t, scan[t])) :
       ScanFrom(t, IF TryRunMiss(Visit(t, scan[t]), n) THEN 1 ELSE scan[t] + 1)
  /\ UNCHANGED <<queue, numthrs, idle, loop, running, finished>>

---------------------------------------------------------------------------
(* A job's run() *)

Runs(t) == pc[t] \in {"run", "help"}

Enqueue(t, j) ==
  /\ Runs(t)
  /\ j \notin Born
  /\ queue' = [queue EXCEPT ![QueueOf(t)] = @ \cup {j}]
  /\ UNCHANGED <<numthrs, idle, loop, pc, scan, running, finished>>

EndJob(t) ==
  /\ Runs(t)
  /\ finished' = finished \cup {running[t]}
  /\ running' = [running EXCEPT ![t] = NoJob]
  /\ UNCHANGED <<queue, numthrs, idle, loop>>

\* Mutant: assist() is called once, not while it returns true.
FinishJob_AssistOnce(t) ==
  /\ EndJob(t)
  /\ Goto(t, IF pc[t] = "run" THEN "pop" ELSE "done")
  /\ UNCHANGED scan

\* Mutant: the scan goes on behind the queue that was helped.
FinishJob_ScanOn(t) ==
  /\ EndJob(t)
  /\ IF pc[t] = "run"
     THEN Goto(t, "pop") /\ UNCHANGED scan
     ELSE ScanFrom(t, scan[t] + 1)

\* Back to its own queue, or, from try_run(), to a new scan of the group.
FinishJob(t) ==
  /\ EndJob(t)
  /\ IF pc[t] = "run"
     THEN Goto(t, "pop") /\ UNCHANGED scan
     ELSE ScanFrom(t, 1)

---------------------------------------------------------------------------
ThreadStep(t) ==
  \/ StartThread(t) \/ WorkPop(t) \/ IncIdle(t) \/ IdlePop(t) \/ DecIdle(t)
  \/ CheckIdle(t) \/ AssistPop(t) \/ AssistCheck(t) \/ FinishJob(t)
  \/ \E j \in Job : Enqueue(t, j)

LoopStep(q) == LaunchLoop(q) \/ JoinLoop(q)

Returned == \A q \in Queue : loop[q] = "ended"

\* The caller goes on; a system that stops before is deadlocked.
Terminated == Returned /\ UNCHANGED vars

Next ==
  \/ \E t \in Thread : ThreadStep(t)
  \/ \E q \in Queue : LoopStep(q)
  \/ Terminated

Spec == Init /\ [][Next]_vars

\* OpenMP threads are operating-system threads: each one is scheduled, and a
\* job's run() returns (Job is finite, so it cannot enqueue for ever).
FairSpec ==
  /\ Spec
  /\ \A t \in Thread : WF_vars(ThreadStep(t))
  /\ \A q \in Queue : WF_vars(LoopStep(q))

---------------------------------------------------------------------------
(* Properties *)

\* When numaLaunch() (or loop()) has returned, every job that was ever
\* enqueued has been run to its end, although threads leave on a counter that
\* is not read together with the queue (jobqueue.hpp:196-207).
NoLostJob ==
  Returned => Queued = {} /\ Active = {}

\* A thread that will still try to pop from q before it can leave: one of q's
\* own that has not found q empty since it last ran something, or an assistant
\* of the group that has q ahead of it in its scan, or will scan again.
WillPop(t, q) ==
  \/ /\ Home(t) = q
     /\ pc[t] \in {"off", "start", "pop", "run", "inc", "idlepop", "dec"}
  \/ /\ pc[t] = "assist"
     /\ \E i \in scan[t] .. NumQueues - 1 : Visit(t, i) = q
  \/ /\ pc[t] = "asscheck"
     /\ \E i \in scan[t] + 1 .. NumQueues - 1 : Visit(t, i) = q
  \/ pc[t] = "help" /\ Home(t) # q

\* No job is ever stranded: while a queue holds a job, some thread is bound
\* to come back to it, whichever threads have already left.
WorkHasOwner ==
  \A q \in Queue : queue[q] # {} => \E t \in Thread : WillPop(t, q)

\* m_idle_count, moved by ++ and -- at different places, is exactly the
\* number of the queue's own threads between them or gone: it never wraps
\* below zero and never exceeds the team.
IdleExact ==
  \A q \in Queue : idle[q] = Cardinality({t \in Team(q) : pc[t] \in IdleStates})

\* assert(m_queue.unsafe_size() == 0) after the parallel region
\* (jobqueue.hpp:241 and :259).
QueueEmptyAtLoopEnd ==
  [][\A q \in Queue : JoinLoop(q) => queue[q] = {}]_vars

\* The call that started the queues returns.
LoopsReturn == <>Returned

\* The queues implement a pool of jobs: each job is taken once and run once,
\* and the pool closes with nothing left.
Pool == INSTANCE JobPool WITH
          waiting <- Queued, active <- Active, closed <- Returned
PoolSafety == Pool!PoolSpec
=============================================================================
