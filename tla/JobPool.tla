------------------------------ MODULE JobPool ------------------------------
(***************************************************************************)
(* What a job queue promises to the sorter that uses it, whatever the      *)
(* number of threads and queues: a job that is submitted is taken by       *)
(* exactly one thread and run once, only a running job submits others once *)
(* the pool works, and the pool is closed only when no job is left.        *)
(*                                                                         *)
(* JobQueue is the detailed specification; it implements this one.         *)
(***************************************************************************)
CONSTANT Job            \* the jobs that may be submitted

VARIABLES
  waiting,              \* submitted, not yet taken by a thread
  active,               \* being run
  finished,             \* run to the end
  closed                \* the call that started the pool has returned

poolVars == <<waiting, active, finished, closed>>

PoolInit ==
  /\ waiting \in SUBSET Job
  /\ active = {}
  /\ finished = {}
  /\ closed = FALSE

Fresh(j) == j \notin waiting \cup active \cup finished

\* A running job submits a new one.
Submit(j) ==
  /\ active # {}
  /\ Fresh(j)
  /\ waiting' = waiting \cup {j}
  /\ UNCHANGED <<active, finished, closed>>

Take(j) ==
  /\ j \in waiting
  /\ waiting' = waiting \ {j}
  /\ active' = active \cup {j}
  /\ UNCHANGED <<finished, closed>>

Complete(j) ==
  /\ j \in active
  /\ active' = active \ {j}
  /\ finished' = finished \cup {j}
  /\ UNCHANGED <<waiting, closed>>

Close ==
  /\ waiting = {}
  /\ active = {}
  /\ closed' = TRUE
  /\ UNCHANGED <<waiting, active, finished>>

PoolNext ==
  \/ \E j \in Job : Submit(j) \/ Take(j) \/ Complete(j)
  \/ Close

PoolSpec == PoolInit /\ [][PoolNext]_poolVars
=============================================================================
