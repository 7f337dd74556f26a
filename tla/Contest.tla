------------------------------ MODULE Contest ------------------------------
(***************************************************************************)
(* The runner (psstest.cpp): the contest calls the selected sorters one    *)
(* after the other on the same input, each call in this process or in a    *)
(* forked child that an alarm may kill, and checks what they leave in the  *)
(* arrays.                                                                 *)
(*                                                                         *)
(* procs is the stack of processes, all but the last waiting for their     *)
(* child.  A child that cannot load the data returns from run_forked()     *)
(* like its parent would and goes on with the rest of the list as one more *)
(* runner.  gopt_repeats times the same sorter is that sorter as often in  *)
(* the list.                                                               *)
(***************************************************************************)
EXTENDS LcpMerging

CONSTANTS
  Instances,                    \* the contests looked at: input, list of sorters, options
  m_run_func,                   \* the plain sorters: what they make of the strings,
  m_run_lcp_func,               \* those that return LCPs,
  m_run_lcp_cache_func,         \* and those that return the cache as well,
  is_lcp_func, is_lcp_cache_func    \* the names of the last two

VARIABLES contest,    \* the instance: [input, list, seed, opts]
          procs,      \* the processes: where each is and in which sorter
          arr,        \* strings, LCPs and characters of the running call
          rep,        \* inner repetitions done
          status      \* what the last call of a sorter came to

vars == <<contest, procs, arr, rep, status>>

opts == contest.opts
Top == procs[Len(procs)]
Name == contest.list[Top.at]
IsChild == Len(procs) > 1

GoTo(pc) == [procs EXCEPT ![Len(procs)].pc = pc]
NextSorter == [procs EXCEPT ![Len(procs)] = [pc |-> "next", at |-> Top.at + 1]]

(* Mutant: the parent calls the same sorter once more. *)
Reaped_Again ==
  [Front(procs) EXCEPT ![Len(procs) - 1].pc = IF opts.output THEN "exit" ELSE "next"]

(* What the parent does once its child is gone.  With an output file the   *)
(* first call is the last.                                                 *)
Reaped ==
  LET parent == procs[Len(procs) - 1]
  IN [Front(procs) EXCEPT ![Len(procs) - 1] =
        IF opts.output THEN [parent EXCEPT !.pc = "exit"]
        ELSE [pc |-> "next", at |-> parent.at + 1]]

Init ==
  /\ contest \in Instances
  /\ procs = <<[pc |-> "start", at |-> 1]>>
  /\ arr = <<>>
  /\ rep = 0
  /\ status = "none"

(* run_contest(): without -D the data is loaded once, here. *)
LoadFirst ==
  /\ Top.pc = "start"
  /\ procs' = GoTo(IF opts.forkdataload \/ opts.loadable THEN "next" ELSE "exit")
  /\ UNCHANGED <<contest, arr, rep, status>>

(* The string pointers, LCPs and the cache are set up afresh for every call. *)
Prepared == /\ arr' = Unsorted(contest.input)
            /\ rep' = 0

Prepare ==
  /\ Top.pc = "next" /\ Top.at <= Len(contest.list)
  /\ ~ opts.forkrun
  /\ procs' = GoTo("sort")
  /\ Prepared
  /\ UNCHANGED <<contest, status>>

Fork ==
  /\ Top.pc = "next" /\ Top.at <= Len(contest.list)
  /\ opts.forkrun
  /\ procs' = Append(GoTo("wait"), [pc |-> "child", at |-> Top.at])
  /\ UNCHANGED <<contest, arr, rep, status>>

ChildStarts ==
  /\ Top.pc = "child"
  /\ ~ opts.forkdataload \/ opts.loadable
  /\ procs' = GoTo("sort")
  /\ Prepared
  /\ UNCHANGED <<contest, status>>

ChildCannotLoad ==
  /\ Top.pc = "child"
  /\ opts.forkdataload /\ ~ opts.loadable
  /\ procs' = NextSorter
  /\ UNCHANGED <<contest, arr, rep, status>>

(* One inner repetition.  What should be the copy of the unsorted strings  *)
(* is a copy of itself, so nothing is put back before the next one; only   *)
(* LCPs alone or the cache alone are reset.                                *)
Reset(a) ==
  CASE rep > 0 /\ Name \in is_lcp_func ->
         [i \in DOMAIN a |-> [a[i] EXCEPT !.lcp = IF i = 1 THEN KeptLcp ELSE UnsetLcp]]
    [] rep > 0 /\ Name \in is_lcp_cache_func ->
         [i \in DOMAIN a |-> [a[i] EXCEPT !.cache = 0]]
    [] OTHER -> a

real_run(a) ==
  CASE Name \in is_lcp_func ->
         LET p == m_run_lcp_func[Name, a]
         IN [i \in DOMAIN a |-> [p[i] EXCEPT !.cache = a[i].cache]]
    [] Name \in is_lcp_cache_func -> m_run_lcp_cache_func[Name, a]
    [] OTHER ->
         LET ss == m_run_func[Name, StrsOf(a), contest.seed]
         IN [i \in DOMAIN ss |-> [a[i] EXCEPT !.str = ss[i]]]

Repeat ==
  /\ Top.pc = "sort"
  /\ rep' = rep + 1
  /\ procs' = IF rep + 1 = opts.repeats_inner THEN GoTo("check") ELSE procs

(* A sorter that calls abort() returns no strings.  It takes its process   *)
(* with it, the child or, where nothing is forked, the contest.            *)
Aborts ==
  /\ procs' = IF IsChild THEN Reaped ELSE GoTo("exit")
  /\ status' = IF IsChild THEN "aborted" ELSE status
  /\ UNCHANGED rep

RealRun ==
  /\ Top.pc = "sort"
  /\ arr' = real_run(Reset(arr))
  /\ \/ Len(arr') < Len(arr) /\ Aborts
     \/ Len(arr') = Len(arr) /\ Repeat /\ UNCHANGED status
  /\ UNCHANGED contest

(* check_sorted_order() and verify_lcp(), verify_lcp_cache(); a failed     *)
(* permutation check is only reported.                                     *)
check_sorted_order(a) == InOrder(StrsOf(a))

verify_lcp(a) == /\ LcpsOf(a)[1] = KeptLcp
                 /\ LcpExact(StrsOf(a), LcpsOf(a))

verify_lcp_cache(a) == verify_lcp(a) /\ CacheExact(StrsOf(a), LcpsOf(a), CacheOf(a))

Verdict ==
  IF /\ check_sorted_order(arr)
     /\ Name \in is_lcp_func => verify_lcp(arr)
     /\ Name \in is_lcp_cache_func => verify_lcp_cache(arr)
  THEN "ok" ELSE "failed"

(* A child ends here, the runner itself goes on to the next sorter. *)
LeaveCall ==
  /\ Top.pc = "check"
  /\ procs' = IF IsChild THEN Reaped
              ELSE IF opts.output THEN GoTo("exit") ELSE NextSorter
  /\ UNCHANGED rep

Check ==
  /\ LeaveCall
  /\ status' = Verdict
  /\ arr' = <<>>
  /\ UNCHANGED contest

(* The alarm is set when a child starts its call, and kills it. *)
Alarm ==
  /\ opts.timeout
  /\ IsChild /\ Top.pc \in {"sort", "check"}
  /\ status' = "timeout"
  /\ procs' = Reaped
  /\ arr' = <<>>
  /\ UNCHANGED <<contest, rep>>

ListDone ==
  /\ Top.pc = "next" /\ Top.at > Len(contest.list)
  /\ procs' = GoTo("exit")
  /\ UNCHANGED <<contest, arr, rep, status>>

(* A child that went on as a runner ends, too. *)
ChildExit ==
  /\ Top.pc = "exit" /\ IsChild
  /\ procs' = Reaped
  /\ UNCHANGED <<contest, arr, rep, status>>

Exited == Top.pc = "exit" /\ ~ IsChild

Ended == Exited /\ UNCHANGED vars

Next == \/ LoadFirst \/ Prepare \/ Fork \/ ChildStarts \/ ChildCannotLoad
        \/ RealRun \/ Check \/ Alarm \/ ListDone \/ ChildExit \/ Ended

(* The part of a step that moves the processes on.  Every process runs     *)
(* until it exits; nothing makes an alarm go off.  Where a sorter aborts   *)
(* Repeat stands for the step that does: it is then never taken, so it     *)
(* cannot stay enabled.                                                    *)
Advance == \/ LoadFirst \/ Prepare \/ Fork \/ ChildStarts \/ ChildCannotLoad
           \/ Repeat \/ LeaveCall \/ ListDone \/ ChildExit

Spec == Init /\ [][Next]_vars /\ WF_<<procs, rep>>(Advance)

----------------------------------------------------------------------------
(* Every sorter leaves the strings it was given, in order: what the runner *)
(* checks after a call, with the permutation check as a condition.  Also   *)
(* after the inner repetitions, and in every child.                        *)
OutputSorted == Top.pc = "check" => Sorted(contest.input, StrsOf(arr))

(* The sorters that return LCPs return the exact ones, with element 0 as   *)
(* it was, and the cache the character behind each: also when a repetition *)
(* starts from arrays an earlier one has left.                             *)
LcpsExact ==
  Top.pc = "check" =>
    /\ Name \in is_lcp_func => verify_lcp(arr)
    /\ Name \in is_lcp_cache_func => verify_lcp_cache(arr)

(* The contest ends: a child that was killed or could not load its data    *)
(* does not keep its parent from the rest of the list.                     *)
ContestEnds == <>Exited
=============================================================================
