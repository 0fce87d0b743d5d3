----------------------------- MODULE Scheduler -----------------------------
(***************************************************************************)
(* The choice of the task that runs (schedule, do_timer, sys_nice of       *)
(* kernel/sched.c, the exit of system_call in kernel/sys_call.S): time     *)
(* slices, priorities and their refill.  The other modules assume that a   *)
(* task that can run does run; this one shows what that rests on.          *)
(*                                                                         *)
(* Task 0 runs when nobody else can.  A task blocks only in the kernel and *)
(* is not preempted there.                                                 *)
(***************************************************************************)
EXTENDS Integers

CONSTANTS NTask,        \* tasks 1..NTask, in the order of task[]
          Priority,     \* INIT_TASK's priority, inherited by fork
          MaxPriority,  \* bound: how far a super-user raises a priority
          Increments    \* the arguments of sys_nice

ASSUME TaskAssumption == NTask \in Nat
ASSUME PriorityAssumption ==
    Priority \in Nat \ {0} /\ MaxPriority \in Nat /\ Priority <= MaxPriority
ASSUME IncrementAssumption == Increments \subseteq Int

Task == 1..NTask

VARIABLES current,    \* the task that runs
          choosing,   \* schedule() is looking for the next one
          ready,      \* the tasks in state TASK_RUNNING
          inKernel,   \* the tasks that execute a system call
          counter,
          priority

vars == <<current, choosing, ready, inKernel, counter, priority>>

Init ==
    /\ current = 0 /\ choosing = TRUE
    /\ ready = Task /\ inKernel = {}
    /\ counter = [t \in Task |-> Priority]
    /\ priority = [t \in Task |-> Priority]

Runs(t) == current = t /\ ~choosing

-----------------------------------------------------------------------------
(* schedule *)

(* The ready task with the largest counter, the last one of them; task 0   *)
(* when no task is ready                                                   *)
Choose ==
    /\ choosing
    /\ \/ ready = {} /\ current' = 0
       \/ \E t \in ready :
             /\ counter[t] > 0
             /\ \A s \in ready : counter[s] < counter[t] \/ (counter[s] = counter[t] /\ s <= t)
             /\ current' = t
    /\ choosing' = FALSE
    /\ UNCHANGED <<ready, inKernel, counter, priority>>

(* Tasks are ready but all their time is used up. *)
Refill ==
    /\ choosing /\ ready # {}
    /\ \A t \in ready : counter[t] = 0
    /\ counter' = [t \in Task |-> counter[t] \div 2 + priority[t]]
    /\ UNCHANGED <<current, choosing, ready, inKernel, priority>>

-----------------------------------------------------------------------------
\* Mutant: a used up slice is renewed at once.
TickRenews(t) ==
    /\ Runs(t)
    /\ counter' = [counter EXCEPT ![t] = IF @ > 1 THEN @ - 1 ELSE priority[t]]
    /\ choosing' = (counter[t] <= 1 /\ t \notin inKernel)
    /\ UNCHANGED <<current, ready, inKernel, priority>>

(* do_timer: the time slice of a task that is in the kernel ends when it   *)
(* returns.                                                                *)
Tick(t) ==
    /\ Runs(t)
    /\ counter' = [counter EXCEPT ![t] = IF @ > 1 THEN @ - 1 ELSE 0]
    /\ choosing' = (counter[t] <= 1 /\ t \notin inKernel)
    /\ UNCHANGED <<current, ready, inKernel, priority>>

Enter(t) ==
    /\ Runs(t) /\ t \notin inKernel
    /\ inKernel' = inKernel \cup {t}
    /\ UNCHANGED <<current, choosing, ready, counter, priority>>

(* The task sleeps. *)
Block(t) ==
    /\ Runs(t) /\ t \in inKernel
    /\ ready' = ready \ {t}
    /\ choosing' = TRUE
    /\ UNCHANGED <<current, inKernel, counter, priority>>

\* Mutant: the end of a system call does not look at the counter.
LeaveAnyway(t) ==
    /\ Runs(t) /\ t \in inKernel
    /\ inKernel' = inKernel \ {t}
    /\ UNCHANGED <<current, choosing, ready, counter, priority>>

(* The end of a system call, and reschedule if the time is used up *)
Leave(t) ==
    /\ Runs(t) /\ t \in inKernel
    /\ inKernel' = inKernel \ {t}
    /\ choosing' = (counter[t] = 0)
    /\ UNCHANGED <<current, ready, counter, priority>>

(* An interrupt or the running task wakes a task. *)
Wake(t) ==
    /\ t \notin ready /\ ~choosing
    /\ ready' = ready \cup {t}
    /\ UNCHANGED <<current, choosing, inKernel, counter, priority>>

(* Task 0 calls pause() for ever. *)
Pause ==
    /\ Runs(0)
    /\ choosing' = TRUE
    /\ UNCHANGED <<current, ready, inKernel, counter, priority>>

(* sys_nice *)
Nice(t, increment) ==
    LET inc == IF increment > priority[t] THEN priority[t] - 1 ELSE increment IN
    /\ Runs(t) /\ t \in inKernel
    /\ priority[t] - inc <= MaxPriority
    /\ priority' = [priority EXCEPT ![t] = @ - inc]
    /\ UNCHANGED <<current, choosing, ready, inKernel, counter>>

-----------------------------------------------------------------------------
Next ==
    \/ Choose \/ Refill \/ Pause
    \/ \E t \in Task :
          \/ Tick(t) \/ Enter(t) \/ Block(t) \/ Leave(t) \/ Wake(t)
          \/ \E i \in Increments : Nice(t, i)

Spec == Init /\ [][Next]_vars

(* schedule() and pause() go on, system calls end or sleep, and a task     *)
(* that runs again and again is met by the clock again and again.          *)
FairSpec ==
    /\ Spec
    /\ WF_vars(Choose) /\ WF_vars(Refill) /\ WF_vars(Pause)
    /\ \A t \in Task : SF_vars(Tick(t)) /\ WF_vars(Block(t) \/ Leave(t))

-----------------------------------------------------------------------------
(* Properties *)

(* The task that runs is ready, and one that runs in user mode has time    *)
(* left: a slice ends in a call of schedule(), at once or at the end of    *)
(* the system call.                                                        *)
RunsOnTime ==
    \A t \in Task : Runs(t) => t \in ready /\ (t \in inKernel \/ counter[t] > 0)

(* Every ready task comes to run, whatever the others do (sched.c:137-143).*)
ReadyRuns == \A t \in Task : t \in ready ~> current = t

=============================================================================
