--------------------------- MODULE SchedulerProofs ---------------------------
(***************************************************************************)
(* Proofs about module Scheduler, for any number of tasks and any          *)
(* priorities: the task that runs is ready and has time left, and no task  *)
(* saves up more than twice the highest priority while it sleeps.          *)
(***************************************************************************)
EXTENDS Scheduler, TLAPS

(***************************************************************************)
(* The variables have their types.  A counter may not become negative: the *)
(* search of schedule() compares with -1.                                  *)
(***************************************************************************)
TypeOK ==
    /\ current \in 0..NTask /\ choosing \in BOOLEAN
    /\ ready \subseteq Task /\ inKernel \subseteq Task
    /\ counter \in [Task -> Nat]
    /\ priority \in [Task -> 0..MaxPriority]

(***************************************************************************)
(* What repeated refills (counter / 2 + priority) leave a sleeper with:    *)
(* less than twice the highest priority (sched.c:137-143).                 *)
(***************************************************************************)
SliceBounded == \A t \in Task : counter[t] < 2 * MaxPriority

SchedInv == TypeOK /\ SliceBounded /\ RunsOnTime

-----------------------------------------------------------------------------
(***************************************************************************)
(* The boot state: every task has its first slice.                         *)
(***************************************************************************)
LEMMA InitInv == Init => SchedInv
  BY TaskAssumption, PriorityAssumption
  DEF Init, SchedInv, TypeOK, SliceBounded, RunsOnTime, Runs, Task

(***************************************************************************)
(* schedule() picks a ready task that has time left.                       *)
(***************************************************************************)
LEMMA ChooseKeeps == ASSUME SchedInv, Choose PROVE SchedInv'
<1>1. TypeOK'
  <2>1. current' \in 0..NTask
    BY TaskAssumption DEF SchedInv, TypeOK, Choose, Task
  <2> QED
    BY <2>1, Zenon DEF SchedInv, TypeOK, Choose
<1>2. SliceBounded'
  BY DEF SchedInv, SliceBounded, Choose
<1>3. RunsOnTime'
  BY TaskAssumption DEF SchedInv, TypeOK, RunsOnTime, Runs, Choose, Task
<1> QED
  BY <1>1, <1>2, <1>3 DEF SchedInv

(***************************************************************************)
(* The refill halves what is left and adds the priority.                   *)
(***************************************************************************)
LEMMA RefillKeeps == ASSUME SchedInv, Refill PROVE SchedInv'
<1>1. ASSUME NEW t \in Task
      PROVE  /\ counter'[t] \in Nat
             /\ counter'[t] < 2 * MaxPriority
  <2>1. /\ counter[t] \in Nat /\ counter[t] < 2 * MaxPriority
        /\ priority[t] \in Nat /\ priority[t] <= MaxPriority /\ MaxPriority \in Nat
    BY PriorityAssumption DEF SchedInv, TypeOK, SliceBounded
  <2>2. counter'[t] = counter[t] \div 2 + priority[t]
    BY DEF Refill
  <2>3. counter[t] \div 2 \in Nat /\ counter[t] \div 2 < MaxPriority
    BY <2>1
  <2> QED
    BY <2>1, <2>2, <2>3
<1>2. counter' \in [Task -> Nat]
  BY <1>1 DEF Refill
<1> QED
  BY <1>1, <1>2 DEF Refill, SchedInv, TypeOK, SliceBounded, RunsOnTime, Runs

(***************************************************************************)
(* A tick takes one from the slice of the running task; the last one makes *)
(* it give up the processor, unless it is in the kernel.                   *)
(***************************************************************************)
LEMMA TickKeeps == ASSUME SchedInv, NEW t \in Task, Tick(t) PROVE SchedInv'
<1>1. counter[t] \in Nat /\ counter[t] < 2 * MaxPriority /\ MaxPriority \in Nat
  BY PriorityAssumption DEF SchedInv, TypeOK, SliceBounded
<1>2. /\ counter' \in [Task -> Nat]
      /\ counter'[t] = IF counter[t] > 1 THEN counter[t] - 1 ELSE 0
      /\ \A s \in Task \ {t} : counter'[s] = counter[s]
  BY <1>1 DEF Tick, SchedInv, TypeOK
<1>3. TypeOK'
  <2>1. choosing' \in BOOLEAN
    BY Zenon DEF Tick
  <2> QED
    BY <1>2, <2>1, Zenon DEF Tick, SchedInv, TypeOK
<1>4. SliceBounded'
  BY <1>1, <1>2 DEF SchedInv, SliceBounded
<1>5. RunsOnTime'
  <2>1. ~choosing' => ~(counter[t] <= 1) \/ t \in inKernel
    BY Zenon DEF Tick
  <2>2. Runs(t) /\ current' = current /\ ready' = ready /\ inKernel' = inKernel
    BY Zenon DEF Tick
  <2> QED
    BY <1>1, <1>2, <2>1, <2>2 DEF SchedInv, RunsOnTime, Runs
<1> QED
  BY <1>3, <1>4, <1>5 DEF SchedInv

(***************************************************************************)
(* The running task enters the kernel, sleeps there or leaves it.          *)
(***************************************************************************)
LEMMA CallKeeps ==
    ASSUME SchedInv, NEW t \in Task, Enter(t) \/ Block(t) \/ Leave(t) PROVE SchedInv'
<1>1. TypeOK'
  <2>1. CASE Enter(t)
    BY <2>1, Zenon DEF Enter, SchedInv, TypeOK
  <2>2. CASE Block(t)
    BY <2>2, Zenon DEF Block, SchedInv, TypeOK
  <2>3. CASE Leave(t)
    <3>1. choosing' \in BOOLEAN
      BY <2>3, Zenon DEF Leave
    <3> QED
      BY <2>3, <3>1, Zenon DEF Leave, SchedInv, TypeOK
  <2> QED
    BY <2>1, <2>2, <2>3
<1>2. SliceBounded'
  BY DEF Enter, Block, Leave, SchedInv, SliceBounded
<1>3. RunsOnTime'
  <2>1. CASE Enter(t) \/ Block(t)
    BY <2>1 DEF Enter, Block, SchedInv, TypeOK, RunsOnTime, Runs
  <2>2. CASE Leave(t)
    <3>1. ~choosing' => counter[t] # 0
      BY <2>2, Zenon DEF Leave
    <3>2. /\ Runs(t) /\ current' = current /\ ready' = ready /\ counter' = counter
          /\ inKernel' = inKernel \ {t}
      BY <2>2, Zenon DEF Leave
    <3>3. counter[t] \in Nat
      BY DEF SchedInv, TypeOK
    <3> QED
      BY <3>1, <3>2, <3>3 DEF SchedInv, RunsOnTime, Runs
  <2> QED
    BY <2>1, <2>2
<1> QED
  BY <1>1, <1>2, <1>3 DEF SchedInv

(***************************************************************************)
(* A wake-up, and task 0 giving up the processor.                          *)
(***************************************************************************)
LEMMA WakeKeeps ==
    ASSUME SchedInv, Pause \/ \E t \in Task : Wake(t) PROVE SchedInv'
  BY DEF Wake, Pause, SchedInv, TypeOK, SliceBounded, RunsOnTime, Runs

(***************************************************************************)
(* sys_nice takes at most priority - 1, unless the increment is exactly    *)
(* the priority, which leaves 0: never less.                               *)
(***************************************************************************)
LEMMA NiceKeeps ==
    ASSUME SchedInv, NEW t \in Task, NEW i \in Increments, Nice(t, i) PROVE SchedInv'
<1>1. i \in Int /\ priority[t] \in Nat /\ MaxPriority \in Nat
  BY IncrementAssumption, PriorityAssumption DEF SchedInv, TypeOK
<1> DEFINE inc == IF i > priority[t] THEN priority[t] - 1 ELSE i
<1>2. priority[t] - inc <= MaxPriority /\ priority' = [priority EXCEPT ![t] = priority[t] - inc]
  BY DEF Nice
<1>3. priority[t] - inc \in 0..MaxPriority
  BY <1>1, <1>2
<1>4. priority' \in [Task -> 0..MaxPriority]
  BY <1>2, <1>3 DEF SchedInv, TypeOK
<1> QED
  BY <1>4 DEF Nice, SchedInv, TypeOK, SliceBounded, RunsOnTime, Runs

(***************************************************************************)
(* The scheduler's invariant holds in every reachable state.               *)
(***************************************************************************)
THEOREM SchedulerInvariant == Spec => []SchedInv
<1>1. SchedInv /\ UNCHANGED vars => SchedInv'
  BY DEF SchedInv, TypeOK, SliceBounded, RunsOnTime, Runs, vars
<1>2. SchedInv /\ Next => SchedInv'
  BY ChooseKeeps, RefillKeeps, TickKeeps, CallKeeps, WakeKeeps, NiceKeeps DEF Next
<1> QED
  BY <1>1, <1>2, InitInv, PTL DEF Spec

(***************************************************************************)
(* The task that runs is ready, and outside the kernel it has time left.   *)
(***************************************************************************)
THEOREM RunningIsReady == Spec => []RunsOnTime
<1>1. SchedInv => RunsOnTime
  BY DEF SchedInv
<1> QED
  BY <1>1, SchedulerInvariant, PTL

(***************************************************************************)
(* No task, however long it sleeps, saves up a slice of twice the highest  *)
(* priority; so no slice keeps the others waiting for longer than that.    *)
(***************************************************************************)
THEOREM SlicesAreBounded == Spec => []SliceBounded
<1>1. SchedInv => SliceBounded
  BY DEF SchedInv
<1> QED
  BY <1>1, SchedulerInvariant, PTL

=============================================================================
