-------------------------- MODULE WaitQueueProofs --------------------------
(* Proofs about module WaitQueue, for any number of tasks, queues and      *)
(* nested interrupts.                                                      *)
EXTENDS WaitQueue, TLAPS

USE NamesDistinct, SleepDiscipline, NestAssumption

(***************************************************************************)
(* The invariant holds when the system starts: no task is in __sleep_on    *)
(* and no wake_up is open.                                                 *)
(***************************************************************************)
LEMMA InitInv == Init => Inv
<1> SUFFICES ASSUME Init PROVE Inv
  OBVIOUS
<1>1. TypeOK
  BY DEF Init, TypeOK, NoFrame, Frame, States, Asleep
<1>2. \A q \in Queue : Linked(q) = {}
  BY DEF Init, Linked, Inside
<1>3. WhereTasksAre /\ GoingToSleep
  BY DEF Init, WhereTasksAre, GoingToSleep
<1>4. NoLostSleeper /\ ListsApart /\ OnePredecessor
  BY <1>2 DEF Init, NoLostSleeper, SleepsOn, ListsApart, OnePredecessor
<1>5. OpenCalls /\ Nesting /\ Rewaking
  BY DEF Init, OpenCalls, Nesting, Rewaking
<1> QED
  BY <1>1, <1>3, <1>4, <1>5 DEF Inv

(***************************************************************************)
(* A step that leaves the lists, the tasks' places and the open calls      *)
(* alone and puts no task to sleep keeps the invariant's list part.        *)
(***************************************************************************)
LEMMA ListsKept ==
    ASSUME Inv, UNCHANGED <<next_wait, head, pc, onq, depth, frame>>,
           \A t \in Task : state'[t] \in Asleep => state[t] \in Asleep \/ pc[t] = "run"
    PROVE  NoLostSleeper' /\ ListsApart' /\ OnePredecessor'
<1>1. \A q : Linked(q)' = Linked(q)
  BY DEF Linked
<1>2. \A S, q : Entered(S, q)' <=> Entered(S, q)
  BY <1>1 DEF Entered, Walks
<1>3. \A t \in Task, q \in Queue : SleepsOn(t, q)' => SleepsOn(t, q)
  BY DEF SleepsOn
<1>4. NoLostSleeper'
  BY <1>1, <1>2, <1>3 DEF Inv, NoLostSleeper
<1> QED
  BY <1>1, <1>4 DEF Inv, ListsApart, OnePredecessor


-----------------------------------------------------------------------------
(* Steps that open a call of wake_up *)

(***************************************************************************)
(* Entering wake_up(q) keeps the invariant, unless the current task is     *)
(* about to sleep on q.  (SleepReturn also moves that task to "rewake".)   *)
(***************************************************************************)
LEMMA CallInv ==
    ASSUME Inv, NEW q \in Queue, Call(q),
           \A t \in Task : pc[t] \in {"linked", "queued"} => onq[t] # q,
           UNCHANGED <<cur, state, next_wait, head, onq, how>>,
           \/ UNCHANGED pc
           \/ /\ depth = 0 /\ cur \in Task
              /\ pc[cur] = "waiting" /\ onq[cur] = q
              /\ pc' = [pc EXCEPT ![cur] = "rewake"]
    PROVE  Inv'
<1> USE DEF Inv
<1>0. /\ depth \in 0..MaxNest /\ depth < MaxNest
      /\ depth' = depth + 1
      /\ frame'[depth + 1] = [q |-> q, at |-> "load", ptr |-> NULL]
      /\ \A i \in 1..depth : frame'[i] = frame[i]
  BY DEF Call, TypeOK
<1>1. TypeOK'
  BY <1>0 DEF TypeOK, Call, Frame
<1>2. \A t \in Task : /\ pc'[t] \in Inside <=> pc[t] \in Inside
                      /\ pc'[t] \in {"asleep", "waiting"} => pc[t] \in {"asleep", "waiting"}
                      /\ pc'[t] # pc[t] => t = cur /\ pc'[t] = "rewake" /\ pc[t] = "waiting"
  BY DEF TypeOK, Inside
<1>3. \A r : Linked(r)' = Linked(r)
  BY <1>2 DEF Linked
<1>4. WhereTasksAre'
  BY <1>2 DEF WhereTasksAre
<1>5. GoingToSleep'
  BY <1>0, <1>2 DEF GoingToSleep
<1>6. NoLostSleeper'
  <2>1. \A t \in Task, r \in Queue : SleepsOn(t, r)' => SleepsOn(t, r)
    BY <1>2 DEF SleepsOn
  <2>2. \A S, r : Entered(S, r) => Entered(S, r)'
    <3> SUFFICES ASSUME NEW S, NEW r, Entered(S, r) PROVE Entered(S, r)'
      OBVIOUS
    <3> PICK t \in S : \/ head[r] = t
                       \/ \E i \in 1..depth : Walks(i, r) /\ frame[i].ptr = t
                       \/ \E u \in Linked(r) \ S : next_wait[u] = t
      BY DEF Entered
    <3>1. ASSUME NEW i \in 1..depth, Walks(i, r), frame[i].ptr = t
          PROVE  i \in 1..depth' /\ Walks(i, r)' /\ frame'[i].ptr = t
      BY <3>1, <1>0 DEF Walks
    <3> QED
      BY <3>1, <1>3 DEF Entered
  <2> QED
    BY <2>1, <2>2, <1>3 DEF NoLostSleeper
<1>7. ListsApart' /\ OnePredecessor'
  BY <1>3 DEF ListsApart, OnePredecessor
<1>8. OpenCalls'
  BY <1>0, <1>2, <1>3 DEF OpenCalls
<1>9. Nesting'
  BY <1>0 DEF Nesting
<1>10. Rewaking'
  BY <1>0, <1>2 DEF Rewaking
<1> QED
  BY <1>1, <1>4, <1>5, <1>6, <1>7, <1>8, <1>9, <1>10

LEMMA InterruptWakeInv ==
    ASSUME Inv, NEW q \in IntrWake, InterruptWake(q) PROVE Inv'
<1>1. \A t \in Task : pc[t] \in {"linked", "queued"} => onq[t] # q
  BY DEF Inv, InterruptWake, InterruptsOff, WhereTasksAre
<1> QED
  BY <1>1, CallInv DEF InterruptWake

LEMMA TaskWakeInv ==
    ASSUME Inv, NEW q \in Queue, TaskWake(q) PROVE Inv'
<1>1. \A t \in Task : pc[t] \in {"linked", "queued"} => onq[t] # q
  BY DEF Inv, TaskWake, InKernel, WhereTasksAre
<1> QED
  BY <1>1, CallInv DEF TaskWake

-----------------------------------------------------------------------------
(* The statements of wake_up *)

(***************************************************************************)
(* When the top call is about to return because its queue, or what is left *)
(* of the chain, is empty, no task is linked on its queue unless an outer  *)
(* call is walking it.                                                     *)
(***************************************************************************)
LEMMA NothingLeft ==
    ASSUME Inv, depth > 0,
           \/ Top.at = "load" /\ head[Top.q] = NULL
           \/ Top.at = "wake" /\ Top.ptr \in {NULL, Task0},
           \A k \in 1..(depth - 1) : ~Walks(k, Top.q)
    PROVE  Linked(Top.q) = {}
<1>1. depth \in 1..depth /\ Top.q \in Queue /\ head[Top.q] = NULL
  BY DEF Inv, TypeOK, OpenCalls, Top
<1>2. ASSUME NEW i \in 1..depth, Walks(i, Top.q), frame[i].ptr \in Task PROVE FALSE
  BY <1>2 DEF Inv, TypeOK, Walks, Top
<1>3. \A t \in Linked(Top.q) : t \in Task
  BY DEF Linked
<1>4. Linked(Top.q) # {} => Entered(Linked(Top.q), Top.q)
  BY <1>1 DEF Inv, NoLostSleeper
<1> QED
  BY <1>1, <1>2, <1>3, <1>4 DEF Entered

(***************************************************************************)
(* Returning from wake_up keeps the invariant.                             *)
(***************************************************************************)
LEMMA ReturnInv ==
    ASSUME Inv, depth > 0, Return,
           \/ Top.at = "load" /\ head[Top.q] = NULL
           \/ Top.at = "wake" /\ Top.ptr \in {NULL, Task0},
           UNCHANGED <<cur, state, next_wait, head, pc, onq, how>>
    PROVE  Inv'
<1> USE DEF Inv
<1>0. /\ depth \in 1..MaxNest
      /\ depth' = depth - 1 /\ depth' \in 0..MaxNest
      /\ \A i \in 1..depth' : i \in 1..depth /\ frame'[i] = frame[i]
  BY DEF Return, TypeOK
<1>1. TypeOK'
  BY <1>0 DEF TypeOK, Return, NoFrame, Frame
<1>2. \A r : Linked(r)' = Linked(r)
  BY DEF Linked
<1>3. WhereTasksAre' /\ GoingToSleep'
  BY <1>0 DEF WhereTasksAre, GoingToSleep
<1>4. NoLostSleeper'
  <2>1. \A t \in Task, r \in Queue : SleepsOn(t, r)' => SleepsOn(t, r)
    BY DEF SleepsOn
  <2>2. ASSUME NEW r \in Queue, NEW S \in SUBSET Linked(r), S # {} PROVE Entered(S, r)'
    <3>1. Entered(S, r)
      BY <2>2 DEF NoLostSleeper
    <3> PICK t \in S : \/ head[r] = t
                       \/ \E i \in 1..depth : Walks(i, r) /\ frame[i].ptr = t
                       \/ \E u \in Linked(r) \ S : next_wait[u] = t
      BY <3>1 DEF Entered
    <3>2. t \in Task
      BY DEF Linked
    <3>3. ASSUME NEW i \in 1..depth, Walks(i, r), frame[i].ptr = t
          PROVE  i \in 1..depth' /\ Walks(i, r)' /\ frame'[i].ptr = t
      <4>1. i # depth
        BY <3>2, <3>3 DEF Walks, Top
      <4> QED
        BY <3>3, <4>1, <1>0 DEF Walks
    <3> QED
      BY <3>3, <1>2 DEF Entered
  <2> QED
    BY <2>1, <2>2, <1>2 DEF NoLostSleeper
<1>5. ListsApart' /\ OnePredecessor'
  BY <1>2 DEF ListsApart, OnePredecessor
<1>6. OpenCalls' /\ Nesting'
  BY <1>0, <1>2 DEF OpenCalls, Nesting
<1>7. Rewaking'
  <2>1. head[Top.q] = NULL
    BY <1>0 DEF OpenCalls, Top
  <2> QED
    BY <2>1, <1>0 DEF Rewaking, Top
<1> QED
  BY <1>1, <1>3, <1>4, <1>5, <1>6, <1>7

(***************************************************************************)
(* if (p && *p) wakeup_ptr = *p: the cursor is on the call's queue, and no *)
(* outer call is walking that queue, whose word would be NULL.             *)
(***************************************************************************)
LEMMA WakeLoadInv == ASSUME Inv, WakeLoad PROVE Inv'
<1> USE DEF Inv
<1>1. CASE head[Top.q] = NULL
  BY <1>1, ReturnInv DEF WakeLoad, CallAt
<1>2. CASE head[Top.q] # NULL
  <2>0. /\ depth \in 1..MaxNest /\ depth' = depth /\ Top.q \in Queue
        /\ frame'[depth] = [q |-> Top.q, at |-> "clear", ptr |-> head[Top.q]]
        /\ \A i \in 1..depth : i # depth => frame'[i] = frame[i]
        /\ frame[depth].at = "load"
        /\ UNCHANGED <<cur, state, next_wait, head, pc, onq, how>>
    BY <1>2 DEF WakeLoad, CallAt, TypeOK, Frame, OpenCalls, Top
  <2>1. TypeOK'
    <3>1. head[Top.q] \in Task
      BY <1>2, <2>0 DEF TypeOK
    <3>2. [q |-> Top.q, at |-> "clear", ptr |-> head[Top.q]] \in Frame
      BY <2>0, <3>1 DEF Frame
    <3>3. frame' \in [1..MaxNest -> Frame]
      BY <1>2, <2>0, <3>2 DEF TypeOK, WakeLoad, CallAt
    <3> QED
      BY <2>0, <3>3 DEF TypeOK
  <2>2. \A r : Linked(r)' = Linked(r)
    BY <2>0 DEF Linked
  <2>3. \A i \in 1..depth : \A r : Walks(i, r)' <=> Walks(i, r)
    BY <2>0 DEF Walks
  <2>4. WhereTasksAre' /\ GoingToSleep'
    BY <2>0 DEF WhereTasksAre, GoingToSleep, Top
  <2>5. NoLostSleeper'
    <3>1. \A t \in Task, r \in Queue : SleepsOn(t, r)' => SleepsOn(t, r)
      BY <2>0 DEF SleepsOn
    <3>2. \A i \in 1..depth : \A r : Walks(i, r) => frame'[i].ptr = frame[i].ptr
      BY <2>0 DEF Walks
    <3>3. \A S, r : Entered(S, r) => Entered(S, r)'
      BY <2>0, <2>2, <2>3, <3>2 DEF Entered
    <3> QED
      BY <2>2, <3>1, <3>3 DEF NoLostSleeper
  <2>6. ListsApart' /\ OnePredecessor'
    BY <2>0, <2>2 DEF ListsApart, OnePredecessor
  <2>7. head[Top.q] \in Linked(Top.q)
    BY <1>2, <2>0 DEF ListsApart
  <2>8. OpenCalls'
    BY <2>0, <2>2, <2>7 DEF OpenCalls, Linked
  <2>9. Nesting'
    BY <1>2, <2>0 DEF Nesting, OpenCalls, Top, TypeOK, Frame
  <2>10. Rewaking'
    BY <2>0 DEF Rewaking, Top
  <2> QED
    BY <2>1, <2>4, <2>5, <2>6, <2>8, <2>9, <2>10
<1> QED
  BY <1>1, <1>2

(***************************************************************************)
(* *p = NULL: the chain hangs on the cursor now.  Had an interrupt already *)
(* taken the chain, the cursor would be marked and nobody else linked.     *)
(***************************************************************************)
LEMMA WakeClearInv == ASSUME Inv, WakeClear PROVE Inv'
<1> USE DEF Inv
<1> PICK Q \in Queue, w \in Task : Q = Top.q /\ w = Top.ptr
  BY DEF WakeClear, TypeOK, OpenCalls, Top
<1>0. /\ depth \in 1..MaxNest /\ depth' = depth /\ Q \in Queue
      /\ frame[depth].at = "clear" /\ w \in Task
      /\ onq[w] = Q /\ pc[w] \in Inside /\ head[Q] \in {w, NULL}
      /\ frame'[depth] = [q |-> Q, at |-> "wake", ptr |-> w]
      /\ \A i \in 1..depth : i # depth => frame'[i] = frame[i]
      /\ head' = [head EXCEPT ![Q] = NULL]
      /\ UNCHANGED <<cur, state, next_wait, pc, onq, how>>
  BY DEF WakeClear, CallAt, TypeOK, Frame, OpenCalls, Top
<1>1. TypeOK'
  BY <1>0 DEF TypeOK, WakeClear, CallAt, Frame, Top
<1>2. \A r : Linked(r)' = Linked(r)
  BY <1>0 DEF Linked
<1>3. \A k \in 1..depth : ~Walks(k, Q)
  BY <1>0 DEF Nesting, Walks, Top
<1>4. w \in Linked(Q) => head[Q] = w
  <2>1. Linked(Q) # {} => Entered(Linked(Q), Q)
    BY <1>0 DEF NoLostSleeper
  <2>2. NULL \notin Linked(Q)
    BY DEF Linked
  <2> QED
    BY <2>1, <2>2, <1>0, <1>3 DEF Entered
<1>5. WhereTasksAre'
  BY <1>0 DEF WhereTasksAre
<1>6. GoingToSleep'
  BY <1>0 DEF GoingToSleep, Top, WhereTasksAre, TypeOK
<1>7. NoLostSleeper'
  <2>1. \A t \in Task, r \in Queue : SleepsOn(t, r)' => SleepsOn(t, r)
    BY <1>0 DEF SleepsOn
  <2>2. ASSUME NEW r \in Queue, NEW S \in SUBSET Linked(r), S # {} PROVE Entered(S, r)'
    <3>1. Entered(S, r)
      BY <2>2 DEF NoLostSleeper
    <3> PICK t \in S : \/ head[r] = t
                       \/ \E i \in 1..depth : Walks(i, r) /\ frame[i].ptr = t
                       \/ \E u \in Linked(r) \ S : next_wait[u] = t
      BY <3>1 DEF Entered
    <3>2. t \in Task
      BY DEF Linked
    <3>3. ASSUME NEW i \in 1..depth, Walks(i, r), frame[i].ptr = t
          PROVE  i \in 1..depth' /\ Walks(i, r)' /\ frame'[i].ptr = t
      BY <3>3, <1>0 DEF Walks
    <3>4. ASSUME head[r] = t, r # Q PROVE head'[r] = t
      BY <3>4, <1>0 DEF TypeOK
    <3>5. ASSUME head[r] = t, r = Q
          PROVE  depth \in 1..depth' /\ Walks(depth, r)' /\ frame'[depth].ptr = t
      BY <3>5, <3>2, <1>0 DEF Walks
    <3> QED
      BY <3>3, <3>4, <3>5, <1>0, <1>2 DEF Entered
  <2> QED
    BY <2>1, <2>2, <1>2 DEF NoLostSleeper
<1>8. ListsApart' /\ OnePredecessor'
  BY <1>0, <1>2 DEF ListsApart, OnePredecessor, TypeOK
<1>9. OpenCalls'
  <2>1. \A u \in Linked(Q) : next_wait[u] # w
    BY <1>0, <1>4 DEF OnePredecessor, ListsApart
  <2>2. \A r \in Queue : head'[r] \in {head[r], NULL} /\ head'[Q] = NULL
    BY <1>0 DEF TypeOK
  <2>3. ASSUME NEW i \in 1..depth, i # depth PROVE OpenCalls!(i)'
    BY <1>0, <1>2, <2>2, <2>3 DEF OpenCalls
  <2>4. OpenCalls!(depth)'
    BY <1>0, <1>2, <2>1, <2>2
  <2> QED
    BY <2>3, <2>4, <1>0 DEF OpenCalls
<1>10. Nesting'
  <2>1. \A k \in 1..(depth - 1) : frame[k].q = Q => frame[k].at \in {"load", "clear"}
    BY <1>0, <1>3 DEF Walks, TypeOK, Frame
  <2> QED
    BY <1>0, <2>1 DEF Nesting
<1>11. Rewaking'
  BY <1>0 DEF Rewaking, Top, TypeOK
<1> QED
  BY <1>1, <1>5, <1>6, <1>7, <1>8, <1>9, <1>10, <1>11

(***************************************************************************)
(* wakeup_ptr->state = TASK_RUNNING                                        *)
(***************************************************************************)
LEMMA WakeStateInv == ASSUME Inv, WakeState PROVE Inv'
<1> USE DEF Inv
<1>1. CASE Top.ptr \in {NULL, Task0}
  BY <1>1, ReturnInv DEF WakeState, CallAt
<1>2. CASE Top.ptr \notin {NULL, Task0}
  <2>0. /\ depth \in 1..MaxNest /\ depth' = depth /\ Top.q \in Queue
        /\ frame[depth].at = "wake" /\ Top.ptr \in Task
        /\ frame'[depth] = [q |-> Top.q, at |-> "unlink", ptr |-> Top.ptr]
        /\ \A i \in 1..depth : i # depth => frame'[i] = frame[i]
        /\ UNCHANGED <<cur, next_wait, head, pc, onq, how>>
    BY <1>2 DEF WakeState, CallAt, TypeOK, Frame, OpenCalls, Top
  <2>a. /\ state'[Top.ptr] \notin Asleep
        /\ \A t \in Task : state'[t] = state[t] \/ state'[t] = "running"
        /\ state' \in [Task -> States]
    BY <1>2, <2>0 DEF WakeState, TypeOK, States, Asleep
  <2>1. TypeOK'
    BY <1>2, <2>0, <2>a DEF TypeOK, WakeState, CallAt, Frame, Top
  <2>2. \A r : Linked(r)' = Linked(r)
    BY <2>0, <2>a DEF Linked
  <2>3. \A i \in 1..depth : \A r : Walks(i, r)' <=> Walks(i, r)
    BY <2>0, <2>a DEF Walks, Top
  <2>4. WhereTasksAre' /\ GoingToSleep'
    BY <2>0, <2>a DEF WhereTasksAre, GoingToSleep, Top
  <2>5. NoLostSleeper'
    <3>1. \A t \in Task, r \in Queue : SleepsOn(t, r)' => SleepsOn(t, r)
      BY <2>0, <2>a DEF SleepsOn, Asleep
    <3>2. \A i \in 1..depth : frame'[i].ptr = frame[i].ptr
      BY <2>0, <2>a DEF Top
    <3>3. \A S, r : Entered(S, r) => Entered(S, r)'
      BY <2>0, <2>a, <2>2, <2>3, <3>2 DEF Entered
    <3> QED
      BY <2>2, <3>1, <3>3 DEF NoLostSleeper
  <2>6. ListsApart' /\ OnePredecessor'
    BY <2>0, <2>a, <2>2 DEF ListsApart, OnePredecessor
  <2>7. OpenCalls'
    <3>1. ASSUME NEW i \in 1..depth, i # depth PROVE OpenCalls!(i)'
      BY <2>0, <2>a, <2>2, <3>1 DEF OpenCalls, Asleep
    <3>2. OpenCalls!(depth)'
      BY <2>0, <2>a, <2>2 DEF OpenCalls, Top
    <3> QED
      BY <3>1, <3>2, <2>0 DEF OpenCalls
  <2>8. Nesting'
    BY <2>0, <2>a DEF Nesting, Top
  <2>9. Rewaking'
    BY <2>0, <2>a DEF Rewaking, Top
  <2> QED
    BY <2>1, <2>4, <2>5, <2>6, <2>7, <2>8, <2>9
<1> QED
  BY <1>1, <1>2

(***************************************************************************)
(* tmp = next_wait; next_wait = task[0]; wakeup_ptr = tmp: the first task  *)
(* of the chain is taken off, its successor becomes the cursor.            *)
(***************************************************************************)
LEMMA WakeUnlinkInv == ASSUME Inv, WakeUnlink PROVE Inv'
<1> USE DEF Inv
<1> PICK Q \in Queue, w \in Task : Q = Top.q /\ w = Top.ptr
  BY DEF WakeUnlink, TypeOK, OpenCalls, Top
<1>0. /\ depth \in 1..MaxNest /\ depth' = depth /\ Q \in Queue
      /\ frame[depth].at = "unlink" /\ w \in Task
      /\ onq[w] = Q /\ pc[w] \in Inside /\ head[Q] = NULL
      /\ state[w] \notin Asleep
      /\ next_wait[w] \in Task \cup {Task0, NULL}
      /\ frame'[depth] = [q |-> Q, at |-> "wake", ptr |-> next_wait[w]]
      /\ \A i \in 1..depth : i # depth => frame'[i] = frame[i]
      /\ next_wait' = [next_wait EXCEPT ![w] = Task0]
      /\ UNCHANGED <<cur, state, head, pc, onq, how>>
  BY DEF WakeUnlink, CallAt, TypeOK, Frame, OpenCalls, Top
<1>a. next_wait'[w] = Task0 /\ \A t \in Task : t # w => next_wait'[t] = next_wait[t]
  BY <1>0 DEF TypeOK
<1>1. TypeOK'
  <2>1. frame' \in [1..MaxNest -> Frame]
    BY <1>0 DEF TypeOK, WakeUnlink, CallAt, Frame
  <2> QED
    BY <1>0, <2>1 DEF TypeOK
<1>2. /\ \A r : r # Q => Linked(r)' = Linked(r)
      /\ Linked(Q)' = Linked(Q) \ {w}
  BY <1>0, <1>a DEF Linked
<1>b. /\ \A u \in Linked(Q) : next_wait[u] # w
      /\ \A k \in 1..(depth - 1) : ~Walks(k, Q)
  BY <1>0 DEF OpenCalls, Nesting, Walks, Top
<1>3. WhereTasksAre'
  BY <1>0 DEF WhereTasksAre
<1>4. GoingToSleep'
  <2>1. \A i \in 1..depth' : i \in 1..depth /\ frame'[i].q = frame[i].q
    BY <1>0 DEF Top
  <2>2. \A t \in Task : pc[t] \in {"linked", "queued"} => t # w
    BY <1>0 DEF GoingToSleep, Top
  <2> QED
    BY <2>1, <2>2, <1>0, <1>a DEF GoingToSleep
<1>5. NoLostSleeper'
  <2>1. \A t \in Task, r \in Queue : SleepsOn(t, r)' => SleepsOn(t, r) /\ t # w
    BY <1>0 DEF SleepsOn
  <2>2. ASSUME NEW r \in Queue, NEW S \in SUBSET Linked(r)', S # {} PROVE Entered(S, r)'
    <3>1. S \in SUBSET Linked(r) /\ w \notin S
      BY <1>0, <1>2 DEF Linked
    <3>2. Entered(S, r)
      BY <2>2, <3>1 DEF NoLostSleeper
    <3> PICK t \in S : \/ head[r] = t
                       \/ \E i \in 1..depth : Walks(i, r) /\ frame[i].ptr = t
                       \/ \E u \in Linked(r) \ S : next_wait[u] = t
      BY <3>2 DEF Entered
    <3>3. ASSUME NEW i \in 1..depth, Walks(i, r), frame[i].ptr = t
          PROVE  i \in 1..depth' /\ Walks(i, r)' /\ frame'[i].ptr = t
      BY <3>1, <3>3, <1>0 DEF Walks, Top
    <3>4. ASSUME NEW u \in Linked(r) \ S, next_wait[u] = t, u # w
          PROVE  u \in Linked(r)' \ S /\ next_wait'[u] = t
      BY <3>4, <1>2, <1>a DEF Linked
    <3>5. ASSUME w \in Linked(r) \ S, next_wait[w] = t
          PROVE  depth \in 1..depth' /\ Walks(depth, r)' /\ frame'[depth].ptr = t
      BY <3>5, <1>0 DEF Walks, Linked
    <3> QED
      BY <3>3, <3>4, <3>5, <1>0 DEF Entered
  <2> QED
    BY <2>1, <2>2, <1>2 DEF NoLostSleeper
<1>6. ListsApart'
  <2>1. ASSUME NEW r \in Queue, r # Q, NEW t \in Linked(r) PROVE next_wait'[t] = next_wait[t]
    BY <2>1, <1>0, <1>a DEF Linked
  <2>2. \A t \in Linked(Q)' : next_wait'[t] = next_wait[t] /\ t \in Linked(Q)
    BY <1>2, <1>a DEF Linked
  <2>3. \A t \in Linked(Q)' : next_wait'[t] \in Linked(Q)' \cup {NULL}
    BY <2>2, <1>0, <1>2, <1>b DEF ListsApart
  <2>4. head'[Q] = NULL
    BY <1>0
  <2> QED
    BY <2>1, <2>3, <2>4, <1>0, <1>2 DEF ListsApart
<1>7. OnePredecessor'
  BY <1>0, <1>2, <1>a DEF OnePredecessor, Linked
<1>8. OpenCalls'
  <2>1. ASSUME NEW i \in 1..depth, i # depth PROVE OpenCalls!(i)'
    <3> PICK r \in Queue : r = frame[i].q
      BY DEF OpenCalls
    <3>1. frame[i].at \in {"wake", "unlink"} => r # Q
      BY <2>1, <1>b DEF Walks, TypeOK
    <3>2. frame[i].at \in {"wake", "unlink"} =>
            \A u \in Linked(r)' : u \in Linked(r) /\ next_wait'[u] = next_wait[u]
      BY <3>1, <1>0, <1>2, <1>a DEF Linked
    <3> QED
      BY <2>1, <3>2, <1>0 DEF OpenCalls
  <2>2. OpenCalls!(depth)'
    <3>1. next_wait[w] \in Task => w \in Linked(Q)
      BY <1>0 DEF Linked
    <3>2. next_wait[w] \in Task => next_wait[w] \in Linked(Q)
      BY <3>1, <1>0 DEF ListsApart
    <3>3. next_wait[w] \in Task => \A u \in Linked(Q)' : next_wait'[u] # next_wait[w]
      BY <3>1, <1>0, <1>2, <1>a DEF OnePredecessor, Linked
    <3>4. \A u \in Linked(Q)' : next_wait'[u] # Task0
      BY DEF Linked
    <3> QED
      BY <3>2, <3>3, <3>4, <1>0 DEF Linked
  <2> QED
    BY <2>1, <2>2, <1>0 DEF OpenCalls
<1>9. Nesting'
  BY <1>0 DEF Nesting, Top
<1>10. Rewaking'
  BY <1>0 DEF Rewaking, Top
<1> QED
  BY <1>1, <1>3, <1>4, <1>5, <1>6, <1>7, <1>8, <1>9, <1>10

-----------------------------------------------------------------------------
(* The statements of __sleep_on *)

(***************************************************************************)
(* With no call open, reachability only speaks of the queues' words.       *)
(***************************************************************************)
LEMMA SleepLinkInv ==
    ASSUME Inv, NEW q \in Queue, NEW s \in Asleep, SleepLink(q, s) PROVE Inv'
<1> USE DEF Inv
<1>0. /\ depth = 0 /\ cur \in Task /\ pc[cur] = "run" /\ state[cur] = "running"
      /\ \A t \in Task : t # cur => /\ pc'[t] = pc[t] /\ onq'[t] = onq[t]
                                    /\ next_wait'[t] = next_wait[t]
      /\ pc'[cur] = "linked" /\ onq'[cur] = q /\ next_wait'[cur] = head[q]
      /\ UNCHANGED <<cur, state, head, depth, frame>>
  BY DEF SleepLink, InKernel, TypeOK
<1>1. TypeOK'
  BY DEF SleepLink, TypeOK
<1>2. \A r : Linked(r)' = Linked(r) /\ cur \notin Linked(r)
  BY <1>0 DEF Linked, Inside
<1>3. WhereTasksAre' /\ GoingToSleep' /\ OpenCalls' /\ Nesting' /\ Rewaking'
  BY <1>0 DEF WhereTasksAre, GoingToSleep, OpenCalls, Nesting, Rewaking
<1>4. \A r : \A u \in Linked(r) : u \in Task /\ next_wait'[u] = next_wait[u]
  BY <1>0, <1>2 DEF Linked
<1>5. \A t \in Task, r \in Queue : SleepsOn(t, r)' => SleepsOn(t, r)
  BY <1>0 DEF SleepsOn
<1>6. \A S, r : Entered(S, r) => Entered(S, r)'
  BY <1>0, <1>2, <1>4 DEF Entered
<1>7. NoLostSleeper' /\ ListsApart' /\ OnePredecessor'
  BY <1>0, <1>2, <1>4, <1>5, <1>6 DEF NoLostSleeper, ListsApart, OnePredecessor
<1> QED
  BY <1>1, <1>3, <1>7

LEMMA SleepQueueInv == ASSUME Inv, SleepQueue PROVE Inv'
<1> USE DEF Inv
<1> PICK Q \in Queue, c \in Task : c = cur /\ Q = onq[cur]
  BY DEF SleepQueue, WhereTasksAre
<1>0. /\ depth = 0 /\ pc[c] = "linked" /\ next_wait[c] = head[Q]
      /\ \A t \in Task : t # c => pc'[t] = pc[t]
      /\ pc'[c] = "queued" /\ head'[Q] = c
      /\ \A r \in Queue : r # Q => head'[r] = head[r]
      /\ UNCHANGED <<cur, state, next_wait, onq, depth, frame>>
  BY DEF SleepQueue, GoingToSleep, TypeOK
<1>1. TypeOK'
  BY DEF SleepQueue, TypeOK
<1>2. /\ next_wait[c] # Task0 /\ c \notin Linked(Q)
      /\ Linked(Q)' = Linked(Q) \cup {c}
      /\ \A r \in Queue : r # Q => Linked(r)' = Linked(r)
  BY <1>0 DEF Linked, Inside, TypeOK
<1>3. WhereTasksAre' /\ GoingToSleep' /\ OpenCalls' /\ Nesting' /\ Rewaking'
  BY <1>0, <1>2 DEF WhereTasksAre, GoingToSleep, OpenCalls, Nesting, Rewaking
<1>4. NoLostSleeper'
  <2>1. \A t \in Task, r \in Queue : SleepsOn(t, r)' => SleepsOn(t, r)
    BY <1>0 DEF SleepsOn
  <2>2. ASSUME NEW r \in Queue, NEW S \in SUBSET Linked(r)', S # {} PROVE Entered(S, r)'
    <3>1. CASE c \in S
      <4>1. r = Q
        BY <3>1, <1>0 DEF Linked
      <4> QED
        BY <3>1, <4>1, <1>0 DEF Entered
    <3>2. CASE c \notin S
      <4>1. S \in SUBSET Linked(r)
        BY <3>2, <1>2
      <4>2. Entered(S, r)
        BY <2>2, <4>1 DEF NoLostSleeper
      <4>3. PICK t \in S : head[r] = t \/ \E u \in Linked(r) \ S : next_wait[u] = t
        BY <4>2, <1>0 DEF Entered
      <4>4. ASSUME head[r] = t PROVE head'[r] = t \/ (c \in Linked(r)' \ S /\ next_wait[c] = t)
        BY <4>4, <3>2, <1>0, <1>2
      <4> QED
        BY <4>3, <4>4, <1>0, <1>2 DEF Entered
    <3> QED
      BY <3>1, <3>2
  <2> QED
    BY <2>1, <2>2, <1>2 DEF NoLostSleeper
<1>5. ListsApart'
  BY <1>0, <1>2 DEF ListsApart
<1>6. OnePredecessor'
  <2>1. \A u \in Linked(Q) : next_wait[u] # c
    BY <1>2 DEF ListsApart
  <2>2. head[Q] # c
    BY <1>2 DEF ListsApart
  <2>3. ASSUME NEW u \in Linked(Q)', next_wait[u] # NULL,
               NEW v \in Linked(Q)', next_wait[v] = next_wait[u]
        PROVE  next_wait[u] # c /\ v = u
    BY <2>1, <2>2, <2>3, <1>0, <1>2 DEF OnePredecessor
  <2> QED
    BY <2>3, <1>0, <1>2 DEF OnePredecessor
<1> QED
  BY <1>1, <1>3, <1>4, <1>5, <1>6

LEMMA SleepStateInv == ASSUME Inv, SleepState PROVE Inv'
<1> USE DEF Inv
<1>0. /\ depth = 0 /\ cur \in Task /\ pc[cur] = "queued" /\ next_wait[cur] # Task0
      /\ \A t \in Task : t # cur => pc'[t] = pc[t] /\ state'[t] = state[t]
      /\ pc'[cur] = "asleep" /\ state'[cur] \in Asleep
      /\ UNCHANGED <<cur, next_wait, head, onq, depth, frame>>
  BY DEF SleepState, GoingToSleep, TypeOK
<1>1. TypeOK'
  BY DEF SleepState, TypeOK, States, Asleep
<1>2. \A r : Linked(r)' = Linked(r)
  BY <1>0 DEF Linked, Inside
<1>3. WhereTasksAre' /\ GoingToSleep' /\ OpenCalls' /\ Nesting' /\ Rewaking'
  BY <1>0 DEF WhereTasksAre, GoingToSleep, OpenCalls, Nesting, Rewaking, Asleep
<1>4. \A t \in Task, r \in Queue : SleepsOn(t, r)' => t \in Linked(r)
  <2>1. \A t \in Task, r \in Queue : t # cur /\ SleepsOn(t, r)' => SleepsOn(t, r)
    BY <1>0 DEF SleepsOn
  <2>2. \A r \in Queue : onq'[cur] = r => cur \in Linked(r)
    BY <1>0 DEF Linked, Inside
  <2>3. \A t \in Task, r \in Queue : SleepsOn(t, r) => t \in Linked(r)
    BY DEF NoLostSleeper
  <2>4. \A t \in Task, r \in Queue : SleepsOn(t, r)' => onq'[t] = r
    BY DEF SleepsOn
  <2> QED
    BY <2>1, <2>2, <2>3, <2>4
<1>5. \A S, r : Entered(S, r) => Entered(S, r)'
  BY <1>0, <1>2 DEF Entered
<1>6. NoLostSleeper' /\ ListsApart' /\ OnePredecessor'
  BY <1>0, <1>2, <1>4, <1>5 DEF NoLostSleeper, ListsApart, OnePredecessor
<1> QED
  BY <1>1, <1>3, <1>6

(***************************************************************************)
(* Back from schedule(): a task that a wake_up has marked is on no list;   *)
(* one that a signal made runnable stays on it and calls wake_up itself.   *)
(***************************************************************************)
LEMMA SleepReturnInv == ASSUME Inv, SleepReturn PROVE Inv'
<1> USE DEF Inv
<1>1. CASE next_wait[cur] # Task0
  <2>1. onq[cur] \in Queue
    BY DEF SleepReturn, WhereTasksAre
  <2>2. \A t \in Task : pc[t] \in {"linked", "queued"} => onq[t] # onq[cur]
    BY DEF SleepReturn, WhereTasksAre
  <2> QED
    BY <1>1, <2>1, <2>2, CallInv DEF SleepReturn
<1>2. CASE next_wait[cur] = Task0
  <2>0. /\ depth = 0 /\ cur \in Task /\ pc[cur] = "waiting"
        /\ \A t \in Task : t # cur => /\ pc'[t] = pc[t] /\ onq'[t] = onq[t]
                                      /\ next_wait'[t] = next_wait[t]
        /\ pc'[cur] = "run"
        /\ UNCHANGED <<cur, state, head, depth, frame>>
    BY <1>2 DEF SleepReturn, TypeOK
  <2>1. TypeOK'
    BY <1>2 DEF SleepReturn, TypeOK
  <2>2. \A r : Linked(r)' = Linked(r) /\ cur \notin Linked(r)
    BY <1>2, <2>0 DEF Linked, Inside
  <2>3. WhereTasksAre' /\ GoingToSleep' /\ OpenCalls' /\ Nesting' /\ Rewaking'
    BY <2>0 DEF WhereTasksAre, GoingToSleep, OpenCalls, Nesting, Rewaking
  <2>4. \A r : \A u \in Linked(r) : u \in Task /\ next_wait'[u] = next_wait[u]
    BY <2>0, <2>2 DEF Linked
  <2>5. \A t \in Task, r \in Queue : SleepsOn(t, r)' => SleepsOn(t, r)
    BY <2>0 DEF SleepsOn
  <2>6. \A S, r : Entered(S, r) => Entered(S, r)'
    BY <2>0, <2>2, <2>4 DEF Entered
  <2>7. NoLostSleeper' /\ ListsApart' /\ OnePredecessor'
    BY <2>0, <2>2, <2>4, <2>5, <2>6 DEF NoLostSleeper, ListsApart, OnePredecessor
  <2> QED
    BY <2>1, <2>3, <2>7
<1> QED
  BY <1>1, <1>2

(***************************************************************************)
(* The wake_up of an interrupted sleeper has returned: nobody is linked on *)
(* the queue any more, so next_wait = NULL cuts nobody off.                *)
(***************************************************************************)
LEMMA SleepUnlinkInv == ASSUME Inv, SleepUnlink PROVE Inv'
<1> USE DEF Inv
<1>0. /\ depth = 0 /\ cur \in Task /\ pc[cur] = "rewake" /\ onq[cur] \in Queue
      /\ \A t \in Task : t # cur => /\ pc'[t] = pc[t] /\ onq'[t] = onq[t]
                                    /\ next_wait'[t] = next_wait[t]
      /\ pc'[cur] = "run"
      /\ UNCHANGED <<cur, state, head, depth, frame>>
  BY DEF SleepUnlink, TypeOK, WhereTasksAre
<1>1. TypeOK'
  BY DEF SleepUnlink, TypeOK
<1>a. Linked(onq[cur]) = {}
  <2>1. head[onq[cur]] = NULL
    BY <1>0 DEF Rewaking
  <2>2. NULL \notin Linked(onq[cur])
    BY DEF Linked
  <2>3. Linked(onq[cur]) # {} => Entered(Linked(onq[cur]), onq[cur])
    BY <1>0 DEF NoLostSleeper
  <2> QED
    BY <2>1, <2>2, <2>3, <1>0 DEF Entered
<1>2. \A r : Linked(r)' = Linked(r) /\ cur \notin Linked(r)
  <2>1. \A r : cur \notin Linked(r)
    BY <1>a DEF Linked
  <2> QED
    BY <2>1, <1>0 DEF Linked, Inside
<1>3. WhereTasksAre' /\ GoingToSleep' /\ OpenCalls' /\ Nesting' /\ Rewaking'
  BY <1>0 DEF WhereTasksAre, GoingToSleep, OpenCalls, Nesting, Rewaking
<1>4. \A r : \A u \in Linked(r) : u \in Task /\ next_wait'[u] = next_wait[u]
  BY <1>0, <1>2 DEF Linked
<1>5. \A t \in Task, r \in Queue : SleepsOn(t, r)' => SleepsOn(t, r)
  BY <1>0 DEF SleepsOn
<1>6. \A S, r : Entered(S, r) => Entered(S, r)'
  BY <1>0, <1>2, <1>4 DEF Entered
<1>7. NoLostSleeper' /\ ListsApart' /\ OnePredecessor'
  BY <1>0, <1>2, <1>4, <1>5, <1>6 DEF NoLostSleeper, ListsApart, OnePredecessor
<1> QED
  BY <1>1, <1>3, <1>7

-----------------------------------------------------------------------------
(* schedule() and the other changes of state *)

LEMMA ScheduleInv ==
    ASSUME Inv, NEW I \in SUBSET Task, Schedule(I) PROVE Inv'
<1> USE DEF Inv
<1>0. /\ depth = 0
      /\ \A t \in Task : \/ pc'[t] = pc[t] /\ (t = cur => pc[t] = "run")
                         \/ t = cur /\ pc[t] = "asleep" /\ pc'[t] = "waiting"
      /\ \A t \in Task : state'[t] = state[t] \/ (state[t] \in Asleep /\ state'[t] = "running")
      /\ cur' \in Task => state'[cur'] = "running"
      /\ UNCHANGED <<next_wait, head, onq, depth, frame>>
  BY NamesDistinct DEF Schedule, TypeOK, Asleep
<1>1. TypeOK'
  BY DEF Schedule, TypeOK, States
<1>2. \A r : Linked(r)' = Linked(r)
  BY <1>0 DEF Linked, Inside
<1>a. WhereTasksAre'
  BY <1>0 DEF WhereTasksAre, Asleep
<1>3. WhereTasksAre' /\ GoingToSleep' /\ OpenCalls' /\ Nesting' /\ Rewaking'
  BY <1>0, <1>a DEF GoingToSleep, OpenCalls, Nesting, Rewaking
<1>4. \A t \in Task, r \in Queue : SleepsOn(t, r)' => SleepsOn(t, r)
  BY <1>0 DEF SleepsOn, Asleep
<1>5. \A S, r : Entered(S, r) => Entered(S, r)'
  BY <1>0, <1>2 DEF Entered
<1>6. NoLostSleeper' /\ ListsApart' /\ OnePredecessor'
  BY <1>0, <1>2, <1>4, <1>5 DEF NoLostSleeper, ListsApart, OnePredecessor
<1> QED
  BY <1>1, <1>3, <1>6

LEMMA ParkInv ==
    ASSUME Inv, NEW s \in {"interruptible", "stopped", "zombie"}, Park(s) PROVE Inv'
<1> USE DEF Inv
<1>0. /\ depth = 0 /\ cur \in Task /\ pc[cur] = "run"
      /\ \A t \in Task : t # cur => state'[t] = state[t]
      /\ UNCHANGED <<cur, next_wait, head, pc, onq, how, depth, frame>>
  BY DEF Park, InKernel, TypeOK
<1>1. TypeOK'
  BY DEF Park, TypeOK, States, Asleep
<1>2. WhereTasksAre' /\ GoingToSleep' /\ OpenCalls' /\ Nesting' /\ Rewaking'
  BY <1>0 DEF WhereTasksAre, GoingToSleep, OpenCalls, Nesting, Rewaking
<1>3. NoLostSleeper' /\ ListsApart' /\ OnePredecessor'
  BY <1>0, ListsKept
<1> QED
  BY <1>1, <1>2, <1>3

LEMMA ContinueInv ==
    ASSUME Inv, NEW t \in Task, Continue(t) PROVE Inv'
<1> USE DEF Inv
<1>0. /\ depth = 0
      /\ \A u \in Task : state'[u] = state[u] \/ state'[u] = "running"
      /\ UNCHANGED <<cur, next_wait, head, pc, onq, how, depth, frame>>
  BY DEF Continue, InKernel, TypeOK
<1>1. TypeOK'
  BY DEF Continue, TypeOK, States
<1>2. WhereTasksAre' /\ GoingToSleep' /\ OpenCalls' /\ Nesting' /\ Rewaking'
  BY <1>0 DEF WhereTasksAre, GoingToSleep, OpenCalls, Nesting, Rewaking
<1>3. NoLostSleeper' /\ ListsApart' /\ OnePredecessor'
  BY <1>0, ListsKept DEF Asleep
<1> QED
  BY <1>1, <1>2, <1>3

LEMMA ForkInv ==
    ASSUME Inv, NEW t \in Task, Fork(t) PROVE Inv'
<1> USE DEF Inv
<1>0. /\ depth = 0 /\ pc[t] = "run"
      /\ \A u \in Task : state'[u] = state[u] \/ state'[u] = "running"
      /\ \A u \in Task : u # t => next_wait'[u] = next_wait[u]
      /\ UNCHANGED <<cur, head, pc, onq, depth, frame>>
  BY DEF Fork, InKernel, TypeOK, WhereTasksAre
<1>1. TypeOK'
  BY DEF Fork, InKernel, TypeOK, States
<1>2. \A r : Linked(r)' = Linked(r) /\ t \notin Linked(r)
  BY <1>0 DEF Linked, Inside
<1>3. WhereTasksAre' /\ GoingToSleep' /\ OpenCalls' /\ Nesting' /\ Rewaking'
  BY <1>0 DEF WhereTasksAre, GoingToSleep, OpenCalls, Nesting, Rewaking
<1>4. \A r : \A u \in Linked(r) : u \in Task /\ next_wait'[u] = next_wait[u]
  BY <1>0, <1>2 DEF Linked
<1>5. \A u \in Task, r \in Queue : SleepsOn(u, r)' => SleepsOn(u, r)
  BY <1>0 DEF SleepsOn, Asleep
<1>6. \A S, r : Entered(S, r) => Entered(S, r)'
  BY <1>0, <1>2, <1>4 DEF Entered
<1>7. NoLostSleeper' /\ ListsApart' /\ OnePredecessor'
  BY <1>0, <1>2, <1>4, <1>5, <1>6 DEF NoLostSleeper, ListsApart, OnePredecessor
<1> QED
  BY <1>1, <1>3, <1>7

-----------------------------------------------------------------------------
(***************************************************************************)
(* Every step of the system keeps the invariant.                           *)
(***************************************************************************)
LEMMA NextInv == Inv /\ [Next]_vars => Inv'
<1> SUFFICES ASSUME Inv, [Next]_vars PROVE Inv'
  OBVIOUS
<1>1. CASE WakeStep
  BY <1>1, WakeLoadInv, WakeClearInv, WakeStateInv, WakeUnlinkInv DEF WakeStep
<1>2. ASSUME NEW q \in IntrWake, InterruptWake(q) PROVE Inv'
  BY <1>2, InterruptWakeInv
<1>3. ASSUME NEW q \in Queue, TaskWake(q) PROVE Inv'
  BY <1>3, TaskWakeInv
<1>4. ASSUME NEW q \in Queue, NEW s \in Asleep, SleepLink(q, s) PROVE Inv'
  BY <1>4, SleepLinkInv
<1>5. CASE SleepQueue \/ SleepState \/ SleepReturn \/ SleepUnlink
  BY <1>5, SleepQueueInv, SleepStateInv, SleepReturnInv, SleepUnlinkInv
<1>6. ASSUME NEW I \in SUBSET Task, Schedule(I) PROVE Inv'
  BY <1>6, ScheduleInv
<1>7. ASSUME NEW s \in {"interruptible", "stopped", "zombie"}, Park(s) PROVE Inv'
  BY <1>7, ParkInv
<1>8. ASSUME NEW t \in Task, Continue(t) \/ Fork(t) PROVE Inv'
  BY <1>8, ContinueInv, ForkInv
<1>9. CASE UNCHANGED vars
  BY <1>9 DEF vars, Inv, TypeOK, WhereTasksAre, GoingToSleep, NoLostSleeper, SleepsOn,
     Entered, Walks, Linked, ListsApart, OnePredecessor, OpenCalls, Nesting, Rewaking
<1> QED
  BY <1>1, <1>2, <1>3, <1>4, <1>5, <1>6, <1>7, <1>8, <1>9 DEF Next

(***************************************************************************)
(* The inductive invariant holds in every reachable state, for any number  *)
(* of tasks, queues and nested interrupts.                                 *)
(***************************************************************************)
THEOREM WaitQueueInvariant == Spec => []Inv
  BY InitInv, NextInv, PTL DEF Spec

(***************************************************************************)
(* Every variable keeps its type; in particular no walk of wake_up ever    *)
(* follows a pointer that is neither a task, task[0] nor NULL.             *)
(***************************************************************************)
THEOREM TypeCorrect == Spec => []TypeOK
<1>1. Inv => TypeOK
  BY DEF Inv
<1> QED
  BY <1>1, WaitQueueInvariant, PTL

(***************************************************************************)
(* No sleeper is lost by wake_up and __sleep_on.                           *)
(***************************************************************************)
THEOREM SleepersAreNotLost == Spec => []NoLostSleeper
<1>1. Inv => NoLostSleeper
  BY DEF Inv
<1> QED
  BY <1>1, WaitQueueInvariant, PTL

(***************************************************************************)
(* wake_up never meets a stopped task or a zombie on a queue.              *)
(***************************************************************************)
THEOREM StoppedTasksAreOnNoQueue == Spec => []NeverStoppedOnQueue
<1>1. Inv => NeverStoppedOnQueue
  BY DEF Inv, TypeOK, OpenCalls, WhereTasksAre, NeverStoppedOnQueue, Top, Inside
<1> QED
  BY <1>1, WaitQueueInvariant, PTL

(***************************************************************************)
(* When a wake_up returns nobody sleeps on its queue, unless it interrupted *)
(* a wake_up of the same queue.                                            *)
(***************************************************************************)
THEOREM WakeUpWakesAll == Spec => WakeWakesAll
<1> DEFINE A == \A q \in Queue :
                  depth' < depth /\ Top.q = q =>
                    \/ \E i \in 1..(depth - 1) : frame[i].q = q
                    \/ \A t \in Task : ~SleepsOn(t, q)'
<1>1. Inv /\ [Next]_vars => [A]_vars
  <2> SUFFICES ASSUME Inv, Next, NEW q \in Queue, depth' < depth, Top.q = q,
                      ~\E i \in 1..(depth - 1) : frame[i].q = q
               PROVE  \A t \in Task : ~SleepsOn(t, q)'
    BY DEF A
  <2>1. WakeLoad \/ WakeState
    <3>1. depth \in Nat
      BY DEF Inv, TypeOK
    <3>2. ~WakeClear /\ ~WakeUnlink
      BY <3>1 DEF WakeClear, WakeUnlink
    <3>3. \A r : ~InterruptWake(r) /\ ~TaskWake(r)
      BY <3>1 DEF InterruptWake, TaskWake, Call
    <3>4. ~SleepQueue /\ ~SleepState /\ ~SleepReturn /\ ~SleepUnlink
      BY <3>1 DEF SleepQueue, SleepState, SleepReturn, SleepUnlink, Call
    <3>5. \A x, y : ~SleepLink(x, y)
      BY <3>1 DEF SleepLink
    <3>6. \A x : ~Schedule(x) /\ ~Park(x) /\ ~Continue(x) /\ ~Fork(x)
      BY <3>1 DEF Schedule, Park, Continue, Fork
    <3> QED
      BY <3>2, <3>3, <3>4, <3>5, <3>6 DEF Next, WakeStep
  <2>2. /\ depth > 0
        /\ \/ Top.at = "load" /\ head[Top.q] = NULL
           \/ Top.at = "wake" /\ Top.ptr \in {NULL, Task0}
        /\ UNCHANGED <<state, pc, onq>>
    BY <2>1 DEF WakeLoad, WakeState, Inv, TypeOK
  <2>3. Linked(q) = {}
    BY <2>2, NothingLeft DEF Walks
  <2> QED
    BY <2>2, <2>3 DEF Inv, NoLostSleeper, SleepsOn
<1> QED
  BY <1>1, WaitQueueInvariant, PTL DEF Spec, WakeWakesAll, A

-----------------------------------------------------------------------------
(* Refinement *)

(***************************************************************************)
(* A step that changes neither who waits where nor which queues are being  *)
(* walked is not visible in the abstract specification.                    *)
(***************************************************************************)
LEMMA Invisible ==
    ASSUME \A t \in Task : WaitsOn'[t] = WaitsOn[t],
           \A t \in Task : WaitsOn[t] # NULL => state'[t] = state[t],
           \A t \in Task, q \in Queue : WaitsOn[t] = q =>
              ((\E i \in 1..depth : Walks(i, q)) <=> (\E i \in 1..depth' : Walks(i, q)'))
    PROVE  UNCHANGED <<WaitsOn, Soft, Due>>
<1>1. WaitsOn' = WaitsOn
  BY DEF WaitsOn
<1>2. Soft' = Soft
  BY <1>1 DEF Soft
<1>3. Due' = Due
  BY <1>1 DEF Due
<1> QED
  BY <1>1, <1>2, <1>3

LEMMA CallIsInvisible ==
    ASSUME Inv, NEW q \in Queue, Call(q),
           \A t \in Task : WaitsOn'[t] = WaitsOn[t], UNCHANGED state
    PROVE  UNCHANGED <<WaitsOn, Soft, Due>>
<1>1. /\ depth \in Nat /\ depth' = depth + 1
      /\ \A i \in 1..depth : frame'[i] = frame[i]
      /\ frame'[depth + 1].at = "load"
  BY DEF Call, Inv, TypeOK
<1>2. \A r : (\E i \in 1..depth : Walks(i, r)) <=> (\E i \in 1..depth' : Walks(i, r)')
  BY <1>1 DEF Walks
<1> QED
  BY <1>2, Invisible

(***************************************************************************)
(* Each step of wake_up is a notification, the release of a task that is   *)
(* due, or invisible.                                                      *)
(***************************************************************************)
LEMMA WakeStepRefines ==
    ASSUME Inv, WakeStep PROVE WS!WSNext \/ UNCHANGED <<WaitsOn, Soft, Due>>
<1> USE DEF Inv
<1>0. /\ depth \in 1..MaxNest /\ Top.q \in Queue /\ Top = frame[depth]
      /\ UNCHANGED <<pc, onq>>
  BY DEF WakeStep, WakeLoad, WakeClear, WakeState, WakeUnlink, TypeOK, OpenCalls, Top
<1> PICK Q \in Queue : Q = Top.q
  BY <1>0
<1>1. CASE WakeLoad
  <2>1. \A t \in Task : WaitsOn'[t] = WaitsOn[t]
    BY <1>1 DEF WakeLoad, WaitsOn
  <2>2. \A r : (\E i \in 1..depth : Walks(i, r)) <=> (\E i \in 1..depth' : Walks(i, r)')
    <3>0. frame[depth].at = "load"
      BY <1>0, <1>1 DEF WakeLoad
    <3>1. CASE head[Top.q] = NULL
      <4>1. depth' = depth - 1 /\ \A i \in 1..(depth - 1) : frame'[i] = frame[i]
        <5>1. depth' = depth - 1 /\ frame' = [frame EXCEPT ![depth] = NoFrame]
          BY <1>1, <3>1 DEF WakeLoad, Return
        <5> QED
          BY <1>0, <5>1 DEF TypeOK
      <4> QED
        BY <1>0, <3>0, <4>1 DEF Walks
    <3>2. CASE head[Top.q] # NULL
      <4>1. /\ depth' = depth
            /\ \A i \in 1..(depth - 1) : frame'[i] = frame[i]
            /\ frame'[depth].at = "clear"
        BY <1>0, <1>1, <3>2 DEF WakeLoad, CallAt, TypeOK
      <4> QED
        BY <1>0, <3>0, <4>1 DEF Walks
    <3> QED
      BY <3>1, <3>2
  <2> QED
    BY <1>1, <2>1, <2>2, Invisible DEF WakeLoad
<1>2. CASE WakeClear
  <2>1. /\ \A t \in Task : WaitsOn'[t] = WaitsOn[t]
        /\ UNCHANGED <<state, depth>>
    BY <1>2 DEF WakeClear, WaitsOn
  <2>2. /\ Walks(depth, Q)'
        /\ \A i \in 1..depth : \A r : r # Q => (Walks(i, r)' <=> Walks(i, r))
    BY <1>0, <1>2 DEF WakeClear, CallAt, Walks, Top, TypeOK
  <2>3. WaitsOn' = WaitsOn /\ Soft' = Soft
    BY <2>1 DEF WaitsOn, Soft
  <2>4. Due' = Due \cup {t \in Task : WaitsOn[t] = Q}
    BY <1>0, <2>1, <2>2, <2>3 DEF Due
  <2> QED
    BY <2>3, <2>4 DEF WS!WSNext, WS!Notify, WS!Waiters
<1>3. CASE WakeState /\ Top.ptr \in {NULL, Task0}
  <2>0. /\ depth' = depth - 1 /\ UNCHANGED state
        /\ \A i \in 1..(depth - 1) : frame'[i] = frame[i]
    <3>1. depth' = depth - 1 /\ UNCHANGED state /\ frame' = [frame EXCEPT ![depth] = NoFrame]
      BY <1>3 DEF WakeState, Return
    <3> QED
      BY <1>0, <3>1 DEF TypeOK
  <2>1. \A t \in Task : WaitsOn'[t] = WaitsOn[t]
    BY <1>0, <2>0 DEF WaitsOn
  <2>2. \A k \in 1..(depth - 1) : ~Walks(k, Q)
    BY <1>0, <1>3 DEF WakeState, Nesting, Walks, Top
  <2>3. Linked(Q) = {}
    BY <1>0, <1>3, <2>2, NothingLeft DEF WakeState
  <2>4. \A t \in Task : WaitsOn[t] # Q
    BY <2>3 DEF WaitsOn, NoLostSleeper, SleepsOn
  <2>5. \A r : r # Q => ((\E i \in 1..depth : Walks(i, r)) <=> (\E i \in 1..depth' : Walks(i, r)'))
    BY <1>0, <2>0 DEF Walks
  <2> QED
    BY <2>0, <2>1, <2>4, <2>5, Invisible
<1>4. CASE WakeState /\ Top.ptr \notin {NULL, Task0}
  <2> PICK w \in Task : w = Top.ptr
    BY <1>0, <1>4 DEF TypeOK, Frame
  <2>a. /\ depth' = depth /\ frame[depth].at = "wake"
        /\ \A i \in 1..(depth - 1) : frame'[i] = frame[i]
        /\ frame'[depth].at = "unlink" /\ frame'[depth].q = Q
    BY <1>0, <1>4 DEF WakeState, CallAt, TypeOK
  <2>b. Walks(depth, Q) /\ \A i \in 1..depth : \A r : Walks(i, r)' <=> Walks(i, r)
    BY <1>0, <2>a DEF Walks
  <2>c. onq[w] = Q
    BY <1>0, <2>a DEF OpenCalls
  <2>d. /\ \A t \in Task : t # w => state'[t] = state[t]
        /\ state'[w] = state[w] \/ state'[w] = "running"
        /\ state'[w] \notin Asleep
    BY <1>0, <1>4 DEF WakeState, TypeOK, States, Asleep
  <2>1. /\ onq[w] = Q /\ Walks(depth, Q) /\ depth' = depth
        /\ \A i \in 1..depth : \A r : Walks(i, r)' <=> Walks(i, r)
        /\ \A t \in Task : t # w => state'[t] = state[t]
        /\ state'[w] = state[w] \/ state'[w] = "running"
        /\ state'[w] \notin Asleep
    BY <2>a, <2>b, <2>c, <2>d
  <2>2. \A t \in Task : t # w => WaitsOn'[t] = WaitsOn[t]
    BY <1>0, <2>1 DEF WaitsOn
  <2>3. WaitsOn'[w] = NULL
    BY <2>1 DEF WaitsOn
  <2>4. CASE WaitsOn[w] = NULL
    BY <2>1, <2>2, <2>3, <2>4, Invisible
  <2>5. CASE WaitsOn[w] # NULL
    <3>1. WaitsOn[w] = Q /\ w \in Due
      BY <1>0, <2>1, <2>5 DEF WaitsOn, Due
    <3>2. WaitsOn' = [t \in Task |-> IF t \in {w} THEN NULL ELSE WaitsOn[t]]
      BY <2>2, <2>3 DEF WaitsOn
    <3>3. Soft' = Soft \ {w}
      BY <2>1, <2>2, <2>3 DEF Soft
    <3>4. Due' = Due \ {w}
      BY <2>1, <2>2, <2>3 DEF Due
    <3> QED
      BY <3>1, <3>2, <3>3, <3>4 DEF WS!WSNext, WS!Release, WS!Leave
  <2> QED
    BY <2>4, <2>5
<1>5. CASE WakeUnlink
  <2>1. \A t \in Task : WaitsOn'[t] = WaitsOn[t]
    BY <1>5 DEF WakeUnlink, WaitsOn
  <2>2. /\ depth' = depth
        /\ \A i \in 1..depth : \A r : Walks(i, r)' <=> Walks(i, r)
    BY <1>0, <1>5 DEF WakeUnlink, CallAt, Walks, Top, TypeOK
  <2> QED
    BY <1>5, <2>1, <2>2, Invisible DEF WakeUnlink
<1> QED
  BY <1>1, <1>2, <1>3, <1>4, <1>5 DEF WakeStep

(***************************************************************************)
(* Each step of __sleep_on is the start of a wait or invisible.            *)
(***************************************************************************)
LEMMA SleepRefines ==
    ASSUME Inv, \/ \E q \in Queue, s \in Asleep : SleepLink(q, s)
                \/ SleepQueue \/ SleepState \/ SleepReturn \/ SleepUnlink
    PROVE WS!WSNext \/ UNCHANGED <<WaitsOn, Soft, Due>>
<1> USE DEF Inv
<1>1. ASSUME NEW q \in Queue, NEW s \in Asleep, SleepLink(q, s)
      PROVE  UNCHANGED <<WaitsOn, Soft, Due>>
  <2>1. \A t \in Task : WaitsOn'[t] = WaitsOn[t]
    BY <1>1 DEF SleepLink, InKernel, WaitsOn, TypeOK
  <2> QED
    BY <1>1, <2>1, Invisible DEF SleepLink, InKernel
<1>2. CASE SleepQueue
  <2>1. \A t \in Task : WaitsOn'[t] = WaitsOn[t]
    BY <1>2 DEF SleepQueue, WaitsOn, TypeOK
  <2> QED
    BY <1>2, <2>1, Invisible DEF SleepQueue
<1>3. CASE SleepState
  <2>0. /\ cur \in Task /\ depth = 0 /\ depth' = 0 /\ onq' = onq
        /\ onq[cur] \in Queue /\ pc[cur] = "queued" /\ pc'[cur] = "asleep"
        /\ state'[cur] \in Asleep
        /\ \A t \in Task : t # cur => pc'[t] = pc[t] /\ state'[t] = state[t]
    BY <1>3 DEF SleepState, TypeOK, WhereTasksAre
  <2>1. WaitsOn[cur] = NULL /\ WaitsOn'[cur] = onq[cur]
    BY <2>0 DEF WaitsOn
  <2>2. \A t \in Task : t # cur => WaitsOn'[t] = WaitsOn[t]
    BY <2>0 DEF WaitsOn
  <2>3. WaitsOn' = [WaitsOn EXCEPT ![cur] = onq[cur]]
    BY <2>0, <2>1, <2>2 DEF WaitsOn
  <2>4. Soft' = IF state'[cur] = "interruptible" THEN Soft \cup {cur} ELSE Soft
    <3>1. cur \notin Soft
      BY <2>1 DEF Soft
    <3> QED
      BY <2>0, <2>1, <2>2, <3>1 DEF Soft
  <2>5. Due' = Due
    BY <2>0 DEF Due
  <2> QED
    BY <2>0, <2>1, <2>3, <2>4, <2>5 DEF WS!WSNext, WS!Wait
<1>4. CASE SleepReturn
  <2>1. \A t \in Task : WaitsOn'[t] = WaitsOn[t]
    BY <1>4 DEF SleepReturn, WaitsOn, TypeOK, WhereTasksAre, Asleep
  <2>2. CASE next_wait[cur] = Task0
    BY <1>4, <2>1, <2>2, Invisible DEF SleepReturn
  <2>3. CASE next_wait[cur] # Task0
    BY <1>4, <2>1, <2>3, CallIsInvisible DEF SleepReturn, WhereTasksAre
  <2> QED
    BY <2>2, <2>3
<1>5. CASE SleepUnlink
  <2>1. \A t \in Task : WaitsOn'[t] = WaitsOn[t]
    BY <1>5 DEF SleepUnlink, WaitsOn, TypeOK
  <2> QED
    BY <1>5, <2>1, Invisible DEF SleepUnlink
<1> QED
  BY <1>1, <1>2, <1>3, <1>4, <1>5

(***************************************************************************)
(* schedule() ends the waits of the interruptible sleepers it makes        *)
(* runnable; the other changes of state are invisible.                     *)
(***************************************************************************)
LEMMA StateRefines ==
    ASSUME Inv, \/ \E I \in SUBSET Task : Schedule(I)
                \/ \E s \in {"interruptible", "stopped", "zombie"} : Park(s)
                \/ \E t \in Task : Continue(t) \/ Fork(t)
    PROVE WS!WSNext \/ UNCHANGED <<WaitsOn, Soft, Due>>
<1> USE DEF Inv
<1>1. ASSUME NEW I \in SUBSET Task, Schedule(I)
      PROVE  WS!WSNext \/ UNCHANGED <<WaitsOn, Soft, Due>>
  <2> DEFINE T == {t \in I : WaitsOn[t] # NULL}
  <2>0. /\ depth = 0 /\ depth' = 0 /\ onq' = onq
        /\ \A t \in Task : pc'[t] \in {"asleep", "waiting"} <=> pc[t] \in {"asleep", "waiting"}
        /\ \A t \in I : state[t] = "interruptible" /\ state'[t] = "running"
        /\ \A t \in Task : t \notin I => state'[t] = state[t]
    BY <1>1 DEF Schedule, TypeOK
  <2>1. Due = {} /\ Due' = {}
    BY <2>0 DEF Due
  <2>2. \A t \in Task : WaitsOn'[t] = IF t \in T THEN NULL ELSE WaitsOn[t]
    BY <2>0 DEF WaitsOn, Asleep
  <2>3. WaitsOn' = [t \in Task |-> IF t \in T THEN NULL ELSE WaitsOn[t]]
    BY <2>2 DEF WaitsOn
  <2>4. Soft' = Soft \ T /\ T \subseteq Soft
    BY <2>0, <2>2 DEF Soft
  <2>5. CASE T = {}
    <3>1. WaitsOn' = WaitsOn
      BY <2>3, <2>5 DEF WaitsOn
    <3> QED
      BY <2>1, <2>4, <2>5, <3>1
  <2>6. CASE T # {}
    BY <2>1, <2>3, <2>4, <2>6 DEF WS!WSNext, WS!Interrupt, WS!Leave
  <2> QED
    BY <2>5, <2>6
<1>2. ASSUME NEW s \in {"interruptible", "stopped", "zombie"}, Park(s)
      PROVE  UNCHANGED <<WaitsOn, Soft, Due>>
  <2>1. \A t \in Task : WaitsOn'[t] = WaitsOn[t]
    BY <1>2 DEF Park, InKernel, WaitsOn, TypeOK
  <2>2. \A t \in Task : WaitsOn[t] # NULL => state'[t] = state[t]
    BY <1>2 DEF Park, InKernel, WaitsOn, TypeOK
  <2> QED
    BY <1>2, <2>1, <2>2, Invisible DEF Park, InKernel
<1>3. ASSUME NEW t \in Task, Continue(t) \/ Fork(t)
      PROVE  UNCHANGED <<WaitsOn, Soft, Due>>
  <2>0. /\ depth = 0 /\ depth' = 0 /\ onq' = onq /\ pc' = pc /\ pc[t] = "run"
        /\ \A u \in Task : u # t => state'[u] = state[u]
    BY <1>3 DEF Continue, Fork, InKernel, TypeOK, WhereTasksAre
  <2>1. \A u \in Task : WaitsOn'[u] = WaitsOn[u]
    BY <2>0 DEF WaitsOn
  <2>2. \A u \in Task : WaitsOn[u] # NULL => state'[u] = state[u]
    BY <2>0 DEF WaitsOn
  <2> QED
    BY <2>0, <2>1, <2>2, Invisible
<1> QED
  BY <1>1, <1>2, <1>3

(***************************************************************************)
(* The linked lists implement the abstract wait sets.                      *)
(***************************************************************************)
THEOREM Refinement == Spec => ImplementsWaitSet
<1>1. Init => WS!WSInit
  <2> SUFFICES ASSUME Init PROVE WS!WSInit
    OBVIOUS
  <2>1. WaitsOn = [t \in Task |-> NULL]
    BY DEF Init, WaitsOn, Asleep
  <2>2. Soft = {} /\ Due = {}
    BY <2>1, NamesDistinct DEF Soft, Due
  <2> QED
    BY <2>1, <2>2 DEF WS!WSInit
<1>2. Inv /\ [Next]_vars => [WS!WSNext]_(WS!wsvars)
  <2> SUFFICES ASSUME Inv, [Next]_vars
               PROVE  WS!WSNext \/ UNCHANGED <<WaitsOn, Soft, Due>>
    BY DEF WS!wsvars
  <2>1. CASE WakeStep
    BY <2>1, WakeStepRefines
  <2>2. ASSUME NEW q \in Queue, InterruptWake(q) \/ TaskWake(q)
        PROVE  UNCHANGED <<WaitsOn, Soft, Due>>
    <3>1. \A t \in Task : WaitsOn'[t] = WaitsOn[t]
      BY <2>2 DEF InterruptWake, TaskWake, WaitsOn
    <3> QED
      BY <2>2, <3>1, CallIsInvisible DEF InterruptWake, TaskWake
  <2>3. CASE \/ \E q \in Queue, s \in Asleep : SleepLink(q, s)
             \/ SleepQueue \/ SleepState \/ SleepReturn \/ SleepUnlink
    BY <2>3, SleepRefines
  <2>4. CASE \/ \E I \in SUBSET Task : Schedule(I)
             \/ \E s \in {"interruptible", "stopped", "zombie"} : Park(s)
             \/ \E t \in Task : Continue(t) \/ Fork(t)
    BY <2>4, StateRefines
  <2>5. CASE UNCHANGED vars
    BY <2>5 DEF vars, WaitsOn, Soft, Due, Walks
  <2> QED
    BY <2>1, <2>2, <2>3, <2>4, <2>5 DEF Next
<1> QED
  BY <1>1, <1>2, WaitQueueInvariant, PTL DEF Spec, ImplementsWaitSet, WS!WSSpec

=============================================================================
