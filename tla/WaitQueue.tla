----------------------------- MODULE WaitQueue -----------------------------
(***************************************************************************)
(* sleep_on, interruptible_sleep_on and wake_up of kernel/sched.c on the   *)
(* single processor they were written for, statement by statement.         *)
(*                                                                         *)
(* A wait queue is one word (b_wait, i_wait, buffer_wait, ...) that points *)
(* to the task that slept on it last; the older sleepers follow through    *)
(* task_struct.next_wait.  Kernel code is never preempted by another task  *)
(* (do_timer returns before schedule() when it interrupted kernel mode),   *)
(* so what races with it are the interrupt handlers, and they call wake_up *)
(* too: wake_up may be entered again, on the same queue, between any two   *)
(* of its statements.  A call is a frame of a stack; only the top frame    *)
(* moves, and the current task moves when the stack is empty.              *)
(*                                                                         *)
(* Not part of it: select (fs/select.c) puts itself on the same words with *)
(* links of its own, and ll_rw_page waits on a word nobody else uses.      *)
(***************************************************************************)
EXTENDS Naturals

CONSTANTS Task,       \* the tasks other than task[0]
          Task0,      \* task[0]: the idle task, and the mark "taken off"
          NULL,
          Queue,      \* the wait queues
          IntrWake,   \* the queues that interrupt handlers wake
          Unmasked,   \* the queues slept on without cli()
          MaxNest     \* calls of wake_up that can be open at a time

ASSUME NamesDistinct ==
    /\ Task0 \notin Task
    /\ NULL \notin Task
    /\ NULL # Task0
    /\ NULL \notin Queue

\* Callers that sleep on a queue an interrupt handler wakes disable
\* interrupts from their test of the condition on (wait_on_buffer,
\* lock_buffer, make_request, sleep_if_empty, sleep_if_full).
ASSUME SleepDiscipline ==
    /\ IntrWake \subseteq Queue
    /\ Unmasked \subseteq Queue
    /\ IntrWake \cap Unmasked = {}

ASSUME NestAssumption == MaxNest \in Nat \ {0}

VARIABLES cur,        \* current
          state,      \* task_struct.state
          next_wait,  \* task_struct.next_wait
          head,       \* the word of each wait queue
          pc,         \* where a task stands in __sleep_on, "run" outside
          onq,        \* the argument p of the call a task is in
          how,        \* its argument state, until it is stored
          depth,      \* number of open calls of wake_up
          frame       \* the open calls, frame[1] the outermost

vars == <<cur, state, next_wait, head, pc, onq, how, depth, frame>>

Asleep == {"interruptible", "uninterruptible"}
States == Asleep \cup {"running", "stopped", "zombie"}
Frame == [q : Queue \cup {NULL}, at : {"load", "clear", "wake", "unlink"},
          ptr : Task \cup {Task0, NULL}]
NoFrame == [q |-> NULL, at |-> "load", ptr |-> NULL]

Init ==
    /\ cur \in Task
    /\ state = [t \in Task |-> "running"]
    /\ next_wait = [t \in Task |-> NULL]
    /\ head = [q \in Queue |-> NULL]
    /\ pc = [t \in Task |-> "run"]
    /\ onq = [t \in Task |-> NULL]
    /\ how = [t \in Task |-> "uninterruptible"]
    /\ depth = 0
    /\ frame = [i \in 1..MaxNest |-> NoFrame]

-----------------------------------------------------------------------------
(* wake_up *)

(* Entry of wake_up(q). *)
Call(q) ==
    /\ depth < MaxNest
    /\ depth' = depth + 1
    /\ frame' = [frame EXCEPT ![depth + 1] =
                    [q |-> q, at |-> "load", ptr |-> NULL]]

Return ==
    /\ depth' = depth - 1
    /\ frame' = [frame EXCEPT ![depth] = NoFrame]

Top == frame[depth]

(* The top call goes on at a, with wakeup_ptr = t. *)
CallAt(a, t) == frame' = [frame EXCEPT ![depth] = [q |-> Top.q, at |-> a, ptr |-> t]]

(* if (p && *p) wakeup_ptr = *p; *)
WakeLoad ==
    /\ depth > 0 /\ Top.at = "load"
    /\ IF head[Top.q] = NULL
         THEN Return
         ELSE CallAt("clear", head[Top.q]) /\ UNCHANGED depth
    /\ UNCHANGED <<cur, state, next_wait, head, pc, onq, how>>

(* *p = NULL; *)
WakeClear ==
    /\ depth > 0 /\ Top.at = "clear"
    /\ head' = [head EXCEPT ![Top.q] = NULL]
    /\ CallAt("wake", Top.ptr)
    /\ UNCHANGED <<cur, state, next_wait, pc, onq, how, depth>>

(* The loop test, then wakeup_ptr->state = TASK_RUNNING unless the task is *)
(* stopped or a zombie, which wake_up only reports.                        *)
WakeState ==
    /\ depth > 0 /\ Top.at = "wake"
    /\ IF Top.ptr \in {NULL, Task0}
         THEN Return /\ UNCHANGED state
         ELSE /\ state' = IF state[Top.ptr] \in {"stopped", "zombie"}
                            THEN state
                            ELSE [state EXCEPT ![Top.ptr] = "running"]
              /\ CallAt("unlink", Top.ptr)
              /\ UNCHANGED depth
    /\ UNCHANGED <<cur, next_wait, head, pc, onq, how>>

\* Mutant: the mark is stored before the link is read.
WakeUnlinkSwapped ==
    /\ depth > 0 /\ Top.at = "unlink"
    /\ next_wait' = [next_wait EXCEPT ![Top.ptr] = Task0]
    /\ CallAt("wake", Task0)
    /\ UNCHANGED <<cur, state, head, pc, onq, how, depth>>

(* tmp = next_wait; next_wait = task[0]; wakeup_ptr = tmp; *)
WakeUnlink ==
    /\ depth > 0 /\ Top.at = "unlink"
    /\ next_wait' = [next_wait EXCEPT ![Top.ptr] = Task0]
    /\ CallAt("wake", next_wait[Top.ptr])
    /\ UNCHANGED <<cur, state, head, pc, onq, how, depth>>

WakeStep == WakeLoad \/ WakeClear \/ WakeState \/ WakeUnlink

(* Interrupts are off from the caller's cli() to the sti() of __sleep_on. *)
InterruptsOff ==
    /\ cur \in Task
    /\ pc[cur] \in {"linked", "queued"}
    /\ onq[cur] \notin Unmasked

(* An interrupt handler calls wake_up (end_request, unlock_buffer,         *)
(* copy_to_cooked, the transmitters).                                      *)
InterruptWake(q) ==
    /\ ~InterruptsOff
    /\ Call(q)
    /\ UNCHANGED <<cur, state, next_wait, head, pc, onq, how>>

-----------------------------------------------------------------------------
(* The current task *)

(* The current task executes code outside __sleep_on. *)
InKernel == depth = 0 /\ cur \in Task /\ pc[cur] = "run" /\ state[cur] = "running"

TaskWake(q) ==
    /\ InKernel
    /\ Call(q)
    /\ UNCHANGED <<cur, state, next_wait, head, pc, onq, how>>

(* __sleep_on(q, s): current->next_wait = *p; (task[0]->next_wait, which   *)
(* is cleared next, is never read.)                                        *)
SleepLink(q, s) ==
    /\ InKernel
    /\ next_wait' = [next_wait EXCEPT ![cur] = head[q]]
    /\ pc' = [pc EXCEPT ![cur] = "linked"]
    /\ onq' = [onq EXCEPT ![cur] = q]
    /\ how' = [how EXCEPT ![cur] = s]
    /\ UNCHANGED <<cur, state, head, depth, frame>>

(* *p = current; *)
SleepQueue ==
    /\ depth = 0 /\ cur \in Task /\ pc[cur] = "linked"
    /\ head' = [head EXCEPT ![onq[cur]] = cur]
    /\ pc' = [pc EXCEPT ![cur] = "queued"]
    /\ UNCHANGED <<cur, state, next_wait, onq, how, depth, frame>>

(* current->state = state; sti(); *)
SleepState ==
    /\ depth = 0 /\ cur \in Task /\ pc[cur] = "queued"
    /\ state' = [state EXCEPT ![cur] = how[cur]]
    /\ pc' = [pc EXCEPT ![cur] = "asleep"]
    /\ how' = [how EXCEPT ![cur] = "uninterruptible"]
    /\ UNCHANGED <<cur, next_wait, head, onq, depth, frame>>

\* Mutant: the interrupted sleeper does not wake the queue it is still on.
SleepReturnNoRewake ==
    /\ depth = 0 /\ cur \in Task /\ pc[cur] = "waiting"
    /\ next_wait' = [next_wait EXCEPT ![cur] = NULL]
    /\ pc' = [pc EXCEPT ![cur] = "run"]
    /\ onq' = [onq EXCEPT ![cur] = NULL]
    /\ UNCHANGED <<cur, state, head, how, depth, frame>>

(* Back from schedule(): if (current->next_wait != task[0]) wake_up(p); *)
SleepReturn ==
    /\ depth = 0 /\ cur \in Task /\ pc[cur] = "waiting"
    /\ IF next_wait[cur] = Task0
         THEN /\ next_wait' = [next_wait EXCEPT ![cur] = NULL]
              /\ pc' = [pc EXCEPT ![cur] = "run"]
              /\ onq' = [onq EXCEPT ![cur] = NULL]
              /\ UNCHANGED <<depth, frame>>
         ELSE /\ pc' = [pc EXCEPT ![cur] = "rewake"]
              /\ Call(onq[cur])
              /\ UNCHANGED <<next_wait, onq>>
    /\ UNCHANGED <<cur, state, head, how>>

(* That wake_up has returned: current->next_wait = NULL; *)
SleepUnlink ==
    /\ depth = 0 /\ cur \in Task /\ pc[cur] = "rewake"
    /\ next_wait' = [next_wait EXCEPT ![cur] = NULL]
    /\ pc' = [pc EXCEPT ![cur] = "run"]
    /\ onq' = [onq EXCEPT ![cur] = NULL]
    /\ UNCHANGED <<cur, state, head, how, depth, frame>>

-----------------------------------------------------------------------------
(* schedule() and what else changes a task's state *)

\* Mutant: the state test accepts uninterruptible sleepers.
ScheduleAnyState(I) ==
    /\ depth = 0
    /\ cur \in Task => pc[cur] \in {"run", "asleep"}
    /\ \A t \in I : state[t] \in Asleep
    /\ state' = [t \in Task |-> IF t \in I THEN "running" ELSE state[t]]
    /\ \/ cur' \in {t \in Task : state'[t] = "running"}
       \/ cur' = Task0 /\ \A t \in Task : state'[t] # "running"
    /\ pc' = [t \in Task |-> IF t = cur /\ pc[t] = "asleep" THEN "waiting" ELSE pc[t]]
    /\ UNCHANGED <<next_wait, head, onq, how, depth, frame>>

(* schedule(): signals, alarms and timeouts make the tasks of a set I of   *)
(* interruptible sleepers runnable, then some runnable task is switched    *)
(* to, task[0] if there is none.  The current task calls it in __sleep_on, *)
(* after it stopped, paused or exited, or at a clock tick in user mode.    *)
Schedule(I) ==
    /\ depth = 0
    /\ cur \in Task => pc[cur] \in {"run", "asleep"}
    /\ \A t \in I : state[t] = "interruptible"
    /\ state' = [t \in Task |-> IF t \in I THEN "running" ELSE state[t]]
    /\ \/ cur' \in {t \in Task : state'[t] = "running"}
       \/ cur' = Task0 /\ \A t \in Task : state'[t] # "running"
    /\ pc' = [t \in Task |-> IF t = cur /\ pc[t] = "asleep" THEN "waiting" ELSE pc[t]]
    /\ UNCHANGED <<next_wait, head, onq, how, depth, frame>>

(* The current task leaves the running state outside any queue: sys_pause, *)
(* sys_waitpid ("interruptible"), do_signal ("stopped"), do_exit           *)
(* ("zombie").                                                             *)
Park(s) ==
    /\ InKernel
    /\ state' = [state EXCEPT ![cur] = s]
    /\ UNCHANGED <<cur, next_wait, head, pc, onq, how, depth, frame>>

(* send_sig: SIGCONT and SIGKILL make a stopped task run. *)
Continue(t) ==
    /\ InKernel
    /\ state[t] = "stopped"
    /\ state' = [state EXCEPT ![t] = "running"]
    /\ UNCHANGED <<cur, next_wait, head, pc, onq, how, depth, frame>>

(* sys_fork reuses the slot of a dead task: the child is a copy of its     *)
(* parent's task_struct, next_wait included.                               *)
Fork(t) ==
    /\ InKernel
    /\ state[t] = "zombie" /\ t # cur
    /\ state' = [state EXCEPT ![t] = "running"]
    /\ next_wait' = [next_wait EXCEPT ![t] = next_wait[cur]]
    /\ UNCHANGED <<cur, head, pc, onq, how, depth, frame>>

Next ==
    \/ WakeStep
    \/ \E q \in IntrWake : InterruptWake(q)
    \/ \E q \in Queue : TaskWake(q)
    \/ \E q \in Queue, s \in Asleep : SleepLink(q, s)
    \/ SleepQueue \/ SleepState \/ SleepReturn \/ SleepUnlink
    \/ \E I \in SUBSET Task : Schedule(I)
    \/ \E s \in {"interruptible", "stopped", "zombie"} : Park(s)
    \/ \E t \in Task : Continue(t) \/ Fork(t)

Spec == Init /\ [][Next]_vars

\* Interrupt handlers end and do not keep the processor from the code they
\* interrupt: the open call makes progress at every depth.
FairSpec == Spec /\ \A d \in 1..MaxNest : SF_vars(depth = d /\ WakeStep)

-----------------------------------------------------------------------------
(* Properties *)

TypeOK ==
    /\ cur \in Task \cup {Task0}
    /\ state \in [Task -> States]
    /\ next_wait \in [Task -> Task \cup {Task0, NULL}]
    /\ head \in [Queue -> Task \cup {NULL}]
    /\ pc \in [Task -> {"run", "linked", "queued", "asleep", "waiting", "rewake"}]
    /\ onq \in [Task -> Queue \cup {NULL}]
    /\ how \in [Task -> Asleep]
    /\ depth \in 0..MaxNest
    /\ frame \in [1..MaxNest -> Frame]

\* A task is on queue q from the moment *p points to it until a wake_up
\* marks it with task[0], or it has left __sleep_on.
Inside == {"queued", "asleep", "waiting", "rewake"}
Linked(q) == {t \in Task : onq[t] = q /\ pc[t] \in Inside /\ next_wait[t] # Task0}

\* t sleeps in __sleep_on on queue q.
SleepsOn(t, q) == onq[t] = q /\ pc[t] \in {"asleep", "waiting"} /\ state[t] \in Asleep

\* An open wake_up that has emptied the queue and is walking the old chain.
Walks(i, q) == frame[i].q = q /\ frame[i].at \in {"wake", "unlink"}

\* Some pointer outside S leads into S: the queue word, the cursor of an open
\* wake_up, or the next_wait of a linked task that is not in S.
Entered(S, q) ==
    \E t \in S : \/ head[q] = t
                 \/ \E i \in 1..depth : Walks(i, q) /\ frame[i].ptr = t
                 \/ \E u \in Linked(q) \ S : next_wait[u] = t

(***************************************************************************)
(* No sleeper is lost (wake_up, __sleep_on): whatever wake_ups, signals    *)
(* and interrupts come in between, every task that sleeps on q is still    *)
(* on q's list, and q's list has no part that cannot be reached from the   *)
(* word *p or from a wake_up in progress.                                  *)
(***************************************************************************)
NoLostSleeper ==
    \A q \in Queue :
        /\ \A t \in Task : SleepsOn(t, q) => t \in Linked(q)
        /\ \A S \in SUBSET Linked(q) : S # {} => Entered(S, q)

(***************************************************************************)
(* The lists of different queues share no task: what is reached from a     *)
(* queue's word, or from a linked task, is linked on the same queue.       *)
(* A wake_up therefore never wakes tasks of another queue.                 *)
(***************************************************************************)
ListsApart ==
    \A q \in Queue :
        /\ head[q] \in Linked(q) \cup {NULL}
        /\ \A t \in Linked(q) : next_wait[t] \in Linked(q) \cup {NULL}

(***************************************************************************)
(* The branches of wake_up that report a stopped or a dead task            *)
(* ("wake_up: TASK_STOPPED", "wake_up: TASK_ZOMBIE") are never taken:      *)
(* nobody stops, dies or is reborn by fork while on a queue.               *)
(***************************************************************************)
NeverStoppedOnQueue ==
    depth > 0 /\ Top.at = "wake" /\ Top.ptr \in Task
        => state[Top.ptr] \notin {"stopped", "zombie"}

(***************************************************************************)
(* When a wake_up returns, nobody sleeps on its queue any more, unless it  *)
(* interrupted another wake_up of that queue, which is still at work.      *)
(***************************************************************************)
WakeWakesAll ==
    [][ \A q \in Queue :
          depth' < depth /\ Top.q = q =>
            \/ \E i \in 1..(depth - 1) : frame[i].q = q
            \/ \A t \in Task : ~SleepsOn(t, q)' ]_vars

(***************************************************************************)
(* Whoever sleeps on a queue when a wake_up of it is open becomes          *)
(* runnable, however many interrupts come in between.                      *)
(***************************************************************************)
WokenEventually ==
    \A t \in Task, q \in Queue :
        (SleepsOn(t, q) /\ \E i \in 1..depth : frame[i].q = q)
            ~> (state[t] = "running")

-----------------------------------------------------------------------------
(* The inductive invariant behind these properties *)

\* Only the current task is between the statements of __sleep_on; a stopped
\* or dead task is outside of it.
WhereTasksAre ==
    \A t \in Task :
        /\ pc[t] \in {"linked", "queued", "asleep", "rewake"} => t = cur
        /\ pc[t] # "run" => onq[t] \in Queue
        /\ pc[t] = "waiting" /\ t = cur => state[t] = "running"
        /\ state[t] \in {"stopped", "zombie"} => pc[t] = "run"

\* Until the task that goes to sleep has stored its state, no wake_up of its
\* queue is open and what it has read from the queue's word is still true.
GoingToSleep ==
    \A t \in Task :
        /\ pc[t] \in {"linked", "queued"} =>
              \A i \in 1..depth : frame[i].q # onq[t]
        /\ pc[t] = "linked" => next_wait[t] = head[onq[t]]
        /\ pc[t] = "queued" => next_wait[t] # Task0

\* No task of a list has two predecessors.
OnePredecessor ==
    \A q \in Queue : \A u \in Linked(q) :
        next_wait[u] # NULL =>
            /\ next_wait[u] # head[q]
            /\ \A v \in Linked(q) : next_wait[v] = next_wait[u] => v = u

\* What the open calls of wake_up know: the cursor is a task that went to
\* sleep on the call's queue; once *p is NULL it stays NULL, and the cursor
\* is the first task that is left of the chain.
OpenCalls ==
    \A i \in 1..depth :
        LET f == frame[i] IN
        /\ f.q \in Queue
        /\ f.at # "load" /\ f.ptr \in Task => onq[f.ptr] = f.q /\ pc[f.ptr] \in Inside
        /\ f.at = "clear" => f.ptr \in Task /\ head[f.q] \in {f.ptr, NULL}
        /\ f.at \in {"wake", "unlink"} =>
              /\ head[f.q] = NULL
              /\ \A u \in Linked(f.q) : next_wait[u] = f.ptr => f.ptr = NULL
        /\ f.at = "unlink" => f.ptr \in Task /\ state[f.ptr] \notin Asleep

\* A wake_up that interrupts another one walking the same queue finds it empty.
Nesting ==
    \A i \in 1..depth : \A k \in 1..(i - 1) :
        frame[k].q = frame[i].q => frame[k].at \in {"load", "clear"} \/ frame[i].at = "load"

\* The wake_up of an interrupted sleeper is open, or it has emptied the queue.
Rewaking ==
    \A t \in Task : pc[t] = "rewake" =>
        head[onq[t]] = NULL \/ (depth > 0 /\ frame[1].q = onq[t])

(***************************************************************************)
(* The inductive invariant from which the safety properties of wake_up and *)
(* __sleep_on follow.                                                      *)
(***************************************************************************)
Inv == /\ TypeOK
       /\ WhereTasksAre
       /\ GoingToSleep
       /\ NoLostSleeper
       /\ ListsApart
       /\ OnePredecessor
       /\ OpenCalls
       /\ Nesting
       /\ Rewaking

-----------------------------------------------------------------------------
(* Refinement *)

\* The lists implement the abstract wait sets.
WaitsOn == [t \in Task |-> IF pc[t] \in {"asleep", "waiting"} /\ state[t] \in Asleep
                             THEN onq[t] ELSE NULL]
Soft == {t \in Task : WaitsOn[t] # NULL /\ state[t] = "interruptible"}
Due == {t \in Task : \E q \in Queue : /\ WaitsOn[t] = q
                                      /\ \E i \in 1..depth : Walks(i, q)}

WS == INSTANCE WaitSet WITH None <- NULL, waitsOn <- WaitsOn, soft <- Soft, due <- Due

(***************************************************************************)
(* The next_wait lists with their task[0] marks implement wait sets: the   *)
(* store that empties *p is the notification of everyone on the queue, no  *)
(* other step adds or drops a waiter, and an uninterruptible sleeper       *)
(* leaves only when a notification has reached it.                         *)
(***************************************************************************)
ImplementsWaitSet == WS!WSSpec

=============================================================================
