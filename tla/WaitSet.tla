------------------------------ MODULE WaitSet ------------------------------
(***************************************************************************)
(* What sleep_on, interruptible_sleep_on and wake_up promise their         *)
(* callers, without the intrusive lists that implement them (kernel/       *)
(* sched.c).  A task waits on one queue at a time.  A notification of a    *)
(* queue reaches every task that waits on it at that moment: from then on  *)
(* each of them is due and leaves the queue without anything else having   *)
(* to happen.  A task whose wait is interruptible may leave at any time.   *)
(***************************************************************************)
CONSTANTS Task,      \* the schedulable tasks
          Queue,     \* the wait queues (the words of type task_struct *)
          None       \* not a queue

VARIABLES waitsOn,   \* the queue a task waits on, or None
          soft,      \* the tasks whose wait is interruptible
          due        \* the waiting tasks a notification has reached

wsvars == <<waitsOn, soft, due>>

Waiters(q) == {t \in Task : waitsOn[t] = q}

WSInit ==
    /\ waitsOn = [t \in Task |-> None]
    /\ soft = {}
    /\ due = {}

(* A task starts to wait, interruptibly or not. *)
Wait(t, q, s) ==
    /\ waitsOn[t] = None
    /\ waitsOn' = [waitsOn EXCEPT ![t] = q]
    /\ soft' = IF s THEN soft \cup {t} ELSE soft
    /\ UNCHANGED due

(* A notification reaches everyone who waits on q. *)
Notify(q) ==
    /\ due' = due \cup Waiters(q)
    /\ UNCHANGED <<waitsOn, soft>>

(* The tasks of a set stop waiting. *)
Leave(T) ==
    /\ waitsOn' = [t \in Task |-> IF t \in T THEN None ELSE waitsOn[t]]
    /\ soft' = soft \ T
    /\ due' = due \ T

(* A task a notification has reached is made runnable. *)
Release(t) == t \in due /\ Leave({t})

(* Signals and timeouts end interruptible waits, several at once. *)
Interrupt(T) == T # {} /\ T \subseteq soft /\ Leave(T)

WSNext ==
    \/ \E t \in Task, q \in Queue, s \in BOOLEAN : Wait(t, q, s)
    \/ \E q \in Queue : Notify(q)
    \/ \E t \in Task : Release(t)
    \/ \E T \in SUBSET Task : Interrupt(T)

WSSpec == WSInit /\ [][WSNext]_wsvars

=============================================================================
