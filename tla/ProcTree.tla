------------------------------ MODULE ProcTree ------------------------------
(***************************************************************************)
(* The family of tasks: fork (kernel/fork.c), exit, waitpid and kill       *)
(* (kernel/exit.c), setpgid and setsid (kernel/sys.c), and what a signal   *)
(* does by default (do_signal of kernel/signal.c).                         *)
(*                                                                         *)
(* task[t] is a task structure, NULL when the slot is free; a pointer to a *)
(* structure is its slot.  task[0] is left out: it is the parent of init   *)
(* (NULL stands for it in p_pptr) and takes part in nothing else.  A task  *)
(* keeps the processor (cpu) from one sleep to the next.  Not modelled     *)
(* here: blocked signals, ptrace, the terminal of a session, times.        *)
(***************************************************************************)
EXTENDS Integers, FiniteSets, FiniteSetsExt

CONSTANTS Task,        \* the slots of task[] from 1 on
          InitTask,    \* task[1]; it never exits (init/main.c)
          NULL,
          MaxPid,      \* the largest pid before last_pid wraps
          Scenes       \* what the tasks do; a behaviour has one of them

SIGHUP == 1
SIGKILL == 9
SIGCHLD == 17
SIGCONT == 18
SIGSTOP == 19

AllOps == {"fork", "exit", "waitpid", "kill", "setpgid", "setsid"}

ASSUME TaskNames == InitTask \in Task /\ NULL \notin Task /\ IsFiniteSet(Task)

(* struct task_struct, as far as it matters here.  The state is R (running), *)
(* I (interruptible), U (uninterruptible), T (stopped) or Z (zombie).      *)
TaskStruct ==
    [state : {"R", "I", "U", "T", "Z"}, exit_code : Nat,
     signal : SUBSET {SIGHUP, SIGKILL, SIGCHLD, SIGCONT, SIGSTOP},
     pid : 1..MaxPid, pgrp : 0..MaxPid, session : 0..MaxPid, leader : BOOLEAN,
     p_pptr : Task \cup {NULL}, p_cptr : Task \cup {NULL},
     p_ysptr : Task \cup {NULL}, p_osptr : Task \cup {NULL}]
ASSUME NullTask == NULL \notin TaskStruct

(* A scene: the system calls that are made, the options of waitpid and the *)
(* signals that are sent, whether copy_mem may sleep, the slots of task[]  *)
(* that exist, last_pid at the start (init has forked before), and the     *)
(* bound on the forks: none once last_pid is this number.                  *)
ASSUME SceneParams ==
    \A s \in Scenes :
        /\ s.ops \subseteq AllOps
        /\ s.options \subseteq SUBSET {"WNOHANG", "WUNTRACED"}
        /\ s.sigs \subseteq {SIGHUP, SIGKILL, SIGCONT, SIGSTOP}
        /\ s.copySleeps \in BOOLEAN
        /\ InitTask \in s.slots /\ s.slots \subseteq Task
        /\ s.firstPid \in 1..MaxPid /\ s.lastPid \in 1..MaxPid
(* find_empty_process ends: there are more numbers than pids and groups.   *)
ASSUME PidRoom ==
    /\ MaxPid \in Nat
    /\ \A s \in Scenes :
         MaxPid > (IF s.ops \cap {"setpgid", "setsid"} = {} THEN 1 ELSE 2) * Cardinality(s.slots)

VARIABLES scene,     \* the scene of this behaviour
          task,      \* the task structures
          last_pid,
          cpu,       \* the task that runs in the kernel, NULL when none does
          pc,        \* where each task stands
          loc,       \* its local variables
          guarded    \* the groups that were not orphaned when the exit began

vars == <<scene, task, last_pid, cpu, pc, loc, guarded>>

(* The locals of a call: p of sys_fork; pid, options and the loop of       *)
(* sys_waitpid.                                                            *)
NoLoc == [kid |-> NULL, pid |-> -1, options |-> {}, p |-> NULL, flag |-> FALSE]

(* The structure of init *)
TaskInit ==
    [state |-> "R", signal |-> {}, exit_code |-> 0,
     pid |-> 1, pgrp |-> 0, session |-> 0, leader |-> FALSE,
     p_pptr |-> NULL, p_cptr |-> NULL, p_ysptr |-> NULL, p_osptr |-> NULL]

(* Task 0 has forked init, whose other descendants are gone.               *)
Init ==
    /\ task = [t \in Task |-> IF t = InitTask THEN TaskInit ELSE NULL]
    /\ scene \in Scenes
    /\ last_pid = scene.firstPid
    /\ cpu = NULL
    /\ pc = [t \in Task |-> "user"]
    /\ loc = [t \in Task |-> NoLoc]
    /\ guarded = {}

Used == {t \in Task : task[t] # NULL}

(* Task p is in user mode and may enter the kernel. *)
User(p) == p \in Used /\ task[p].state = "R" /\ pc[p] = "user" /\ cpu = NULL

(* Task p returns to user mode. *)
Return(p) ==
    /\ pc' = [pc EXCEPT ![p] = "user"]
    /\ loc' = [loc EXCEPT ![p] = NoLoc]
    /\ cpu' = NULL

-----------------------------------------------------------------------------
(* sys_fork *)

PidsTaken == {task[t].pid : t \in Used} \cup {task[t].pgrp : t \in Used}

(* find_empty_process: the next number that is no pid and no group *)
NextPid ==
    LET Turns(n) == (n - last_pid - 1) % MaxPid
        Free == (1..MaxPid) \ PidsTaken
    IN  CHOOSE n \in Free : \A m \in Free : Turns(n) <= Turns(m)

(* The first free slot, in some order of the tasks *)
FreeSlot == CHOOSE t \in scene.slots : task[t] = NULL

(* The new structure is a copy of its parent's, the links included. *)
ForkCopy(p) ==
    LET c == FreeSlot IN
    /\ "fork" \in scene.ops /\ User(p) /\ last_pid # scene.lastPid
    /\ Used # scene.slots
    /\ last_pid' = NextPid
    /\ task' = [task EXCEPT ![c] = [task[p] EXCEPT !.state = "U", !.pid = NextPid,
                                                   !.signal = {}, !.leader = FALSE]]
    /\ pc' = [pc EXCEPT ![p] = "copy"]
    /\ loc' = [loc EXCEPT ![p].kid = c]
    /\ cpu' = IF scene.copySleeps THEN NULL ELSE p
    /\ UNCHANGED <<guarded, scene>>

(* No slot is free: only last_pid has moved. *)
ForkNoSlot(p) ==
    /\ "fork" \in scene.ops /\ User(p) /\ last_pid # scene.lastPid
    /\ Used = scene.slots
    /\ last_pid' = NextPid
    /\ UNCHANGED <<task, cpu, pc, loc, guarded, scene>>

(* Assignments through a pointer that may be NULL, in a value T of task *)
SetYs(T, q, v) == IF q = NULL THEN T ELSE [T EXCEPT ![q].p_ysptr = v]

(* The links of the new task *)
Born(p, c) ==
    LET elder == task[p].p_cptr IN
    [SetYs(task, elder, c) EXCEPT
        ![c].p_pptr = p, ![c].p_cptr = NULL, ![c].p_ysptr = NULL, ![c].p_osptr = elder,
        ![p].p_cptr = c, ![c].state = "R"]

ForkDone(p) ==
    /\ pc[p] = "copy" /\ cpu \in {NULL, p}
    /\ task' = Born(p, loc[p].kid)
    /\ Return(p)
    /\ UNCHANGED <<last_pid, guarded, scene>>

(* copy_mem fails. *)
ForkFail(p) ==
    /\ pc[p] = "copy" /\ cpu \in {NULL, p}
    /\ task' = [task EXCEPT ![loc[p].kid] = NULL]
    /\ Return(p)
    /\ UNCHANGED <<last_pid, guarded, scene>>

-----------------------------------------------------------------------------
(* Signals and process groups.  T is a value of task. *)

(* send_sig to the tasks of a set *)
SendSig(T, S, sig) ==
    [t \in Task |->
        IF t \notin S THEN T[t]
        ELSE IF sig \in {SIGKILL, SIGCONT}
          THEN [T[t] EXCEPT !.state = IF @ = "T" THEN "R" ELSE @, !.exit_code = 0,
                            !.signal = (@ \ {SIGSTOP}) \cup {sig}]
        ELSE [T[t] EXCEPT !.signal = (IF sig = SIGSTOP THEN @ \ {SIGCONT} ELSE @) \cup {sig}]]

(* kill_pg sends to the members of a group; group 0 is refused. *)
Members(T, g) == {t \in Task : g > 0 /\ T[t] # NULL /\ T[t].pgrp = g}

(* is_orphaned_pgrp: no member has a parent in another group of its session *)
IsOrphanedPgrp(T, g) ==
    \A t \in Members(T, g) :
        \/ T[t].state = "Z"
        \/ T[t].p_pptr = InitTask
        \/ T[T[t].p_pptr].pgrp = g
        \/ T[T[t].p_pptr].session # T[t].session

(* has_stopped_jobs *)
HasStoppedJobs(T, g) == \E t \in Members(T, g) : T[t].state = "T"

\* Mutant: only SIGHUP is sent.
HangUpOnly(T, g) == SendSig(T, Members(T, g), SIGHUP)

(* Hang up a group and continue it. *)
HangUp(T, g) == SendSig(SendSig(T, Members(T, g), SIGHUP), Members(T, g), SIGCONT)

-----------------------------------------------------------------------------
(* do_exit *)

(* The task becomes a zombie; its group may lose its last guardian. *)
Die(T, p, code) ==
    LET Z == [T EXCEPT ![p].state = "Z", ![p].exit_code = code]
        up == T[p].p_pptr
        g == T[p].pgrp
        H == IF /\ T[up].pgrp # g
                /\ T[up].session = T[p].session
                /\ IsOrphanedPgrp(Z, g)
                /\ HasStoppedJobs(Z, g)
               THEN HangUp(Z, g) ELSE Z
    IN  SendSig(H, {up}, SIGCHLD)

DoExit(p, T, code) ==
    /\ task' = Die(T, p, code)
    /\ pc' = [pc EXCEPT ![p] = "adopt"]
    /\ cpu' = p
    /\ guarded' = {g \in {T[t].pgrp : t \in Used} : ~IsOrphanedPgrp(T, g)}
    /\ UNCHANGED <<last_pid, loc, scene>>

Exit(p) == "exit" \in scene.ops /\ p # InitTask /\ User(p) /\ DoExit(p, task, 256)

\* Mutant: init is not told of a zombie it adopts.
AdoptedQuietly(p, c) ==
    LET first == task[InitTask].p_cptr IN
    [SetYs(task, first, c) EXCEPT
        ![p].p_cptr = task[c].p_osptr, ![c].p_ysptr = NULL, ![c].p_pptr = InitTask,
        ![c].p_osptr = first, ![InitTask].p_cptr = c]

(* The child c of p becomes the youngest child of init. *)
Adopted(p, c) ==
    LET first == task[InitTask].p_cptr IN
    [SetYs(task, first, c) EXCEPT
        ![p].p_cptr = task[c].p_osptr, ![c].p_ysptr = NULL, ![c].p_pptr = InitTask,
        ![c].p_osptr = first, ![InitTask].p_cptr = c,
        ![InitTask].signal = IF task[c].state = "Z" THEN @ \cup {SIGCHLD} ELSE @]

(* One turn of the loop over the children *)
Adopt(p) ==
    /\ pc[p] = "adopt" /\ task[p].p_cptr # NULL
    /\ LET c == task[p].p_cptr
           T == Adopted(p, c)
           g == task[c].pgrp
       IN  task' = IF /\ g # task[p].pgrp
                      /\ task[c].session = task[p].session
                      /\ IsOrphanedPgrp(T, g)
                      /\ HasStoppedJobs(T, g)
                     THEN HangUp(T, g) ELSE T
    /\ UNCHANGED <<last_pid, cpu, pc, loc, guarded, scene>>

(* The call of schedule() that does not return *)
ExitDone(p) ==
    /\ pc[p] = "adopt" /\ task[p].p_cptr = NULL
    /\ pc' = [pc EXCEPT ![p] = "dead"]
    /\ cpu' = NULL
    /\ guarded' = {}
    /\ UNCHANGED <<task, last_pid, loc, scene>>

-----------------------------------------------------------------------------
(* sys_waitpid *)

Children(p) == {t \in Used : task[t].p_pptr = p}

(* Any child, one child, or one group where there are groups; init waits   *)
(* for any child (init/main.c).                                            *)
WaitArg(p, w) ==
    \/ w = -1
    \/ /\ p # InitTask
       /\ \/ w \in {task[c].pid : c \in Children(p)}
          \/ /\ \E t \in Used : task[t].pgrp # 0
             /\ w \in {0} \cup {-task[c].pgrp : c \in Children(p)}

Waitpid(p, want, options) ==
    /\ "waitpid" \in scene.ops /\ User(p) /\ WaitArg(p, want)
    /\ pc' = [pc EXCEPT ![p] = "scan"]
    /\ cpu' = p
    /\ loc' = [loc EXCEPT ![p] = [NoLoc EXCEPT !.pid = want, !.options = options,
                                               !.p = task[p].p_cptr]]
    /\ UNCHANGED <<task, last_pid, guarded, scene>>

Wanted(p, c) ==
    LET w == loc[p].pid IN
    \/ w > 0 /\ task[c].pid = w
    \/ w = 0 /\ task[c].pgrp = task[p].pgrp
    \/ w = -1
    \/ w < -1 /\ task[c].pgrp = -w

(* The loop comes to child c. *)
At(p, c) == pc[p] = "scan" /\ c = loc[p].p /\ c # NULL

(* A child that was stopped is reported once. *)
WaitStopped(p, c) ==
    /\ At(p, c) /\ Wanted(p, c)
    /\ task[c].state = "T" /\ "WUNTRACED" \in loc[p].options /\ task[c].exit_code # 0
    /\ task' = [task EXCEPT ![c].exit_code = 0]
    /\ Return(p)
    /\ UNCHANGED <<last_pid, guarded, scene>>

\* Mutant: the parent forgets the elder children.
ReleasedAll(c) ==
    LET old == task[c].p_osptr
        young == task[c].p_ysptr
        T == SetYs(task, old, young)
    IN  IF young # NULL THEN [T EXCEPT ![young].p_osptr = old, ![c] = NULL]
                        ELSE [T EXCEPT ![task[c].p_pptr].p_cptr = NULL, ![c] = NULL]

\* Mutant: the next elder sibling keeps its link to the task that goes.
ReleasedElderUntold(c) ==
    LET old == task[c].p_osptr
        young == task[c].p_ysptr
    IN  IF young # NULL THEN [task EXCEPT ![young].p_osptr = old, ![c] = NULL]
                        ELSE [task EXCEPT ![task[c].p_pptr].p_cptr = old, ![c] = NULL]

(* release *)
Released(c) ==
    LET old == task[c].p_osptr
        young == task[c].p_ysptr
        T == SetYs(task, old, young)
    IN  IF young # NULL THEN [T EXCEPT ![young].p_osptr = old, ![c] = NULL]
                        ELSE [T EXCEPT ![task[c].p_pptr].p_cptr = old, ![c] = NULL]

(* A zombie is reported and released. *)
Reap(p, c) ==
    /\ At(p, c) /\ Wanted(p, c)
    /\ task[c].state = "Z"
    /\ task' = Released(c)
    /\ pc' = [pc EXCEPT ![p] = "user", ![c] = "user"]
    /\ loc' = [loc EXCEPT ![p] = NoLoc]
    /\ cpu' = NULL
    /\ UNCHANGED <<last_pid, guarded, scene>>

(* The loop goes on with the next elder child. *)
WaitNext(p, c) ==
    /\ At(p, c)
    /\ \/ ~Wanted(p, c)
       \/ task[c].state = "T" /\ ~("WUNTRACED" \in loc[p].options /\ task[c].exit_code # 0)
       \/ task[c].state \notin {"T", "Z"}
    /\ loc' = [loc EXCEPT ![p].p = task[c].p_osptr,
                          ![p].flag = @ \/ (Wanted(p, c) /\ task[c].state # "T")]
    /\ UNCHANGED <<task, last_pid, cpu, pc, guarded, scene>>

(* No child to report: return, or sleep for a signal. *)
WaitEnd(p) ==
    /\ pc[p] = "scan" /\ loc[p].p = NULL
    /\ \/ /\ ~loc[p].flag \/ "WNOHANG" \in loc[p].options
          /\ Return(p) /\ UNCHANGED task
       \/ /\ loc[p].flag /\ "WNOHANG" \notin loc[p].options
          /\ task' = [task EXCEPT ![p].state = "I"]
          /\ pc' = [pc EXCEPT ![p] = "wait"]
          /\ cpu' = NULL
          /\ UNCHANGED loc
    /\ UNCHANGED <<last_pid, guarded, scene>>

(* A signal ends the sleep; only SIGCHLD makes the loop start again. *)
WaitWake(p) ==
    /\ pc[p] = "wait" /\ cpu = NULL /\ task[p].signal # {}
    /\ task' = [task EXCEPT ![p].state = "R"]
    /\ \/ task[p].signal # {SIGCHLD} /\ Return(p)
       \/ /\ task[p].signal = {SIGCHLD}
          /\ pc' = [pc EXCEPT ![p] = "scan"]
          /\ cpu' = p
          /\ loc' = [loc EXCEPT ![p].p = task[p].p_cptr, ![p].flag = FALSE]
    /\ UNCHANGED <<last_pid, guarded, scene>>

-----------------------------------------------------------------------------
(* kill, the default actions of signals, groups and sessions *)

(* kill_proc, kill_pg or all but init and the caller *)
Kill(p, S, sig) ==
    /\ "kill" \in scene.ops /\ User(p) /\ S # {}
    /\ S = Used \ {InitTask, p} \/ S \in {Members(task, task[t].pgrp) : t \in Used}
                                \/ \E t \in Used \ {InitTask} : S = {t}
    /\ task' = SendSig(task, S, sig)
    /\ UNCHANGED <<last_pid, cpu, pc, loc, guarded, scene>>

(* do_signal with the first pending signal: by default, or caught *)
Deliver(p, caught) ==
    /\ User(p) /\ task[p].signal # {}
    /\ LET s == Min(task[p].signal)
           T == [task EXCEPT ![p].signal = @ \ {s}]
       IN  \/ /\ s \in {SIGCHLD, SIGCONT} \/ (s = SIGHUP /\ caught)
              /\ task' = T
              /\ UNCHANGED <<last_pid, cpu, pc, loc, guarded, scene>>
           \/ /\ s = SIGSTOP
              /\ task' = SendSig([T EXCEPT ![p].state = "T", ![p].exit_code = s],
                                 {T[p].p_pptr}, SIGCHLD)
              /\ UNCHANGED <<last_pid, cpu, pc, loc, guarded, scene>>
           \/ /\ s = SIGKILL \/ (s = SIGHUP /\ ~caught)
              /\ DoExit(p, T, s)

(* sys_setpgid for the caller or a child *)
Setpgid(p, t, g) ==
    /\ "setpgid" \in scene.ops /\ User(p) /\ p # InitTask
    /\ t \in Used /\ (t = p \/ task[t].p_pptr = p)
    /\ ~task[t].leader /\ task[t].session = task[p].session
    /\ g = task[t].pid \/ \E m \in Members(task, g) : task[m].session = task[p].session
    /\ task' = [task EXCEPT ![t].pgrp = g]
    /\ UNCHANGED <<last_pid, cpu, pc, loc, guarded, scene>>

Setsid(p) ==
    /\ "setsid" \in scene.ops /\ User(p) /\ p # InitTask /\ ~task[p].leader
    /\ task' = [task EXCEPT ![p].leader = TRUE, ![p].session = task[p].pid,
                            ![p].pgrp = task[p].pid]
    /\ UNCHANGED <<last_pid, cpu, pc, loc, guarded, scene>>

-----------------------------------------------------------------------------
(* The steps a task takes once it is in the kernel *)
Step(p) ==
    \/ ForkDone(p) \/ Adopt(p) \/ ExitDone(p) \/ WaitEnd(p) \/ WaitWake(p)
    \/ \E c \in Task : WaitStopped(p, c) \/ Reap(p, c) \/ WaitNext(p, c)

Next ==
    \E p \in Task :
        \/ Step(p)
        \/ ForkCopy(p) \/ ForkNoSlot(p) \/ ForkFail(p) \/ Exit(p) \/ Setsid(p)
        \/ \E w \in -MaxPid..MaxPid, o \in scene.options : Waitpid(p, w, o)
        \/ \E S \in SUBSET Task, sig \in scene.sigs : Kill(p, S, sig)
        \/ \E t \in Task, g \in 1..MaxPid : Setpgid(p, t, g)
        \/ \E caught \in BOOLEAN : Deliver(p, caught)

Spec == Init /\ [][Next]_vars

(* init waits for its children in a loop (init/main.c); a task that can go *)
(* on in the kernel is scheduled again.                                    *)
InitWaits == Waitpid(InitTask, -1, {}) \/ Deliver(InitTask, TRUE)

FairSpec == Spec /\ SF_vars(InitWaits) /\ \A p \in Task : SF_vars(Step(p))

-----------------------------------------------------------------------------
(* Properties *)

(* The tasks that sys_fork has not linked into the tree yet *)
Unborn == {loc[p].kid : p \in Used} \ {NULL}

Linked == Used \ Unborn

(* The conditions audit_ptree warns about, for the tasks of a set *)
Audit(S) ==
    LET good(q) == q = NULL \/ q \in Used IN
    \A t \in S :
        LET a == task[t] IN
        /\ good(a.p_pptr) /\ good(a.p_cptr) /\ good(a.p_ysptr) /\ good(a.p_osptr)
        /\ t \notin {a.p_pptr, a.p_cptr, a.p_ysptr, a.p_osptr}
        /\ a.p_osptr # NULL => /\ task[a.p_osptr].p_pptr = a.p_pptr
                               /\ task[a.p_osptr].p_ysptr = t
        /\ a.p_ysptr # NULL => /\ task[a.p_ysptr].p_pptr = a.p_pptr
                               /\ task[a.p_ysptr].p_osptr = t
        /\ a.p_cptr # NULL => /\ task[a.p_cptr].p_pptr = t
                              /\ task[a.p_cptr].p_ysptr = NULL

(* Every linked task but init is found in the list of its parent, however  *)
(* often tasks are adopted: otherwise a zombie could never be waited for.  *)
Listed(p) ==
    \A S \in SUBSET (Children(p) \cap Linked) :
        S # {} => \E c \in S : IF task[c].p_ysptr = NULL THEN task[p].p_cptr = c
                                                         ELSE task[c].p_ysptr \notin S

(* Whenever no task runs in the kernel, audit_ptree has nothing to say of  *)
(* the tasks that fork has linked, whatever forks, exits and waits overlap;*)
(* every child is in the list of its parent; and everybody descends from   *)
(* init through living tasks: no set of tasks is cut off, and nobody is    *)
(* the child of a zombie.  At any time no two tasks have the same pid, also *)
(* after last_pid has wrapped and while forks are under way.               *)
TreeSound ==
    /\ \A s, t \in Used : s # t => task[s].pid # task[t].pid
    /\ cpu = NULL =>
        /\ Audit(Linked)
        /\ \A p \in Linked : Listed(p)
        /\ \A t \in Linked \ {InitTask} :
               task[t].p_pptr \in Linked /\ task[task[t].p_pptr].state # "Z"
        /\ \A S \in SUBSET (Linked \ {InitTask}) :
               S # {} => \E t \in S : task[t].p_pptr \notin S

(* do_exit reads task[1]->p_cptr->p_ysptr without a test (exit.c:294):     *)
(* init has a child whenever a child is given to it.                       *)
AdopterHasChild ==
    \A p \in Task : pc[p] = "adopt" /\ task[p].p_cptr # NULL => task[InitTask].p_cptr # NULL

(* A group that loses its last guardian by an exit is not left stopped.    *)
OrphansContinued ==
    \A p \in Task : pc[p] = "adopt" /\ task[p].p_cptr = NULL =>
        \A g \in guarded : IsOrphanedPgrp(task, g) => ~HasStoppedJobs(task, g)

(* A zombie whose parent is init is released, whoever its first parent     *)
(* was, unless tasks are born without end: waitpid takes the youngest      *)
(* zombie first.                                                           *)
InitReaps ==
    \A t \in Task :
        LET Orphan == t \in Used /\ task[t].state = "Z" /\ task[t].p_pptr = InitTask
        IN  Orphan ~> ~Orphan

=============================================================================
