-------------------------------- MODULE Tty --------------------------------
(***************************************************************************)
(* The terminals: the line discipline (tty_io.c), the ioctl calls          *)
(* (tty_ioctl.c), and the three kinds of device under it: a console fed by *)
(* the keyboard interrupt (keyboard.S), a serial line with its receive and *)
(* transmit interrupts (rs_io.S, serial.c) and a pseudo terminal pair      *)
(* (pty.c).  A behaviour uses one of the three.                            *)
(*                                                                         *)
(* Tasks are not preempted in the kernel (cpu); interrupts come between    *)
(* any two steps of a task.  The keyboard interrupt turns interrupts on    *)
(* before it calls the line discipline, so that a second key may come      *)
(* while a first one is cooked: its steps are those of irq.  The serial    *)
(* interrupts are single steps.                                            *)
(*                                                                         *)
(* A ring (struct tty_queue) is the sequence of its characters; a          *)
(* character is its class c and its number n in the stream it came with,   *)
(* 0 for an echo.  Screen contents are the business of module Console.     *)
(***************************************************************************)
EXTENDS Integers, Sequences, FiniteSets, FiniteSetsExt, SequencesExt

CONSTANTS Task,
          NULL,
          Pgrp,        \* the process group of each task
          Foreground,  \* the foreground group at first
          Orphaned,    \* the process groups that is_orphaned_pgrp finds orphaned
          BufSize,     \* TTY_BUF_SIZE
          KbdSize,     \* size of keyboard.S
          WriteRoom,   \* the 128 free places that sleep_if_full waits for
          Startup,     \* startup of rs_io.S: a writer is woken below it
          Kinds,       \* the devices to choose from: "con", "rs", "pty"
          Keys,        \* what one key puts in the queue, for each device
          Texts,       \* what tasks write, for each device
          Lengths,     \* lengths of reads
          Settings,    \* the modes that tasks may set
          MaxTyped,    \* bound: characters typed, for each device
          MaxWritten,  \* bound: characters written, for each device
          MaxIoctl     \* bound: ioctl calls

ASSUME TtyNames == NULL \notin Task
ASSUME TtySizes == /\ BufSize \in Nat /\ BufSize > 2 /\ KbdSize \in Nat /\ KbdSize >= BufSize
                   /\ WriteRoom \in 1..BufSize - 1 /\ Startup \in 0..BufSize - 1

VARIABLES kind,    \* the device of this behaviour
          tty,     \* the tty_struct of each channel
          thre,    \* the serial transmit interrupt is enabled
          last,    \* the number of the last character that left each channel, by kind of exit
          cpu,     \* the task that runs in the kernel, NULL when none does
          task,    \* where each task stands, and its locals
          sig,     \* the tasks with a signal that is not blocked
          irq,     \* where the keyboard interrupt stands
          khead,   \* index of head in the console's read queue
          cr_flag, \* the static variable of tty_write
          typed, written, ioctls    \* characters and calls so far

vars == <<kind, tty, thre, last, cpu, task, sig, irq, khead, cr_flag, typed, written, ioctls>>

Chan == IF kind = "pty" THEN {"m", "s"} ELSE {kind}
Other(ch) == IF ch = "m" THEN "s" ELSE "m"

(* The controlling terminal of the tasks *)
ctty == IF kind = "pty" THEN "s" ELSE kind

Char(c, n) == [c |-> c, n |-> n]
Terminators == {"nl", "eof"}
Control == {"nl", "cr", "eof", "kl", "stop", "start", "intr", "susp"}    \* c < 32

-----------------------------------------------------------------------------
(* The queue macros of tty.h.  PUTCH does not look whether the ring is     *)
(* full: head then meets tail, and the ring counts as empty.               *)

EMPTY(q) == q = <<>>
LEFT(q) == BufSize - 1 - Len(q)
FULL(q) == LEFT(q) = 0
PUTCH(q, c) == IF FULL(q) THEN <<>> ELSE Append(q, c)

Lines(q) == Cardinality({i \in DOMAIN q : q[i].c \in Terminators})

(* The modes that tty_init gives; IXON stands in c_lflag there, where it   *)
(* means nothing.                                                          *)
Raw == [canon |-> FALSE, echo |-> FALSE, isig |-> FALSE, ixon |-> FALSE, icrnl |-> FALSE,
        onlcr |-> FALSE, tostop |-> FALSE, vmin |-> 1, vtime |-> 0, hup |-> FALSE]
ConMode == [Raw EXCEPT !.canon = TRUE, !.echo = TRUE, !.isig = TRUE, !.icrnl = TRUE, !.onlcr = TRUE]
SlaveMode == [Raw EXCEPT !.canon = TRUE, !.isig = TRUE]
InitMode(ch) == CASE ch = "con" -> ConMode [] ch = "s" -> SlaveMode [] OTHER -> Raw

NoCall == [pc |-> "idle", ch |-> NULL, nr |-> 0, got |-> 0, min |-> 0, time |-> 0, timeout |-> "no",
           text |-> <<>>, mode |-> NULL, canon |-> FALSE]

(* tty_init, and a session with a foreground group *)
Init ==
    /\ kind \in Kinds
    /\ tty = [ch \in Chan |->
                [read_q |-> <<>>, write_q |-> <<>>, secondary |-> <<>>, data |-> 0, stale |-> 0,
                 stopped |-> FALSE, writing |-> FALSE, reading |-> FALSE, pgrp |-> Foreground,
                 mode |-> InitMode(ch)]]
    /\ thre = FALSE
    /\ last = [ch \in Chan |-> [read |-> 0, shown |-> 0]]
    /\ cpu = NULL
    /\ task = [t \in Task |-> NoCall]
    /\ sig = {}
    /\ irq = "idle"
    /\ khead = 0
    /\ cr_flag = FALSE
    /\ typed = 0 /\ written = 0 /\ ioctls = 0

-----------------------------------------------------------------------------
(* The line discipline and the write routines of the devices call each     *)
(* other.  They are operators on a world w: the ttys, the transmit         *)
(* interrupt, the last characters out, the signalled tasks and the wait    *)
(* queues woken, <<channel, queue>>.  cur is the task that runs.           *)

World == [tty |-> tty, thre |-> thre, last |-> last, sig |-> sig, woken |-> {}]

Wake(w, ch, q) == [w EXCEPT !.woken = @ \cup {<<ch, q>>}]
KillPg(w, p) == [w EXCEPT !.sig = @ \cup {t \in Task : Pgrp[t] = p}]
Output(w, ch, c) == [w EXCEPT !.tty[ch].write_q = PUTCH(@, Char(c, 0))]

(* con_write: what the screen takes; a stopped console keeps the rest. *)
con_write(w, ch) ==
    LET q == w.tty[ch].write_q
        nums == {q[i].n : i \in DOMAIN q} \ {0}
        w1 == Wake(w, ch, "write")
    IN  IF w.tty[ch].stopped THEN w1
        ELSE [w1 EXCEPT !.tty[ch].write_q = <<>>,
                        !.last[ch].shown = IF nums = {} THEN @ ELSE q[CHOOSE i \in DOMAIN q :
                                              q[i].n # 0 /\ \A j \in i + 1..Len(q) : q[j].n = 0].n]

(* rs_write enables the transmit interrupt. *)
rs_write(w, ch) == [w EXCEPT !.thre = @ \/ ~EMPTY(w.tty[ch].write_q)]

(* The echo of an erased character: a control character took two places. *)
EchoErase(w, ch, c) ==
    IF ~w.tty[ch].mode.echo THEN w
    ELSE IF c \in Control THEN Output(Output(w, ch, "del"), ch, "del") ELSE Output(w, ch, "del")

(* The echo of c *)
Echo(w, ch, c) ==
    CASE ~w.tty[ch].mode.echo -> w
      [] w.tty[ch].mode.echo /\ c = "nl" -> Output(Output(w, ch, "nl"), ch, "cr")
      [] w.tty[ch].mode.echo /\ c # "nl" /\ c \in Control -> Output(Output(w, ch, "^"), ch, "a")
      [] OTHER -> Output(w, ch, c)

\* Mutant: an end of file is not counted as a line.
StoreEofUncounted(w, ch, c) ==
    [w EXCEPT !.tty[ch].data = IF c.c = "nl" THEN @ + 1 ELSE @,
              !.tty[ch].secondary = PUTCH(@, c)]

(* The character goes to the secondary queue. *)
Store(w, ch, c) ==
    [w EXCEPT !.tty[ch].data = IF c.c \in Terminators THEN @ + 1 ELSE @,
              !.tty[ch].secondary = PUTCH(@, c)]

RECURSIVE copy_to_cooked(_, _, _), TtyWrite(_, _, _), PtyLoop(_, _, _), KillLine(_, _, _)

(* TTY_WRITE_FLUSH *)
WriteFlush(w, ch, cur) ==
    IF EMPTY(w.tty[ch].write_q) \/ w.tty[ch].writing THEN w
    ELSE [TtyWrite([w EXCEPT !.tty[ch].writing = TRUE], ch, cur) EXCEPT !.tty[ch].writing = FALSE]

(* There is a character of the current line to erase. *)
Erasable(w, ch) == LET q == w.tty[ch].secondary IN ~EMPTY(q) /\ Last(q).c \notin Terminators

EraseOne(w, ch, cur) ==
    LET e == EchoErase(w, ch, Last(w.tty[ch].secondary).c)
        f == IF w.tty[ch].mode.echo THEN WriteFlush(e, ch, cur) ELSE e
    IN  [f EXCEPT !.tty[ch].secondary = IF EMPTY(@) THEN @ ELSE Front(@)]

KillLine(w, ch, cur) == IF Erasable(w, ch) THEN KillLine(EraseOne(w, ch, cur), ch, cur) ELSE w

(* One pass of the loop of copy_to_cooked *)
CookChar(w, ch, cur) ==
    LET m == w.tty[ch].mode
        r == Head(w.tty[ch].read_q)
        c == IF r.c = "cr" /\ m.icrnl THEN Char("nl", r.n) ELSE r
        v == [w EXCEPT !.tty[ch].read_q = Tail(@)]
        p == w.tty[ch].pgrp
    IN  CASE m.canon /\ c.c = "kl" -> KillLine(v, ch, cur)
          [] m.canon /\ c.c = "er" -> IF Erasable(v, ch) THEN EraseOne(v, ch, cur) ELSE v
          [] m.ixon /\ c.c = "stop" -> [v EXCEPT !.tty[ch].stopped = TRUE]
          [] m.ixon /\ c.c = "start" -> WriteFlush([v EXCEPT !.tty[ch].stopped = FALSE], ch, cur)
          [] m.isig /\ c.c = "intr" -> KillPg(v, p)
          [] m.isig /\ c.c = "susp" -> IF p \in Orphaned THEN v ELSE KillPg(v, p)
          [] OTHER -> WriteFlush(Store(Echo(v, ch, c.c), ch, c), ch, cur)

(* The loop ends: nothing to cook, or no place for it. *)
CookedOut(w, ch) == EMPTY(w.tty[ch].read_q) \/ FULL(w.tty[ch].secondary)

\* Mutant: readers are woken for whole lines only, in any mode.
CookEndQuiet(w, ch, cur) ==
    LET f == WriteFlush(w, ch, cur)
        s == IF f.tty[ch].data = 0 THEN f ELSE Wake(f, ch, "secondary")
    IN  IF LEFT(s.tty[ch].write_q) > BufSize \div 2 THEN Wake(s, ch, "write") ELSE s

(* What copy_to_cooked does after its loop *)
CookEnd(w, ch, cur) ==
    LET f == WriteFlush(w, ch, cur)
        s == IF EMPTY(f.tty[ch].secondary) THEN f ELSE Wake(f, ch, "secondary")
    IN  IF LEFT(s.tty[ch].write_q) > BufSize \div 2 THEN Wake(s, ch, "write") ELSE s

copy_to_cooked(w, ch, cur) ==
    IF CookedOut(w, ch) THEN CookEnd(w, ch, cur)
    ELSE copy_to_cooked(CookChar(w, ch, cur), ch, cur)

(* One character of pty_copy; the other side cooks when its queue is full. *)
PtyPass(w, from, cur) ==
    LET to == Other(from)
    IN  IF FULL(w.tty[to].read_q) THEN copy_to_cooked(w, to, cur)
        ELSE [w EXCEPT !.tty[from].write_q = Tail(@),
                       !.tty[to].read_q = PUTCH(@, Head(w.tty[from].write_q))]

PtyLoop(w, from, cur) ==
    LET to == Other(from)
    IN  IF \/ w.tty[from].stopped \/ EMPTY(w.tty[from].write_q)
           \/ FULL(w.tty[to].read_q) /\ FULL(w.tty[to].secondary)
        THEN w
        ELSE IF ~FULL(w.tty[to].read_q) /\ cur \in w.sig THEN PtyPass(w, from, cur)
        ELSE PtyLoop(PtyPass(w, from, cur), from, cur)

(* pty_copy of mpty_write and spty_write *)
pty_copy(w, from, cur) ==
    Wake(copy_to_cooked(PtyLoop(w, from, cur), Other(from), cur), from, "write")

(* tty->write *)
TtyWrite(w, ch, cur) ==
    CASE ch = "con" -> con_write(w, ch)
      [] ch = "rs" -> rs_write(w, ch)
      [] OTHER -> pty_copy(w, ch, cur)

-----------------------------------------------------------------------------
(* A step leaves world w and tasks tk: the sleepers on the queues woken    *)
(* may go on.                                                              *)

Woken(w, r) == \/ r.pc = "rsleep" /\ <<r.ch, "secondary">> \in w.woken
               \/ r.pc \in {"wsleep", "dsleep"} /\ <<r.ch, "write">> \in w.woken
Awake(r) == [r EXCEPT !.pc = CASE @ = "rsleep" -> "rloop" [] @ = "wsleep" -> "wfull" [] OTHER -> "drain"]

Commit(w, tk) ==
    /\ tty' = w.tty /\ thre' = w.thre /\ last' = w.last
    /\ task' = [t \in Task |-> IF Woken(w, tk[t]) THEN Awake(tk[t]) ELSE tk[t]]
    /\ sig' = {t \in w.sig : tk[t].pc # "idle"}

(* Task t may take a step of its call. *)
At(t, pc) == task[t].pc = pc /\ cpu \in {NULL, t} /\ irq = "idle"
Starts(t) == At(t, "idle") /\ cpu = NULL

(* The task runs on at pc, sleeps there, or returns to user mode. *)
Goes(t, w, r) == cpu' = t /\ Commit(w, [task EXCEPT ![t] = r])
Sleeps(t, w, r) == cpu' = NULL /\ Commit(w, [task EXCEPT ![t] = r])
Returns(t, w) == cpu' = NULL /\ Commit(w, [task EXCEPT ![t] = NoCall])

devices == <<kind, irq, khead, typed>>
limits == <<written, ioctls>>

Background(t, ch) == ctty = ch /\ tty[ch].pgrp # Pgrp[t]

(* tty_signal: the whole group of the task gets the signal, unless it is   *)
(* orphaned.                                                               *)
tty_signal(w, t) == IF Pgrp[t] \in Orphaned THEN w ELSE KillPg(w, Pgrp[t])

-----------------------------------------------------------------------------
(* tty_read *)

StartRead(t, ch, n) ==
    LET m == tty[ch].mode
        r == [NoCall EXCEPT !.pc = "rloop", !.ch = ch, !.nr = n,
                !.min = IF m.canon \/ m.vmin = 0 \/ m.vmin > n THEN n ELSE m.vmin,
                !.time = IF m.canon \/ m.vmin = 0 THEN 0 ELSE m.vtime,
                !.timeout = IF m.canon \/ m.vmin > 0 THEN "never"
                            ELSE IF m.vtime > 0 THEN "armed" ELSE "no"]
    IN  /\ Starts(t)
        /\ IF Background(t, ch) THEN Returns(t, tty_signal(World, t)) ELSE Goes(t, World, r)
        /\ UNCHANGED <<devices, limits, cr_flag>>

(* The condition on which tty_read sleeps *)
NothingToRead(q, canon) == EMPTY(q.secondary) \/ (canon /\ ~FULL(q.read_q) /\ q.data = 0)

(* The head of the loop: a pseudo terminal first moves what the other side *)
(* has written.                                                            *)
ReadLoop(t) ==
    LET r == task[t]
        w == IF kind = "pty" THEN TtyWrite(World, Other(r.ch), t) ELSE World
        canon == w.tty[r.ch].mode.canon
    IN  /\ At(t, "rloop")
        /\ IF NothingToRead(w.tty[r.ch], canon)
           THEN IF \/ r.timeout = "no" \/ t \in w.sig
                   \/ r.ch = "s" /\ w.tty["m"].mode.hup
                THEN Returns(t, w)
                ELSE Sleeps(t, w, [r EXCEPT !.pc = "rsleep", !.canon = canon])
           ELSE Goes(t, w, [r EXCEPT !.pc = "get",
                              !.canon = canon /\ Lines(w.tty[r.ch].secondary) = 0])
        /\ UNCHANGED <<devices, limits, cr_flag>>

(* One character; after the last one of a pass the loop goes on unless the *)
(* mode is canonical or the minimum is reached.  Of a GETCH from a queue   *)
(* that an interrupt has emptied meanwhile nothing more is modelled.       *)
ReadChar(t) ==
    LET r == task[t]
        q == tty[r.ch]
        c == Head(q.secondary)
        canon == q.mode.canon
        eof == c.c = "eof" /\ canon
        w == [World EXCEPT !.tty[r.ch].secondary = Tail(@),
                           !.tty[r.ch].data = IF c.c \in Terminators THEN @ - 1 ELSE @,
                           !.last[r.ch].read = IF c.n = 0 THEN @ ELSE c.n]
        s == IF eof THEN r ELSE [r EXCEPT !.nr = @ - 1, !.got = @ + 1]
        passed == eof \/ s.nr = 0 \/ (c.c = "nl" /\ canon) \/ EMPTY(Tail(q.secondary))
        u == IF s.time > 0 THEN [s EXCEPT !.timeout = "armed"] ELSE s
    IN  /\ At(t, "get") /\ ~EMPTY(q.secondary)
        /\ IF ~passed THEN Goes(t, w, s)
           ELSE IF canon \/ s.got >= s.min \/ s.nr = 0 THEN Returns(t, w)
           ELSE Goes(t, w, [u EXCEPT !.pc = "rloop"])
        /\ UNCHANGED <<devices, limits, cr_flag>>

(* schedule: the timeout of a sleeper has passed *)
ReadTimeout(t) ==
    /\ irq = "idle" /\ task[t].pc = "rsleep" /\ task[t].timeout = "armed"
    /\ task' = [task EXCEPT ![t].pc = "rloop", ![t].timeout = "no"]
    /\ UNCHANGED <<devices, limits, tty, thre, last, cpu, sig, cr_flag>>

(* schedule: a signal makes an interruptible sleeper run *)
Interrupted(t) ==
    /\ irq = "idle" /\ task[t].pc \in {"rsleep", "wsleep", "dsleep"} /\ t \in sig
    /\ task' = [task EXCEPT ![t] = Awake(@)]
    /\ UNCHANGED <<devices, limits, tty, thre, last, cpu, sig, cr_flag>>

-----------------------------------------------------------------------------
(* tty_write *)

Promised == written + MapThenSumSet(LAMBDA u : Len(task[u].text), Task)

StartWrite(t, ch, text) ==
    /\ Starts(t) /\ Promised + Len(text) <= MaxWritten[kind]
    /\ IF tty[ch].mode.tostop /\ Background(t, ch)
       THEN Returns(t, tty_signal(World, t))
       ELSE Goes(t, World, [NoCall EXCEPT !.pc = "wtest", !.ch = ch, !.text = text])
    /\ UNCHANGED <<devices, limits, cr_flag>>

(* sleep_if_full: it waits only when the queue is full, but then until     *)
(* there is much room.                                                     *)
WriteWait(t) ==
    LET r == task[t]
        q == tty[r.ch].write_q
    IN  /\ At(t, "wtest") \/ At(t, "wfull")
        /\ IF /\ r.pc = "wfull" \/ FULL(q)
              /\ t \notin sig /\ LEFT(q) < WriteRoom
           THEN Sleeps(t, World, [r EXCEPT !.pc = "wsleep"])
           ELSE IF t \in sig THEN Returns(t, World)
           ELSE Goes(t, World, [r EXCEPT !.pc = "fill"])
        /\ UNCHANGED <<devices, limits, cr_flag>>

(* One character into the queue; a newline is first preceded by a return. *)
WriteFill(t) ==
    LET r == task[t]
        c == Head(r.text)
        cr == c = "nl" /\ tty[r.ch].mode.onlcr /\ ~cr_flag
    IN  /\ At(t, "fill") /\ r.text # <<>> /\ ~FULL(tty[r.ch].write_q)
        /\ cr_flag' = cr
        /\ written' = IF cr THEN written ELSE written + 1
        /\ Goes(t, [World EXCEPT !.tty[r.ch].write_q =
                       PUTCH(@, IF cr THEN Char("cr", 0) ELSE Char(c, written'))],
                IF cr THEN r ELSE [r EXCEPT !.text = Tail(@)])
        /\ UNCHANGED <<devices, ioctls>>

(* The queue is full or the text at its end: the device writes, and the    *)
(* processor is given up when there is more.                               *)
WriteOut(t) ==
    LET r == task[t]
        w == TtyWrite(World, r.ch, t)
    IN  /\ At(t, "fill") /\ (r.text = <<>> \/ FULL(tty[r.ch].write_q))
        /\ IF r.text = <<>> THEN Returns(t, w) ELSE Sleeps(t, w, [r EXCEPT !.pc = "wtest"])
        /\ UNCHANGED <<devices, limits, cr_flag>>

-----------------------------------------------------------------------------
(* tty_ioctl *)

(* flush of read_q and secondary, and of what the other side has written.  *)
(* data keeps counting the lines that are gone (stale is the number).      *)
flush_input(w, ch) ==
    LET v == [w EXCEPT !.tty[ch].read_q = <<>>, !.tty[ch].secondary = <<>>,
                       !.tty[ch].stale = @ + Lines(w.tty[ch].secondary)]
    IN  IF kind = "pty" THEN [v EXCEPT !.tty[Other(ch)].write_q = <<>>] ELSE v

Ioctl(t) == Starts(t) /\ ioctls < MaxIoctl /\ ioctls' = ioctls + 1

(* TCSETS, TCSETSW and TCSETSF, and the same of termio *)
StartSet(t, ch, m, how) ==
    /\ Ioctl(t)
    /\ Goes(t, IF how = "TCSETSF" THEN flush_input(World, ch) ELSE World,
            [NoCall EXCEPT !.pc = IF how = "TCSETS" THEN "set" ELSE "drain", !.ch = ch, !.mode = m])
    /\ UNCHANGED <<devices, written, cr_flag>>

(* TCSBRK waits for the output; the break itself is not implemented. *)
StartBreak(t, ch) ==
    /\ Ioctl(t)
    /\ Goes(t, World, [NoCall EXCEPT !.pc = "drain", !.ch = ch])
    /\ UNCHANGED <<devices, written, cr_flag>>

(* wait_until_sent *)
WaitUntilSent(t) ==
    LET r == task[t]
    IN  /\ At(t, "drain")
        /\ IF ~EMPTY(tty[r.ch].write_q) /\ t \notin sig
           THEN Sleeps(t, World, [r EXCEPT !.pc = "dsleep"])
           ELSE IF r.mode = NULL THEN Returns(t, World) ELSE Goes(t, World, [r EXCEPT !.pc = "set"])
        /\ UNCHANGED <<devices, limits, cr_flag>>

(* set_termios and set_termio: a task in the background sets the mode only *)
(* when SIGTTOU does not stop it (it ignores it, or its group is orphaned).*)
SetTermios(t) ==
    LET r == task[t]
        w == IF Background(t, r.ch) THEN tty_signal(World, t) ELSE World
    IN  /\ At(t, "set")
        /\ \/ Returns(t, [w EXCEPT !.tty[r.ch].mode = r.mode])
           \/ Background(t, r.ch) /\ Pgrp[t] \notin Orphaned /\ Returns(t, w)
        /\ UNCHANGED <<devices, limits, cr_flag>>

(* TCXONC: hold and release the output, or send the stop and start         *)
(* characters, which are left for the next write to take along.            *)
FlowControl(t, ch) ==
    /\ Ioctl(t)
    /\ \/ \E b \in BOOLEAN : Returns(t, WriteFlush([World EXCEPT !.tty[ch].stopped = b], ch, t))
       \/ \E c \in {"stop", "start"} : Returns(t, Output(World, ch, c))
    /\ UNCHANGED <<devices, written, cr_flag>>

(* TCFLSH 0, 1 and 2 *)
FlushQueues(t, ch, arg) ==
    LET i == IF arg = 1 THEN World ELSE flush_input(World, ch)
    IN  /\ Ioctl(t)
        /\ Returns(t, IF arg = 0 THEN i ELSE [i EXCEPT !.tty[ch].write_q = <<>>])
        /\ UNCHANGED <<devices, written, cr_flag>>

(* TIOCSPGRP: only on the controlling terminal, and a group of the session *)
SetPgrp(t, p) ==
    /\ Ioctl(t)
    /\ Returns(t, [World EXCEPT !.tty[ctty].pgrp = p])
    /\ UNCHANGED <<devices, written, cr_flag>>

(* TIOCSWINSZ with a size that differs: both sides of a pair are told. *)
SetWindowSize(t, ch) ==
    /\ Ioctl(t)
    /\ Returns(t, LET w == KillPg(World, tty[ch].pgrp)
                  IN  IF kind = "pty" THEN KillPg(w, tty[Other(ch)].pgrp) ELSE w)
    /\ UNCHANGED <<devices, written, cr_flag>>

-----------------------------------------------------------------------------
(* The keyboard: put_queue and TTY_READ_FLUSH.  The bytes of one key go in *)
(* together or not at all; head wraps at KbdSize.  Of a head outside the   *)
(* ring nothing more is modelled: what follows is not this queue's memory. *)

Numbered(bytes) == [i \in 1..Len(bytes) |-> Char(bytes[i], typed + i)]
InRing == khead < BufSize

Key(bytes) ==
    /\ kind = "con" /\ InRing
    /\ typed + Len(bytes) <= MaxTyped[kind]
    /\ typed' = typed + Len(bytes)
    /\ khead' = (khead + Len(bytes)) % KbdSize
    /\ irq' = IF tty["con"].reading THEN irq ELSE "cook"
    /\ tty' = [tty EXCEPT !["con"].read_q = @ \o Numbered(bytes), !["con"].reading = TRUE]
    /\ UNCHANGED <<kind, thre, last, cpu, task, sig, cr_flag, limits>>

(* copy_to_cooked in the interrupt: one pass, then its end, then the busy  *)
(* flag is cleared.  cur is the task that the interrupt found.             *)
CookStep ==
    /\ irq = "cook" /\ InRing
    /\ Commit(IF CookedOut(World, "con") THEN CookEnd(World, "con", cpu)
              ELSE CookChar(World, "con", cpu), task)
    /\ irq' = IF CookedOut(World, "con") THEN "exit" ELSE irq
    /\ UNCHANGED <<kind, cpu, khead, typed, cr_flag, limits>>

CookExit ==
    /\ irq = "exit" /\ InRing
    /\ irq' = "idle"
    /\ tty' = [tty EXCEPT !["con"].reading = FALSE]
    /\ UNCHANGED <<kind, thre, last, cpu, task, sig, khead, typed, cr_flag, limits>>

(* read_char of rs_io.S: a character that finds the ring full is dropped. *)
Receive(c) ==
    LET w == IF FULL(tty["rs"].read_q) THEN World
             ELSE [World EXCEPT !.tty["rs"].read_q = Append(@, Char(c, typed + 1))]
    IN  /\ kind = "rs" /\ typed < MaxTyped[kind]
        /\ typed' = typed + 1
        /\ Commit(copy_to_cooked(w, "rs", cpu), task)
        /\ UNCHANGED <<kind, cpu, irq, khead, cr_flag, limits>>

\* Mutant: writers are not woken when the queue has run empty.
TransmitSilent ==
    LET q == tty["rs"].write_q
        v == IF Len(q) \in 1..Startup /\ Len(q) > 1 THEN Wake(World, "rs", "write") ELSE World
        s == IF EMPTY(q) THEN v
             ELSE [v EXCEPT !.tty["rs"].write_q = Tail(@),
                            !.last["rs"].shown = IF Head(q).n = 0 THEN @ ELSE Head(q).n]
    IN  /\ kind = "rs" /\ thre
        /\ Commit(IF EMPTY(s.tty["rs"].write_q) THEN [s EXCEPT !.thre = FALSE] ELSE s, task)
        /\ UNCHANGED <<kind, cpu, irq, khead, typed, cr_flag, limits>>

\* Mutant: the new tail is stored only when characters are left.
TransmitUnmoved ==
    LET q == tty["rs"].write_q
        v == IF Len(q) \in 1..Startup THEN Wake(World, "rs", "write") ELSE World
        s == IF EMPTY(q) THEN v
             ELSE [v EXCEPT !.tty["rs"].write_q = IF Len(q) = 1 THEN @ ELSE Tail(@),
                            !.last["rs"].shown = IF Head(q).n = 0 THEN @ ELSE Head(q).n]
    IN  /\ kind = "rs" /\ thre
        /\ Commit(IF Len(q) < 2 THEN [Wake(s, "rs", "write") EXCEPT !.thre = FALSE] ELSE s, task)
        /\ UNCHANGED <<kind, cpu, irq, khead, typed, cr_flag, limits>>

(* write_char of rs_io.S: a character goes out; writers are woken when few *)
(* are left, and the interrupt is disabled when none is.                   *)
Transmit ==
    LET q == tty["rs"].write_q
        v == IF Len(q) \in 1..Startup THEN Wake(World, "rs", "write") ELSE World
        s == IF EMPTY(q) THEN v
             ELSE [v EXCEPT !.tty["rs"].write_q = Tail(@),
                            !.last["rs"].shown = IF Head(q).n = 0 THEN @ ELSE Head(q).n]
    IN  /\ kind = "rs" /\ thre
        /\ Commit(IF EMPTY(s.tty["rs"].write_q) THEN [Wake(s, "rs", "write") EXCEPT !.thre = FALSE]
                  ELSE s, task)
        /\ UNCHANGED <<kind, cpu, irq, khead, typed, cr_flag, limits>>

-----------------------------------------------------------------------------
Call(t) == \/ ReadLoop(t) \/ ReadChar(t) \/ Interrupted(t)
           \/ WriteWait(t) \/ WriteFill(t) \/ WriteOut(t)
           \/ WaitUntilSent(t) \/ SetTermios(t)

Begin(t) ==
    \E ch \in Chan :
        \/ \E n \in Lengths : StartRead(t, ch, n)
        \/ \E x \in Texts[kind] : StartWrite(t, ch, x)
        \/ \E m \in Settings, how \in {"TCSETS", "TCSETSW", "TCSETSF"} : StartSet(t, ch, m, how)
        \/ StartBreak(t, ch)
        \/ FlowControl(t, ch)
        \/ \E arg \in 0..2 : FlushQueues(t, ch, arg)
        \/ \E p \in {Pgrp[u] : u \in Task} : SetPgrp(t, p)
        \/ SetWindowSize(t, ch)

Next ==
    \/ \E t \in Task : InRing /\ (Begin(t) \/ Call(t) \/ ReadTimeout(t))
    \/ \E k \in Keys[kind] : Key(k) \/ (Len(k) = 1 /\ Receive(k[1]))
    \/ CookStep \/ CookExit \/ Transmit

(* On the serial line, for which liveness is stated, a task that can run   *)
(* does run, and an interrupt that is enabled comes.                       *)
Fairness ==
    /\ \A t \in Task : WF_vars(kind = "rs" /\ Call(t))
    /\ WF_vars(kind = "rs" /\ Transmit)

Spec == Init /\ [][Next]_vars /\ Fairness

-----------------------------------------------------------------------------
(* Properties *)

(* data of the secondary queue, on which a canonical reader decides        *)
(* whether there is a line to read, is exactly the number of lines in the  *)
(* queue and of those an ioctl has thrown away: erasing, killing, reading  *)
(* part of a line and changing the mode in between never let it drift.     *)
LinesCounted == \A ch \in Chan : tty[ch].data = Lines(tty[ch].secondary) + tty[ch].stale

Numbers(s) == SelectSeq([i \in DOMAIN s |-> s[i].n], LAMBDA n : n # 0)
Increasing(s) == \A i, j \in DOMAIN s : i < j => s[i] < s[j]

(* The way of the characters of a channel: those written on the other side *)
(* of a pair, the raw and the cooked queue, the reader.                    *)
InputPath(ch) ==
    <<last[ch].read>> \o Numbers(tty[ch].secondary) \o Numbers(tty[ch].read_q)
        \o (IF kind = "pty" THEN Numbers(tty[Other(ch)].write_q) ELSE <<>>)

(* Readers get the characters in the order they were typed or written,     *)
(* each at most once, whatever the nesting of the interrupt, of the two    *)
(* sides of a pair that cook for each other, of flushes and full queues;   *)
(* and so do the screen and the serial line.                               *)
InOrder ==
    \A ch \in Chan :
        /\ Increasing(InputPath(ch))
        /\ kind # "pty" => Increasing(<<last[ch].shown>> \o Numbers(tty[ch].write_q))

(* No wake-up of a reader is lost: while no interrupt is at work, a task   *)
(* sleeps in tty_read only if there is still nothing for it to read in the *)
(* mode in which it went to sleep.  And a task that has begun to take      *)
(* characters finds one, though an interrupt may erase meanwhile, unless   *)
(* it has begun on an unfinished line (read_q full, or lines miscounted).  *)
ReaderHasReason ==
    \A t \in Task :
        /\ irq = "idle" /\ task[t].pc = "rsleep" => NothingToRead(tty[task[t].ch], task[t].canon)
        /\ task[t].pc = "get" /\ ~task[t].canon => ~EMPTY(tty[task[t].ch].secondary)

(* On a serial line, where the transmit interrupt empties the queue, every *)
(* task that writes comes back, whoever else writes or flushes.            *)
SerialWritersReturn ==
    \A t \in Task : (kind = "rs" /\ task[t].pc \in {"wtest", "wfull", "wsleep", "fill"})
                      ~> (task[t].pc = "idle")

(* "must be a power of two ! And MUST be the same as in tty_io.c": the     *)
(* keyboard interrupt keeps head inside the ring.                          *)
KeyboardInRing == khead < BufSize
=============================================================================
