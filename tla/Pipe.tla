-------------------------------- MODULE Pipe --------------------------------
(***************************************************************************)
(* One pipe (fs/pipe.c): the page used as a ring, readers and writers that *)
(* sleep, the closing of an end (iput of fs/inode.c), and signals.  The    *)
(* file of an end may be shared by several tasks.                          *)
(*                                                                         *)
(* Tasks are not preempted in the kernel: a task keeps the processor (cpu) *)
(* until it sleeps.  A byte is the number of its place in the stream, so   *)
(* that a byte read from the wrong place or at the wrong time shows.       *)
(***************************************************************************)
EXTENDS Integers, FiniteSets, FiniteSetsExt

CONSTANTS Reader,     \* the tasks that hold the reading end
          Writer,     \* the tasks that hold the writing end
          NULL,
          PageSize,   \* PAGE_SIZE
          Counts,     \* the lengths of reads and writes
          MaxBytes,   \* bound: no write begins once so many bytes are written
          Faulting    \* the tasks whose user pages may be swapped out: their copies sleep

Proc == Reader \cup Writer

ASSUME PipeNames == NULL \notin Proc /\ Reader \cap Writer = {} /\ Reader # {} /\ Writer # {}
ASSUME PageAssumption == PageSize \in Nat /\ PageSize > 1
ASSUME PipeBounds == Counts \subseteq Nat \ {0} /\ MaxBytes \in Nat /\ Faulting \subseteq Reader \cup Writer

VARIABLES cpu,      \* the task that runs in the kernel, NULL when none does
          pc,       \* where each task stands
          loc,      \* its local variables
          sig,      \* the tasks with a signal that is not blocked
          open,     \* the tasks that still hold their end
          i_count,  \* files that refer to the inode; 0: the pipe is gone
          head,     \* PIPE_HEAD
          tail,     \* PIPE_TAIL
          page,     \* the bytes at i_size
          wpos,     \* place in the stream that head stands for
          rpos      \* place in the stream that tail stands for

ring == <<head, tail, page, wpos, rpos>>
vars == <<cpu, pc, loc, sig, open, i_count, ring>>

(* The locals of a call: bytes left to do, and of the pass at hand the     *)
(* bytes left, the index in the page and the place in the stream.          *)
NoLoc == [count |-> 0, chars |-> 0, at |-> 0, pos |-> 0]

PIPE_SIZE == (head - tail) % PageSize

(* get_pipe_inode, and the two files of sys_pipe *)
Init ==
    /\ cpu = NULL
    /\ pc = [p \in Proc |-> "idle"]
    /\ loc = [p \in Proc |-> NoLoc]
    /\ sig = {}
    /\ open = Proc
    /\ i_count = 2
    /\ head = 0 /\ tail = 0
    /\ page = [i \in 0..PageSize - 1 |-> -1]
    /\ wpos = 0 /\ rpos = 0

Run(p) == cpu \in {NULL, p}

(* wake_up of PIPE_READ_WAIT and PIPE_WRITE_WAIT, in positions f *)
WakeReaders(f) == [q \in Proc |-> IF f[q] = "rwait" THEN "rtest" ELSE f[q]]
WakeWriters(f) == [q \in Proc |-> IF f[q] = "wwait" THEN "wloop" ELSE f[q]]

(* Task p returns to user mode, where its signals are handled. *)
Return(p, f, signals) ==
    /\ cpu' = NULL
    /\ pc' = [f EXCEPT ![p] = "idle"]
    /\ loc' = [loc EXCEPT ![p] = NoLoc]
    /\ sig' = signals \ {p}

(* Task p sleeps at b. *)
Sleep(p, f, b) ==
    /\ cpu' = NULL
    /\ pc' = [f EXCEPT ![p] = b]
    /\ UNCHANGED <<loc, sig>>

-----------------------------------------------------------------------------
(* pipe_read.  With O_NONBLOCK (nb) it does not wait for data. *)

StartRead(p, n, nb) ==
    /\ pc[p] = "idle" /\ p \in open /\ cpu = NULL
    /\ cpu' = p
    /\ pc' = [pc EXCEPT ![p] = IF nb THEN "rloop" ELSE "rtest"]
    /\ loc' = [loc EXCEPT ![p] = [NoLoc EXCEPT !.count = n]]
    /\ UNCHANGED <<sig, open, i_count, ring>>

(* The loop of a blocking read that waits for data *)
ReadTest(p) ==
    /\ pc[p] = "rtest" /\ Run(p)
    /\ \/ /\ PIPE_SIZE # 0
          /\ cpu' = p /\ pc' = [pc EXCEPT ![p] = "rloop"]
          /\ UNCHANGED <<loc, sig>>
       \/ /\ PIPE_SIZE = 0
          /\ i_count # 2 \/ p \in sig
          /\ Return(p, WakeWriters(pc), sig)
       \/ /\ PIPE_SIZE = 0
          /\ i_count = 2 /\ p \notin sig
          /\ Sleep(p, WakeWriters(pc), "rwait")
    /\ UNCHANGED <<open, i_count, ring>>

(* The bytes one pass of the loop may read *)
ReadChars(p) == Min({PageSize - tail, loc[p].count, PIPE_SIZE})

(* One pass: tail moves over the bytes before they are copied. *)
ReadPass(p) ==
    /\ pc[p] = "rloop" /\ Run(p)
    /\ loc[p].count > 0 /\ PIPE_SIZE # 0
    /\ cpu' = p
    /\ pc' = [pc EXCEPT ![p] = "rcopy"]
    /\ loc' = [loc EXCEPT ![p].count = @ - ReadChars(p), ![p].chars = ReadChars(p),
                          ![p].at = tail, ![p].pos = rpos]
    /\ tail' = (tail + ReadChars(p)) % PageSize
    /\ rpos' = rpos + ReadChars(p)
    /\ UNCHANGED <<sig, open, i_count, head, page, wpos>>

\* Mutant: the writers are not woken after a read.
ReadDoneQuiet(p) ==
    /\ pc[p] = "rloop" /\ Run(p)
    /\ loc[p].count = 0 \/ PIPE_SIZE = 0
    /\ Return(p, pc, sig)
    /\ UNCHANGED <<open, i_count, ring>>

ReadDone(p) ==
    /\ pc[p] = "rloop" /\ Run(p)
    /\ loc[p].count = 0 \/ PIPE_SIZE = 0
    /\ Return(p, WakeWriters(pc), sig)
    /\ UNCHANGED <<open, i_count, ring>>

-----------------------------------------------------------------------------
(* pipe_write *)

StartWrite(p, n) ==
    /\ pc[p] = "idle" /\ p \in open /\ cpu = NULL
    /\ wpos < MaxBytes
    /\ cpu' = p
    /\ pc' = [pc EXCEPT ![p] = "wloop"]
    /\ loc' = [loc EXCEPT ![p] = [NoLoc EXCEPT !.count = n]]
    /\ UNCHANGED <<sig, open, i_count, ring>>

\* Mutant: the ring may be filled to the last byte.
SpaceOffByOne == PageSize - PIPE_SIZE

Space == (PageSize - 1) - PIPE_SIZE

(* There is no space: wake the readers, then fail or sleep. *)
WriteWait(p) ==
    /\ pc[p] = "wloop" /\ Run(p)
    /\ loc[p].count > 0 /\ Space = 0
    /\ \/ i_count # 2 /\ Return(p, WakeReaders(pc), sig \cup {p})
       \/ i_count = 2 /\ p \in sig /\ Return(p, WakeReaders(pc), sig)
       \/ i_count = 2 /\ p \notin sig /\ Sleep(p, WakeReaders(pc), "wwait")
    /\ UNCHANGED <<open, i_count, ring>>

WriteChars(p) == Min({PageSize - head, loc[p].count, Space})

(* One pass: head moves over the bytes before they are copied. *)
WritePass(p) ==
    /\ pc[p] = "wloop" /\ Run(p)
    /\ loc[p].count > 0 /\ Space # 0
    /\ cpu' = p
    /\ pc' = [pc EXCEPT ![p] = "wcopy"]
    /\ loc' = [loc EXCEPT ![p].count = @ - WriteChars(p), ![p].chars = WriteChars(p),
                          ![p].at = head, ![p].pos = wpos]
    /\ head' = (head + WriteChars(p)) % PageSize
    /\ wpos' = wpos + WriteChars(p)
    /\ UNCHANGED <<sig, open, i_count, tail, page, rpos>>

WriteDone(p) ==
    /\ pc[p] = "wloop" /\ Run(p)
    /\ loc[p].count = 0
    /\ Return(p, WakeReaders(pc), sig)
    /\ UNCHANGED <<open, i_count, ring>>

-----------------------------------------------------------------------------
(* The copies, byte by byte *)

(* After a byte: the next one, or the next pass. *)
NextByte(p, a, b) ==
    /\ pc[p] = a /\ Run(p)
    /\ cpu' = p
    /\ pc' = [pc EXCEPT ![p] = IF loc[p].chars = 1 THEN b ELSE a]
    /\ loc' = [loc EXCEPT ![p].chars = @ - 1, ![p].at = @ + 1, ![p].pos = @ + 1]

(* put_fs_byte and get_fs_byte *)
ReadByte(p) ==
    /\ NextByte(p, "rcopy", "rloop")
    /\ UNCHANGED <<sig, open, i_count, ring>>

WriteByte(p) ==
    /\ NextByte(p, "wcopy", "wloop")
    /\ page' = [page EXCEPT ![loc[p].at] = loc[p].pos]
    /\ UNCHANGED <<sig, open, i_count, head, tail, wpos, rpos>>

(* The byte of the user is on a page that has to be read first. *)
Fault(p) ==
    /\ p \in Faulting
    /\ cpu = p /\ pc[p] \in {"rcopy", "wcopy"}
    /\ cpu' = NULL
    /\ UNCHANGED <<pc, loc, sig, open, i_count, ring>>

\* Mutant: the close of an end wakes the writers only.
CloseWakesWriters(p) ==
    /\ cpu = NULL /\ pc[p] = "idle" /\ p \in open
    /\ open' = open \ {p}
    /\ IF \E S \in {Reader, Writer} : p \in S /\ S \cap open = {p}
         THEN i_count' = i_count - 1 /\ pc' = WakeWriters(pc)
         ELSE UNCHANGED <<i_count, pc>>
    /\ UNCHANGED <<cpu, loc, sig, ring>>

(* sys_close: the last task that holds an end puts the inode. *)
Close(p) ==
    /\ cpu = NULL /\ pc[p] = "idle" /\ p \in open
    /\ open' = open \ {p}
    /\ IF \E S \in {Reader, Writer} : p \in S /\ S \cap open = {p}
         THEN i_count' = i_count - 1 /\ pc' = WakeWriters(WakeReaders(pc))
         ELSE UNCHANGED <<i_count, pc>>
    /\ UNCHANGED <<cpu, loc, sig, ring>>

(* A signal that is not blocked makes an interruptible sleeper runnable.   *)
Signal(p) ==
    /\ p \notin sig /\ pc[p] # "idle"
    /\ sig' = sig \cup {p}
    /\ pc' = [pc EXCEPT ![p] = IF @ = "rwait" THEN "rtest" ELSE IF @ = "wwait" THEN "wloop" ELSE @]
    /\ UNCHANGED <<cpu, loc, open, i_count, ring>>

Step(p) ==
    \/ ReadTest(p) \/ ReadPass(p) \/ ReadDone(p) \/ ReadByte(p)
    \/ WriteWait(p) \/ WritePass(p) \/ WriteDone(p) \/ WriteByte(p)

Next ==
    \/ \E p \in Reader, n \in Counts, nb \in BOOLEAN : StartRead(p, n, nb)
    \/ \E p \in Writer, n \in Counts : StartWrite(p, n)
    \/ \E p \in Proc : Step(p) \/ Fault(p) \/ Close(p) \/ Signal(p)

Spec == Init /\ [][Next]_vars

(* schedule() reaches every runnable task, and a page that is faulted on   *)
(* is read.                                                                *)
FairSpec == Spec /\ \A p \in Proc : SF_vars(Step(p))

-----------------------------------------------------------------------------
(* Properties *)

(* The bytes a reader has counted as its own and not copied yet are the    *)
(* ones of its place in the stream, inside the page: what "the number of   *)
(* bytes that can be read in this pass" (pipe.c:27) promises.              *)
ReadableBytes ==
    \A p \in Proc : pc[p] = "rcopy" =>
        \A i \in 0..loc[p].chars - 1 :
            /\ loc[p].at + i < PageSize
            /\ page[loc[p].at + i] = loc[p].pos + i

(* Every byte between tail and head is stored, in the order of the stream, *)
(* except those of the pass the running writer is still copying.           *)
InOrder ==
    \A k \in rpos..wpos - 1 :
        \/ page[(tail + (k - rpos)) % PageSize] = k
        \/ \E p \in Proc : cpu = p /\ pc[p] = "wcopy" /\ k >= loc[p].pos

(* Nobody sleeps for something that is there: when no task runs in the     *)
(* kernel or waits for a user page, a reader sleeps only on an empty pipe, *)
(* a writer only on a full one, and nobody once the other end is closed.   *)
SleepsForReason ==
    (cpu = NULL /\ \A p \in Proc : pc[p] \notin {"rcopy", "wcopy"}) => \A p \in Proc :
        /\ pc[p] = "rwait" => PIPE_SIZE = 0 /\ Writer \cap open # {}
        /\ pc[p] = "wwait" => Space = 0 /\ Reader \cap open # {}

(* After the writers have closed their end every read returns, and after   *)
(* the readers have closed theirs every write does.                        *)
EndIsSeen ==
    /\ \A p \in Reader : (Writer \cap open = {} /\ pc[p] # "idle") ~> (pc[p] = "idle")
    /\ \A p \in Writer : (Reader \cap open = {} /\ pc[p] # "idle") ~> (pc[p] = "idle")

=============================================================================
