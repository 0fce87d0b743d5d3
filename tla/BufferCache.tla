---------------------------- MODULE BufferCache ----------------------------
(***************************************************************************)
(* The buffer cache (fs/buffer.c), the request slots of the block layer    *)
(* (kernel/blk_drv/ll_rw_blk.c, end_request of blk.h) and the callers that *)
(* read and write blocks through them (fs/block_dev.c, fs/file_dev.c).     *)
(*                                                                         *)
(* Tasks are not preempted in the kernel: a task keeps the processor (cpu) *)
(* until it blocks, and only the disk interrupt (Complete) comes between   *)
(* its steps.  A wait for b_lock is a wait for the condition, as the loops *)
(* of wait_on_buffer and lock_buffer re-test it and module WaitQueue shows *)
(* that no wake-up is lost; the waits on buffer_wait and wait_for_request  *)
(* are waits for the wake_up call itself.                                  *)
(*                                                                         *)
(* The hash chains are abstracted to "the buffer with this block", and the *)
(* content of a block to whether it is the last one written to it.         *)
(***************************************************************************)
EXTENDS Naturals, Sequences, FiniteSets

CONSTANTS Proc,       \* the tasks that use the cache
          Block,      \* the blocks of the disk
          Buf,        \* the buffer heads
          NReq,       \* NR_REQUEST
          NULL,
          Ops,        \* the system calls the tasks make
          AheadLen,   \* how many blocks breada reads ahead
          MayFault,   \* copying to or from user space may sleep in a fault
          MayFail     \* the disk may report errors

AllOps == {"block_read", "block_write", "block_write_full",
           "file_read", "file_write", "sys_sync", "ll_rw_page"}

ASSUME NullAssumption == NULL \notin Proc \cup Block \cup Buf \cup AllOps
ASSUME NullRequest == NULL \notin [cmd : {"r", "w", "p"}, buf : Buf \cup Proc]
ASSUME ProcAssumption == IsFiniteSet(Proc)
ASSUME BufAssumption == IsFiniteSet(Buf) /\ Buf # {}
ASSUME ReqAssumption == NReq \in Nat /\ (NReq * 2) \div 3 > 0
ASSUME ParamAssumption ==
    /\ Ops \subseteq AllOps
    /\ AheadLen \in Nat
    /\ MayFault \in BOOLEAN
    /\ MayFail \in BOOLEAN

VARIABLES cpu,      \* the task that runs in the kernel, NULL when none does
          pc,       \* where each task stands
          loc,      \* its local variables
          id,       \* b_dev and b_blocknr: a block, NULL for b_dev = 0
          count,    \* b_count
          dirt,     \* b_dirt
          lock,     \* b_lock
          upto,     \* b_uptodate
          ring,     \* the free list, from free_list on
          req,      \* the request slots, NULL when free (dev < 0)
          bcur,     \* does b_data hold what was last written to its block?
          dcur,     \* does the disk?
          damaged   \* blocks on which a write has failed

heads == <<id, count, dirt, lock, upto, ring>>
data == <<bcur, dcur, damaged>>
vars == <<cpu, pc, loc, heads, req, data>>

NBuf == Cardinality(Buf)

(* The locals of a call: the call, the block asked for and those to read   *)
(* ahead, the buffer it works on, the one getblk has in hand, and the turn *)
(* and the buffer of a scan or of sync_buffers.                            *)
Locs(op, blk, todo, left, sb, pass) ==
    [op |-> op, blk |-> blk, todo |-> todo, bh |-> NULL, cand |-> NULL,
     left |-> left, sb |-> sb, pass |-> pass]

NoLoc == Locs(NULL, NULL, <<>>, 0, NULL, 0)

(* Task p moves from a to b.  It has or takes the processor, and gives it  *)
(* up when it sleeps at b.                                                 *)
Move(p, a, b, sleeps) ==
    /\ pc[p] = a
    /\ cpu \in {NULL, p}
    /\ cpu' = IF sleeps THEN NULL ELSE p
    /\ pc' = [pc EXCEPT ![p] = b]

Goto(p, a, b) == Move(p, a, b, FALSE)
Sleep(p, a, b) == Move(p, a, b, TRUE)

(* Task p goes on at b with wait_on_buffer(x). *)
Wait(p, a, b, x) == Move(p, a, b, lock[x])

(* Task p is at a, in wait_on_buffer(x), and x is not locked. *)
Unlocked(p, a, x) == pc[p] = a /\ ~lock[x]

(* Assignments to the locals of task p *)
SetCand(p, x) == loc' = [loc EXCEPT ![p].cand = x]
SetScan(p, x, n) == loc' = [loc EXCEPT ![p].cand = x, ![p].left = n]
SetSync(p, k, n, y) == loc' = [loc EXCEPT ![p].pass = k, ![p].left = n, ![p].sb = y]
SetBh(p, x) == loc' = [loc EXCEPT ![p].bh = x, ![p].cand = NULL]
SetBlk(p, b, t) == loc' = [loc EXCEPT ![p].blk = b, ![p].todo = t]

Init ==
    /\ cpu = NULL
    /\ pc = [p \in Proc |-> "idle"]
    /\ loc = [p \in Proc |-> NoLoc]
    /\ id = [x \in Buf |-> NULL]
    /\ count = [x \in Buf |-> 0]
    /\ dirt = [x \in Buf |-> FALSE]
    /\ lock = [x \in Buf |-> FALSE]
    /\ upto = [x \in Buf |-> FALSE]
    /\ ring \in {s \in [1..NBuf -> Buf] : {s[i] : i \in 1..NBuf} = Buf}
    /\ req = [i \in 1..NReq |-> NULL]
    /\ bcur = [x \in Buf |-> FALSE]
    /\ dcur = [b \in Block |-> TRUE]
    /\ damaged = {}

-----------------------------------------------------------------------------
(* Operators on the free list and the request slots *)

Index(x) == CHOOSE i \in 1..NBuf : ring[i] = x
NextFree(x) == ring[1 + (Index(x) % NBuf)]

(* put_last_free, and remove_from_queues followed by insert_into_queues *)
ToEnd(x) == [i \in 1..NBuf |-> IF i = NBuf THEN x
                              ELSE IF i < Index(x) THEN ring[i] ELSE ring[i + 1]]

(* find_buffer *)
Found(b) == {x \in Buf : id[x] = b}

(* The slots make_request searches, from the last one down: all of them    *)
(* for a read or a page, the lower two thirds for a write.                 *)
SlotsFor(cmd) == 1..(IF cmd = "w" THEN (NReq * 2) \div 3 ELSE NReq)
FreeSlots(cmd) == {i \in SlotsFor(cmd) : req[i] = NULL}
IsSlot(i, cmd) == i \in FreeSlots(cmd) /\ \A j \in FreeSlots(cmd) : j <= i

(* add_request: the slot is filled and b_dirt cleared. *)
AddRequest(cmd, x) ==
    /\ \E i \in 1..NReq : IsSlot(i, cmd) /\ req' = [req EXCEPT ![i] = [cmd |-> cmd, buf |-> x]]
    /\ dirt' = [dirt EXCEPT ![x] = FALSE]

\* Mutant: make_request goes on with a locked buffer it is asked to read ahead.
RequestAheadLocked(cmd, x) ==
    IF FreeSlots(cmd) = {} \/ (cmd = "w" /\ ~dirt[x]) \/ (cmd = "r" /\ upto[x])
      THEN UNCHANGED <<req, dirt, lock>>
      ELSE AddRequest(cmd, x) /\ lock' = [lock EXCEPT ![x] = TRUE]

(* make_request with READA or WRITEA: it never sleeps, and does nothing    *)
(* when the buffer is locked, needs no transfer or finds no slot.          *)
RequestAhead(cmd, x) ==
    IF lock[x] \/ FreeSlots(cmd) = {} \/ (cmd = "w" /\ ~dirt[x]) \/ (cmd = "r" /\ upto[x])
      THEN UNCHANGED <<req, dirt, lock>>
      ELSE AddRequest(cmd, x) /\ lock' = [lock EXCEPT ![x] = TRUE]

-----------------------------------------------------------------------------
(* getblk *)

(* get_hash_table up to its wait, or the start of the scan of the free     *)
(* list when the block has no buffer.                                      *)
GetHashTable(p) ==
    \/ /\ pc[p] = "find"
       /\ \E x \in Found(loc[p].blk) :
            /\ Wait(p, "find", "hashwait", x)
            /\ SetCand(p, x)
            /\ count' = [count EXCEPT ![x] = @ + 1]
       /\ UNCHANGED <<id, dirt, lock, upto, ring, req, data>>
    \/ /\ Goto(p, "find", "scan")
       /\ Found(loc[p].blk) = {}
       /\ SetScan(p, NULL, NBuf + 1)
       /\ UNCHANGED <<heads, req, data>>

(* get_hash_table after its wait *)
HashWait(p) ==
    LET x == loc[p].cand IN
    /\ Unlocked(p, "hashwait", x)
    /\ IF id[x] = loc[p].blk
         THEN /\ Goto(p, "hashwait", "got")
              /\ ring' = ToEnd(x)
              /\ UNCHANGED <<loc, count>>
         ELSE /\ Goto(p, "hashwait", "find")
              /\ count' = [count EXCEPT ![x] = @ - 1]
              /\ SetCand(p, NULL)
              /\ UNCHANGED ring
    /\ UNCHANGED <<id, dirt, lock, upto, req, data>>

Badness(x) == (IF dirt[x] THEN 2 ELSE 0) + (IF lock[x] THEN 1 ELSE 0)

(* One turn of the scan: tmp is the next buffer of the ring, from the one  *)
(* after free_list on, NR_BUFFERS + 1 times.  The scan ends at the first   *)
(* free buffer with badness 0; dirty free buffers met before are written   *)
(* ahead.                                                                  *)
Scan(p) ==
    LET l == loc[p]
        tmp == ring[1 + ((NBuf + 2 - l.left) % NBuf)]
        better == count[tmp] = 0 /\ (l.cand = NULL \/ Badness(tmp) < Badness(l.cand))
        best == IF better THEN tmp ELSE l.cand
        done == (better /\ Badness(tmp) = 0) \/ l.left = 1
    IN
    /\ pc[p] = "scan"
    /\ IF count[tmp] = 0 /\ dirt[tmp]
         THEN RequestAhead("w", tmp)
         ELSE UNCHANGED <<req, dirt, lock>>
    /\ IF done
         THEN \/ best = NULL /\ Sleep(p, "scan", "nobuf")
              \/ best # NULL /\ Move(p, "scan", "candwait", lock'[best])
         ELSE Goto(p, "scan", "scan")
    /\ SetScan(p, best, IF done THEN 0 ELSE l.left - 1)
    /\ UNCHANGED <<id, count, upto, ring, data>>

(* The buffer found is unlocked: it is taken unless the wait has made it   *)
(* busy or dirty, or brought the block into the cache.                     *)
Retry(p) ==
    /\ count[loc[p].cand] > 0 \/ (~dirt[loc[p].cand] /\ Found(loc[p].blk) # {})
    /\ Goto(p, "candwait", "find")
    /\ SetCand(p, NULL)
    /\ UNCHANGED <<heads, req, data>>

(* sync_dev(bh->b_dev): two passes of sync_buffers *)
SyncDev(p) ==
    /\ count[loc[p].cand] = 0 /\ dirt[loc[p].cand]
    /\ Wait(p, "candwait", "syncwait", ring[1])
    /\ SetSync(p, 2, NBuf, ring[1])
    /\ UNCHANGED <<heads, req, data>>

\* Mutant: getblk does not look for the block again after its wait.
ClaimUnseen(p) ==
    LET x == loc[p].cand IN
    /\ count[x] = 0 /\ ~dirt[x]
    /\ Goto(p, "candwait", "got")
    /\ count' = [count EXCEPT ![x] = 1]
    /\ upto' = [upto EXCEPT ![x] = FALSE]
    /\ id' = [id EXCEPT ![x] = loc[p].blk]
    /\ ring' = ToEnd(x)
    /\ bcur' = [bcur EXCEPT ![x] = FALSE]
    /\ UNCHANGED <<loc, dirt, lock, req, dcur, damaged>>

\* Mutant: getblk does not test b_count again after its wait.
ClaimBusy(p) ==
    LET x == loc[p].cand IN
    /\ ~dirt[x] /\ Found(loc[p].blk) = {}
    /\ Goto(p, "candwait", "got")
    /\ count' = [count EXCEPT ![x] = 1]
    /\ upto' = [upto EXCEPT ![x] = FALSE]
    /\ id' = [id EXCEPT ![x] = loc[p].blk]
    /\ ring' = ToEnd(x)
    /\ bcur' = [bcur EXCEPT ![x] = FALSE]
    /\ UNCHANGED <<loc, dirt, lock, req, dcur, damaged>>

\* Mutant: getblk takes a dirty buffer.
ClaimDirty(p) ==
    LET x == loc[p].cand IN
    /\ count[x] = 0 /\ Found(loc[p].blk) = {}
    /\ Goto(p, "candwait", "got")
    /\ count' = [count EXCEPT ![x] = 1]
    /\ dirt' = [dirt EXCEPT ![x] = FALSE]
    /\ upto' = [upto EXCEPT ![x] = FALSE]
    /\ id' = [id EXCEPT ![x] = loc[p].blk]
    /\ ring' = ToEnd(x)
    /\ bcur' = [bcur EXCEPT ![x] = FALSE]
    /\ UNCHANGED <<loc, lock, req, dcur, damaged>>

\* Mutant: getblk leaves b_uptodate as it was for the old block.
ClaimUptodate(p) ==
    LET x == loc[p].cand IN
    /\ count[x] = 0 /\ ~dirt[x] /\ Found(loc[p].blk) = {}
    /\ Goto(p, "candwait", "got")
    /\ count' = [count EXCEPT ![x] = 1]
    /\ id' = [id EXCEPT ![x] = loc[p].blk]
    /\ ring' = ToEnd(x)
    /\ bcur' = [bcur EXCEPT ![x] = FALSE]
    /\ UNCHANGED <<loc, dirt, lock, upto, req, dcur, damaged>>

Claim(p) ==
    LET x == loc[p].cand IN
    /\ count[x] = 0 /\ ~dirt[x] /\ Found(loc[p].blk) = {}
    /\ Goto(p, "candwait", "got")
    /\ count' = [count EXCEPT ![x] = 1]
    /\ upto' = [upto EXCEPT ![x] = FALSE]
    /\ id' = [id EXCEPT ![x] = loc[p].blk]
    /\ ring' = ToEnd(x)
    /\ bcur' = [bcur EXCEPT ![x] = FALSE]
    /\ UNCHANGED <<loc, dirt, lock, req, dcur, damaged>>

CandWait(p) == Unlocked(p, "candwait", loc[p].cand) /\ (Retry(p) \/ SyncDev(p) \/ Claim(p))

-----------------------------------------------------------------------------
(* make_request with READ or WRITE *)

Target(p, cmd) == IF cmd = "r" THEN loc[p].bh ELSE loc[p].sb
At(cmd, w) ==
    IF cmd = "r"
      THEN [lock |-> "rlock", slot |-> "rslot", wait |-> "rslotwait", done |-> "ahead"][w]
      ELSE [lock |-> "wlock", slot |-> "wslot", wait |-> "wslotwait", done |-> "syncnext"][w]

(* lock_buffer, then back at once when no transfer is needed *)
LockBuffer(p, cmd) ==
    LET x == Target(p, cmd) IN
    /\ Unlocked(p, At(cmd, "lock"), x)
    /\ IF (cmd = "w" /\ ~dirt[x]) \/ (cmd = "r" /\ upto[x])
         THEN Goto(p, At(cmd, "lock"), At(cmd, "done")) /\ UNCHANGED lock
         ELSE Goto(p, At(cmd, "lock"), At(cmd, "slot")) /\ lock' = [lock EXCEPT ![x] = TRUE]
    /\ UNCHANGED <<loc, id, count, dirt, upto, ring, req, data>>

MakeRequest(p, cmd) ==
    \/ /\ Goto(p, At(cmd, "slot"), At(cmd, "done"))
       /\ AddRequest(cmd, Target(p, cmd))
       /\ UNCHANGED <<loc, id, count, lock, upto, ring, data>>
    \/ /\ FreeSlots(cmd) = {}
       /\ Sleep(p, At(cmd, "slot"), At(cmd, "wait"))
       /\ UNCHANGED <<loc, heads, req, data>>

(* ll_rw_page (and each block of ll_rw_swap_file): a request without a     *)
(* buffer head, for which the task sleeps until it is done.  Without a free *)
(* slot it sleeps too, but interrupts are not masked from the search on.   *)
PageRequest(p) ==
    \/ /\ Sleep(p, "pslot", "pwait")
       /\ \E i \in 1..NReq : IsSlot(i, "p") /\ req' = [req EXCEPT ![i] = [cmd |-> "p", buf |-> p]]
       /\ UNCHANGED <<loc, heads, data>>
    \/ /\ FreeSlots("p") = {}
       /\ Goto(p, "pslot", "pslotgap")
       /\ UNCHANGED <<loc, heads, req, data>>
    \/ /\ Sleep(p, "pslotgap", "pslotwait")
       /\ UNCHANGED <<loc, heads, req, data>>

-----------------------------------------------------------------------------
(* sync_buffers *)

SyncWait(p) ==
    LET x == loc[p].sb IN
    /\ Unlocked(p, "syncwait", x)
    /\ Goto(p, "syncwait", IF dirt[x] THEN "wlock" ELSE "syncnext")
    /\ UNCHANGED <<loc, heads, req, data>>

(* bh = bh->b_next_free, NR_BUFFERS times; then the second pass of         *)
(* sync_dev, back to getblk, or the end of sys_sync                        *)
SyncNext(p) ==
    LET l == loc[p] IN
    \/ /\ l.left > 1
       /\ Wait(p, "syncnext", "syncwait", NextFree(l.sb))
       /\ SetSync(p, l.pass, l.left - 1, NextFree(l.sb))
       /\ UNCHANGED <<heads, req, data>>
    \/ /\ l.left = 1 /\ l.pass = 2
       /\ Wait(p, "syncnext", "syncwait", ring[1])
       /\ SetSync(p, 1, NBuf, ring[1])
       /\ UNCHANGED <<heads, req, data>>
    \/ /\ l.left = 1 /\ l.pass = 1
       /\ IF l.op = "sys_sync"
            THEN Sleep(p, "syncnext", "idle") /\ loc' = [loc EXCEPT ![p] = NoLoc]
            ELSE /\ Wait(p, "syncnext", "candwait", l.cand)
                 /\ SetSync(p, 0, 0, NULL)
       /\ UNCHANGED <<heads, req, data>>

-----------------------------------------------------------------------------
(* bread, breada and their callers *)

AheadOps == {"block_read", "block_write"}

(* A system call asks for block b (and the blocks a ahead of it). *)
Start(p, op, b, a) ==
    /\ op \notin {"sys_sync", "ll_rw_page"}
    /\ \A i, j \in DOMAIN a : a[i] # b /\ (a[i] = a[j] => i = j)
    /\ Len(a) = IF op \in AheadOps THEN AheadLen ELSE 0
    /\ Goto(p, "idle", "find")
    /\ loc' = [loc EXCEPT ![p] = Locs(op, b, a, 0, NULL, 0)]
    /\ UNCHANGED <<heads, req, data>>

StartSync(p) ==
    /\ Wait(p, "idle", "syncwait", ring[1])
    /\ loc' = [loc EXCEPT ![p] = Locs("sys_sync", NULL, <<>>, NBuf, ring[1], 1)]
    /\ UNCHANGED <<heads, req, data>>

StartPage(p) ==
    /\ Goto(p, "idle", "pslot")
    /\ loc' = [loc EXCEPT ![p] = Locs("ll_rw_page", NULL, <<>>, 0, NULL, 0)]
    /\ UNCHANGED <<heads, req, data>>

(* getblk has returned the block asked for first: it is read unless it is  *)
(* up to date or will be overwritten as a whole.                           *)
GotFirst(p) ==
    LET x == loc[p].cand IN
    /\ pc[p] = "got" /\ loc[p].bh = NULL
    /\ IF loc[p].op = "block_write_full"
         THEN Move(p, "got", "copy", MayFault)
         ELSE IF upto[x] THEN Goto(p, "got", "ahead") ELSE Wait(p, "got", "rlock", x)
    /\ SetBh(p, x)
    /\ UNCHANGED <<heads, req, data>>

\* Mutant: breada keeps the blocks it reads ahead.
GotAheadKept(p) ==
    LET x == loc[p].cand IN
    /\ pc[p] = "got" /\ loc[p].bh # NULL
    /\ Goto(p, "got", "ahead")
    /\ RequestAhead("r", x)
    /\ SetCand(p, NULL)
    /\ UNCHANGED <<id, count, upto, ring, data>>

(* breada has a block to read ahead: READA, then tmp->b_count--. *)
GotAhead(p) ==
    LET x == loc[p].cand IN
    /\ pc[p] = "got" /\ loc[p].bh # NULL
    /\ Goto(p, "got", "ahead")
    /\ RequestAhead("r", x)
    /\ count' = [count EXCEPT ![x] = @ - 1]
    /\ SetCand(p, NULL)
    /\ UNCHANGED <<id, upto, ring, data>>

Ahead(p) ==
    LET l == loc[p] IN
    \/ /\ l.todo # <<>>
       /\ Goto(p, "ahead", "find")
       /\ SetBlk(p, Head(l.todo), Tail(l.todo))
       /\ UNCHANGED <<heads, req, data>>
    \/ /\ l.todo = <<>>
       /\ Wait(p, "ahead", "rdwait", l.bh)
       /\ UNCHANGED <<loc, heads, req, data>>

(* wait_on_buffer, then the block is used, or given back after an error.   *)
(* file_write marks the buffer dirty before it copies.                     *)
ReadWait(p) ==
    LET x == loc[p].bh
        writes == loc[p].op \in {"block_write", "file_write"} IN
    /\ Unlocked(p, "rdwait", x)
    /\ IF upto[x] /\ writes THEN Move(p, "rdwait", "copy", MayFault)
                            ELSE Move(p, "rdwait", "rel", upto[x] /\ MayFault)
    /\ dirt' = IF upto[x] /\ loc[p].op = "file_write" THEN [dirt EXCEPT ![x] = TRUE] ELSE dirt
    /\ UNCHANGED <<loc, id, count, lock, upto, ring, req, data>>

(* The bytes have been copied into the buffer: the disk is behind.         *)
(* block_write marks the buffer dirty now.                                 *)
Copy(p) ==
    LET x == loc[p].bh IN
    /\ Wait(p, "copy", "rel", x)
    /\ bcur' = [bcur EXCEPT ![x] = TRUE]
    /\ dcur' = [dcur EXCEPT ![id[x]] = FALSE]
    /\ dirt' = IF loc[p].op = "file_write" THEN dirt ELSE [dirt EXCEPT ![x] = TRUE]
    /\ UNCHANGED <<loc, id, count, lock, upto, ring, req, damaged>>

\* Mutant: brelse does not wake the tasks that wait for a free buffer.
BrelseSilent(p) ==
    LET x == loc[p].bh IN
    /\ Unlocked(p, "rel", x)
    /\ cpu \in {NULL, p}
    /\ cpu' = NULL
    /\ pc' = [pc EXCEPT ![p] = "idle"]
    /\ count' = [count EXCEPT ![x] = @ - 1]
    /\ loc' = [loc EXCEPT ![p] = NoLoc]
    /\ UNCHANGED <<id, dirt, lock, upto, ring, req, data>>

(* brelse: b_count-- and wake_up(&buffer_wait) *)
Brelse(p) ==
    LET x == loc[p].bh IN
    /\ Unlocked(p, "rel", x)
    /\ cpu \in {NULL, p}
    /\ cpu' = NULL
    /\ pc' = [q \in Proc |-> IF q = p THEN "idle"
                             ELSE IF pc[q] = "nobuf" THEN "find" ELSE pc[q]]
    /\ count' = [count EXCEPT ![x] = @ - 1]
    /\ loc' = [loc EXCEPT ![p] = NoLoc]
    /\ UNCHANGED <<id, dirt, lock, upto, ring, req, data>>

-----------------------------------------------------------------------------
(* The disk interrupt: end_request(ok) for a request in the queue.  The    *)
(* order in which the elevator serves them is left open.                   *)

Woken(p) == IF pc[p] = "rslotwait" THEN "rslot"
            ELSE IF pc[p] = "wslotwait" THEN "wslot"
            ELSE IF pc[p] = "pslotwait" THEN "pslot" ELSE pc[p]

(* What the disk holds after a write: the buffer's content, or what it was *)
(* before a task changed it during the transfer and marked it dirty again. *)
Written(x) == {bcur[x]} \cup (IF dirt[x] THEN {FALSE} ELSE {})

\* A request of ll_rw_page: its task wakes up.
PageDone(r) ==
    /\ r.cmd = "p"
    /\ pc' = [p \in Proc |-> IF p = r.buf THEN "idle" ELSE Woken(p)]
    /\ loc' = [loc EXCEPT ![r.buf] = NoLoc]
    /\ UNCHANGED <<upto, lock, data>>

\* A request of make_request: b_uptodate = ok, unlock_buffer.
BlockDone(r, ok) ==
    /\ r.cmd \in {"r", "w"}
    /\ pc' = [p \in Proc |-> Woken(p)]
    /\ upto' = [upto EXCEPT ![r.buf] = ok]
    /\ lock' = [lock EXCEPT ![r.buf] = FALSE]
    /\ IF r.cmd = "r"
         THEN /\ bcur' = [bcur EXCEPT ![r.buf] = ok /\ dcur[id[r.buf]]]
              /\ UNCHANGED <<dcur, damaged>>
         ELSE /\ \E c \in Written(r.buf) : dcur' = [dcur EXCEPT ![id[r.buf]] = ok /\ c]
              /\ damaged' = IF ok THEN damaged ELSE damaged \cup {id[r.buf]}
              /\ UNCHANGED bcur
    /\ UNCHANGED loc

Complete(i, ok) ==
    /\ req[i] # NULL
    /\ ok \/ MayFail
    /\ PageDone(req[i]) \/ BlockDone(req[i], ok)
    /\ req' = [req EXCEPT ![i] = NULL]
    /\ UNCHANGED <<cpu, id, count, dirt, ring>>

-----------------------------------------------------------------------------
Aheads == UNION {[1..n -> Block] : n \in {0, AheadLen}}

(* A task makes a system call. *)
Enter(p) ==
    \/ \E op \in Ops, b \in Block, a \in Aheads : Start(p, op, b, a)
    \/ "sys_sync" \in Ops /\ StartSync(p)
    \/ "ll_rw_page" \in Ops /\ StartPage(p)

(* A task goes on with the call it is in. *)
Step(p) ==
    \/ GetHashTable(p) \/ HashWait(p) \/ Scan(p) \/ CandWait(p)
    \/ \E cmd \in {"r", "w"} : LockBuffer(p, cmd) \/ MakeRequest(p, cmd)
    \/ PageRequest(p)
    \/ SyncWait(p) \/ SyncNext(p)
    \/ GotFirst(p) \/ GotAhead(p) \/ Ahead(p)
    \/ ReadWait(p) \/ Copy(p) \/ Brelse(p)

Next ==
    \/ \E p \in Proc : Enter(p) \/ Step(p)
    \/ \E i \in 1..NReq, ok \in BOOLEAN : Complete(i, ok)

Spec == Init /\ [][Next]_vars

\* schedule() gives every runnable task a turn, and the disk answers every
\* request, with a result or an error.
FairSpec ==
    /\ Spec
    /\ \A p \in Proc : SF_vars(Step(p))
    /\ \A i \in 1..NReq : WF_vars(\E ok \in BOOLEAN : Complete(i, ok))

-----------------------------------------------------------------------------
(* Properties *)

Locals == [op : AllOps \cup {NULL}, blk : Block \cup {NULL}, todo : Seq(Block),
           bh : Buf \cup {NULL}, cand : Buf \cup {NULL}, left : 0..(NBuf + 1),
           sb : Buf \cup {NULL}, pass : 0..2]

Request == [cmd : {"r", "w"}, buf : Buf] \cup [cmd : {"p"}, buf : Proc] \cup {NULL}

PCs == {"idle", "find", "hashwait", "scan", "nobuf", "candwait", "got", "rlock", "rslot",
        "rslotwait", "wlock", "wslot", "wslotwait", "pslot", "pslotgap", "pslotwait",
        "pwait", "syncwait", "syncnext", "ahead", "rdwait", "copy", "rel"}

TypeOK ==
    /\ cpu \in Proc \cup {NULL}
    /\ pc \in [Proc -> PCs]
    /\ loc \in [Proc -> Locals]
    /\ id \in [Buf -> Block \cup {NULL}]
    /\ count \in [Buf -> Nat]
    /\ dirt \in [Buf -> BOOLEAN]
    /\ lock \in [Buf -> BOOLEAN]
    /\ upto \in [Buf -> BOOLEAN]
    /\ ring \in [1..NBuf -> Buf]
    /\ req \in [1..NReq -> Request]
    /\ bcur \in [Buf -> BOOLEAN]
    /\ dcur \in [Block -> BOOLEAN]
    /\ damaged \subseteq Block

(***************************************************************************)
(* A block has at most one buffer, although getblk sleeps between looking  *)
(* for the block and giving it a buffer: otherwise two tasks could change  *)
(* two copies of it.                                                       *)
(***************************************************************************)
UniqueBuffer == \A x, y \in Buf : id[x] = id[y] /\ id[x] # NULL => x = y

\* The references tasks hold on buffer x: the one they work on, and the one
\* get_hash_table or getblk has just given them.
Users(x) == {p \in Proc : loc[p].bh = x}
Takers(x) == {p \in Proc : pc[p] \in {"hashwait", "got"} /\ loc[p].cand = x}

(***************************************************************************)
(* b_count is exactly the number of references tasks hold, through every   *)
(* retry and error path: brelse never panics with "Trying to free free     *)
(* buffer", no buffer in use is given away and none stays in use forever.  *)
(***************************************************************************)
RefCount == \A x \in Buf : count[x] = Cardinality(Users(x)) + Cardinality(Takers(x))

(***************************************************************************)
(* A buffer keeps its block while a task works on it: what bread and       *)
(* getblk returned is still the block asked for after every sleep.         *)
(***************************************************************************)
HeldIsWanted ==
    \A p \in Proc : pc[p] \in {"hashwait", "got"} => id[loc[p].cand] = loc[p].blk

\* What a task's position says of its local variables.
ReadOps == AllOps \ {"sys_sync", "ll_rw_page"}
InGetblk == {"find", "hashwait", "scan", "nobuf", "candwait", "got"}
InSync == {"syncwait", "syncnext", "wlock", "wslot", "wslotwait"}
InPage == {"pslot", "pslotgap", "pslotwait", "pwait"}
HasBh == {"rlock", "rslot", "rslotwait", "ahead", "rdwait", "copy", "rel"}

StandsWell(p) ==
    LET l == loc[p] IN
    /\ pc[p] = "idle" => l.op = NULL
    /\ pc[p] \in InPage => l.op = "ll_rw_page"
    /\ pc[p] \in InSync => l.sb \in Buf /\ l.op \in ReadOps \cup {"sys_sync"}
    /\ pc[p] \in InGetblk \cup HasBh => l.op \in ReadOps
    /\ l.op \in ReadOps => l.blk \in Block
    /\ l.op \notin ReadOps => l.bh = NULL
    /\ pc[p] \in HasBh => l.bh \in Buf
    /\ pc[p] \in {"hashwait", "candwait", "got"} => l.cand \in Buf
    /\ pc[p] \in InSync /\ l.op \in ReadOps => l.cand \in Buf
    /\ pc[p] = "scan" => l.left > 0

Standing == \A p \in Proc : StandsWell(p)

\* A buffer that is used, dirty or in a request has a block.
Assigned ==
    /\ \A p \in Proc : loc[p].bh # NULL => id[loc[p].bh] # NULL
    /\ \A p \in Proc : pc[p] \in {"wslot", "wslotwait"} => id[loc[p].sb] # NULL
    /\ \A x \in Buf : dirt[x] => id[x] # NULL
    /\ \A i \in 1..NReq : req[i] # NULL /\ req[i].cmd # "p" => id[req[i].buf] # NULL

\* A page request belongs to a task that waits for it.
PagesWaitedFor ==
    \A i \in 1..NReq : req[i] # NULL /\ req[i].cmd = "p" =>
        /\ pc[req[i].buf] = "pwait"
        /\ \A j \in 1..NReq : req[j] = req[i] => j = i

\* Every buffer is on the free list.
RingComplete == \A x \in Buf : \E i \in 1..NBuf : ring[i] = x

(***************************************************************************)
(* The inductive invariant behind UniqueBuffer, RefCount and HeldIsWanted. *)
(***************************************************************************)
CacheInv == /\ TypeOK
            /\ UniqueBuffer
            /\ RefCount
            /\ HeldIsWanted
            /\ Standing
            /\ Assigned
            /\ PagesWaitedFor
            /\ RingComplete

(* The requests for a buffer, and the tasks that have locked it and not    *)
(* found a slot yet.                                                       *)
Requests(x) == {i \in 1..NReq : req[i] # NULL /\ req[i].cmd # "p" /\ req[i].buf = x}
Lockers(x) == {p \in Proc : \E cmd \in {"r", "w"} :
                 pc[p] \in {At(cmd, "slot"), At(cmd, "wait")} /\ Target(p, cmd) = x}

(***************************************************************************)
(* b_lock and the request queue agree: a queued request has its buffer     *)
(* locked (else the driver panics with "block not locked"), no two         *)
(* requests are for one buffer, and a locked buffer is being transferred   *)
(* or waits with its owner for a slot: nobody waits for an unlock that     *)
(* does not come.                                                          *)
(***************************************************************************)
LockedIsBusy ==
    \A x \in Buf : Cardinality(Requests(x)) + Cardinality(Lockers(x))
                       = IF lock[x] THEN 1 ELSE 0

(***************************************************************************)
(* What was last written to a block is on the disk, or in a buffer of the  *)
(* block that is dirty or being written; it is not lost by eviction, by    *)
(* reading over it or by a transfer that overlaps the change.              *)
(***************************************************************************)
NoLostWrite ==
    \A b \in Block \ damaged :
        \/ dcur[b]
        \/ \E x \in Buf : /\ id[x] = b /\ bcur[x]
                          /\ dirt[x] \/ \E i \in Requests(x) : req[i].cmd = "w"

(***************************************************************************)
(* A buffer that is up to date holds what was last written to its block.   *)
(***************************************************************************)
UptodateIsCurrent ==
    \A x \in Buf : upto[x] /\ id[x] \notin damaged => bcur[x]

(***************************************************************************)
(* getblk says of a task that found no buffer "I sleep; when there is a    *)
(* free bh, please wake me": nobody sleeps on buffer_wait while a buffer   *)
(* is free.                                                                *)
(***************************************************************************)
WokenWhenFree == (\E p \in Proc : pc[p] = "nobuf") => \A x \in Buf : count[x] > 0

(***************************************************************************)
(* Once no new call is made, every call ends: nobody is left waiting for a *)
(* buffer, a lock, a request slot or a transfer (wake_up(&buffer_wait) in  *)
(* brelse, unlock_buffer and wake_up(&wait_for_request) in end_request).   *)
(***************************************************************************)
CallsEnd ==
    <>[][\A p \in Proc : pc[p] = "idle" => pc'[p] = "idle"]_vars
        => <>[](\A p \in Proc : pc[p] = "idle")

=============================================================================
