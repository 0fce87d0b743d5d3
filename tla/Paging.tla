------------------------------- MODULE Paging -------------------------------
(***************************************************************************)
(* Memory and swap: mm/memory.c, mm/swap.c, and the parts of fork, exit    *)
(* and execve that build and drop page tables.                             *)
(*                                                                         *)
(* A task has one image page (page 1, filled from the executable) and one  *)
(* stack page (page 2, filled with zeros), each under a page table of its  *)
(* own.  All tasks run the same executable.  A task keeps the processor in *)
(* the kernel (cpu) until it sleeps in a transfer.                         *)
(*                                                                         *)
(* Page transfers are served in the order they are queued (add_request     *)
(* puts a page request behind the others), so a transfer reads and writes  *)
(* its data when it is queued; what takes time is the sleep.  The position *)
(* where swap_out goes on with its scan is left open.                      *)
(***************************************************************************)
EXTENDS Integers, FiniteSets, FiniteSetsExt

CONSTANTS Task, InitTask, NULL,
          NFrame,      \* page frames
          NSwap,       \* pages of the swap device
          StopAtRaces  \* the three races of the README end a behaviour

ASSUME TaskAssumption == InitTask \in Task /\ NULL \notin Task
ASSUME NrTasks == IsFiniteSet(Task) /\ Cardinality(Task) <= 64  \* NR_TASKS
ASSUME MemAssumption == NFrame \in Nat /\ NFrame >= 4 /\ NSwap \in Nat
ASSUME RaceAssumption == StopAtRaces \in BOOLEAN

Frame == 1..NFrame
Slot == 1..NSwap
Page == 1..2

None == [in |-> "none"]
Mem(f, w, d) == [in |-> "mem", f |-> f, w |-> w, d |-> d]
Swapped(s) == [in |-> "swap", s |-> s]
Entry == {None} \cup {Mem(f, w, d) : f \in Frame, w \in BOOLEAN, d \in BOOLEAN}
                \cup {Swapped(s) : s \in Slot}

(* Contents: a fresh page of zeros, a page of the executable, what a task  *)
(* has written to one of its pages.                                        *)
Value == {<<"zero">>, <<"image">>} \cup (Task \X Page)
FileOf(v) == IF v = 1 THEN <<"image">> ELSE <<"zero">>

VARIABLES cpu,        \* the task that runs in the kernel, or NULL
          pc, loc,    \* position and locals of each task
          dir,        \* page directory: the frame of the table of a page, or 0
          pte,        \* page table entries
          mem_map,    \* references to each frame
          data,       \* contents of the frames
          bitmap,     \* swap_bitmap: the frame it is in (0: no swapping) and the free pages
          sdata,      \* contents of the swap device
          expect,     \* what each task has last written to, or got for, its pages
          halted      \* a race has corrupted memory

vars == <<cpu, pc, loc, dir, pte, mem_map, data, bitmap, sdata, expect, halted>>

Idle == [v |-> 1, acc |-> "read", why |-> "none", page |-> 0, victim |-> 0, arg |-> 0, old |-> None,
         child |-> NULL, copied |-> FALSE]
\* v, acc: the page and how it is used; why: who has called get_free_page and gets page;
\* victim: the page being swapped out; arg: execve's arguments; old: the entry un_wp_page
\* has read; child: fork's child; copied: un_wp_page has made a copy not written to yet

Init ==
    /\ cpu = NULL /\ halted = FALSE
    /\ pc = [t \in Task |-> IF t = InitTask THEN "user" ELSE "dead"]
    /\ loc = [t \in Task |-> Idle]
    /\ dir = [t \in Task |-> [v \in Page |-> 0]]
    /\ pte = [t \in Task |-> [v \in Page |-> None]]
    /\ mem_map = [f \in Frame |-> 0]
    /\ data = [f \in Frame |-> <<"zero">>]
    /\ bitmap = [at |-> 0, free |-> {}]
    /\ sdata = [s \in Slot |-> <<"zero">>]
    /\ expect = [t \in Task |-> [v \in Page |-> FileOf(v)]]

Alive == {t \in Task : pc[t] # "dead"}
Present(t, v) == pte[t][v].in = "mem"

(* The task goes on in the kernel at p, sleeps at p, or leaves the kernel. *)
Goto(t, p) == pc' = [pc EXCEPT ![t] = p] /\ cpu' = t
Sleep(t, p) == pc' = [pc EXCEPT ![t] = p] /\ cpu' = NULL
Resume(t, p) == pc[t] = p /\ cpu = NULL
\* The program makes a system call: its code is in memory.
Calls(t) == Resume(t, "user") /\ Present(t, 1)

free_page(m, f) == IF m[f] = 0 THEN m ELSE [m EXCEPT ![f] = @ - 1]

-----------------------------------------------------------------------------
(* get_free_page: a caller stands at "get" and goes on at loc.why, with    *)
(* loc.page = 0 if there is no memory.                                     *)

Need(t, why, l) == loc' = [loc EXCEPT ![t] = [l EXCEPT !.why = why]] /\ Goto(t, "get")

Free == {f \in Frame : mem_map[f] = 0}

(* What try_to_swap_out takes *)
Candidates ==
    {x \in Task \X Page :
        LET e == pte[x[1]][x[2]] IN
        /\ e.in = "mem"
        /\ e.d => mem_map[e.f] = 1 /\ bitmap.at # 0 /\ bitmap.free # {}}

(* The last free frame, cleared *)
GetFreePage(t) ==
    /\ cpu = t /\ pc[t] = "get" /\ Free # {}
    /\ LET f == Max(Free) IN
         /\ mem_map' = [mem_map EXCEPT ![f] = 1]
         /\ data' = [data EXCEPT ![f] = <<"zero">>]
         /\ loc' = [loc EXCEPT ![t].page = f]
    /\ Goto(t, loc[t].why)
    /\ UNCHANGED <<dir, pte, bitmap, sdata, expect, halted>>

NoMemory(t) ==
    /\ cpu = t /\ pc[t] = "get" /\ Free = {} /\ Candidates = {}
    /\ Goto(t, loc[t].why)
    /\ UNCHANGED <<loc, dir, pte, mem_map, data, bitmap, sdata, expect, halted>>

(* try_to_swap_out of a clean page: it can be had again from the file. *)
SwapOutClean(t, u, v) ==
    /\ cpu = t /\ pc[t] = "get" /\ Free = {}
    /\ <<u, v>> \in Candidates /\ ~pte[u][v].d
    /\ pte' = [pte EXCEPT ![u][v] = None]
    /\ mem_map' = free_page(mem_map, pte[u][v].f)
    /\ halted' = (StopAtRaces /\ loc[u].copied /\ loc[u].v = v)
    /\ UNCHANGED <<cpu, pc, loc, dir, data, bitmap, sdata, expect>>

(* try_to_swap_out of a dirty page: the entry is changed, then the write   *)
(* sleeps, then the frame is freed.                                        *)
SwapOutDirty(t, u, v) ==
    /\ cpu = t /\ pc[t] = "get" /\ Free = {}
    /\ <<u, v>> \in Candidates /\ pte[u][v].d
    /\ LET nr == Min(bitmap.free)  f == pte[u][v].f IN
         /\ bitmap' = [bitmap EXCEPT !.free = @ \ {nr}]
         /\ pte' = [pte EXCEPT ![u][v] = Swapped(nr)]
         /\ sdata' = [sdata EXCEPT ![nr] = data[f]]
         /\ loc' = [loc EXCEPT ![t].victim = f]
    /\ Sleep(t, "swapwrite")
    /\ UNCHANGED <<dir, mem_map, data, expect, halted>>

SwapWritten(t) ==
    /\ Resume(t, "swapwrite")
    /\ mem_map' = free_page(mem_map, loc[t].victim)
    /\ loc' = [loc EXCEPT ![t].victim = 0]
    /\ Goto(t, "get")
    /\ UNCHANGED <<dir, pte, data, bitmap, sdata, expect, halted>>

-----------------------------------------------------------------------------
(* free_page_tables, do_exit, oom *)

InTables(f, t) ==
    Cardinality({v \in Page : dir[t][v] = f}) + Cardinality({v \in Page : Present(t, v) /\ pte[t][v].f = f})
SwapsOf(t) == {s \in Slot : \E v \in Page : pte[t][v] = Swapped(s)}

\* Mutant: the swap pages are kept.
free_page_tables_Leak(t) ==
    /\ mem_map' = [f \in Frame |-> IF mem_map[f] < InTables(f, t) THEN 0 ELSE mem_map[f] - InTables(f, t)]
    /\ UNCHANGED bitmap
    /\ dir' = [dir EXCEPT ![t] = [v \in Page |-> 0]]
    /\ pte' = [pte EXCEPT ![t] = [v \in Page |-> None]]

(* Frames are given up and swap pages set free; a count of 0 stays 0. *)
free_page_tables(t) ==
    /\ mem_map' = [f \in Frame |-> IF mem_map[f] < InTables(f, t) THEN 0 ELSE mem_map[f] - InTables(f, t)]
    /\ bitmap' = [bitmap EXCEPT !.free = @ \cup SwapsOf(t)]
    /\ dir' = [dir EXCEPT ![t] = [v \in Page |-> 0]]
    /\ pte' = [pte EXCEPT ![t] = [v \in Page |-> None]]

Die(t) ==
    /\ free_page_tables(t)
    /\ loc' = [loc EXCEPT ![t] = Idle]
    /\ expect' = [expect EXCEPT ![t] = [v \in Page |-> FileOf(v)]]
    /\ pc' = [pc EXCEPT ![t] = "dead"] /\ cpu' = NULL
    /\ UNCHANGED <<data, sdata, halted>>

Exit(t) == Calls(t) /\ Alive # {t} /\ Die(t)

(* A page fault that gets no memory *)
Oom(t) ==
    /\ cpu = t /\ pc[t] \in {"table", "anon", "image", "swapin", "cow"} /\ loc[t].page = 0
    /\ Die(t)

-----------------------------------------------------------------------------
(* Page faults *)

(* An instruction of the program uses a page, for the first time or, at    *)
(* "try", again after a page fault; so does the kernel on the program's    *)
(* behalf (put_fs_byte after verify_area).                                 *)
Using(t, v, a) ==
    \/ Resume(t, "user") /\ a # "kwrite"
    \/ Resume(t, "try") /\ loc[t].v = v /\ loc[t].acc = a
LocalsOf(t, v, a) == [Idle EXCEPT !.v = v, !.acc = a, !.copied = loc[t].copied]

Unprotect(t, v) ==
    /\ pte' = [pte EXCEPT ![t][v].w = TRUE]
    /\ Sleep(t, "try")

(* write_verify: the page is there and may not be written to. *)
Protected(t, v) == pte[t][v].in = "mem" /\ ~pte[t][v].w

(* verify_area: the kernel is about to write to the page, in *)
(* a moment or after a sleep; it ignores write protection when it does.    *)
Verify(t, v) ==
    LET e == pte[t][v]
        l == [Idle EXCEPT !.v = v, !.acc = "kwrite"] IN
    /\ Calls(t)
    /\ \/ /\ ~Protected(t, v)
          /\ loc' = [loc EXCEPT ![t] = l] /\ Sleep(t, "try") /\ UNCHANGED pte
       \/ /\ Protected(t, v) /\ mem_map[e.f] = 1
          /\ loc' = [loc EXCEPT ![t] = l] /\ Unprotect(t, v)
       \/ /\ Protected(t, v) /\ mem_map[e.f] # 1
          /\ Need(t, "cow", [l EXCEPT !.old = e]) /\ UNCHANGED pte
    /\ UNCHANGED <<dir, mem_map, data, bitmap, sdata, expect, halted>>

(* The access succeeds.  The processor sets the dirty bit. *)
Access(t, v, a) ==
    LET e == pte[t][v] IN
    /\ Using(t, v, a) /\ Present(t, v) /\ (a = "write" => e.w)
    /\ IF a = "read" THEN UNCHANGED <<pte, data, expect>>
         ELSE /\ pte' = [pte EXCEPT ![t][v].d = TRUE]
              /\ data' = [data EXCEPT ![e.f] = <<t, v>>]
              /\ expect' = [expect EXCEPT ![t][v] = <<t, v>>]
    /\ halted' = (StopAtRaces /\ a = "kwrite" /\ mem_map[e.f] # 1)
    /\ loc' = [loc EXCEPT ![t] = Idle]
    /\ Sleep(t, "user")
    /\ UNCHANGED <<dir, mem_map, bitmap, sdata>>

(* do_wp_page, un_wp_page *)
DoWpPage(t, v) ==
    LET e == pte[t][v]  l == LocalsOf(t, v, "write") IN
    /\ Using(t, v, "write") /\ Protected(t, v)
    /\ \/ mem_map[e.f] = 1 /\ loc' = [loc EXCEPT ![t] = l] /\ Unprotect(t, v)
       \/ mem_map[e.f] # 1 /\ Need(t, "cow", [l EXCEPT !.old = e]) /\ UNCHANGED pte
    /\ UNCHANGED <<dir, mem_map, data, bitmap, sdata, expect, halted>>

\* Mutant: the copy does not give up its reference to the old page.
CopyPageKept(t) ==
    LET l == loc[t] IN
    /\ cpu = t /\ pc[t] = "cow" /\ l.page # 0
    /\ data' = [data EXCEPT ![l.page] = data[l.old.f]]
    /\ pte' = [pte EXCEPT ![t][l.v] = Mem(l.page, TRUE, FALSE)]
    /\ halted' = (StopAtRaces /\ pte[t][l.v] # l.old)
    /\ loc' = [loc EXCEPT ![t] = [l EXCEPT !.page = 0, !.old = None, !.copied = TRUE]]
    /\ Sleep(t, "try")
    /\ UNCHANGED <<dir, mem_map, bitmap, sdata, expect>>

(* The end of un_wp_page.  The entry may have been swapped out while       *)
(* get_free_page slept; the code does not look at it again.                *)
CopyPage(t) ==
    LET l == loc[t] IN
    /\ cpu = t /\ pc[t] = "cow" /\ l.page # 0
    /\ mem_map' = [mem_map EXCEPT ![l.old.f] = (@ - 1) % 256]
    /\ data' = [data EXCEPT ![l.page] = data[l.old.f]]
    /\ pte' = [pte EXCEPT ![t][l.v] = Mem(l.page, TRUE, FALSE)]
    /\ halted' = (StopAtRaces /\ pte[t][l.v] # l.old)
    /\ loc' = [loc EXCEPT ![t] = [l EXCEPT !.page = 0, !.old = None, !.copied = TRUE]]
    /\ Sleep(t, "try")
    /\ UNCHANGED <<dir, bitmap, sdata, expect>>

(* do_no_page *)
DoNoPage(t, v, a) ==
    LET l == LocalsOf(t, v, a) IN
    /\ Using(t, v, a) /\ ~Present(t, v)
    /\ IF dir[t][v] = 0 THEN Need(t, "table", l)
       ELSE IF pte[t][v].in = "swap" THEN Need(t, "swapin", l)
       ELSE IF v = 1 THEN Goto(t, "share") /\ loc' = [loc EXCEPT ![t] = l]
       ELSE Need(t, "anon", l)
    /\ UNCHANGED <<dir, pte, mem_map, data, bitmap, sdata, expect, halted>>

NewTable(t) ==
    LET l == loc[t] IN
    /\ cpu = t /\ pc[t] = "table" /\ l.page # 0
    /\ dir' = [dir EXCEPT ![t][l.v] = l.page]
    /\ IF l.v = 1 THEN loc' = [loc EXCEPT ![t].page = 0] /\ Goto(t, "share")
                  ELSE Need(t, "anon", [l EXCEPT !.page = 0])
    /\ UNCHANGED <<pte, mem_map, data, bitmap, sdata, expect, halted>>

(* put_page *)
PutPage(t, dirty) ==
    /\ pte' = [pte EXCEPT ![t][loc[t].v] = Mem(loc[t].page, TRUE, dirty)]
    /\ loc' = [loc EXCEPT ![t].page = 0]
    /\ Sleep(t, "try")

(* get_empty_page *)
GetEmptyPage(t) ==
    /\ cpu = t /\ pc[t] = "anon" /\ loc[t].page # 0
    /\ PutPage(t, FALSE)
    /\ UNCHANGED <<dir, mem_map, data, bitmap, sdata, expect, halted>>

Sharers(t) == {p \in Alive \ {t} : Present(p, 1) /\ ~pte[p][1].d}

(* share_page, try_to_share: a clean page of the executable, made read-    *)
(* only for both                                                           *)
SharePage(t, p) ==
    /\ cpu = t /\ pc[t] = "share" /\ p \in Sharers(t)
    /\ LET f == pte[p][1].f IN
         /\ pte' = [pte EXCEPT ![p][1].w = FALSE, ![t][1] = Mem(f, FALSE, FALSE)]
         /\ mem_map' = [mem_map EXCEPT ![f] = @ + 1]
    /\ halted' = (StopAtRaces /\ loc[p].copied /\ loc[p].v = 1)
    /\ Sleep(t, "try")
    /\ UNCHANGED <<loc, dir, data, bitmap, sdata, expect>>

NotShared(t) ==
    /\ cpu = t /\ pc[t] = "share" /\ Sharers(t) = {}
    /\ Need(t, "image", loc[t])
    /\ UNCHANGED <<dir, pte, mem_map, data, bitmap, sdata, expect, halted>>

(* bread_page sleeps with the page in nobody's table. *)
BreadPage(t) ==
    /\ cpu = t /\ pc[t] = "image" /\ loc[t].page # 0
    /\ data' = [data EXCEPT ![loc[t].page] = <<"image">>]
    /\ Sleep(t, "imageread")
    /\ UNCHANGED <<loc, dir, pte, mem_map, bitmap, sdata, expect, halted>>

ImageRead(t) ==
    /\ Resume(t, "imageread")
    /\ PutPage(t, FALSE)
    /\ UNCHANGED <<dir, mem_map, data, bitmap, sdata, expect, halted>>

SwapIn(t) ==
    LET l == loc[t] IN
    /\ cpu = t /\ pc[t] = "swapin" /\ l.page # 0
    /\ data' = [data EXCEPT ![l.page] = sdata[pte[t][l.v].s]]
    /\ Sleep(t, "swapread")
    /\ UNCHANGED <<loc, dir, pte, mem_map, bitmap, sdata, expect, halted>>

(* The end of swap_in: the swap page is free, the page is the only copy. *)
SwapRead(t) ==
    /\ Resume(t, "swapread")
    /\ bitmap' = [bitmap EXCEPT !.free = @ \cup {pte[t][loc[t].v].s}]
    /\ PutPage(t, TRUE)
    /\ UNCHANGED <<dir, mem_map, data, sdata, expect, halted>>

-----------------------------------------------------------------------------
(* fork: copy_page_tables, table by table *)

(* The next page to copy; the child runs when there is none. *)
CopyNext(t, l) ==
    LET c == l.child
        later == {v \in Page : v >= l.v /\ dir[t][v] # 0} IN
    IF later = {}
      THEN /\ pc' = [pc EXCEPT ![t] = "user", ![c] = "user"] /\ cpu' = NULL
           /\ loc' = [loc EXCEPT ![t] = Idle]
           /\ expect' = [expect EXCEPT ![c] = expect[t]]
      ELSE /\ loc' = [loc EXCEPT ![t] = [l EXCEPT !.v = Min(later), !.why = "copytable", !.page = 0]]
           /\ pc' = [pc EXCEPT ![t] = "get", ![c] = "born"] /\ cpu' = t
           /\ UNCHANGED expect

Fork(t, c) ==
    /\ Calls(t) /\ pc[c] = "dead"
    /\ CopyNext(t, [Idle EXCEPT !.child = c])
    /\ UNCHANGED <<dir, pte, mem_map, data, bitmap, sdata, halted>>

\* Mutant: the parent may go on writing to a page it shares with its child.
CopyTableWritable(t) ==
    LET l == loc[t]  c == l.child  v == l.v  e == pte[t][v] IN
    /\ cpu = t /\ pc[t] = "copytable" /\ l.page # 0 /\ e.in # "swap"
    /\ dir' = [dir EXCEPT ![c][v] = l.page]
    /\ IF e.in = "none" THEN UNCHANGED <<pte, mem_map>>
         ELSE /\ pte' = [pte EXCEPT ![c][v] = Mem(e.f, FALSE, e.d)]
              /\ mem_map' = [mem_map EXCEPT ![e.f] = @ + 1]
    /\ CopyNext(t, [l EXCEPT !.v = v + 1])
    /\ UNCHANGED <<data, bitmap, sdata, halted>>

(* A page in memory is shared, read-only for both. *)
CopyTable(t) ==
    LET l == loc[t]  c == l.child  v == l.v  e == pte[t][v] IN
    /\ cpu = t /\ pc[t] = "copytable" /\ l.page # 0 /\ e.in # "swap"
    /\ dir' = [dir EXCEPT ![c][v] = l.page]
    /\ IF e.in = "none" THEN UNCHANGED <<pte, mem_map>>
         ELSE /\ pte' = [pte EXCEPT ![t][v].w = FALSE, ![c][v] = Mem(e.f, FALSE, e.d)]
              /\ mem_map' = [mem_map EXCEPT ![e.f] = @ + 1]
    /\ CopyNext(t, [l EXCEPT !.v = v + 1])
    /\ UNCHANGED <<data, bitmap, sdata, halted>>

(* A page that is swapped out is read for the parent; the child gets the   *)
(* swap page.                                                              *)
CopySwapped(t) ==
    LET l == loc[t] IN
    /\ cpu = t /\ pc[t] = "copytable" /\ l.page # 0 /\ pte[t][l.v].in = "swap"
    /\ dir' = [dir EXCEPT ![l.child][l.v] = l.page]
    /\ Need(t, "copyswap", [l EXCEPT !.page = 0])
    /\ UNCHANGED <<pte, mem_map, data, bitmap, sdata, expect, halted>>

ReadSwapped(t) ==
    LET l == loc[t] IN
    /\ cpu = t /\ pc[t] = "copyswap" /\ l.page # 0
    /\ data' = [data EXCEPT ![l.page] = sdata[pte[t][l.v].s]]
    /\ Sleep(t, "copyread")
    /\ UNCHANGED <<loc, dir, pte, mem_map, bitmap, sdata, expect, halted>>

CopyRead(t) ==
    LET l == loc[t] IN
    /\ Resume(t, "copyread")
    /\ pte' = [pte EXCEPT ![l.child][l.v] = pte[t][l.v], ![t][l.v] = Mem(l.page, TRUE, TRUE)]
    /\ CopyNext(t, [l EXCEPT !.v = @ + 1])
    /\ UNCHANGED <<dir, mem_map, data, bitmap, sdata, halted>>

(* copy_mem gives up what has been copied. *)
ForkFail(t) ==
    LET c == loc[t].child IN
    /\ cpu = t /\ pc[t] \in {"copytable", "copyswap"} /\ loc[t].page = 0
    /\ free_page_tables(c)
    /\ pc' = [pc EXCEPT ![t] = "user", ![c] = "dead"] /\ cpu' = NULL
    /\ loc' = [loc EXCEPT ![t] = Idle]
    /\ UNCHANGED <<data, sdata, expect, halted>>

-----------------------------------------------------------------------------
(* execve: the arguments go to a new page, the old memory is given up, and *)
(* put_dirty_page enters the page at the top of the stack.  Its result is  *)
(* not looked at, but memory for the table has just been given up.         *)
Execve(t) ==
    /\ Calls(t)
    /\ Need(t, "copystrings", Idle)
    /\ UNCHANGED <<dir, pte, mem_map, data, bitmap, sdata, expect, halted>>

ExecFail(t) ==
    /\ cpu = t /\ pc[t] = "copystrings" /\ loc[t].page = 0
    /\ loc' = [loc EXCEPT ![t] = Idle] /\ Sleep(t, "user")
    /\ UNCHANGED <<dir, pte, mem_map, data, bitmap, sdata, expect, halted>>

ExecTables(t) ==
    LET a == loc[t].page IN
    /\ cpu = t /\ pc[t] = "copystrings" /\ a # 0
    /\ free_page_tables(t)
    /\ data' = [data EXCEPT ![a] = <<t, 2>>]
    /\ expect' = [expect EXCEPT ![t] = [v \in Page |-> FileOf(v)]]
    /\ Need(t, "argtable", [Idle EXCEPT !.arg = a])
    /\ UNCHANGED <<sdata, halted>>

PutDirtyPage(t) ==
    LET l == loc[t] IN
    /\ cpu = t /\ pc[t] = "argtable" /\ l.page # 0
    /\ dir' = [dir EXCEPT ![t][2] = l.page]
    /\ pte' = [pte EXCEPT ![t][2] = Mem(l.arg, TRUE, TRUE)]
    /\ expect' = [expect EXCEPT ![t][2] = <<t, 2>>]
    /\ loc' = [loc EXCEPT ![t] = Idle] /\ Sleep(t, "user")
    /\ UNCHANGED <<mem_map, data, bitmap, sdata, halted>>

-----------------------------------------------------------------------------
(* sys_swapon *)
SwapOn(t) ==
    /\ Calls(t) /\ bitmap.at = 0
    /\ \A u \in Task : loc[u].why # "bitmap"
    /\ Need(t, "bitmap", Idle)
    /\ UNCHANGED <<dir, pte, mem_map, data, bitmap, sdata, expect, halted>>

SwapOnDone(t) ==
    /\ cpu = t /\ pc[t] = "bitmap"
    /\ bitmap' = IF loc[t].page = 0 THEN bitmap ELSE [at |-> loc[t].page, free |-> Slot]
    /\ loc' = [loc EXCEPT ![t] = Idle] /\ Sleep(t, "user")
    /\ UNCHANGED <<dir, pte, mem_map, data, sdata, expect, halted>>

-----------------------------------------------------------------------------
Next ==
    /\ ~halted
    /\ \E t \in Task :
         \/ GetFreePage(t) \/ NoMemory(t) \/ SwapWritten(t)
         \/ \E u \in Task, v \in Page : SwapOutClean(t, u, v) \/ SwapOutDirty(t, u, v)
         \/ Exit(t) \/ Oom(t)
         \/ \E v \in Page, a \in {"read", "write", "kwrite"} : Access(t, v, a) \/ DoNoPage(t, v, a)
         \/ \E v \in Page : Verify(t, v) \/ DoWpPage(t, v)
         \/ CopyPage(t) \/ NewTable(t) \/ GetEmptyPage(t) \/ NotShared(t)
         \/ \E p \in Task : SharePage(t, p) \/ Fork(t, p)
         \/ BreadPage(t) \/ ImageRead(t) \/ SwapIn(t) \/ SwapRead(t)
         \/ CopyTable(t) \/ CopySwapped(t) \/ ReadSwapped(t) \/ CopyRead(t) \/ ForkFail(t)
         \/ Execve(t) \/ ExecFail(t) \/ ExecTables(t) \/ PutDirtyPage(t)
         \/ SwapOn(t) \/ SwapOnDone(t)

Spec == Init /\ [][Next]_vars

-----------------------------------------------------------------------------
Callers == {"table", "anon", "image", "swapin", "cow", "copytable", "copyswap",
            "copystrings", "argtable", "bitmap"}
Locals == [v : 1..3, acc : {"read", "write", "kwrite"}, why : Callers \cup {"none"}, page : 0..NFrame, victim : 0..NFrame,
           arg : 0..NFrame, old : Entry, child : Task \cup {NULL}, copied : BOOLEAN]

(* Types: counts stay below 256 and table entries are of the three kinds. *)
TypeOK ==
    /\ cpu \in Task \cup {NULL} /\ halted \in BOOLEAN
    /\ DOMAIN pc = Task /\ loc \in [Task -> Locals]
    /\ dir \in [Task -> [Page -> 0..NFrame]]
    /\ pte \in [Task -> [Page -> Entry]]
    /\ mem_map \in [Frame -> 0..255] /\ data \in [Frame -> Value]
    /\ bitmap \in [at : 0..NFrame, free : SUBSET Slot] /\ sdata \in [Slot -> Value]
    /\ expect \in [Task -> [Page -> Value]]

(* References to a frame: table entries, tables, and what tasks hold       *)
References(f) ==
    Cardinality({x \in Task \X Page : dir[x[1]][x[2]] = f})
    + Cardinality({x \in Task \X Page : Present(x[1], x[2]) /\ pte[x[1]][x[2]].f = f})
    + Cardinality({t \in Task : loc[t].page = f}) + Cardinality({t \in Task : loc[t].victim = f})
    + Cardinality({t \in Task : loc[t].arg = f}) + (IF bitmap.at = f THEN 1 ELSE 0)

(* mem_map counts the references to every frame exactly, through forks     *)
(* that fail half-way, sharing, copying, swapping and running out of       *)
(* memory: a count too small lets a frame be given away while it is used,  *)
(* one too large loses it for ever.  Up to the races of the README.        *)
CountsExact == halted \/ \A f \in Frame : mem_map[f] = References(f)

(* A page of the swap device is in use by exactly one table entry, or free *)
(* in the bitmap, through swapping in and out, forks that read a page back *)
(* and tasks that die.  Up to the races of the README.                     *)
SwapOwned ==
    halted \/ bitmap.at = 0 \/ \A s \in Slot :
        Cardinality({x \in Task \X Page : pte[x[1]][x[2]] = Swapped(s)})
            = (IF s \in bitmap.free THEN 0 ELSE 1)

(* What a page access would find, in memory, on the swap device or in the  *)
(* file                                                                    *)
Contents(t, v) ==
    CASE pte[t][v].in = "mem" -> data[pte[t][v].f]
      [] pte[t][v].in = "swap" -> sdata[pte[t][v].s]
      [] OTHER -> FileOf(v)

(* A task finds in its memory what it has written there or inherited, and  *)
(* nothing that another task has written: sharing, copy on write and swap  *)
(* are invisible to it.  Up to the races of the README.                    *)
DataIntact ==
    halted \/ \A t \in Task, v \in Page : pc[t] # "born" => Contents(t, v) = expect[t][v]

=============================================================================
