----------------------------- MODULE PipeProofs -----------------------------
(***************************************************************************)
(* Proofs about module Pipe, for any number of readers and writers and any *)
(* page size: nobody sleeps for something that is there, and the bytes     *)
(* between tail and head are those of the stream, in order, as long as no  *)
(* writer sleeps in the middle of a copy.                                  *)
(***************************************************************************)
EXTENDS Pipe, TLAPS

Places == {"idle", "rtest", "rwait", "rloop", "rcopy", "wloop", "wwait", "wcopy"}
Locals == [count : Nat, chars : Nat, at : Nat, pos : Nat]

(* The variables have their types: head and tail stay inside the page. *)
TypeOK ==
    /\ cpu \in Proc \cup {NULL}
    /\ pc \in [Proc -> Places]
    /\ loc \in [Proc -> Locals]
    /\ sig \subseteq Proc /\ open \subseteq Proc
    /\ head \in 0..PageSize - 1 /\ tail \in 0..PageSize - 1
    /\ page \in [0..PageSize - 1 -> Int]
    /\ wpos \in Nat /\ rpos \in Nat

(* Readers read, writers write, and a copy at hand has bytes left. *)
Roles ==
    \A p \in Proc :
        /\ pc[p] \in {"rtest", "rwait", "rloop", "rcopy"} => p \in Reader
        /\ pc[p] \in {"wloop", "wwait", "wcopy"} => p \in Writer
        /\ pc[p] \in {"rcopy", "wcopy"} => loc[p].chars > 0

(* i_count is the number of ends that are open. *)
Ends ==
    i_count = (IF Reader \cap open = {} THEN 0 ELSE 1) + (IF Writer \cap open = {} THEN 0 ELSE 1)

(* Who sleeps on a pipe that has what he waits for is woken by a task that *)
(* is still at work: one that copies, or the one that runs.                *)
Waiting ==
    \A p \in Proc :
        /\ pc[p] = "rwait" =>
              /\ i_count = 2
              /\ PIPE_SIZE = 0 \/ \E q \in Proc : pc[q] = "wcopy" \/ (cpu = q /\ pc[q] = "wloop")
        /\ pc[p] = "wwait" =>
              /\ i_count = 2
              /\ Space = 0 \/ \E q \in Proc : pc[q] = "rcopy" \/ (cpu = q /\ pc[q] = "rloop")

PipeInv == TypeOK /\ Roles /\ Ends /\ Waiting

(* head stands wpos - rpos bytes after tail, around the end of the page,   *)
(* and the ring is never full to the last byte.                            *)
RingStands ==
    /\ rpos <= wpos /\ wpos - rpos <= PageSize - 1
    /\ head \in {tail + (wpos - rpos), tail + (wpos - rpos) - PageSize}

(* A writer that copies has the processor, and its pass is the last part   *)
(* of the stream, in one piece of the page.                                *)
WriterAtWork ==
    \A p \in Proc : pc[p] = "wcopy" =>
        /\ cpu = p
        /\ loc[p].pos >= rpos /\ loc[p].pos + loc[p].chars = wpos
        /\ loc[p].at + loc[p].chars <= PageSize
        /\ loc[p].at \in {tail + (loc[p].pos - rpos), tail + (loc[p].pos - rpos) - PageSize}

StreamInv == RingStands /\ WriterAtWork /\ InOrder

(* A reader that copies has the processor. *)
ReaderAtWork == \A p \in Proc : pc[p] = "rcopy" => cpu = p

-----------------------------------------------------------------------------
(***************************************************************************)
(* The helpers: the smallest of three numbers, what one pass may move, and *)
(* what the wake-ups do.                                                   *)
(***************************************************************************)
LEMMA MinOfThree ==
    ASSUME NEW a \in Int, NEW b \in Int, NEW c \in Int
    PROVE  LET m == Min({a, b, c}) IN m \in {a, b, c} /\ m <= a /\ m <= b /\ m <= c
<1> DEFINE S == {a, b, c}
<1>1. \E x \in S : \A y \in S : x <= y
  <2>1. CASE a <= b /\ a <= c
    BY <2>1
  <2>2. CASE b <= a /\ b <= c
    BY <2>2
  <2>3. CASE c <= a /\ c <= b
    BY <2>3
  <2> QED
    BY <2>1, <2>2, <2>3
<1>2. Min(S) \in S /\ \A y \in S : Min(S) <= y
  BY <1>1 DEF Min
<1> QED
  BY <1>2

(* The fill of the pipe and the space left. *)
LEMMA SizeType ==
    ASSUME TypeOK
    PROVE  /\ PIPE_SIZE \in 0..PageSize - 1
           /\ Space \in 0..PageSize - 1 /\ Space = (PageSize - 1) - PIPE_SIZE
<1>1. (head - tail) % PageSize \in 0..PageSize - 1
  BY PageAssumption DEF TypeOK
<1> QED
  BY <1>1, PageAssumption DEF PIPE_SIZE, Space

(* A pass reads at least one byte, not beyond the page, and no more than   *)
(* asked for.                                                              *)
LEMMA ReadCharsType ==
    ASSUME TypeOK, NEW p \in Proc, loc[p].count > 0, PIPE_SIZE # 0
    PROVE  LET c == ReadChars(p) IN
           c \in Nat /\ c > 0 /\ c <= PageSize - tail /\ c <= loc[p].count /\ c <= PIPE_SIZE
<1>1. PageSize - tail \in Int /\ PageSize - tail > 0 /\ loc[p].count \in Int
  BY PageAssumption DEF TypeOK, Locals
<1>2. PIPE_SIZE \in Int /\ PIPE_SIZE > 0
  BY SizeType
<1>3. /\ ReadChars(p) \in {PageSize - tail, loc[p].count, PIPE_SIZE}
      /\ ReadChars(p) <= PageSize - tail /\ ReadChars(p) <= loc[p].count /\ ReadChars(p) <= PIPE_SIZE
  BY <1>1, <1>2, MinOfThree, Zenon DEF ReadChars
<1> QED
  BY <1>1, <1>2, <1>3

LEMMA WriteCharsType ==
    ASSUME TypeOK, NEW p \in Proc, loc[p].count > 0, Space # 0
    PROVE  LET c == WriteChars(p) IN
           c \in Nat /\ c > 0 /\ c <= PageSize - head /\ c <= loc[p].count /\ c <= Space
<1>1. PageSize - head \in Int /\ PageSize - head > 0 /\ loc[p].count \in Int
  BY PageAssumption DEF TypeOK, Locals
<1>2. Space \in Int /\ Space > 0
  BY SizeType, PageAssumption
<1>3. /\ WriteChars(p) \in {PageSize - head, loc[p].count, Space}
      /\ WriteChars(p) <= PageSize - head /\ WriteChars(p) <= loc[p].count /\ WriteChars(p) <= Space
  BY <1>1, <1>2, MinOfThree, Zenon DEF WriteChars
<1> QED
  BY <1>1, <1>2, <1>3

(* The locals after a byte. *)
LEMMA ByteLocals ==
    ASSUME NEW f \in [Proc -> Locals], NEW p \in Proc, f[p].chars > 0
    PROVE  LET g == [f EXCEPT ![p].chars = @ - 1, ![p].at = @ + 1, ![p].pos = @ + 1]
           IN  /\ g \in [Proc -> Locals]
               /\ g[p].chars = f[p].chars - 1 /\ g[p].at = f[p].at + 1 /\ g[p].pos = f[p].pos + 1
               /\ \A q \in Proc \ {p} : g[q] = f[q]
<1> DEFINE g == [f EXCEPT ![p].chars = @ - 1, ![p].at = @ + 1, ![p].pos = @ + 1]
           a == f[p].chars - 1
           c == f[p].at + 1
           d == f[p].pos + 1
           h == [f EXCEPT ![p].chars = a, ![p].at = c, ![p].pos = d]
<1>1. g = h
  BY DEF Locals
<1>2. a \in Nat /\ c \in Nat /\ d \in Nat
  BY DEF Locals
<1> HIDE DEF a, c, d
<1>3. /\ h \in [Proc -> Locals] /\ h[p].chars = a /\ h[p].at = c /\ h[p].pos = d
      /\ \A q \in Proc \ {p} : h[q] = f[q]
  BY <1>2 DEF Locals
<1> QED
  BY <1>1, <1>3 DEF a, c, d

(* A wake-up leaves no sleeper and moves nobody else. *)
LEMMA WakeType ==
    ASSUME TypeOK
    PROVE  /\ WakeReaders(pc) \in [Proc -> Places]
           /\ WakeWriters(pc) \in [Proc -> Places]
           /\ \A q \in Proc : WakeReaders(pc)[q] = IF pc[q] = "rwait" THEN "rtest" ELSE pc[q]
           /\ \A q \in Proc : WakeWriters(pc)[q] = IF pc[q] = "wwait" THEN "wloop" ELSE pc[q]
  BY DEF TypeOK, WakeReaders, WakeWriters, Places

(* head and tail after a pass of c bytes that ends inside the page. *)
LEMMA Advance ==
    ASSUME NEW x \in 0..PageSize - 1, NEW c \in Nat, c > 0, c <= PageSize - x
    PROVE  /\ (x + c) % PageSize \in 0..PageSize - 1
           /\ (x + c) % PageSize = IF x + c = PageSize THEN 0 ELSE x + c
  BY PageAssumption

(* The fill in terms of the distance d between head and tail. *)
LEMMA Distance ==
    ASSUME NEW d \in 0..PageSize - 1
    PROVE  d % PageSize = d /\ (d - PageSize) % PageSize = d /\ (d + PageSize) % PageSize = d
  BY PageAssumption

-----------------------------------------------------------------------------
(***************************************************************************)
(* Nobody sleeps for something that is there.  One lemma per action.       *)
(***************************************************************************)
LEMMA InitPipe == Init => PipeInv
<1> SUFFICES ASSUME Init PROVE PipeInv
  OBVIOUS
<1>1. TypeOK
  BY PageAssumption DEF Init, TypeOK, Places, Locals, NoLoc
<1>2. Roles /\ Waiting
  BY DEF Init, Roles, Waiting
<1>3. Ends
  BY PipeNames DEF Init, Ends, Proc
<1> QED
  BY <1>1, <1>2, <1>3 DEF PipeInv

(* A call begins. *)
LEMMA StartKeeps ==
    ASSUME PipeInv, NEW p \in Proc, NEW n \in Counts,
           \/ p \in Reader /\ \E nb \in BOOLEAN : StartRead(p, n, nb)
           \/ p \in Writer /\ StartWrite(p, n)
    PROVE  PipeInv'
<1> DEFINE call == [NoLoc EXCEPT !.count = n]
<1>1. /\ cpu = NULL /\ cpu' = p /\ pc[p] = "idle"
      /\ \E b \in {"rloop", "rtest", "wloop"} :
            /\ pc' = [pc EXCEPT ![p] = b]
            /\ b \in {"rloop", "rtest"} => p \in Reader
            /\ b = "wloop" => p \in Writer
      /\ loc' = [loc EXCEPT ![p] = call]
      /\ sig' = sig /\ open' = open /\ i_count' = i_count
      /\ head' = head /\ tail' = tail /\ page' = page /\ wpos' = wpos /\ rpos' = rpos
  BY DEF StartRead, StartWrite, ring
<1>2. call \in Locals
  BY PipeBounds DEF NoLoc, Locals
<1>3. TypeOK'
  BY <1>1, <1>2 DEF PipeInv, TypeOK, Places
<1>4. Roles'
  BY <1>1 DEF PipeInv, TypeOK, Roles
<1>5. Ends'
  BY <1>1 DEF PipeInv, Ends
<1>6. Waiting'
  BY <1>1, PipeNames DEF PipeInv, TypeOK, Waiting, PIPE_SIZE, Space
<1> QED
  BY <1>3, <1>4, <1>5, <1>6 DEF PipeInv

(* A reader wakes the writers and then returns or sleeps. *)
LEMMA WritersWoken ==
    ASSUME PipeInv, NEW p \in Proc, pc[p] \in {"rtest", "rloop"}, Run(p), cpu' = NULL,
           NEW b \in {"idle", "rwait"}, pc' = [WakeWriters(pc) EXCEPT ![p] = b],
           b = "rwait" => i_count = 2 /\ PIPE_SIZE = 0,
           loc' \in [Proc -> Locals], \A q \in Proc \ {p} : loc'[q] = loc[q],
           sig' \subseteq Proc, UNCHANGED <<open, i_count, ring>>
    PROVE  PipeInv'
<1>1. /\ pc' \in [Proc -> Places]
      /\ \A q \in Proc : pc'[q] = IF q = p THEN b ELSE IF pc[q] = "wwait" THEN "wloop" ELSE pc[q]
  BY WakeType DEF PipeInv, Places
<1>2. TypeOK'
  BY <1>1 DEF PipeInv, TypeOK, ring
<1>3. Roles'
  BY <1>1 DEF PipeInv, Roles
<1>4. Ends'
  BY DEF PipeInv, Ends
<1>5. Waiting'
  BY <1>1, PipeNames DEF PipeInv, Waiting, PIPE_SIZE, Run, ring
<1> QED
  BY <1>2, <1>3, <1>4, <1>5 DEF PipeInv

(* A writer wakes the readers and then returns or sleeps. *)
LEMMA ReadersWoken ==
    ASSUME PipeInv, NEW p \in Proc, pc[p] = "wloop", Run(p), cpu' = NULL,
           NEW b \in {"idle", "wwait"}, pc' = [WakeReaders(pc) EXCEPT ![p] = b],
           b = "wwait" => i_count = 2 /\ Space = 0,
           loc' \in [Proc -> Locals], \A q \in Proc \ {p} : loc'[q] = loc[q],
           sig' \subseteq Proc, UNCHANGED <<open, i_count, ring>>
    PROVE  PipeInv'
<1>1. /\ pc' \in [Proc -> Places]
      /\ \A q \in Proc : pc'[q] = IF q = p THEN b ELSE IF pc[q] = "rwait" THEN "rtest" ELSE pc[q]
  BY WakeType DEF PipeInv, Places
<1>2. TypeOK'
  BY <1>1 DEF PipeInv, TypeOK, ring
<1>3. Roles'
  BY <1>1 DEF PipeInv, Roles
<1>4. Ends'
  BY DEF PipeInv, Ends
<1>5. Waiting'
  BY <1>1, PipeNames DEF PipeInv, Waiting, PIPE_SIZE, Space, Run, ring
<1> QED
  BY <1>2, <1>3, <1>4, <1>5 DEF PipeInv

(* The locals of a task that returns *)
LEMMA ReturnLocals ==
    ASSUME PipeInv, NEW p \in Proc, NEW f, NEW S, S \subseteq Proc, Return(p, f, S)
    PROVE  loc' \in [Proc -> Locals] /\ (\A q \in Proc \ {p} : loc'[q] = loc[q]) /\ sig' \subseteq Proc
  BY DEF Return, PipeInv, TypeOK, NoLoc, Locals

LEMMA ReadTestKeeps == ASSUME PipeInv, NEW p \in Proc, ReadTest(p) PROVE PipeInv'
<1>1. /\ pc[p] = "rtest" /\ Run(p) /\ UNCHANGED <<open, i_count, ring>> /\ sig \subseteq Proc
  BY DEF ReadTest, PipeInv, TypeOK
<1>2. CASE cpu' = p /\ pc' = [pc EXCEPT ![p] = "rloop"] /\ loc' = loc /\ sig' = sig
  <2>1. TypeOK'
    BY <1>1, <1>2 DEF PipeInv, TypeOK, Places, ring
  <2>2. Roles'
    BY <1>1, <1>2 DEF PipeInv, TypeOK, Roles
  <2>3. Ends'
    BY <1>1, <1>2 DEF PipeInv, Ends
  <2>4. Waiting'
    BY <1>1, <1>2, PipeNames DEF PipeInv, TypeOK, Waiting, PIPE_SIZE, Space, Run, ring
  <2> QED
    BY <2>1, <2>2, <2>3, <2>4 DEF PipeInv
<1>3. CASE Return(p, WakeWriters(pc), sig)
  BY <1>1, <1>3, WritersWoken, ReturnLocals DEF Return
<1>4. CASE PIPE_SIZE = 0 /\ i_count = 2 /\ Sleep(p, WakeWriters(pc), "rwait")
  BY <1>1, <1>4, WritersWoken DEF Sleep, PipeInv, TypeOK
<1> QED
  BY <1>2, <1>3, <1>4 DEF ReadTest

LEMMA ReadDoneKeeps == ASSUME PipeInv, NEW p \in Proc, ReadDone(p) PROVE PipeInv'
<1>1. sig \subseteq Proc
  BY DEF PipeInv, TypeOK
<1> QED
  BY <1>1, WritersWoken, ReturnLocals DEF ReadDone, Return

LEMMA WriteWaitKeeps == ASSUME PipeInv, NEW p \in Proc, WriteWait(p) PROVE PipeInv'
<1>1. sig \subseteq Proc /\ sig \cup {p} \subseteq Proc
  BY DEF PipeInv, TypeOK
<1>2. /\ pc[p] = "wloop" /\ Run(p) /\ Space = 0 /\ UNCHANGED <<open, i_count, ring>>
  BY DEF WriteWait
<1>3. ASSUME NEW S, S \subseteq Proc, Return(p, WakeReaders(pc), S) PROVE PipeInv'
  BY <1>2, <1>3, ReadersWoken, ReturnLocals DEF Return
<1>4. CASE i_count = 2 /\ Sleep(p, WakeReaders(pc), "wwait")
  BY <1>2, <1>4, ReadersWoken DEF Sleep, PipeInv, TypeOK
<1> QED
  BY <1>1, <1>3, <1>4 DEF WriteWait

LEMMA WriteDoneKeeps == ASSUME PipeInv, NEW p \in Proc, WriteDone(p) PROVE PipeInv'
<1>1. sig \subseteq Proc
  BY DEF PipeInv, TypeOK
<1> QED
  BY <1>1, ReadersWoken, ReturnLocals DEF WriteDone, Return

LEMMA ReadPassKeeps == ASSUME PipeInv, NEW p \in Proc, ReadPass(p) PROVE PipeInv'
<1>1. /\ pc[p] = "rloop" /\ Run(p) /\ loc[p].count > 0 /\ PIPE_SIZE # 0 /\ cpu' = p
      /\ pc' = [pc EXCEPT ![p] = "rcopy"]
      /\ UNCHANGED <<sig, open, i_count, head, page, wpos>>
  BY DEF ReadPass
<1>2. ReadChars(p) \in Nat /\ ReadChars(p) > 0 /\ ReadChars(p) <= PageSize - tail /\ ReadChars(p) <= loc[p].count
  BY <1>1, ReadCharsType DEF PipeInv
<1>3. tail' \in 0..PageSize - 1 /\ rpos' \in Nat
  BY <1>2, Advance DEF ReadPass, PipeInv, TypeOK
<1>4. loc' \in [Proc -> Locals] /\ loc'[p].chars > 0 /\ \A q \in Proc \ {p} : loc'[q] = loc[q]
  <2>1. loc \in [Proc -> Locals] /\ tail \in Nat /\ rpos \in Nat
    BY DEF PipeInv, TypeOK
  <2> DEFINE m == loc[p].count - ReadChars(p)
  <2>2. m \in Nat /\ loc' = [loc EXCEPT ![p].count = m, ![p].chars = ReadChars(p), ![p].at = tail, ![p].pos = rpos]
    <3>1. loc[p] \in Locals /\ m \in Nat
      BY <1>2, <2>1 DEF Locals
    <3> QED
      BY <3>1, <2>1 DEF ReadPass, Locals
  <2> HIDE DEF m
  <2>3. /\ loc' \in [Proc -> Locals] /\ loc'[p].chars = ReadChars(p)
        /\ \A q \in Proc \ {p} : loc'[q] = loc[q]
    BY <1>2, <2>1, <2>2 DEF Locals
  <2> QED
    BY <1>2, <2>3
<1>5. TypeOK'
  BY <1>1, <1>3, <1>4 DEF PipeInv, TypeOK, Places
<1>6. Roles'
  BY <1>1, <1>4 DEF PipeInv, TypeOK, Roles
<1>7. Ends'
  BY <1>1 DEF PipeInv, Ends
<1>8. Waiting'
  <2>1. pc'[p] = "rcopy" /\ \A q \in Proc \ {p} : pc'[q] = pc[q]
    BY <1>1 DEF PipeInv, TypeOK
  <2>2. \A q \in Proc : pc'[q] = "rwait" => \E w \in Proc : pc[w] = "wcopy"
    BY <1>1, <2>1, PipeNames DEF PipeInv, Waiting, Run
  <2> QED
    BY <1>1, <2>1, <2>2 DEF PipeInv, Waiting
<1> QED
  BY <1>5, <1>6, <1>7, <1>8 DEF PipeInv

LEMMA WritePassKeeps == ASSUME PipeInv, NEW p \in Proc, WritePass(p) PROVE PipeInv'
<1>1. /\ pc[p] = "wloop" /\ Run(p) /\ loc[p].count > 0 /\ Space # 0 /\ cpu' = p
      /\ pc' = [pc EXCEPT ![p] = "wcopy"]
      /\ UNCHANGED <<sig, open, i_count, tail, page, rpos>>
  BY DEF WritePass
<1>2. WriteChars(p) \in Nat /\ WriteChars(p) > 0 /\ WriteChars(p) <= PageSize - head /\ WriteChars(p) <= loc[p].count
  BY <1>1, WriteCharsType DEF PipeInv
<1>3. head' \in 0..PageSize - 1 /\ wpos' \in Nat
  BY <1>2, Advance DEF WritePass, PipeInv, TypeOK
<1>4. loc' \in [Proc -> Locals] /\ loc'[p].chars > 0 /\ \A q \in Proc \ {p} : loc'[q] = loc[q]
  <2>1. loc \in [Proc -> Locals] /\ head \in Nat /\ wpos \in Nat
    BY DEF PipeInv, TypeOK
  <2> DEFINE m == loc[p].count - WriteChars(p)
  <2>2. m \in Nat /\ loc' = [loc EXCEPT ![p].count = m, ![p].chars = WriteChars(p), ![p].at = head, ![p].pos = wpos]
    <3>1. loc[p] \in Locals /\ m \in Nat
      BY <1>2, <2>1 DEF Locals
    <3> QED
      BY <3>1, <2>1 DEF WritePass, Locals
  <2> HIDE DEF m
  <2>3. /\ loc' \in [Proc -> Locals] /\ loc'[p].chars = WriteChars(p)
        /\ \A q \in Proc \ {p} : loc'[q] = loc[q]
    BY <1>2, <2>1, <2>2 DEF Locals
  <2> QED
    BY <1>2, <2>3
<1>5. TypeOK'
  BY <1>1, <1>3, <1>4 DEF PipeInv, TypeOK, Places
<1>6. Roles'
  BY <1>1, <1>4 DEF PipeInv, TypeOK, Roles
<1>7. Ends'
  BY <1>1 DEF PipeInv, Ends
<1>8. Waiting'
  <2>1. pc'[p] = "wcopy" /\ \A q \in Proc \ {p} : pc'[q] = pc[q]
    BY <1>1 DEF PipeInv, TypeOK
  <2>2. \A q \in Proc : pc'[q] = "wwait" => \E r \in Proc : pc[r] = "rcopy"
    BY <1>1, <2>1, PipeNames DEF PipeInv, Waiting, Run
  <2> QED
    BY <1>1, <2>1, <2>2 DEF PipeInv, Waiting
<1> QED
  BY <1>5, <1>6, <1>7, <1>8 DEF PipeInv

(* A byte is copied; the task goes on with the next byte or pass. *)
LEMMA ByteKeeps ==
    ASSUME PipeInv, NEW p \in Proc, ReadByte(p) \/ WriteByte(p) PROVE PipeInv'
<1>1. \E a \in {"rcopy", "wcopy"} : \E b \in {"rloop", "wloop"} :
        NextByte(p, a, b) /\ (a = "rcopy" <=> b = "rloop")
  BY DEF ReadByte, WriteByte
<1>2. /\ Run(p) /\ cpu' = p
      /\ loc' = [loc EXCEPT ![p].chars = @ - 1, ![p].at = @ + 1, ![p].pos = @ + 1]
      /\ \/ pc[p] = "rcopy" /\ pc' = [pc EXCEPT ![p] = IF loc[p].chars = 1 THEN "rloop" ELSE "rcopy"]
         \/ pc[p] = "wcopy" /\ pc' = [pc EXCEPT ![p] = IF loc[p].chars = 1 THEN "wloop" ELSE "wcopy"]
  BY <1>1 DEF NextByte
<1>3. /\ sig' = sig /\ open' = open /\ i_count' = i_count /\ head' = head /\ tail' = tail
      /\ wpos' = wpos /\ rpos' = rpos /\ page' \in [0..PageSize - 1 -> Int]
  BY DEF ReadByte, WriteByte, ring, PipeInv, TypeOK, Locals
<1>4. loc[p].chars \in Nat /\ loc[p].chars > 0 /\ loc \in [Proc -> Locals]
  BY <1>2 DEF PipeInv, TypeOK, Roles, Locals
<1>5. /\ loc' \in [Proc -> Locals] /\ loc'[p].chars = loc[p].chars - 1
      /\ \A q \in Proc \ {p} : loc'[q] = loc[q]
  BY <1>2, <1>4, ByteLocals
<1>6. TypeOK'
  BY <1>2, <1>3, <1>5 DEF PipeInv, TypeOK, Places
<1>7. Roles'
  BY <1>2, <1>4, <1>5 DEF PipeInv, TypeOK, Roles
<1>8. Ends'
  BY <1>3 DEF PipeInv, Ends
<1>9. Waiting'
  <2>1. PIPE_SIZE' = PIPE_SIZE /\ Space' = Space
    BY <1>3 DEF PIPE_SIZE, Space
  <2>2. \A q \in Proc \ {p} : pc'[q] = pc[q] /\ (cpu = q => q = NULL)
    BY <1>2 DEF PipeInv, TypeOK, Run
  <2>3. \/ pc[p] = "rcopy" /\ pc'[p] \in {"rcopy", "rloop"}
        \/ pc[p] = "wcopy" /\ pc'[p] \in {"wcopy", "wloop"}
    BY <1>2 DEF PipeInv, TypeOK
  <2> QED
    BY <1>2, <1>3, <2>1, <2>2, <2>3, PipeNames DEF PipeInv, Waiting
<1> QED
  BY <1>6, <1>7, <1>8, <1>9 DEF PipeInv

(* A page fault in a copy gives up the processor. *)
LEMMA FaultKeeps == ASSUME PipeInv, NEW p \in Proc, Fault(p) PROVE PipeInv'
<1>1. TypeOK' /\ Roles' /\ Ends'
  BY DEF Fault, PipeInv, TypeOK, Roles, Ends, ring
<1>2. Waiting'
  BY PipeNames DEF Fault, PipeInv, Waiting, PIPE_SIZE, Space, ring
<1> QED
  BY <1>1, <1>2 DEF PipeInv

(* The close that takes the last task of an end wakes both sides. *)
LEMMA CloseKeeps == ASSUME PipeInv, NEW p \in Proc, Close(p) PROVE PipeInv'
<1>1. /\ cpu = NULL /\ pc[p] = "idle" /\ p \in open /\ open' = open \ {p}
      /\ cpu' = cpu /\ loc' = loc /\ sig' = sig
      /\ head' = head /\ tail' = tail /\ page' = page /\ wpos' = wpos /\ rpos' = rpos
  BY DEF Close, ring
<1>2. PIPE_SIZE' = PIPE_SIZE /\ Space' = Space
  BY <1>1 DEF PIPE_SIZE, Space
<1>3. CASE \E S \in {Reader, Writer} : p \in S /\ S \cap open = {p}
  <2>1. i_count' = i_count - 1 /\ pc' = WakeWriters(WakeReaders(pc))
    BY <1>3 DEF Close
  <2>2. /\ pc' \in [Proc -> Places]
        /\ \A q \in Proc : pc'[q] = IF pc[q] = "rwait" THEN "rtest"
                                     ELSE IF pc[q] = "wwait" THEN "wloop" ELSE pc[q]
    BY <2>1 DEF PipeInv, TypeOK, WakeReaders, WakeWriters, Places
  <2>3. TypeOK'
    BY <1>1, <2>2 DEF PipeInv, TypeOK
  <2>4. Roles'
    BY <1>1, <2>2 DEF PipeInv, Roles
  <2>5. Ends'
    <3>1. CASE p \in Reader
      <4>1. Reader \cap open = {p} /\ Reader \cap open' = {} /\ Writer \cap open' = Writer \cap open
        BY <1>1, <1>3, <3>1, PipeNames
      <4> QED
        BY <2>1, <4>1 DEF PipeInv, Ends
    <3>2. CASE p \in Writer
      <4>1. Writer \cap open = {p} /\ Writer \cap open' = {} /\ Reader \cap open' = Reader \cap open
        BY <1>1, <1>3, <3>2, PipeNames
      <4> QED
        BY <2>1, <4>1 DEF PipeInv, Ends
    <3> QED
      BY <3>1, <3>2 DEF Proc
  <2>6. Waiting'
    BY <2>2 DEF Waiting
  <2> QED
    BY <2>3, <2>4, <2>5, <2>6 DEF PipeInv
<1>4. CASE ~\E S \in {Reader, Writer} : p \in S /\ S \cap open = {p}
  <2>1. i_count' = i_count /\ pc' = pc
    BY <1>4 DEF Close
  <2>2. TypeOK' /\ Roles'
    BY <1>1, <2>1 DEF PipeInv, TypeOK, Roles
  <2>3. (Reader \cap open = {} <=> Reader \cap open' = {}) /\ (Writer \cap open = {} <=> Writer \cap open' = {})
    BY <1>1, <1>4
  <2>4. Ends'
    BY <2>1, <2>3 DEF PipeInv, Ends
  <2>5. Waiting'
    BY <1>1, <1>2, <2>1 DEF PipeInv, Waiting
  <2> QED
    BY <2>2, <2>4, <2>5 DEF PipeInv
<1> QED
  BY <1>3, <1>4

(* A signal makes a sleeper runnable. *)
LEMMA SignalKeeps == ASSUME PipeInv, NEW p \in Proc, Signal(p) PROVE PipeInv'
<1>1. /\ sig' \subseteq Proc /\ cpu' = cpu /\ loc' = loc /\ open' = open /\ i_count' = i_count
      /\ head' = head /\ tail' = tail /\ page' = page /\ wpos' = wpos /\ rpos' = rpos
  BY DEF Signal, PipeInv, TypeOK, ring
<1>2. /\ pc' \in [Proc -> Places]
      /\ \A q \in Proc : pc'[q] = IF q = p /\ pc[q] = "rwait" THEN "rtest"
                                   ELSE IF q = p /\ pc[q] = "wwait" THEN "wloop" ELSE pc[q]
  BY DEF Signal, PipeInv, TypeOK, Places
<1>3. PIPE_SIZE' = PIPE_SIZE /\ Space' = Space
  BY <1>1 DEF PIPE_SIZE, Space
<1>4. TypeOK' /\ Roles' /\ Ends'
  BY <1>1, <1>2 DEF PipeInv, TypeOK, Roles, Ends
<1>5. Waiting'
  BY <1>1, <1>2, <1>3 DEF PipeInv, Waiting
<1> QED
  BY <1>4, <1>5 DEF PipeInv

LEMMA StutterKeeps == PipeInv /\ UNCHANGED vars => PipeInv'
  BY DEF PipeInv, TypeOK, Roles, Ends, Waiting, PIPE_SIZE, Space, vars, ring

LEMMA NextPipe == PipeInv /\ [Next]_vars => PipeInv'
<1>1. Reader \subseteq Proc /\ Writer \subseteq Proc
  BY DEF Proc
<1> QED
  BY <1>1, StartKeeps, ReadTestKeeps, ReadPassKeeps, ReadDoneKeeps, ByteKeeps, WriteWaitKeeps,
     WritePassKeeps, WriteDoneKeeps, FaultKeeps, CloseKeeps, SignalKeeps, StutterKeeps
     DEF Next, Step

(***************************************************************************)
(* The invariant of the pipe holds in every reachable state, for any       *)
(* number of tasks and whichever of them may fault.                        *)
(***************************************************************************)
THEOREM PipeInvariant == Spec => []PipeInv
  BY InitPipe, NextPipe, PTL DEF Spec

(***************************************************************************)
(* Nobody sleeps for something that is there: no wake-up of pipe_read,     *)
(* pipe_write or iput is lost, although tail and head move before the      *)
(* copies, which may sleep in a page fault.                                *)
(***************************************************************************)
THEOREM NobodySleepsInVain == Spec => []SleepsForReason
<1>1. PipeInv => SleepsForReason
  <2> SUFFICES ASSUME PipeInv, cpu = NULL, \A p \in Proc : pc[p] \notin {"rcopy", "wcopy"}, NEW p \in Proc
               PROVE  /\ pc[p] = "rwait" => PIPE_SIZE = 0 /\ Writer \cap open # {}
                      /\ pc[p] = "wwait" => Space = 0 /\ Reader \cap open # {}
    BY DEF SleepsForReason
  <2>1. i_count = 2 => Reader \cap open # {} /\ Writer \cap open # {}
    BY DEF PipeInv, Ends
  <2> QED
    BY <2>1, PipeNames DEF PipeInv, Waiting
<1> QED
  BY <1>1, PipeInvariant, PTL

-----------------------------------------------------------------------------
(***************************************************************************)
(* The bytes in the ring.                                                  *)
(***************************************************************************)

(* The place in the page of the byte that stands d bytes after t. *)
Slot(t, d) == IF t + d < PageSize THEN t + d ELSE t + d - PageSize

LEMMA SlotIs ==
    ASSUME NEW t \in 0..PageSize - 1, NEW d \in 0..PageSize - 1
    PROVE  (t + d) % PageSize = Slot(t, d) /\ Slot(t, d) \in 0..PageSize - 1
<1>1. CASE t + d < PageSize
  <2>1. t + d \in 0..PageSize - 1
    BY <1>1, PageAssumption
  <2> QED
    BY <1>1, <2>1, Distance DEF Slot
<1>2. CASE t + d >= PageSize
  <2>1. t + d - PageSize \in 0..PageSize - 1 /\ (t + d - PageSize) + PageSize = t + d
    BY <1>2, PageAssumption
  <2>2. ((t + d - PageSize) + PageSize) % PageSize = t + d - PageSize
    BY <2>1, Distance
  <2> QED
    BY <1>2, <2>1, <2>2, PageAssumption DEF Slot
<1> QED
  BY <1>1, <1>2, PageAssumption

(* PIPE_SIZE is the number of bytes written and not read. *)
LEMMA SizeIsFill == ASSUME TypeOK, RingStands PROVE PIPE_SIZE = wpos - rpos
<1>1. wpos - rpos \in 0..PageSize - 1
  BY PageAssumption DEF TypeOK, RingStands
<1>2. head - tail \in {wpos - rpos, (wpos - rpos) - PageSize}
  BY PageAssumption DEF TypeOK, RingStands
<1> QED
  BY <1>1, <1>2, Distance DEF PIPE_SIZE

(* The bytes of the ring are inside the page. *)
LEMMA SlotsOfRing ==
    ASSUME NEW t \in 0..PageSize - 1, NEW r \in Nat, NEW w \in Nat, w - r <= PageSize - 1
    PROVE  \A k \in r..w - 1 : (t + (k - r)) % PageSize = Slot(t, k - r) /\ Slot(t, k - r) \in 0..PageSize - 1
<1> TAKE k \in r..w - 1
<1>1. k - r \in 0..PageSize - 1
  BY PageAssumption
<1> QED
  BY <1>1, SlotIs

(* While another task takes a step in the kernel no writer copies. *)
LEMMA NoWriter ==
    ASSUME WriterAtWork, NEW p \in Proc, Run(p), pc[p] # "wcopy"
    PROVE  \A q \in Proc : pc[q] # "wcopy"
  BY PipeNames DEF WriterAtWork, Run

(* Steps that leave the ring and a copying writer alone *)
LEMMA QuietStream ==
    ASSUME TypeOK, StreamInv, UNCHANGED ring,
           \A q \in Proc : /\ pc'[q] = "wcopy" <=> pc[q] = "wcopy"
                           /\ pc[q] = "wcopy" => loc'[q] = loc[q] /\ cpu' = cpu
    PROVE  StreamInv'
<1>1. RingStands'
  BY DEF StreamInv, RingStands, ring
<1>2. WriterAtWork'
  BY DEF StreamInv, WriterAtWork, ring
<1>3. InOrder'
  BY DEF StreamInv, InOrder, ring
<1> QED
  BY <1>1, <1>2, <1>3 DEF StreamInv

LEMMA InitStream == Init => StreamInv
  BY PageAssumption DEF Init, StreamInv, RingStands, WriterAtWork, InOrder

(* A reader takes its pass: the bytes that stay in the ring keep their     *)
(* slots.                                                                  *)
LEMMA ReadPassStream ==
    ASSUME PipeInv, StreamInv, NEW p \in Proc, ReadPass(p) PROVE StreamInv'
<1> DEFINE c == ReadChars(p)
<1>1. TypeOK /\ RingStands /\ WriterAtWork /\ TypeOK'
  BY ReadPassKeeps DEF PipeInv, StreamInv
<1>2. /\ pc[p] = "rloop" /\ Run(p) /\ loc[p].count > 0 /\ PIPE_SIZE # 0
      /\ pc' = [pc EXCEPT ![p] = "rcopy"] /\ cpu' = p
      /\ rpos' = rpos + c /\ head' = head /\ page' = page /\ wpos' = wpos
  BY DEF ReadPass
<1>3. c \in Nat /\ c > 0 /\ c <= PageSize - tail /\ c <= wpos - rpos
  BY <1>1, <1>2, ReadCharsType, SizeIsFill
<1>4. tail' = IF tail + c = PageSize THEN 0 ELSE tail + c
  <2>1. tail' = (tail + c) % PageSize /\ tail \in 0..PageSize - 1
    BY <1>1 DEF ReadPass, TypeOK
  <2> HIDE DEF c
  <2> QED
    BY <1>3, <2>1, Advance
<1> HIDE DEF c
<1>n. /\ tail \in Int /\ head \in Int /\ rpos \in Int /\ wpos \in Int /\ PageSize \in Int
      /\ 0 <= tail /\ tail < PageSize /\ rpos <= wpos /\ wpos - rpos <= PageSize - 1 /\ PageSize > 1
      /\ head = tail + (wpos - rpos) \/ head = tail + (wpos - rpos) - PageSize
      /\ 0 <= head /\ head < PageSize
  BY <1>1, PageAssumption DEF TypeOK, RingStands
<1>5. RingStands'
  <2>1. /\ rpos' <= wpos' /\ wpos' - rpos' <= PageSize - 1
        /\ head' = tail' + (wpos' - rpos') \/ head' = tail' + (wpos' - rpos') - PageSize
    BY <1>n, <1>2, <1>3, <1>4
  <2> QED
    BY <2>1 DEF RingStands
<1>6. \A q \in Proc : pc[q] # "wcopy" /\ pc'[q] # "wcopy"
  BY <1>1, <1>2, NoWriter DEF TypeOK
<1>7. WriterAtWork'
  BY <1>6 DEF WriterAtWork
<1>8. InOrder'
  <2>1. ASSUME NEW k \in rpos..wpos - 1 PROVE page[Slot(tail, k - rpos)] = k
    <3>1. page[(tail + (k - rpos)) % PageSize] = k
      BY <1>6 DEF StreamInv, InOrder
    <3>2. tail \in 0..PageSize - 1 /\ rpos \in Nat /\ wpos \in Nat /\ wpos - rpos <= PageSize - 1
      BY <1>1 DEF TypeOK, RingStands
    <3>3. (tail + (k - rpos)) % PageSize = Slot(tail, k - rpos)
      BY <3>2, SlotsOfRing
    <3> QED
      BY <3>1, <3>3
  <2>2. ASSUME NEW k \in rpos'..wpos' - 1 PROVE page'[(tail' + (k - rpos')) % PageSize] = k
    <3>1. k \in rpos..wpos - 1 /\ k - rpos' = (k - rpos) - c /\ k - rpos <= PageSize - 1 /\ c <= k - rpos
      BY <1>n, <1>2, <1>3
    <3>2. Slot(tail', k - rpos') = Slot(tail, k - rpos)
      BY <1>n, <1>3, <1>4, <3>1 DEF Slot
    <3>3. (tail' + (k - rpos')) % PageSize = Slot(tail', k - rpos')
      <4>1. tail' \in 0..PageSize - 1 /\ rpos' \in Nat /\ wpos' \in Nat /\ wpos' - rpos' <= PageSize - 1
        BY <1>1, <1>5 DEF TypeOK, RingStands
      <4> QED
        BY <4>1, SlotsOfRing
    <3> QED
      BY <1>2, <2>1, <3>1, <3>2, <3>3
  <2> QED
    BY <2>2 DEF InOrder
<1> QED
  BY <1>5, <1>7, <1>8 DEF StreamInv

(* A writer takes its pass: the new bytes are its own, not copied yet. *)
LEMMA WritePassStream ==
    ASSUME PipeInv, StreamInv, NEW p \in Proc, WritePass(p) PROVE StreamInv'
<1> DEFINE c == WriteChars(p)
<1>1. TypeOK /\ RingStands /\ WriterAtWork /\ TypeOK'
  BY WritePassKeeps DEF PipeInv, StreamInv
<1>2. /\ pc[p] = "wloop" /\ Run(p) /\ loc[p].count > 0 /\ Space # 0
      /\ pc' = [pc EXCEPT ![p] = "wcopy"] /\ cpu' = p
      /\ wpos' = wpos + c /\ tail' = tail /\ page' = page /\ rpos' = rpos
  BY DEF WritePass
<1>3. c \in Nat /\ c > 0 /\ c <= PageSize - head /\ c <= (PageSize - 1) - (wpos - rpos)
  BY <1>1, <1>2, WriteCharsType, SizeIsFill, SizeType
<1>4. head' = IF head + c = PageSize THEN 0 ELSE head + c
  <2>1. head' = (head + c) % PageSize /\ head \in 0..PageSize - 1
    BY <1>1 DEF WritePass, TypeOK
  <2> HIDE DEF c
  <2> QED
    BY <1>3, <2>1, Advance
<1>5. loc'[p].chars = c /\ loc'[p].at = head /\ loc'[p].pos = wpos
  BY <1>1 DEF WritePass, TypeOK, Locals
<1> HIDE DEF c
<1>n. /\ tail \in Int /\ head \in Int /\ rpos \in Int /\ wpos \in Int /\ PageSize \in Int
      /\ 0 <= tail /\ tail < PageSize /\ rpos <= wpos /\ wpos - rpos <= PageSize - 1 /\ PageSize > 1
      /\ head = tail + (wpos - rpos) \/ head = tail + (wpos - rpos) - PageSize
      /\ 0 <= head /\ head < PageSize
  BY <1>1, PageAssumption DEF TypeOK, RingStands
<1>6. RingStands'
  <2>1. /\ rpos' <= wpos' /\ wpos' - rpos' <= PageSize - 1
        /\ head' = tail' + (wpos' - rpos') \/ head' = tail' + (wpos' - rpos') - PageSize
    BY <1>n, <1>2, <1>3, <1>4
  <2> QED
    BY <2>1 DEF RingStands
<1>7. \A q \in Proc : pc[q] # "wcopy" /\ (pc'[q] = "wcopy" <=> q = p)
  BY <1>1, <1>2, NoWriter DEF TypeOK
<1>8. WriterAtWork'
  <2>1. /\ loc'[p].pos >= rpos' /\ loc'[p].pos + loc'[p].chars = wpos'
        /\ loc'[p].at + loc'[p].chars <= PageSize
        /\ loc'[p].at \in {tail' + (loc'[p].pos - rpos'), tail' + (loc'[p].pos - rpos') - PageSize}
    BY <1>n, <1>2, <1>3, <1>5
  <2> QED
    BY <1>2, <1>7, <2>1 DEF WriterAtWork
<1>9. InOrder'
  <2> SUFFICES ASSUME NEW k \in rpos'..wpos' - 1, ~(k >= loc'[p].pos)
               PROVE  page'[(tail' + (k - rpos')) % PageSize] = k
    BY <1>2, <1>7 DEF InOrder
  <2>1. k \in rpos..wpos - 1
    BY <1>n, <1>2, <1>3, <1>5
  <2> QED
    BY <1>2, <1>7, <2>1 DEF StreamInv, InOrder
<1> QED
  BY <1>6, <1>8, <1>9 DEF StreamInv

(* A byte of the writer goes to its slot; no other byte of the ring has    *)
(* that slot.                                                              *)
LEMMA WriteByteStream ==
    ASSUME PipeInv, StreamInv, NEW p \in Proc, WriteByte(p) PROVE StreamInv'
<1>1. TypeOK /\ RingStands /\ WriterAtWork /\ Roles
  BY DEF PipeInv, StreamInv
<1>2. /\ pc[p] = "wcopy" /\ cpu' = p
      /\ pc' = [pc EXCEPT ![p] = IF loc[p].chars = 1 THEN "wloop" ELSE "wcopy"]
      /\ loc' = [loc EXCEPT ![p].chars = @ - 1, ![p].at = @ + 1, ![p].pos = @ + 1]
      /\ page' = [page EXCEPT ![loc[p].at] = loc[p].pos]
      /\ head' = head /\ tail' = tail /\ wpos' = wpos /\ rpos' = rpos
  BY DEF WriteByte, NextByte
<1>3. /\ cpu = p /\ loc[p].pos >= rpos /\ loc[p].pos + loc[p].chars = wpos
      /\ loc[p].at + loc[p].chars <= PageSize
      /\ loc[p].at = tail + (loc[p].pos - rpos) \/ loc[p].at = tail + (loc[p].pos - rpos) - PageSize
      /\ loc[p].chars > 0 /\ loc[p].chars \in Nat /\ loc[p].pos \in Nat /\ loc[p].at \in Nat
  BY <1>1, <1>2 DEF WriterAtWork, Roles, TypeOK, Locals
<1>4. \A q \in Proc : pc[q] = "wcopy" => q = p
  BY <1>1, <1>3 DEF WriterAtWork
<1>5. pc'[p] = (IF loc[p].chars = 1 THEN "wloop" ELSE "wcopy") /\ \A q \in Proc \ {p} : pc'[q] = pc[q]
  BY <1>1, <1>2 DEF TypeOK
<1>6. loc'[p].chars = loc[p].chars - 1 /\ loc'[p].at = loc[p].at + 1 /\ loc'[p].pos = loc[p].pos + 1
  BY <1>1, <1>2, <1>3, ByteLocals DEF TypeOK
<1>n. /\ tail \in Int /\ rpos \in Int /\ wpos \in Int /\ PageSize \in Int
      /\ 0 <= tail /\ tail < PageSize /\ rpos <= wpos /\ wpos - rpos <= PageSize - 1 /\ PageSize > 1
  BY <1>1, PageAssumption DEF TypeOK, RingStands
<1>7. RingStands'
  BY <1>1, <1>2 DEF RingStands
<1>8. WriterAtWork'
  <2>1. /\ loc'[p].pos >= rpos' /\ loc'[p].pos + loc'[p].chars = wpos'
        /\ loc'[p].at + loc'[p].chars <= PageSize
        /\ loc'[p].at \in {tail' + (loc'[p].pos - rpos'), tail' + (loc'[p].pos - rpos') - PageSize}
    BY <1>n, <1>2, <1>3, <1>6
  <2> QED
    BY <1>2, <1>4, <1>5, <2>1 DEF WriterAtWork
<1>9. InOrder'
  <2> SUFFICES ASSUME NEW k \in rpos'..wpos' - 1, ~\E q \in Proc : cpu' = q /\ pc'[q] = "wcopy" /\ k >= loc'[q].pos
               PROVE  page'[(tail' + (k - rpos')) % PageSize] = k
    BY DEF InOrder
  <2>1. k \in rpos..wpos - 1 /\ k - rpos \in 0..PageSize - 1
    BY <1>n, <1>2
  <2>2. k <= loc[p].pos
    <3>1. CASE loc[p].chars = 1
      BY <1>n, <1>3, <2>1, <3>1
    <3>2. CASE loc[p].chars # 1
      <4>1. ~(k >= loc'[p].pos)
        BY <1>2, <1>5, <3>2
      <4> QED
        BY <1>n, <1>3, <1>6, <2>1, <4>1
    <3> QED
      BY <3>1, <3>2
  <2>3. (tail + (k - rpos)) % PageSize = Slot(tail, k - rpos) /\ Slot(tail, k - rpos) \in 0..PageSize - 1
    BY <1>1, <2>1, SlotIs DEF TypeOK
  <2>4. CASE k = loc[p].pos
    <3>1. Slot(tail, k - rpos) = loc[p].at
      BY <1>n, <1>3, <2>1, <2>3, <2>4 DEF Slot
    <3> QED
      BY <1>1, <1>2, <2>3, <2>4, <3>1 DEF TypeOK
  <2>5. CASE k < loc[p].pos
    <3>1. Slot(tail, k - rpos) # loc[p].at
      BY <1>n, <1>3, <2>1, <2>3, <2>5 DEF Slot
    <3>2. page[(tail + (k - rpos)) % PageSize] = k
      <4>1. ~\E q \in Proc : cpu = q /\ pc[q] = "wcopy" /\ k >= loc[q].pos
        BY <1>n, <1>3, <1>4, <2>1, <2>5
      <4> QED
        BY <2>1, <4>1 DEF StreamInv, InOrder
    <3> QED
      BY <1>1, <1>2, <2>3, <3>1, <3>2 DEF TypeOK
  <2> QED
    <3>1. k \in Int /\ loc[p].pos \in Int
      BY <1>n, <1>3, <2>1
    <3> QED
      BY <3>1, <2>2, <2>4, <2>5
<1> QED
  BY <1>7, <1>8, <1>9 DEF StreamInv

(* The other steps leave the ring alone.  When one of them is a task's own *)
(* no writer copies; a fault is a reader's.                                *)
LEMMA OtherStream ==
    ASSUME PipeInv, StreamInv, Faulting \subseteq Reader, NEW p \in Proc,
           \/ \E n \in Counts : (\E nb \in BOOLEAN : StartRead(p, n, nb)) \/ StartWrite(p, n)
           \/ ReadTest(p) \/ ReadDone(p) \/ ReadByte(p) \/ WriteWait(p) \/ WriteDone(p)
           \/ Fault(p) \/ Close(p) \/ Signal(p)
    PROVE  StreamInv'
<1>1. TypeOK /\ Roles /\ WriterAtWork /\ pc \in [Proc -> Places]
  BY DEF PipeInv, StreamInv, TypeOK
<1>2. UNCHANGED ring
  BY DEF StartRead, StartWrite, ReadTest, ReadDone, ReadByte, WriteWait, WriteDone, Fault, Close, Signal
<1>3. CASE Signal(p)
  <2>1. cpu' = cpu /\ loc' = loc /\ \A q \in Proc : pc'[q] = "wcopy" <=> pc[q] = "wcopy"
    BY <1>1, <1>3 DEF Signal
  <2> QED
    BY <1>1, <1>2, <2>1, QuietStream, Zenon
<1>4. CASE ~Signal(p)
  <2>1. \A q \in Proc : pc[q] # "wcopy"
    <3>1. CASE cpu = NULL
      BY <1>1, <3>1, PipeNames DEF WriterAtWork
    <3>2. CASE cpu # NULL
      <4>1. Run(p)
        BY <1>4, <3>2 DEF StartRead, StartWrite, ReadTest, ReadDone, ReadByte, NextByte, WriteWait,
                          WriteDone, Fault, Close, Run
      <4>2. pc[p] # "wcopy"
        <5>1. CASE Fault(p)
          BY <1>1, <5>1, PipeNames DEF Fault, Roles
        <5> QED
          BY <1>4, <5>1 DEF StartRead, StartWrite, ReadTest, ReadDone, ReadByte, NextByte, WriteWait,
                            WriteDone, Close
      <4> QED
        BY <1>1, <4>1, <4>2, NoWriter
    <3> QED
      BY <3>1, <3>2
  <2>2. \A q \in Proc : pc'[q] # "wcopy"
    <3>2. /\ \A q \in Proc : WakeReaders(pc)[q] = IF pc[q] = "rwait" THEN "rtest" ELSE pc[q]
          /\ \A q \in Proc : WakeWriters(pc)[q] = IF pc[q] = "wwait" THEN "wloop" ELSE pc[q]
          /\ WakeReaders(pc) \in [Proc -> Places] /\ WakeWriters(pc) \in [Proc -> Places]
      BY <1>1, WakeType
    <3>3. CASE \E n \in Counts : (\E nb \in BOOLEAN : StartRead(p, n, nb)) \/ StartWrite(p, n)
      BY <1>1, <2>1, <3>3 DEF StartRead, StartWrite
    <3>4. CASE ReadTest(p) \/ ReadDone(p) \/ WriteWait(p) \/ WriteDone(p)
      BY <1>1, <2>1, <3>2, <3>4 DEF ReadTest, ReadDone, WriteWait, WriteDone, Return, Sleep
    <3>5. CASE ReadByte(p) \/ Fault(p)
      BY <1>1, <2>1, <3>5 DEF ReadByte, NextByte, Fault
    <3>6. CASE Close(p)
      <4>1. \A q \in Proc : WakeWriters(WakeReaders(pc))[q] # "wcopy"
        BY <1>1, <2>1 DEF WakeReaders, WakeWriters
      <4> QED
        BY <2>1, <3>6, <4>1 DEF Close
    <3> QED
      BY <1>4, <3>3, <3>4, <3>5, <3>6
  <2> QED
    BY <1>1, <1>2, <2>1, <2>2, QuietStream
<1> QED
  BY <1>3, <1>4

LEMMA NextStream ==
    ASSUME Faulting \subseteq Reader PROVE PipeInv /\ StreamInv /\ [Next]_vars => StreamInv'
<1> SUFFICES ASSUME PipeInv, StreamInv, [Next]_vars PROVE StreamInv'
  OBVIOUS
<1>1. Reader \subseteq Proc /\ Writer \subseteq Proc
  BY DEF Proc
<1>2. CASE UNCHANGED vars
  <2>1. TypeOK /\ UNCHANGED ring /\ cpu' = cpu /\ pc' = pc /\ loc' = loc
    BY <1>2 DEF vars, PipeInv
  <2> QED
    BY <2>1, QuietStream
<1>3. ASSUME NEW p \in Proc, Step(p) PROVE StreamInv'
  BY <1>3, ReadPassStream, WritePassStream, WriteByteStream, OtherStream DEF Step
<1> QED
  BY <1>1, <1>2, <1>3, OtherStream DEF Next

(***************************************************************************)
(* The bytes between tail and head are stored, in the order of the stream, *)
(* as long as only readers may meet a page that is swapped out.  A writer  *)
(* that sleeps in the middle of its copy breaks this: head has moved       *)
(* before the bytes are there.                                             *)
(***************************************************************************)
THEOREM BytesInOrder == ASSUME Faulting \subseteq Reader PROVE Spec => []InOrder
<1>1. Init => PipeInv /\ StreamInv
  BY InitPipe, InitStream
<1>2. PipeInv /\ StreamInv /\ [Next]_vars => PipeInv' /\ StreamInv'
  BY NextPipe, NextStream
<1>3. StreamInv => InOrder
  BY DEF StreamInv
<1> QED
  BY <1>1, <1>2, <1>3, PTL DEF Spec

-----------------------------------------------------------------------------
(***************************************************************************)
(* The bytes of a reader that copies, when no task may fault: nobody       *)
(* writes between the move of the tail and the copy.                       *)
(***************************************************************************)
ReaderInv == ReaderAtWork /\ ReadableBytes

(* While another task takes a step in the kernel no reader copies. *)
LEMMA NoReader ==
    ASSUME ReaderAtWork, NEW p \in Proc, Run(p), pc[p] # "rcopy"
    PROVE  \A q \in Proc : pc[q] # "rcopy"
  BY PipeNames DEF ReaderAtWork, Run

LEMMA ReadPassReader ==
    ASSUME PipeInv, StreamInv, ReaderInv, NEW p \in Proc, ReadPass(p) PROVE ReaderInv'
<1> DEFINE c == ReadChars(p)
<1>1. TypeOK /\ RingStands /\ WriterAtWork
  BY DEF PipeInv, StreamInv
<1>2. /\ pc[p] = "rloop" /\ Run(p) /\ loc[p].count > 0 /\ PIPE_SIZE # 0
      /\ pc' = [pc EXCEPT ![p] = "rcopy"] /\ cpu' = p /\ page' = page
  BY DEF ReadPass
<1>3. c \in Nat /\ c > 0 /\ c <= PageSize - tail /\ c <= wpos - rpos
  BY <1>1, <1>2, ReadCharsType, SizeIsFill
<1>4. loc'[p].chars = c /\ loc'[p].at = tail /\ loc'[p].pos = rpos
  BY <1>1 DEF ReadPass, TypeOK, Locals
<1> HIDE DEF c
<1>5. \A q \in Proc : pc[q] # "wcopy" /\ pc[q] # "rcopy" /\ (pc'[q] = "rcopy" <=> q = p)
  BY <1>1, <1>2, NoWriter, NoReader DEF TypeOK, ReaderInv
<1>n. /\ tail \in Nat /\ rpos \in Nat /\ wpos \in Nat /\ PageSize \in Nat
      /\ tail < PageSize /\ rpos <= wpos /\ wpos - rpos <= PageSize - 1
  BY <1>1, PageAssumption DEF TypeOK, RingStands
<1>6. ASSUME NEW i \in 0..c - 1 PROVE tail + i < PageSize /\ page[tail + i] = rpos + i
  <2>1. rpos + i \in rpos..wpos - 1 /\ (rpos + i) - rpos = i /\ i \in 0..PageSize - 1 /\ tail + i \in 0..PageSize - 1
    BY <1>n, <1>3
  <2>2. page[(tail + i) % PageSize] = rpos + i
    BY <1>5, <2>1 DEF StreamInv, InOrder
  <2> QED
    BY <1>n, <2>1, <2>2, Distance
<1> QED
  BY <1>2, <1>4, <1>5, <1>6 DEF ReaderInv, ReaderAtWork, ReadableBytes

LEMMA ReadByteReader ==
    ASSUME PipeInv, ReaderInv, NEW p \in Proc, ReadByte(p) PROVE ReaderInv'
<1>1. /\ pc[p] = "rcopy" /\ cpu' = p /\ page' = page
      /\ pc' = [pc EXCEPT ![p] = IF loc[p].chars = 1 THEN "rloop" ELSE "rcopy"]
      /\ loc' = [loc EXCEPT ![p].chars = @ - 1, ![p].at = @ + 1, ![p].pos = @ + 1]
  BY DEF ReadByte, NextByte, ring
<1>2. loc[p].chars > 0 /\ loc[p].chars \in Nat /\ loc[p].pos \in Nat /\ loc[p].at \in Nat
      /\ loc \in [Proc -> Locals]
  BY <1>1 DEF PipeInv, Roles, TypeOK, Locals
<1>3. loc'[p].chars = loc[p].chars - 1 /\ loc'[p].at = loc[p].at + 1 /\ loc'[p].pos = loc[p].pos + 1
  BY <1>1, <1>2, ByteLocals
<1>4. \A q \in Proc : pc'[q] = "rcopy" => q = p
  BY <1>1 DEF PipeInv, TypeOK, ReaderInv, ReaderAtWork
<1>5. ASSUME NEW i \in 0..loc'[p].chars - 1
      PROVE  loc'[p].at + i < PageSize /\ page'[loc'[p].at + i] = loc'[p].pos + i
  <2>1. /\ i + 1 \in 0..loc[p].chars - 1
        /\ loc'[p].at + i = loc[p].at + (i + 1) /\ loc'[p].pos + i = loc[p].pos + (i + 1)
    BY <1>2, <1>3
  <2> QED
    BY <1>1, <2>1 DEF ReaderInv, ReadableBytes
<1> QED
  BY <1>1, <1>4, <1>5 DEF ReaderInv, ReaderAtWork, ReadableBytes

(* A step of a task that does not begin or continue a read copy *)
LEMMA OtherReader ==
    ASSUME PipeInv, ReaderInv, Faulting = {}, NEW p \in Proc,
           \/ \E n \in Counts : (\E nb \in BOOLEAN : StartRead(p, n, nb)) \/ StartWrite(p, n)
           \/ ReadTest(p) \/ ReadDone(p) \/ WriteWait(p) \/ WritePass(p) \/ WriteByte(p) \/ WriteDone(p)
           \/ Fault(p) \/ Close(p)
    PROVE  ReaderInv'
<1>1. TypeOK /\ ReaderAtWork /\ pc \in [Proc -> Places]
  BY DEF PipeInv, ReaderInv, TypeOK
<1>2. \A q \in Proc : pc[q] # "rcopy"
  <2>1. CASE cpu = NULL
    BY <1>1, <2>1, PipeNames DEF ReaderAtWork
  <2>2. CASE cpu # NULL
    <3>1. Run(p) /\ pc[p] # "rcopy"
      BY <2>2 DEF StartRead, StartWrite, ReadTest, ReadDone, NextByte, WriteWait, WritePass, WriteByte,
                  WriteDone, Fault, Close, Run
    <3> QED
      BY <1>1, <3>1, NoReader
  <2> QED
    BY <2>1, <2>2
<1>3. \A q \in Proc : pc'[q] # "rcopy"
  <2>1. /\ \A q \in Proc : WakeReaders(pc)[q] = IF pc[q] = "rwait" THEN "rtest" ELSE pc[q]
        /\ \A q \in Proc : WakeWriters(pc)[q] = IF pc[q] = "wwait" THEN "wloop" ELSE pc[q]
        /\ WakeReaders(pc) \in [Proc -> Places] /\ WakeWriters(pc) \in [Proc -> Places]
    BY <1>1, WakeType
  <2>2. CASE \E n \in Counts : (\E nb \in BOOLEAN : StartRead(p, n, nb)) \/ StartWrite(p, n)
    BY <1>1, <1>2, <2>2 DEF StartRead, StartWrite
  <2>3. CASE ReadTest(p) \/ ReadDone(p) \/ WriteWait(p) \/ WriteDone(p)
    BY <1>1, <1>2, <2>1, <2>3 DEF ReadTest, ReadDone, WriteWait, WriteDone, Return, Sleep
  <2>4. CASE WritePass(p) \/ WriteByte(p) \/ Fault(p)
    BY <1>1, <1>2, <2>4 DEF WritePass, WriteByte, NextByte, Fault
  <2>5. CASE Close(p)
    <3>1. \A q \in Proc : WakeWriters(WakeReaders(pc))[q] # "rcopy"
      BY <1>1, <1>2 DEF WakeReaders, WakeWriters
    <3> QED
      BY <1>2, <2>5, <3>1 DEF Close
  <2> QED
    BY <2>2, <2>3, <2>4, <2>5
<1> QED
  BY <1>3 DEF ReaderInv, ReaderAtWork, ReadableBytes

LEMMA SignalReader ==
    ASSUME PipeInv, ReaderInv, NEW p \in Proc, Signal(p) \/ UNCHANGED vars PROVE ReaderInv'
<1>1. /\ cpu' = cpu /\ loc' = loc /\ page' = page
      /\ \A q \in Proc : pc'[q] = "rcopy" <=> pc[q] = "rcopy"
  BY DEF Signal, vars, ring, PipeInv, TypeOK
<1> QED
  BY <1>1 DEF ReaderInv, ReaderAtWork, ReadableBytes

LEMMA NextReader ==
    ASSUME Faulting = {} PROVE PipeInv /\ StreamInv /\ ReaderInv /\ [Next]_vars => ReaderInv'
<1> SUFFICES ASSUME PipeInv, StreamInv, ReaderInv, [Next]_vars PROVE ReaderInv'
  OBVIOUS
<1>1. Reader \subseteq Proc /\ Writer \subseteq Proc /\ \E p \in Proc : TRUE
  BY PipeNames DEF Proc
<1>2. ASSUME NEW p \in Proc, Step(p) PROVE ReaderInv'
  BY <1>2, ReadPassReader, ReadByteReader, OtherReader DEF Step
<1> QED
  BY <1>1, <1>2, OtherReader, SignalReader DEF Next

(***************************************************************************)
(* As long as no user page is swapped out, what a reader has counted as    *)
(* its own is what it copies: the trouble with pipe_read is the sleep in   *)
(* the copy and nothing else.                                              *)
(***************************************************************************)
THEOREM ReadersGetTheStream == ASSUME Faulting = {} PROVE Spec => []ReadableBytes
<1>1. Init => PipeInv /\ StreamInv /\ ReaderInv
  <2>1. Init => ReaderInv
    BY DEF Init, ReaderInv, ReaderAtWork, ReadableBytes
  <2> QED
    BY <2>1, InitPipe, InitStream
<1>2. PipeInv /\ StreamInv /\ ReaderInv /\ [Next]_vars => PipeInv' /\ StreamInv' /\ ReaderInv'
  <2>1. Faulting \subseteq Reader
    OBVIOUS
  <2> QED
    BY <2>1, NextPipe, NextStream, NextReader
<1>3. ReaderInv => ReadableBytes
  BY DEF ReaderInv
<1> QED
  BY <1>1, <1>2, <1>3, PTL DEF Spec

=============================================================================
