-------------------------- MODULE BufferCacheProofs --------------------------
(***************************************************************************)
(* Proofs about module BufferCache, for any number of tasks, blocks,       *)
(* buffers and request slots: a block has at most one buffer, b_count is   *)
(* the number of references, and getblk returns the block asked for.  Then *)
(* the locks: a locked buffer has one owner.  Then the contents: what is   *)
(* up to date is current, and no write is lost.                            *)
(***************************************************************************)
EXTENDS BufferCache, FiniteSetTheorems, TLAPS

(***************************************************************************)
(* The number of buffers.                                                  *)
(***************************************************************************)
LEMMA NBufType == NBuf \in Nat /\ NBuf > 0
  BY BufAssumption, FS_CardinalityType, FS_EmptySet DEF NBuf

(***************************************************************************)
(* The free list: moving a buffer to the end keeps every buffer on it.     *)
(***************************************************************************)
LEMMA IndexType ==
    ASSUME RingComplete, NEW x \in Buf PROVE Index(x) \in 1..NBuf /\ ring[Index(x)] = x
  BY DEF RingComplete, Index

LEMMA RingHead == ASSUME TypeOK PROVE ring[1] \in Buf
<1>1. 1 \in 1..NBuf
  BY NBufType
<1> QED
  BY <1>1 DEF TypeOK

LEMMA NextFreeType ==
    ASSUME TypeOK, RingComplete, NEW x \in Buf PROVE NextFree(x) \in Buf
<1>1. Index(x) \in 1..NBuf /\ ring \in [1..NBuf -> Buf]
  BY IndexType DEF TypeOK
<1>2. (Index(x) % NBuf) \in 0..(NBuf - 1)
  BY <1>1, NBufType
<1> QED
  BY <1>1, <1>2, NBufType DEF NextFree

LEMMA ToEndKeeps ==
    ASSUME TypeOK, RingComplete, NEW x \in Buf, ring' = ToEnd(x)
    PROVE  ring' \in [1..NBuf -> Buf] /\ RingComplete'
<1>1. Index(x) \in 1..NBuf /\ ring \in [1..NBuf -> Buf] /\ NBuf \in Nat
  BY IndexType, NBufType DEF TypeOK
<1>2. \A i \in 1..NBuf : /\ i < Index(x) => ring'[i] = ring[i]
                         /\ i >= Index(x) /\ i < NBuf => ring'[i] = ring[i + 1]
                         /\ i = NBuf => ring'[i] = x
  BY <1>1 DEF ToEnd
<1>3. ring' \in [1..NBuf -> Buf]
  <2>1. \A i \in 1..NBuf : ring'[i] \in Buf
    BY <1>1, <1>2
  <2> QED
    BY <2>1, <1>1 DEF ToEnd
<1>4. ASSUME NEW y \in Buf PROVE \E i \in 1..NBuf : ring'[i] = y
  <2>1. CASE y = x
    BY <1>1, <1>2, <2>1, NBufType
  <2>2. CASE y # x
    <3>1. Index(y) \in 1..NBuf /\ ring[Index(y)] = y /\ Index(y) # Index(x)
      BY <2>2, IndexType
    <3>2. CASE Index(y) < Index(x)
      BY <1>2, <3>1, <3>2
    <3>3. CASE Index(y) > Index(x)
      <4>1. /\ Index(y) - 1 \in 1..NBuf /\ Index(y) - 1 >= Index(x) /\ Index(y) - 1 < NBuf
            /\ (Index(y) - 1) + 1 = Index(y)
        BY <1>1, <3>1, <3>3
      <4> QED
        BY <1>2, <3>1, <4>1
    <3> QED
      BY <1>1, <3>1, <3>2, <3>3
  <2> QED
    BY <2>1, <2>2
<1> QED
  BY <1>3, <1>4 DEF RingComplete

-----------------------------------------------------------------------------
(* Tasks *)

LEMMA MoveFacts ==
    ASSUME TypeOK, NEW p \in Proc, NEW a, NEW b \in PCs, NEW s, Move(p, a, b, s)
    PROVE  /\ pc[p] = a /\ pc'[p] = b
           /\ \A q \in Proc : q # p => pc'[q] = pc[q]
           /\ cpu' \in Proc \cup {NULL} /\ pc' \in [Proc -> PCs]
  BY DEF Move, TypeOK

LEMMA UserSetsFinite ==
    ASSUME NEW x PROVE IsFiniteSet(Users(x)) /\ IsFiniteSet(Takers(x))
<1>1. Users(x) \subseteq Proc /\ Takers(x) \subseteq Proc
  BY DEF Users, Takers
<1> QED
  BY <1>1, ProcAssumption, FS_Subset

LEMMA UserCounts ==
    ASSUME NEW x PROVE /\ Cardinality(Users(x)) \in Nat /\ Cardinality(Takers(x)) \in Nat
                       /\ Cardinality(Users(x)) = 0 <=> Users(x) = {}
                       /\ Cardinality(Takers(x)) = 0 <=> Takers(x) = {}
  BY UserSetsFinite, FS_CardinalityType, FS_EmptySet

(***************************************************************************)
(* A step of task p that takes and gives up no reference keeps the         *)
(* invariant if p's own bookkeeping is right after it.                     *)
(***************************************************************************)
LEMMA QuietStep ==
    ASSUME CacheInv, TypeOK', NEW p \in Proc,
           \A q \in Proc : q # p => pc'[q] = pc[q] /\ loc'[q] = loc[q],
           loc'[p].bh = loc[p].bh,
           pc[p] \notin {"hashwait", "got", "pwait"},
           pc'[p] \notin {"hashwait", "got"},
           StandsWell(p)',
           pc'[p] \in {"wslot", "wslotwait"} => id[loc'[p].sb] # NULL,
           \A x \in Buf : dirt'[x] => id[x] # NULL,
           \A i \in 1..NReq : \/ req'[i] = req[i]
                              \/ req'[i].cmd # "p" /\ id[req'[i].buf] # NULL,
           UNCHANGED <<id, count, ring>>
    PROVE  CacheInv'
<1> USE DEF CacheInv
<1>1. UniqueBuffer' /\ RingComplete'
  BY DEF UniqueBuffer, RingComplete
<1>2. \A x : Users(x)' = Users(x) /\ Takers(x)' = Takers(x)
  BY DEF Users, Takers
<1>3. RefCount'
  BY <1>2 DEF RefCount
<1>4. HeldIsWanted'
  BY DEF HeldIsWanted
<1>5. Standing'
  BY DEF Standing, StandsWell
<1>6. Assigned'
  BY DEF Assigned
<1>7. PagesWaitedFor'
  <2> SUFFICES ASSUME NEW i \in 1..NReq, req'[i] # NULL, req'[i].cmd = "p"
               PROVE  /\ pc'[req'[i].buf] = "pwait"
                      /\ \A j \in 1..NReq : req'[j] = req'[i] => j = i
    BY DEF PagesWaitedFor
  <2>1. req'[i] = req[i] /\ pc[req[i].buf] = "pwait"
    BY DEF PagesWaitedFor
  <2>2. req[i].buf \in Proc
    <3>1. req[i] \in [cmd : {"p"}, buf : Proc]
      BY <2>1 DEF TypeOK, Request
    <3> QED
      BY <3>1
  <2>3. pc'[req'[i].buf] = "pwait"
    BY <2>1, <2>2
  <2>4. ASSUME NEW j \in 1..NReq, req'[j] = req'[i] PROVE j = i
    BY <2>1, <2>4 DEF PagesWaitedFor
  <2> QED
    BY <2>3, <2>4
<1> QED
  BY <1>1, <1>3, <1>4, <1>5, <1>6, <1>7

-----------------------------------------------------------------------------
(* Updates of a task's locals *)

LEMMA LocUpdate ==
    ASSUME loc \in [Proc -> Locals], NEW p \in Proc, NEW r \in Locals,
           loc' = [loc EXCEPT ![p] = r]
    PROVE  /\ loc' \in [Proc -> Locals] /\ loc'[p] = r
           /\ \A q \in Proc : q # p => loc'[q] = loc[q]
  OBVIOUS

LEMMA SetCandFacts ==
    ASSUME TypeOK, NEW p \in Proc, NEW x \in Buf \cup {NULL}, SetCand(p, x)
    PROVE  /\ loc' \in [Proc -> Locals]
           /\ \A q \in Proc : q # p => loc'[q] = loc[q]
           /\ loc'[p].op = loc[p].op /\ loc'[p].blk = loc[p].blk /\ loc'[p].bh = loc[p].bh
           /\ loc'[p].cand = x /\ loc'[p].sb = loc[p].sb /\ loc'[p].left = loc[p].left
<1> PICK r : r = [loc[p] EXCEPT !.cand = x]
  OBVIOUS
<1>1. /\ r \in Locals /\ r.op = loc[p].op /\ r.blk = loc[p].blk /\ r.bh = loc[p].bh
      /\ r.cand = x /\ r.sb = loc[p].sb /\ r.left = loc[p].left
  <2>1. loc[p] \in Locals
    BY DEF TypeOK
  <2> QED
    BY <2>1, Zenon DEF Locals
<1>2. loc' = [loc EXCEPT ![p] = r]
  BY Zenon DEF SetCand
<1> QED
  BY <1>1, <1>2, LocUpdate DEF TypeOK

LEMMA SetScanFacts ==
    ASSUME TypeOK, NEW p \in Proc, NEW x \in Buf \cup {NULL}, NEW n \in 0..(NBuf + 1),
           SetScan(p, x, n)
    PROVE  /\ loc' \in [Proc -> Locals]
           /\ \A q \in Proc : q # p => loc'[q] = loc[q]
           /\ loc'[p].op = loc[p].op /\ loc'[p].blk = loc[p].blk /\ loc'[p].bh = loc[p].bh
           /\ loc'[p].cand = x /\ loc'[p].left = n
<1> PICK r : r = [loc[p] EXCEPT !.cand = x, !.left = n]
  OBVIOUS
<1>1. /\ r \in Locals /\ r.op = loc[p].op /\ r.blk = loc[p].blk /\ r.bh = loc[p].bh
      /\ r.cand = x /\ r.left = n
  <2>1. loc[p] \in Locals
    BY DEF TypeOK
  <2> QED
    BY <2>1, Zenon DEF Locals
<1>2. loc' = [loc EXCEPT ![p] = r]
  BY Zenon DEF SetScan
<1> QED
  BY <1>1, <1>2, LocUpdate DEF TypeOK

LEMMA SetSyncFacts ==
    ASSUME TypeOK, NEW p \in Proc, NEW k \in 0..2, NEW n \in 0..(NBuf + 1),
           NEW y \in Buf \cup {NULL},
           SetSync(p, k, n, y)
    PROVE  /\ loc' \in [Proc -> Locals]
           /\ \A q \in Proc : q # p => loc'[q] = loc[q]
           /\ loc'[p].op = loc[p].op /\ loc'[p].blk = loc[p].blk /\ loc'[p].bh = loc[p].bh
           /\ loc'[p].cand = loc[p].cand /\ loc'[p].sb = y
<1> PICK r : r = [loc[p] EXCEPT !.pass = k, !.left = n, !.sb = y]
  OBVIOUS
<1>1. /\ r \in Locals /\ r.op = loc[p].op /\ r.blk = loc[p].blk /\ r.bh = loc[p].bh
      /\ r.cand = loc[p].cand /\ r.sb = y
  <2>1. loc[p] \in Locals
    BY DEF TypeOK
  <2> QED
    BY <2>1, Zenon DEF Locals
<1>2. loc' = [loc EXCEPT ![p] = r]
  BY Zenon DEF SetSync
<1> QED
  BY <1>1, <1>2, LocUpdate DEF TypeOK

LEMMA SetBhFacts ==
    ASSUME TypeOK, NEW p \in Proc, NEW x \in Buf,
           SetBh(p, x)
    PROVE  /\ loc' \in [Proc -> Locals]
           /\ \A q \in Proc : q # p => loc'[q] = loc[q]
           /\ loc'[p].op = loc[p].op /\ loc'[p].blk = loc[p].blk /\ loc'[p].bh = x
<1> PICK r : r = [loc[p] EXCEPT !.bh = x, !.cand = NULL]
  OBVIOUS
<1>1. r \in Locals /\ r.op = loc[p].op /\ r.blk = loc[p].blk /\ r.bh = x
  <2>1. loc[p] \in Locals
    BY DEF TypeOK
  <2> QED
    BY <2>1, Zenon DEF Locals
<1>2. loc' = [loc EXCEPT ![p] = r]
  BY Zenon DEF SetBh
<1> QED
  BY <1>1, <1>2, LocUpdate DEF TypeOK

LEMMA SetBlkFacts ==
    ASSUME TypeOK, NEW p \in Proc, NEW b \in Block, NEW t \in Seq(Block),
           SetBlk(p, b, t)
    PROVE  /\ loc' \in [Proc -> Locals]
           /\ \A q \in Proc : q # p => loc'[q] = loc[q]
           /\ loc'[p].op = loc[p].op /\ loc'[p].blk = b /\ loc'[p].bh = loc[p].bh
<1> PICK r : r = [loc[p] EXCEPT !.blk = b, !.todo = t]
  OBVIOUS
<1>1. r \in Locals /\ r.op = loc[p].op /\ r.blk = b /\ r.bh = loc[p].bh
  <2>1. loc[p] \in Locals
    BY DEF TypeOK
  <2> QED
    BY <2>1, Zenon DEF Locals
<1>2. loc' = [loc EXCEPT ![p] = r]
  BY Zenon DEF SetBlk
<1> QED
  BY <1>1, <1>2, LocUpdate DEF TypeOK

-----------------------------------------------------------------------------
(* System calls start *)

LEMMA NoLocType == NoLoc \in Locals
  BY NBufType DEF NoLoc, Locs, Locals

LEMMA StartInv ==
    ASSUME CacheInv, NEW p \in Proc, NEW op \in Ops, NEW b \in Block, NEW a \in Aheads,
           Start(p, op, b, a)
    PROVE  CacheInv'
<1> USE DEF CacheInv
<1>1. /\ pc[p] = "idle" /\ pc'[p] = "find"
      /\ \A q \in Proc : q # p => pc'[q] = pc[q]
      /\ cpu' \in Proc \cup {NULL} /\ pc' \in [Proc -> PCs]
  <2>1. Move(p, "idle", "find", FALSE)
    BY DEF Start, Goto
  <2> QED
    BY <2>1, MoveFacts DEF PCs
<1>2. op \in ReadOps /\ a \in Seq(Block)
  <2>1. op \in ReadOps
    BY ParamAssumption DEF Start, ReadOps
  <2>2. PICK n \in {0, AheadLen} : a \in [1..n -> Block]
    BY DEF Aheads
  <2>3. n \in Nat
    BY ParamAssumption
  <2> QED
    BY <2>1, <2>2, <2>3
<1>3. loc' = [loc EXCEPT ![p] = [op |-> op, blk |-> b, todo |-> a, bh |-> NULL, cand |-> NULL,
                                 left |-> 0, sb |-> NULL, pass |-> 0]]
  BY DEF Start, Locs
<1>4. loc' \in [Proc -> Locals]
  BY <1>2, <1>3, NBufType DEF TypeOK, Locals, ReadOps
<1>5. TypeOK'
  BY <1>1, <1>4 DEF Start, TypeOK, heads, data
<1>6. /\ \A q \in Proc : q # p => loc'[q] = loc[q]
      /\ loc'[p].op = op /\ loc'[p].blk = b /\ loc'[p].bh = NULL
  BY <1>3 DEF TypeOK
<1>7. loc[p].bh = NULL
  BY <1>1, NullAssumption DEF Standing, StandsWell, ReadOps, AllOps
<1>8. StandsWell(p)'
  BY <1>1, <1>2, <1>6 DEF StandsWell, InPage, InSync, InGetblk, HasBh
<1> QED
  BY <1>1, <1>5, <1>6, <1>7, <1>8, QuietStep DEF Start, Assigned, heads

LEMMA StartSyncInv ==
    ASSUME CacheInv, NEW p \in Proc, StartSync(p) PROVE CacheInv'
<1> USE DEF CacheInv
<1>1. /\ pc[p] = "idle" /\ pc'[p] = "syncwait"
      /\ \A q \in Proc : q # p => pc'[q] = pc[q]
      /\ cpu' \in Proc \cup {NULL} /\ pc' \in [Proc -> PCs]
  <2>1. Move(p, "idle", "syncwait", lock[ring[1]])
    BY DEF StartSync, Wait
  <2> QED
    BY <2>1, MoveFacts DEF PCs
<1>2. ring[1] \in Buf
  BY RingHead
<1>3. loc' = [loc EXCEPT ![p] = [op |-> "sys_sync", blk |-> NULL, todo |-> <<>>, bh |-> NULL,
                                 cand |-> NULL, left |-> NBuf, sb |-> ring[1], pass |-> 1]]
  BY DEF StartSync, Locs
<1>4. loc' \in [Proc -> Locals]
  BY <1>2, <1>3, NBufType DEF TypeOK, Locals, AllOps
<1>5. TypeOK'
  BY <1>1, <1>4 DEF StartSync, TypeOK, heads, data
<1>6. /\ \A q \in Proc : q # p => loc'[q] = loc[q]
      /\ loc'[p].op = "sys_sync" /\ loc'[p].sb = ring[1] /\ loc'[p].bh = NULL
  BY <1>3 DEF TypeOK
<1>7. loc[p].bh = NULL
  BY <1>1, NullAssumption DEF Standing, StandsWell, ReadOps, AllOps
<1>8. StandsWell(p)'
  BY <1>1, <1>2, <1>6 DEF StandsWell, InPage, InSync, InGetblk, HasBh, ReadOps
<1> QED
  BY <1>1, <1>5, <1>6, <1>7, <1>8, QuietStep DEF StartSync, Assigned, heads

LEMMA StartPageInv ==
    ASSUME CacheInv, NEW p \in Proc, StartPage(p) PROVE CacheInv'
<1> USE DEF CacheInv
<1>1. /\ pc[p] = "idle" /\ pc'[p] = "pslot"
      /\ \A q \in Proc : q # p => pc'[q] = pc[q]
      /\ cpu' \in Proc \cup {NULL} /\ pc' \in [Proc -> PCs]
  <2>1. Move(p, "idle", "pslot", FALSE)
    BY DEF StartPage, Goto
  <2> QED
    BY <2>1, MoveFacts DEF PCs
<1>3. loc' = [loc EXCEPT ![p] = [op |-> "ll_rw_page", blk |-> NULL, todo |-> <<>>, bh |-> NULL,
                                 cand |-> NULL, left |-> 0, sb |-> NULL, pass |-> 0]]
  BY DEF StartPage, Locs
<1>4. loc' \in [Proc -> Locals]
  BY <1>3, NBufType DEF TypeOK, Locals, AllOps
<1>5. TypeOK'
  BY <1>1, <1>4 DEF StartPage, TypeOK, heads, data
<1>6. /\ \A q \in Proc : q # p => loc'[q] = loc[q]
      /\ loc'[p].op = "ll_rw_page" /\ loc'[p].bh = NULL
  BY <1>3 DEF TypeOK
<1>7. loc[p].bh = NULL
  BY <1>1, NullAssumption DEF Standing, StandsWell, ReadOps, AllOps
<1>8. StandsWell(p)'
  BY <1>1, <1>6 DEF StandsWell, InPage, InSync, InGetblk, HasBh, ReadOps
<1> QED
  BY <1>1, <1>5, <1>6, <1>7, <1>8, QuietStep DEF StartPage, Assigned, heads

-----------------------------------------------------------------------------
(* Requests *)

LEMMA AddRequestFacts ==
    ASSUME TypeOK, NEW cmd \in {"r", "w"}, NEW x \in Buf, AddRequest(cmd, x)
    PROVE  /\ req' \in [1..NReq -> Request] /\ dirt' \in [Buf -> BOOLEAN]
           /\ \A y \in Buf : dirt'[y] => dirt[y]
           /\ \A i \in 1..NReq : \/ req'[i] = req[i]
                                 \/ req'[i].cmd # "p" /\ req'[i].buf = x
<1>1. PICK i \in 1..NReq : req' = [req EXCEPT ![i] = [cmd |-> cmd, buf |-> x]]
  BY DEF AddRequest
<1>2. req' \in [1..NReq -> Request]
  BY <1>1 DEF TypeOK, Request
<1>3. \A k \in 1..NReq : \/ req'[k] = req[k]
                         \/ req'[k].cmd # "p" /\ req'[k].buf = x
  BY <1>1 DEF TypeOK
<1>4. dirt' \in [Buf -> BOOLEAN] /\ \A y \in Buf : dirt'[y] => dirt[y]
  BY DEF AddRequest, TypeOK
<1> QED
  BY <1>2, <1>3, <1>4

LEMMA RequestAheadFacts ==
    ASSUME TypeOK, NEW cmd \in {"r", "w"}, NEW x \in Buf, RequestAhead(cmd, x)
    PROVE  /\ req' \in [1..NReq -> Request] /\ dirt' \in [Buf -> BOOLEAN]
           /\ lock' \in [Buf -> BOOLEAN]
           /\ \A y \in Buf : dirt'[y] => dirt[y]
           /\ \A i \in 1..NReq : \/ req'[i] = req[i]
                                 \/ req'[i].cmd # "p" /\ req'[i].buf = x
<1>1. CASE UNCHANGED <<req, dirt, lock>>
  BY <1>1 DEF TypeOK
<1>2. CASE AddRequest(cmd, x) /\ lock' = [lock EXCEPT ![x] = TRUE]
  <2>1. lock' \in [Buf -> BOOLEAN]
    BY <1>2 DEF TypeOK
  <2> QED
    BY <1>2, <2>1, AddRequestFacts
<1> QED
  BY <1>1, <1>2 DEF RequestAhead

LEMMA LockBufferInv ==
    ASSUME CacheInv, NEW p \in Proc, NEW cmd \in {"r", "w"}, LockBuffer(p, cmd)
    PROVE  CacheInv'
<1> USE DEF CacheInv
<1> PICK x : x = Target(p, cmd)
  OBVIOUS
<1>1. /\ pc[p] = IF cmd = "r" THEN "rlock" ELSE "wlock"
      /\ pc'[p] \in IF cmd = "r" THEN {"ahead", "rslot"} ELSE {"syncnext", "wslot"}
      /\ cmd = "w" /\ pc'[p] = "wslot" => dirt[x]
      /\ \A q \in Proc : q # p => pc'[q] = pc[q]
      /\ cpu' \in Proc \cup {NULL} /\ pc' \in [Proc -> PCs]
      /\ lock' = lock \/ lock' = [lock EXCEPT ![x] = TRUE]
  <2>1. PICK a : a = At(cmd, "lock")
    OBVIOUS
  <2>2. \/ /\ Move(p, a, At(cmd, "done"), FALSE) /\ lock' = lock
        \/ /\ Move(p, a, At(cmd, "slot"), FALSE) /\ lock' = [lock EXCEPT ![x] = TRUE]
           /\ cmd = "w" => dirt[x]
    BY <2>1 DEF LockBuffer, Goto
  <2>3. /\ a = IF cmd = "r" THEN "rlock" ELSE "wlock"
        /\ At(cmd, "done") = IF cmd = "r" THEN "ahead" ELSE "syncnext"
        /\ At(cmd, "slot") = IF cmd = "r" THEN "rslot" ELSE "wslot"
    BY <2>1 DEF At
  <2>4. At(cmd, "done") \in PCs /\ At(cmd, "slot") \in PCs
    BY <2>3 DEF PCs
  <2>5. CASE Move(p, a, At(cmd, "done"), FALSE) /\ lock' = lock
    BY <2>3, <2>4, <2>5, MoveFacts
  <2>6. CASE /\ Move(p, a, At(cmd, "slot"), FALSE) /\ lock' = [lock EXCEPT ![x] = TRUE]
             /\ cmd = "w" => dirt[x]
    BY <2>3, <2>4, <2>6, MoveFacts
  <2> QED
    BY <2>2, <2>5, <2>6
<1>2. UNCHANGED <<loc, id, count, dirt, upto, ring, req, data>>
  BY DEF LockBuffer
<1>3. x \in Buf /\ (cmd = "w" => x = loc[p].sb)
  BY <1>1 DEF Target, Standing, StandsWell, HasBh, InSync
<1>4. TypeOK'
  BY <1>1, <1>2, <1>3 DEF TypeOK, data
<1>5. StandsWell(p)'
  BY <1>1, <1>2 DEF Standing, StandsWell, InPage, InSync, InGetblk, HasBh
<1>6. pc'[p] \in {"wslot", "wslotwait"} => id[loc'[p].sb] # NULL
  BY <1>1, <1>2, <1>3 DEF Assigned
<1> QED
  BY <1>1, <1>2, <1>4, <1>5, <1>6, QuietStep DEF Assigned

LEMMA MakeRequestInv ==
    ASSUME CacheInv, NEW p \in Proc, NEW cmd \in {"r", "w"}, MakeRequest(p, cmd)
    PROVE  CacheInv'
<1> USE DEF CacheInv
<1> PICK x : x = Target(p, cmd)
  OBVIOUS
<1>0. /\ At(cmd, "slot") = IF cmd = "r" THEN "rslot" ELSE "wslot"
      /\ At(cmd, "done") = IF cmd = "r" THEN "ahead" ELSE "syncnext"
      /\ At(cmd, "wait") = IF cmd = "r" THEN "rslotwait" ELSE "wslotwait"
      /\ At(cmd, "done") \in PCs /\ At(cmd, "wait") \in PCs
  BY DEF At, PCs
<1>1. CASE Goto(p, At(cmd, "slot"), At(cmd, "done")) /\ AddRequest(cmd, x)
           /\ UNCHANGED <<loc, id, count, lock, upto, ring, data>>
  <2>1. /\ pc[p] = At(cmd, "slot") /\ pc'[p] = At(cmd, "done")
        /\ \A q \in Proc : q # p => pc'[q] = pc[q]
        /\ cpu' \in Proc \cup {NULL} /\ pc' \in [Proc -> PCs]
    BY <1>0, <1>1, MoveFacts DEF Goto
  <2>2. x \in Buf /\ id[x] # NULL
    BY <1>0, <2>1, NullAssumption DEF Target, Standing, StandsWell, HasBh, InSync, Assigned
  <2>3. /\ req' \in [1..NReq -> Request] /\ dirt' \in [Buf -> BOOLEAN]
        /\ \A y \in Buf : dirt'[y] => dirt[y]
        /\ \A i \in 1..NReq : \/ req'[i] = req[i]
                              \/ req'[i].cmd # "p" /\ req'[i].buf = x
    BY <1>1, <2>2, AddRequestFacts
  <2>4. TypeOK'
    BY <1>1, <2>1, <2>3 DEF TypeOK, data
  <2>5. StandsWell(p)'
    BY <1>0, <1>1, <2>1 DEF Standing, StandsWell, InPage, InSync, InGetblk, HasBh
  <2> QED
    BY <1>0, <1>1, <2>1, <2>2, <2>3, <2>4, <2>5, QuietStep DEF Assigned
<1>2. CASE Sleep(p, At(cmd, "slot"), At(cmd, "wait")) /\ UNCHANGED <<loc, heads, req, data>>
  <2>1. /\ pc[p] = At(cmd, "slot") /\ pc'[p] = At(cmd, "wait")
        /\ \A q \in Proc : q # p => pc'[q] = pc[q]
        /\ cpu' \in Proc \cup {NULL} /\ pc' \in [Proc -> PCs]
    BY <1>0, <1>2, MoveFacts DEF Sleep
  <2>2. TypeOK'
    BY <1>2, <2>1 DEF TypeOK, heads, data
  <2>3. StandsWell(p)'
    BY <1>0, <1>2, <2>1 DEF Standing, StandsWell, InPage, InSync, InGetblk, HasBh
  <2>4. pc'[p] \in {"wslot", "wslotwait"} => id[loc'[p].sb] # NULL
    BY <1>0, <1>2, <2>1 DEF Assigned
  <2> QED
    BY <1>0, <1>2, <2>1, <2>2, <2>3, <2>4, QuietStep DEF Assigned, heads
<1> QED
  BY <1>1, <1>2 DEF MakeRequest

(***************************************************************************)
(* ll_rw_page: the task waits for the one request it has made.             *)
(***************************************************************************)
LEMMA PageRequestInv ==
    ASSUME CacheInv, NEW p \in Proc, PageRequest(p) PROVE CacheInv'
<1> USE DEF CacheInv
<1>1. CASE /\ Sleep(p, "pslot", "pwait")
           /\ \E i \in 1..NReq : req' = [req EXCEPT ![i] = [cmd |-> "p", buf |-> p]]
           /\ UNCHANGED <<loc, heads, data>>
  <2>1. /\ pc[p] = "pslot" /\ pc'[p] = "pwait"
        /\ \A q \in Proc : q # p => pc'[q] = pc[q]
        /\ cpu' \in Proc \cup {NULL} /\ pc' \in [Proc -> PCs]
    BY <1>1, MoveFacts DEF Sleep, PCs
  <2>2. PICK i \in 1..NReq : req' = [req EXCEPT ![i] = [cmd |-> "p", buf |-> p]]
    BY <1>1
  <2>3. /\ req' \in [1..NReq -> Request]
        /\ req'[i] = [cmd |-> "p", buf |-> p]
        /\ \A j \in 1..NReq : j # i => req'[j] = req[j]
    BY <2>2 DEF TypeOK, Request
  <2>4. TypeOK'
    BY <1>1, <2>1, <2>3 DEF TypeOK, heads, data
  <2>5. UniqueBuffer' /\ RingComplete'
    BY <1>1 DEF UniqueBuffer, RingComplete, heads
  <2>6. \A x : Users(x)' = Users(x) /\ Takers(x)' = Takers(x)
    BY <1>1, <2>1 DEF Users, Takers
  <2>7. RefCount'
    BY <1>1, <2>6 DEF RefCount, heads
  <2>8. HeldIsWanted'
    BY <1>1, <2>1 DEF HeldIsWanted, heads
  <2>9. Standing'
    BY <1>1, <2>1 DEF Standing, StandsWell, InPage, InSync, InGetblk, HasBh
  <2>10. Assigned'
    BY <1>1, <2>1, <2>3 DEF Assigned, heads
  <2>11. PagesWaitedFor'
    <3>1. \A j \in 1..NReq : req[j] # NULL /\ req[j].cmd = "p" => req[j].buf \in Proc \ {p}
      BY <2>1, NullAssumption DEF TypeOK, Request, PagesWaitedFor
    <3> SUFFICES ASSUME NEW j \in 1..NReq, req'[j] # NULL, req'[j].cmd = "p"
                 PROVE  /\ pc'[req'[j].buf] = "pwait"
                        /\ \A k \in 1..NReq : req'[k] = req'[j] => k = j
      BY DEF PagesWaitedFor
    <3>2. CASE j = i
      <4>1. \A k \in 1..NReq : k # i => req[k] # req'[i]
        BY <2>3, <3>1, <3>2
      <4> QED
        BY <2>1, <2>3, <3>2, <4>1
    <3>3. CASE j # i
      <4>1. req'[j] = req[j] /\ req[j].buf \in Proc \ {p} /\ pc[req[j].buf] = "pwait"
        BY <2>3, <3>1, <3>3 DEF PagesWaitedFor
      <4>2. \A k \in 1..NReq : req'[k] = req'[j] => k # i /\ req[k] = req[j]
        BY <2>3, <4>1
      <4>3. \A k \in 1..NReq : req[k] = req[j] => k = j
        BY <4>1 DEF PagesWaitedFor
      <4> QED
        BY <2>1, <4>1, <4>2, <4>3
    <3> QED
      BY <3>2, <3>3
  <2> QED
    BY <2>4, <2>5, <2>7, <2>8, <2>9, <2>10, <2>11
<1>2. ASSUME NEW a \in {"pslot", "pslotgap"}, NEW b \in {"pslotgap", "pslotwait"}, NEW s,
             Move(p, a, b, s), UNCHANGED <<loc, heads, req, data>>
      PROVE  CacheInv'
  <2>1. /\ pc[p] = a /\ pc'[p] = b
        /\ \A q \in Proc : q # p => pc'[q] = pc[q]
        /\ cpu' \in Proc \cup {NULL} /\ pc' \in [Proc -> PCs]
    <3>1. b \in PCs
      BY DEF PCs
    <3> QED
      BY <1>2, <3>1, MoveFacts
  <2>2. TypeOK'
    BY <1>2, <2>1 DEF TypeOK, heads, data
  <2>3. StandsWell(p)'
    BY <1>2, <2>1 DEF Standing, StandsWell, InPage, InSync, InGetblk, HasBh
  <2> QED
    BY <1>2, <2>1, <2>2, <2>3, QuietStep DEF Assigned, heads
<1> QED
  BY <1>1, <1>2 DEF PageRequest, Goto, Sleep

-----------------------------------------------------------------------------
(* sync_buffers *)

LEMMA SyncWaitInv ==
    ASSUME CacheInv, NEW p \in Proc, SyncWait(p) PROVE CacheInv'
<1> USE DEF CacheInv
<1>1. /\ pc[p] = "syncwait" /\ pc'[p] \in {"wlock", "syncnext"}
      /\ \A q \in Proc : q # p => pc'[q] = pc[q]
      /\ cpu' \in Proc \cup {NULL} /\ pc' \in [Proc -> PCs]
  <2>1. PICK b \in {"wlock", "syncnext"} : Move(p, "syncwait", b, FALSE)
    BY DEF SyncWait, Goto
  <2>2. b \in PCs
    BY DEF PCs
  <2> QED
    BY <2>1, <2>2, MoveFacts
<1>2. UNCHANGED <<loc, heads, req, data>>
  BY DEF SyncWait
<1>3. TypeOK'
  BY <1>1, <1>2 DEF TypeOK, heads, data
<1>4. StandsWell(p)'
  BY <1>1, <1>2 DEF Standing, StandsWell, InPage, InSync, InGetblk, HasBh
<1> QED
  BY <1>1, <1>2, <1>3, <1>4, QuietStep DEF Assigned, heads

LEMMA SyncNextInv ==
    ASSUME CacheInv, NEW p \in Proc, SyncNext(p) PROVE CacheInv'
<1> USE DEF CacheInv
<1>0. /\ pc[p] = "syncnext" /\ UNCHANGED <<heads, req, data>>
      /\ loc[p].sb \in Buf /\ loc[p].op \in ReadOps \cup {"sys_sync"}
      /\ loc[p].op \in ReadOps => loc[p].cand \in Buf /\ loc[p].blk \in Block
      /\ loc[p].op \notin ReadOps => loc[p].bh = NULL
      /\ loc[p] \in Locals
  <2>1. pc[p] = "syncnext" /\ UNCHANGED <<heads, req, data>>
    BY DEF SyncNext, Wait, Sleep, Move
  <2> QED
    BY <2>1 DEF Standing, StandsWell, InSync, TypeOK
<1>1. ASSUME NEW y \in Buf, NEW n \in 0..NBuf, NEW k \in 0..2,
             Wait(p, "syncnext", "syncwait", y),
             SetSync(p, k, n, y)
      PROVE  CacheInv'
  <2>1. /\ pc'[p] = "syncwait"
        /\ \A q \in Proc : q # p => pc'[q] = pc[q]
        /\ cpu' \in Proc \cup {NULL} /\ pc' \in [Proc -> PCs]
    <3>1. Move(p, "syncnext", "syncwait", lock[y])
      BY <1>1 DEF Wait
    <3> QED
      BY <1>0, <3>1, MoveFacts DEF PCs
  <2>2. /\ loc' \in [Proc -> Locals]
        /\ \A q \in Proc : q # p => loc'[q] = loc[q]
        /\ loc'[p].op = loc[p].op /\ loc'[p].blk = loc[p].blk /\ loc'[p].bh = loc[p].bh
        /\ loc'[p].cand = loc[p].cand /\ loc'[p].sb = y
    <3>1. n \in 0..(NBuf + 1)
      BY NBufType
    <3>2. y \in Buf \cup {NULL} /\ k \in 0..2 /\ TypeOK
      OBVIOUS
    <3> QED
      BY <1>1, <3>1, <3>2, SetSyncFacts
  <2>3. TypeOK'
    BY <1>0, <2>1, <2>2 DEF TypeOK, heads, data
  <2>4. StandsWell(p)'
    BY <1>0, <2>1, <2>2 DEF StandsWell, InPage, InSync, InGetblk, HasBh
  <2> QED
    BY <1>0, <2>1, <2>2, <2>3, <2>4, QuietStep DEF Assigned, heads
<1>2. CASE /\ loc[p].left > 1
           /\ Wait(p, "syncnext", "syncwait", NextFree(loc[p].sb))
           /\ SetSync(p, loc[p].pass, loc[p].left - 1, NextFree(loc[p].sb))
  <2>1. NextFree(loc[p].sb) \in Buf
    BY <1>0, NextFreeType
  <2>2. loc[p].left - 1 \in 0..NBuf /\ loc[p].pass \in 0..2
    BY <1>0, <1>2, NBufType DEF Locals
  <2> QED
    BY <1>1, <1>2, <2>1, <2>2
<1>3. CASE /\ Wait(p, "syncnext", "syncwait", ring[1])
           /\ SetSync(p, 1, NBuf, ring[1])
  <2>1. NBuf \in 0..NBuf /\ 1 \in 0..2
    BY NBufType
  <2> QED
    BY <1>1, <1>3, <2>1, RingHead
<1>4. CASE /\ loc[p].op = "sys_sync"
           /\ Sleep(p, "syncnext", "idle") /\ loc' = [loc EXCEPT ![p] = NoLoc]
  <2>1. /\ pc'[p] = "idle"
        /\ \A q \in Proc : q # p => pc'[q] = pc[q]
        /\ cpu' \in Proc \cup {NULL} /\ pc' \in [Proc -> PCs]
    BY <1>4, MoveFacts DEF Sleep, PCs
  <2>2. /\ loc' \in [Proc -> Locals]
        /\ \A q \in Proc : q # p => loc'[q] = loc[q]
        /\ loc'[p] = NoLoc
    BY <1>4, NoLocType DEF TypeOK
  <2>3. NoLoc.op = NULL /\ NoLoc.bh = NULL /\ NULL \notin ReadOps
    BY NullAssumption DEF NoLoc, Locs, ReadOps
  <2>4. loc[p].bh = NULL
    BY <1>0, <1>4 DEF ReadOps
  <2>5. TypeOK'
    BY <1>0, <2>1, <2>2 DEF TypeOK, heads, data
  <2>6. StandsWell(p)'
    BY <2>1, <2>2, <2>3 DEF StandsWell, InPage, InSync, InGetblk, HasBh
  <2> QED
    BY <1>0, <2>1, <2>2, <2>3, <2>4, <2>5, <2>6, QuietStep DEF Assigned, heads
<1>5. CASE /\ loc[p].op # "sys_sync"
           /\ Wait(p, "syncnext", "candwait", loc[p].cand)
           /\ SetSync(p, 0, 0, NULL)
  <2>1. /\ pc'[p] = "candwait"
        /\ \A q \in Proc : q # p => pc'[q] = pc[q]
        /\ cpu' \in Proc \cup {NULL} /\ pc' \in [Proc -> PCs]
    <3>1. Move(p, "syncnext", "candwait", lock[loc[p].cand])
      BY <1>5 DEF Wait
    <3>2. "candwait" \in PCs
      BY DEF PCs
    <3> QED
      BY <3>1, <3>2, MoveFacts
  <2>2. /\ loc' \in [Proc -> Locals]
        /\ \A q \in Proc : q # p => loc'[q] = loc[q]
        /\ loc'[p].op = loc[p].op /\ loc'[p].blk = loc[p].blk /\ loc'[p].bh = loc[p].bh
        /\ loc'[p].cand = loc[p].cand
    <3>1. 0 \in 0..(NBuf + 1) /\ 0 \in 0..2
      BY NBufType
    <3> QED
      BY <1>5, <3>1, SetSyncFacts
  <2>3. TypeOK'
    BY <1>0, <2>1, <2>2 DEF TypeOK, heads, data
  <2>4. StandsWell(p)'
    BY <1>0, <1>5, <2>1, <2>2 DEF StandsWell, InPage, InSync, InGetblk, HasBh
  <2> QED
    BY <1>0, <2>1, <2>2, <2>3, <2>4, QuietStep DEF Assigned, heads
<1> QED
  BY <1>2, <1>3, <1>4, <1>5 DEF SyncNext

-----------------------------------------------------------------------------
(* getblk, before it has a buffer *)

LEMMA ScanInv ==
    ASSUME CacheInv, NEW p \in Proc, Scan(p) PROVE CacheInv'
<1> USE DEF CacheInv
<1> PICK tmp : tmp = ring[1 + ((NBuf + 2 - loc[p].left) % NBuf)]
  OBVIOUS
<1>0. /\ pc[p] = "scan" /\ loc[p] \in Locals /\ loc[p].left \in 1..(NBuf + 1)
      /\ loc[p].op \in ReadOps /\ loc[p].blk \in Block
  <2>1. pc[p] = "scan" /\ loc[p] \in Locals
    BY DEF Scan, TypeOK
  <2>2. loc[p].left > 0 /\ loc[p].left \in 0..(NBuf + 1)
    BY <2>1 DEF Standing, StandsWell, Locals
  <2>3. loc[p].op \in ReadOps /\ loc[p].blk \in Block
    BY <2>1 DEF Standing, StandsWell, InGetblk
  <2> QED
    BY <2>1, <2>2, <2>3, NBufType
<1>1. tmp \in Buf
  <2>1. NBuf + 2 - loc[p].left \in Nat
    BY <1>0, NBufType
  <2>2. (NBuf + 2 - loc[p].left) % NBuf \in 0..(NBuf - 1)
    BY <2>1, NBufType
  <2>3. 1 + ((NBuf + 2 - loc[p].left) % NBuf) \in 1..NBuf
    BY <2>2, NBufType
  <2> QED
    BY <2>3 DEF TypeOK
<1>2. PICK best \in {tmp, loc[p].cand}, n \in {0, loc[p].left - 1},
           b \in {"scan", "nobuf", "candwait"} : \E s :
         /\ SetScan(p, best, n)
         /\ Move(p, "scan", b, s)
         /\ b = "candwait" => best # NULL
         /\ b = "scan" => loc[p].left # 1 /\ n = loc[p].left - 1
  BY DEF Scan, Goto, Sleep
<1>3. /\ pc'[p] = b /\ \A q \in Proc : q # p => pc'[q] = pc[q]
      /\ cpu' \in Proc \cup {NULL} /\ pc' \in [Proc -> PCs]
  <2>1. b \in PCs
    BY DEF PCs
  <2> QED
    BY <1>2, <2>1, MoveFacts
<1>4. n \in 0..(NBuf + 1) /\ best \in Buf \cup {NULL} /\ (b = "scan" => n > 0)
  BY <1>0, <1>1, <1>2, NBufType DEF Locals
<1>5. /\ loc' \in [Proc -> Locals]
      /\ \A q \in Proc : q # p => loc'[q] = loc[q]
      /\ loc'[p].op = loc[p].op /\ loc'[p].blk = loc[p].blk /\ loc'[p].bh = loc[p].bh
      /\ loc'[p].cand = best /\ loc'[p].left = n
  BY <1>2, <1>4, SetScanFacts
<1>6. /\ req' \in [1..NReq -> Request] /\ dirt' \in [Buf -> BOOLEAN] /\ lock' \in [Buf -> BOOLEAN]
      /\ \A y \in Buf : dirt'[y] => dirt[y]
      /\ \A i \in 1..NReq : \/ req'[i] = req[i]
                            \/ req'[i].cmd # "p" /\ req'[i].buf = tmp /\ dirt[tmp]
  <2>1. CASE UNCHANGED <<req, dirt, lock>>
    BY <2>1 DEF TypeOK
  <2>2. CASE dirt[tmp] /\ RequestAhead("w", tmp)
    BY <1>1, <2>2, RequestAheadFacts
  <2> QED
    BY <2>1, <2>2 DEF Scan
<1>7. UNCHANGED <<id, count, upto, ring, data>>
  BY DEF Scan
<1>8. TypeOK'
  BY <1>3, <1>5, <1>6, <1>7 DEF TypeOK, data
<1>9. StandsWell(p)'
  BY <1>0, <1>2, <1>3, <1>4, <1>5 DEF Standing, StandsWell, InPage, InSync, InGetblk, HasBh
<1>10. /\ \A y \in Buf : dirt'[y] => id[y] # NULL
       /\ \A i \in 1..NReq : \/ req'[i] = req[i]
                             \/ req'[i].cmd # "p" /\ id[req'[i].buf] # NULL
  BY <1>1, <1>6 DEF Assigned
<1> QED
  BY <1>0, <1>3, <1>5, <1>7, <1>8, <1>9, <1>10, QuietStep

LEMMA RetryInv ==
    ASSUME CacheInv, NEW p \in Proc, Retry(p) PROVE CacheInv'
<1> USE DEF CacheInv
<1>1. /\ pc[p] = "candwait" /\ pc'[p] = "find"
      /\ \A q \in Proc : q # p => pc'[q] = pc[q]
      /\ cpu' \in Proc \cup {NULL} /\ pc' \in [Proc -> PCs]
  BY MoveFacts DEF Retry, Goto, PCs
<1>2. UNCHANGED <<heads, req, data>> /\ SetCand(p, NULL)
  BY DEF Retry
<1>3. /\ loc' \in [Proc -> Locals]
      /\ \A q \in Proc : q # p => loc'[q] = loc[q]
      /\ loc'[p].op = loc[p].op /\ loc'[p].blk = loc[p].blk /\ loc'[p].bh = loc[p].bh
  BY <1>2, SetCandFacts
<1>4. TypeOK'
  BY <1>1, <1>2, <1>3 DEF TypeOK, heads, data
<1>5. StandsWell(p)'
  BY <1>1, <1>3 DEF Standing, StandsWell, InPage, InSync, InGetblk, HasBh
<1> QED
  BY <1>1, <1>2, <1>3, <1>4, <1>5, QuietStep DEF Assigned, heads

LEMMA SyncDevInv ==
    ASSUME CacheInv, NEW p \in Proc, SyncDev(p) PROVE CacheInv'
<1> USE DEF CacheInv
<1>1. /\ pc[p] = "candwait" /\ pc'[p] = "syncwait"
      /\ \A q \in Proc : q # p => pc'[q] = pc[q]
      /\ cpu' \in Proc \cup {NULL} /\ pc' \in [Proc -> PCs]
  BY MoveFacts DEF SyncDev, Wait, PCs
<1>2. UNCHANGED <<heads, req, data>> /\ SetSync(p, 2, NBuf, ring[1])
  BY DEF SyncDev
<1>3. /\ loc' \in [Proc -> Locals]
      /\ \A q \in Proc : q # p => loc'[q] = loc[q]
      /\ loc'[p].op = loc[p].op /\ loc'[p].blk = loc[p].blk /\ loc'[p].bh = loc[p].bh
      /\ loc'[p].cand = loc[p].cand /\ loc'[p].sb = ring[1] /\ ring[1] \in Buf
  <2>1. NBuf \in 0..(NBuf + 1) /\ 2 \in 0..2
    BY NBufType
  <2> QED
    BY <1>2, <2>1, RingHead, SetSyncFacts
<1>4. TypeOK'
  BY <1>1, <1>2, <1>3 DEF TypeOK, heads, data
<1>5. StandsWell(p)'
  BY <1>1, <1>3 DEF Standing, StandsWell, InPage, InSync, InGetblk, HasBh
<1> QED
  BY <1>1, <1>2, <1>3, <1>4, <1>5, QuietStep DEF Assigned, heads

-----------------------------------------------------------------------------
(* The callers of getblk *)

LEMMA AheadInv ==
    ASSUME CacheInv, NEW p \in Proc, Ahead(p) PROVE CacheInv'
<1> USE DEF CacheInv
<1>0. UNCHANGED <<heads, req, data>> /\ pc[p] = "ahead" /\ loc[p] \in Locals
  BY DEF Ahead, Goto, Wait, Move, TypeOK
<1>1. CASE /\ loc[p].todo # <<>> /\ Goto(p, "ahead", "find")
           /\ SetBlk(p, Head(loc[p].todo), Tail(loc[p].todo))
  <2>1. /\ pc'[p] = "find" /\ \A q \in Proc : q # p => pc'[q] = pc[q]
        /\ cpu' \in Proc \cup {NULL} /\ pc' \in [Proc -> PCs]
    BY <1>1, MoveFacts DEF Goto, PCs
  <2>2. Head(loc[p].todo) \in Block /\ Tail(loc[p].todo) \in Seq(Block)
    BY <1>0, <1>1 DEF Locals
  <2>3. /\ loc' \in [Proc -> Locals]
        /\ \A q \in Proc : q # p => loc'[q] = loc[q]
        /\ loc'[p].op = loc[p].op /\ loc'[p].blk \in Block /\ loc'[p].bh = loc[p].bh
    BY <1>1, <2>2, SetBlkFacts
  <2>4. TypeOK'
    BY <1>0, <2>1, <2>3 DEF TypeOK, heads, data
  <2>5. StandsWell(p)'
    BY <1>0, <2>1, <2>3 DEF Standing, StandsWell, InPage, InSync, InGetblk, HasBh
  <2> QED
    BY <1>0, <2>1, <2>3, <2>4, <2>5, QuietStep DEF Assigned, heads
<1>2. CASE Wait(p, "ahead", "rdwait", loc[p].bh) /\ UNCHANGED loc
  <2>1. /\ pc'[p] = "rdwait" /\ \A q \in Proc : q # p => pc'[q] = pc[q]
        /\ cpu' \in Proc \cup {NULL} /\ pc' \in [Proc -> PCs]
    <3>1. Move(p, "ahead", "rdwait", lock[loc[p].bh]) /\ "rdwait" \in PCs
      BY <1>2 DEF Wait, PCs
    <3> QED
      BY <3>1, MoveFacts
  <2>2. TypeOK'
    BY <1>0, <1>2, <2>1 DEF TypeOK, heads, data
  <2>3. StandsWell(p)'
    BY <1>0, <1>2, <2>1 DEF Standing, StandsWell, InPage, InSync, InGetblk, HasBh
  <2> QED
    BY <1>0, <1>2, <2>1, <2>2, <2>3, QuietStep DEF Assigned, heads
<1> QED
  BY <1>1, <1>2 DEF Ahead

LEMMA ReadWaitInv ==
    ASSUME CacheInv, NEW p \in Proc, ReadWait(p) PROVE CacheInv'
<1> USE DEF CacheInv
<1>1. PICK b \in {"copy", "rel"} : \E s : Move(p, "rdwait", b, s)
  BY DEF ReadWait
<1>2. /\ pc[p] = "rdwait" /\ pc'[p] = b /\ \A q \in Proc : q # p => pc'[q] = pc[q]
      /\ cpu' \in Proc \cup {NULL} /\ pc' \in [Proc -> PCs]
  <2>1. b \in PCs
    BY DEF PCs
  <2> QED
    BY <1>1, <2>1, MoveFacts
<1>3. /\ UNCHANGED <<loc, id, count, lock, upto, ring, req, data>>
      /\ dirt' = dirt \/ dirt' = [dirt EXCEPT ![loc[p].bh] = TRUE]
  BY DEF ReadWait
<1>4. loc[p].bh \in Buf /\ id[loc[p].bh] # NULL
  BY <1>2, NullAssumption DEF Standing, StandsWell, HasBh, Assigned
<1>5. dirt' \in [Buf -> BOOLEAN] /\ \A x \in Buf : dirt'[x] => id[x] # NULL
  BY <1>3, <1>4 DEF TypeOK, Assigned
<1>6. TypeOK'
  BY <1>2, <1>3, <1>5 DEF TypeOK, data
<1>7. StandsWell(p)'
  BY <1>2, <1>3 DEF Standing, StandsWell, InPage, InSync, InGetblk, HasBh
<1> QED
  BY <1>2, <1>3, <1>5, <1>6, <1>7, QuietStep DEF Assigned

LEMMA CopyInv ==
    ASSUME CacheInv, NEW p \in Proc, Copy(p) PROVE CacheInv'
<1> USE DEF CacheInv
<1>1. /\ pc[p] = "copy" /\ pc'[p] = "rel" /\ \A q \in Proc : q # p => pc'[q] = pc[q]
      /\ cpu' \in Proc \cup {NULL} /\ pc' \in [Proc -> PCs]
  <2>1. Move(p, "copy", "rel", lock[loc[p].bh]) /\ "rel" \in PCs
    BY DEF Copy, Wait, PCs
  <2> QED
    BY <2>1, MoveFacts
<1>2. /\ UNCHANGED <<loc, id, count, lock, upto, ring, req, damaged>>
      /\ dirt' = dirt \/ dirt' = [dirt EXCEPT ![loc[p].bh] = TRUE]
      /\ bcur' = [bcur EXCEPT ![loc[p].bh] = TRUE]
      /\ dcur' = [dcur EXCEPT ![id[loc[p].bh]] = FALSE]
  BY DEF Copy
<1>3. loc[p].bh \in Buf /\ id[loc[p].bh] # NULL
  BY <1>1, NullAssumption DEF Standing, StandsWell, HasBh, Assigned
<1>4. dirt' \in [Buf -> BOOLEAN] /\ \A x \in Buf : dirt'[x] => id[x] # NULL
  BY <1>2, <1>3 DEF TypeOK, Assigned
<1>5. TypeOK'
  BY <1>1, <1>2, <1>4 DEF TypeOK
<1>6. StandsWell(p)'
  BY <1>1, <1>2 DEF Standing, StandsWell, InPage, InSync, InGetblk, HasBh
<1> QED
  BY <1>1, <1>2, <1>4, <1>5, <1>6, QuietStep DEF Assigned

-----------------------------------------------------------------------------
(* Steps that take or give up a reference *)

(***************************************************************************)
(* A step of task p that changes no buffer's block keeps the invariant if  *)
(* the references are counted right after it.                              *)
(***************************************************************************)
LEMMA RefStep ==
    ASSUME CacheInv, TypeOK', RefCount', RingComplete', NEW p \in Proc,
           \A q \in Proc : q # p => pc'[q] = pc[q] /\ loc'[q] = loc[q],
           pc[p] # "pwait", pc'[p] \notin {"wslot", "wslotwait"},
           StandsWell(p)',
           pc'[p] \in {"hashwait", "got"} => id[loc'[p].cand] = loc'[p].blk,
           loc'[p].bh # NULL => id[loc'[p].bh] # NULL,
           \A x \in Buf : dirt'[x] => id[x] # NULL,
           \A i \in 1..NReq : \/ req'[i] = req[i]
                              \/ req'[i].cmd # "p" /\ id[req'[i].buf] # NULL,
           UNCHANGED id
    PROVE  CacheInv'
<1> USE DEF CacheInv
<1>1. UniqueBuffer'
  BY DEF UniqueBuffer
<1>2. HeldIsWanted'
  BY DEF HeldIsWanted
<1>3. Standing'
  BY DEF Standing, StandsWell
<1>4. Assigned'
  BY DEF Assigned
<1>5. PagesWaitedFor'
  <2> SUFFICES ASSUME NEW i \in 1..NReq, req'[i] # NULL, req'[i].cmd = "p"
               PROVE  /\ pc'[req'[i].buf] = "pwait"
                      /\ \A j \in 1..NReq : req'[j] = req'[i] => j = i
    BY DEF PagesWaitedFor
  <2>1. req'[i] = req[i] /\ pc[req[i].buf] = "pwait"
    BY DEF PagesWaitedFor
  <2>2. req[i].buf \in Proc
    <3>1. req[i] \in [cmd : {"p"}, buf : Proc]
      BY <2>1 DEF TypeOK, Request
    <3> QED
      BY <3>1
  <2>3. pc'[req'[i].buf] = "pwait"
    BY <2>1, <2>2
  <2>4. ASSUME NEW j \in 1..NReq, req'[j] = req'[i] PROVE j = i
    BY <2>1, <2>4 DEF PagesWaitedFor
  <2> QED
    BY <2>3, <2>4
<1> QED
  BY <1>1, <1>2, <1>3, <1>4, <1>5

(***************************************************************************)
(* The count of a buffer x to which task p takes (or gives up) a reference *)
(* while the other buffers keep theirs.                                    *)
(***************************************************************************)
LEMMA Taken ==
    ASSUME TypeOK, RefCount, NEW p, NEW x \in Buf, p \notin Takers(x),
           Takers(x)' = Takers(x) \cup {p}, Users(x)' = Users(x),
           \A y \in Buf : y # x => Takers(y)' = Takers(y) /\ Users(y)' = Users(y),
           count' = [count EXCEPT ![x] = count[x] + 1]
    PROVE  RefCount' /\ count' \in [Buf -> Nat]
<1>1. Cardinality(Takers(x)') = Cardinality(Takers(x)) + 1
  BY UserSetsFinite, FS_AddElement
<1>2. \A y \in Buf : count[y] \in Nat /\ count'[y] = IF y = x THEN count[y] + 1 ELSE count[y]
  BY DEF TypeOK
<1>3. ASSUME NEW y \in Buf
      PROVE  count'[y] = Cardinality(Users(y)') + Cardinality(Takers(y)')
  <2>1. /\ count[y] = Cardinality(Users(y)) + Cardinality(Takers(y))
        /\ Cardinality(Users(y)) \in Nat /\ Cardinality(Takers(y)) \in Nat
    BY UserCounts DEF RefCount
  <2>2. CASE y = x
    BY <1>1, <1>2, <2>1, <2>2
  <2>3. CASE y # x
    BY <1>2, <2>1, <2>3
  <2> QED
    BY <2>2, <2>3
<1>4. count' \in [Buf -> Nat]
  BY DEF TypeOK
<1> QED
  BY <1>3, <1>4 DEF RefCount

LEMMA GivenUp ==
    ASSUME TypeOK, RefCount, NEW p, NEW x \in Buf,
           \/ p \in Takers(x) /\ Takers(x)' = Takers(x) \ {p} /\ Users(x)' = Users(x)
           \/ p \in Users(x) /\ Users(x)' = Users(x) \ {p} /\ Takers(x)' = Takers(x),
           \A y \in Buf : y # x => Takers(y)' = Takers(y) /\ Users(y)' = Users(y),
           count' = [count EXCEPT ![x] = count[x] - 1]
    PROVE  RefCount' /\ count' \in [Buf -> Nat]
<1>0. Cardinality(Users(x)) \in Nat /\ Cardinality(Takers(x)) \in Nat
  BY UserCounts
<1>1. /\ Cardinality(Users(x)') + Cardinality(Takers(x)')
           = Cardinality(Users(x)) + Cardinality(Takers(x)) - 1
      /\ Cardinality(Users(x)) + Cardinality(Takers(x)) > 0
  <2>1. CASE p \in Takers(x) /\ Takers(x)' = Takers(x) \ {p} /\ Users(x)' = Users(x)
    <3>1. Cardinality(Takers(x)') = Cardinality(Takers(x)) - 1
      BY <2>1, UserSetsFinite, FS_RemoveElement
    <3>2. Cardinality(Takers(x)) # 0
      BY <2>1, UserCounts
    <3> QED
      BY <1>0, <2>1, <3>1, <3>2
  <2>2. CASE p \in Users(x) /\ Users(x)' = Users(x) \ {p} /\ Takers(x)' = Takers(x)
    <3>1. Cardinality(Users(x)') = Cardinality(Users(x)) - 1
      BY <2>2, UserSetsFinite, FS_RemoveElement
    <3>2. Cardinality(Users(x)) # 0
      BY <2>2, UserCounts
    <3> QED
      BY <1>0, <2>2, <3>1, <3>2
  <2> QED
    BY <2>1, <2>2
<1>2. \A y \in Buf : count[y] \in Nat /\ count'[y] = IF y = x THEN count[y] - 1 ELSE count[y]
  BY DEF TypeOK
<1>3. ASSUME NEW y \in Buf
      PROVE  /\ count'[y] = Cardinality(Users(y)') + Cardinality(Takers(y)')
             /\ count'[y] \in Nat
  <2>1. count[y] = Cardinality(Users(y)) + Cardinality(Takers(y))
    BY DEF RefCount
  <2> QED
    BY <1>0, <1>1, <1>2, <2>1
<1>4. count' \in [Buf -> Nat]
  BY <1>3 DEF TypeOK
<1> QED
  BY <1>3, <1>4 DEF RefCount

LEMMA GetHashTableInv ==
    ASSUME CacheInv, NEW p \in Proc, GetHashTable(p) PROVE CacheInv'
<1> USE DEF CacheInv
<1>0. /\ pc[p] = "find" /\ loc[p].op \in ReadOps /\ loc[p].blk \in Block
  <2>1. pc[p] = "find"
    BY DEF GetHashTable, Goto, Move
  <2> QED
    BY <2>1 DEF Standing, StandsWell, InGetblk
<1>1. ASSUME NEW x \in Found(loc[p].blk),
             Wait(p, "find", "hashwait", x), SetCand(p, x),
             count' = [count EXCEPT ![x] = @ + 1],
             UNCHANGED <<id, dirt, lock, upto, ring, req, data>>
      PROVE  CacheInv'
  <2>1. x \in Buf /\ id[x] = loc[p].blk
    BY DEF Found
  <2>2. /\ pc'[p] = "hashwait" /\ \A q \in Proc : q # p => pc'[q] = pc[q]
        /\ cpu' \in Proc \cup {NULL} /\ pc' \in [Proc -> PCs]
    <3>1. Move(p, "find", "hashwait", lock[x]) /\ "hashwait" \in PCs
      BY <1>1 DEF Wait, PCs
    <3> QED
      BY <3>1, MoveFacts
  <2>3. /\ loc' \in [Proc -> Locals]
        /\ \A q \in Proc : q # p => loc'[q] = loc[q]
        /\ loc'[p].op = loc[p].op /\ loc'[p].blk = loc[p].blk /\ loc'[p].bh = loc[p].bh
        /\ loc'[p].cand = x
    BY <1>1, <2>1, SetCandFacts
  <2>4. /\ p \notin Takers(x) /\ Takers(x)' = Takers(x) \cup {p}
        /\ \A y \in Buf : y # x => Takers(y)' = Takers(y)
    BY <1>0, <2>1, <2>2, <2>3 DEF Takers
  <2>5. \A y : Users(y)' = Users(y)
    BY <2>3 DEF Users
  <2>6. RefCount' /\ count' \in [Buf -> Nat]
    BY <1>1, <2>1, <2>4, <2>5, Taken
  <2>7. TypeOK' /\ RingComplete'
    BY <1>1, <2>2, <2>3, <2>6 DEF TypeOK, RingComplete, data
  <2>8. StandsWell(p)'
    BY <1>0, <2>1, <2>2, <2>3 DEF StandsWell, InPage, InSync, InGetblk, HasBh
  <2> QED
    BY <1>0, <1>1, <2>1, <2>2, <2>3, <2>6, <2>7, <2>8, RefStep DEF Assigned
<1>2. CASE /\ Goto(p, "find", "scan") /\ SetScan(p, NULL, NBuf + 1)
           /\ UNCHANGED <<heads, req, data>>
  <2>1. /\ pc'[p] = "scan" /\ \A q \in Proc : q # p => pc'[q] = pc[q]
        /\ cpu' \in Proc \cup {NULL} /\ pc' \in [Proc -> PCs]
    <3>1. Move(p, "find", "scan", FALSE) /\ "scan" \in PCs
      BY <1>2 DEF Goto, PCs
    <3> QED
      BY <3>1, MoveFacts
  <2>2. NBuf + 1 \in 0..(NBuf + 1) /\ NBuf + 1 > 0
    BY NBufType
  <2>3. /\ loc' \in [Proc -> Locals]
        /\ \A q \in Proc : q # p => loc'[q] = loc[q]
        /\ loc'[p].op = loc[p].op /\ loc'[p].blk = loc[p].blk /\ loc'[p].bh = loc[p].bh
        /\ loc'[p].left = NBuf + 1
    BY <1>2, <2>2, SetScanFacts
  <2>4. TypeOK'
    BY <1>2, <2>1, <2>3 DEF TypeOK, heads, data
  <2>5. StandsWell(p)'
    BY <1>0, <2>1, <2>2, <2>3 DEF StandsWell, InPage, InSync, InGetblk, HasBh
  <2> QED
    BY <1>0, <1>2, <2>1, <2>3, <2>4, <2>5, QuietStep DEF Assigned, heads
<1> QED
  BY <1>1, <1>2 DEF GetHashTable

LEMMA HashWaitInv ==
    ASSUME CacheInv, NEW p \in Proc, HashWait(p) PROVE CacheInv'
<1> USE DEF CacheInv
<1> PICK x : x = loc[p].cand
  OBVIOUS
<1>0. /\ pc[p] = "hashwait" /\ loc[p].op \in ReadOps /\ loc[p].blk \in Block /\ x \in Buf
      /\ id[x] = loc[p].blk /\ UNCHANGED <<id, dirt, lock, upto, req, data>>
  <2>1. pc[p] = "hashwait" /\ UNCHANGED <<id, dirt, lock, upto, req, data>>
    BY DEF HashWait, Unlocked
  <2> QED
    BY <2>1 DEF Standing, StandsWell, InGetblk, HeldIsWanted
<1>1. Goto(p, "hashwait", "got") /\ ring' = ToEnd(x) /\ UNCHANGED <<loc, count>>
  BY <1>0 DEF HashWait
<1>2. /\ pc'[p] = "got" /\ \A q \in Proc : q # p => pc'[q] = pc[q]
      /\ cpu' \in Proc \cup {NULL} /\ pc' \in [Proc -> PCs]
  <2>1. Move(p, "hashwait", "got", FALSE) /\ "got" \in PCs
    BY <1>1 DEF Goto, PCs
  <2> QED
    BY <2>1, MoveFacts
<1>3. \A y : Takers(y)' = Takers(y) /\ Users(y)' = Users(y)
  BY <1>0, <1>1, <1>2 DEF Takers, Users
<1>4. RefCount'
  BY <1>1, <1>3 DEF RefCount
<1>5. ring' \in [1..NBuf -> Buf] /\ RingComplete'
  BY <1>0, <1>1, ToEndKeeps
<1>6. TypeOK'
  BY <1>0, <1>1, <1>2, <1>5 DEF TypeOK, data
<1>7. StandsWell(p)'
  BY <1>0, <1>1, <1>2 DEF Standing, StandsWell, InPage, InSync, InGetblk, HasBh
<1> QED
  BY <1>0, <1>1, <1>2, <1>4, <1>5, <1>6, <1>7, RefStep DEF Assigned

LEMMA GotAheadInv ==
    ASSUME CacheInv, NEW p \in Proc, GotAhead(p) PROVE CacheInv'
<1> USE DEF CacheInv
<1> PICK x : x = loc[p].cand
  OBVIOUS
<1>0. /\ pc[p] = "got" /\ loc[p].op \in ReadOps /\ loc[p].blk \in Block /\ x \in Buf
      /\ id[x] = loc[p].blk /\ id[x] # NULL /\ loc[p].bh # NULL /\ loc[p].bh \in Buf
      /\ id[loc[p].bh] # NULL
  <2>1. pc[p] = "got" /\ loc[p].bh # NULL
    BY DEF GotAhead
  <2>2. loc[p].bh \in Buf
    BY <2>1 DEF TypeOK, Locals
  <2>3. /\ loc[p].op \in ReadOps /\ loc[p].blk \in Block /\ x \in Buf /\ id[x] = loc[p].blk
        /\ id[loc[p].bh] # NULL
    BY <2>1 DEF Standing, StandsWell, InGetblk, HeldIsWanted, Assigned
  <2> QED
    BY <2>1, <2>2, <2>3, NullAssumption
<1>1. /\ Goto(p, "got", "ahead") /\ RequestAhead("r", x) /\ SetCand(p, NULL)
      /\ count' = [count EXCEPT ![x] = count[x] - 1]
      /\ UNCHANGED <<id, upto, ring, data>>
  BY DEF GotAhead
<1>2. /\ pc'[p] = "ahead" /\ \A q \in Proc : q # p => pc'[q] = pc[q]
      /\ cpu' \in Proc \cup {NULL} /\ pc' \in [Proc -> PCs]
  <2>1. Move(p, "got", "ahead", FALSE) /\ "ahead" \in PCs
    BY <1>1 DEF Goto, PCs
  <2> QED
    BY <2>1, MoveFacts
<1>3. /\ loc' \in [Proc -> Locals]
      /\ \A q \in Proc : q # p => loc'[q] = loc[q]
      /\ loc'[p].op = loc[p].op /\ loc'[p].blk = loc[p].blk /\ loc'[p].bh = loc[p].bh
  BY <1>1, SetCandFacts
<1>4. /\ p \in Takers(x) /\ Takers(x)' = Takers(x) \ {p}
      /\ \A y \in Buf : y # x => Takers(y)' = Takers(y)
  BY <1>0, <1>2, <1>3 DEF Takers
<1>5. \A y : Users(y)' = Users(y)
  BY <1>3 DEF Users
<1>6. RefCount' /\ count' \in [Buf -> Nat]
  BY <1>0, <1>1, <1>4, <1>5, GivenUp
<1>7. /\ req' \in [1..NReq -> Request] /\ dirt' \in [Buf -> BOOLEAN] /\ lock' \in [Buf -> BOOLEAN]
      /\ \A y \in Buf : dirt'[y] => dirt[y]
      /\ \A i \in 1..NReq : \/ req'[i] = req[i]
                            \/ req'[i].cmd # "p" /\ req'[i].buf = x
  BY <1>0, <1>1, RequestAheadFacts
<1>8. TypeOK' /\ RingComplete'
  BY <1>1, <1>2, <1>3, <1>6, <1>7 DEF TypeOK, RingComplete, data
<1>9. StandsWell(p)'
  BY <1>0, <1>2, <1>3 DEF StandsWell, InPage, InSync, InGetblk, HasBh
<1>10. /\ \A y \in Buf : dirt'[y] => id[y] # NULL
       /\ \A i \in 1..NReq : \/ req'[i] = req[i]
                             \/ req'[i].cmd # "p" /\ id[req'[i].buf] # NULL
  BY <1>0, <1>7 DEF Assigned
<1> QED
  BY <1>0, <1>1, <1>2, <1>3, <1>6, <1>8, <1>9, <1>10, RefStep

LEMMA ClaimInv ==
    ASSUME CacheInv, NEW p \in Proc, Claim(p) PROVE CacheInv'
<1> USE DEF CacheInv
<1> PICK x : x = loc[p].cand
  OBVIOUS
<1>0. /\ pc[p] = "candwait" /\ loc[p].op \in ReadOps /\ loc[p].blk \in Block /\ x \in Buf
      /\ loc[p].blk # NULL
  <2>1. pc[p] = "candwait"
    BY DEF Claim, Goto, Move
  <2> QED
    BY <2>1, NullAssumption DEF Standing, StandsWell, InGetblk
<1>1. /\ count[x] = 0 /\ ~dirt[x] /\ Found(loc[p].blk) = {}
      /\ Goto(p, "candwait", "got")
      /\ count' = [count EXCEPT ![x] = 1]
      /\ upto' = [upto EXCEPT ![x] = FALSE]
      /\ id' = [id EXCEPT ![x] = loc[p].blk]
      /\ ring' = ToEnd(x)
      /\ bcur' = [bcur EXCEPT ![x] = FALSE]
      /\ UNCHANGED <<loc, dirt, lock, req, dcur, damaged>>
  BY DEF Claim
<1>2. /\ pc'[p] = "got" /\ \A q \in Proc : q # p => pc'[q] = pc[q]
      /\ cpu' \in Proc \cup {NULL} /\ pc' \in [Proc -> PCs]
  <2>1. Move(p, "candwait", "got", FALSE) /\ "got" \in PCs
    BY <1>1 DEF Goto, PCs
  <2> QED
    BY <2>1, MoveFacts
<1>3. Users(x) = {} /\ Takers(x) = {}
  <2>1. /\ Cardinality(Users(x)) \in Nat /\ Cardinality(Takers(x)) \in Nat
        /\ Cardinality(Users(x)) + Cardinality(Takers(x)) = 0
    BY <1>0, <1>1, UserCounts DEF RefCount
  <2>2. Cardinality(Users(x)) = 0 /\ Cardinality(Takers(x)) = 0
    BY <2>1
  <2> QED
    BY <2>2, UserCounts
<1>4. /\ p \notin Takers(x) /\ Takers(x)' = Takers(x) \cup {p}
      /\ \A y \in Buf : y # x => Takers(y)' = Takers(y)
  BY <1>0, <1>1, <1>2 DEF Takers
<1>5. \A y : Users(y)' = Users(y)
  BY <1>1 DEF Users
<1>6. RefCount' /\ count' \in [Buf -> Nat]
  <2>1. count' = [count EXCEPT ![x] = count[x] + 1]
    BY <1>1
  <2> QED
    BY <1>0, <1>4, <1>5, <2>1, Taken
<1>7. ring' \in [1..NBuf -> Buf] /\ RingComplete'
  BY <1>0, <1>1, ToEndKeeps
<1>8. \A y \in Buf : id'[y] = IF y = x THEN loc[p].blk ELSE id[y]
  BY <1>1 DEF TypeOK
<1>9. TypeOK'
  <2>1. id' \in [Buf -> Block \cup {NULL}]
    BY <1>0, <1>1 DEF TypeOK
  <2> QED
    BY <1>1, <1>2, <1>6, <1>7, <2>1 DEF TypeOK
<1>10. UniqueBuffer'
  BY <1>1, <1>8 DEF UniqueBuffer, Found
<1>11. HeldIsWanted'
  <2> SUFFICES ASSUME NEW q \in Proc, pc'[q] \in {"hashwait", "got"}
               PROVE  id'[loc'[q].cand] = loc'[q].blk
    BY DEF HeldIsWanted
  <2>1. CASE q = p
    BY <1>0, <1>1, <1>8, <2>1
  <2>2. CASE q # p
    <3>1. loc[q].cand \in Buf /\ id[loc[q].cand] = loc[q].blk /\ loc[q].cand # x
      BY <1>2, <1>3, <2>2 DEF Standing, StandsWell, HeldIsWanted, Takers
    <3> QED
      BY <1>1, <1>8, <3>1
  <2> QED
    BY <2>1, <2>2
<1>12. Standing'
  <2>1. StandsWell(p)'
    BY <1>0, <1>1, <1>2 DEF Standing, StandsWell, InPage, InSync, InGetblk, HasBh
  <2> QED
    BY <1>1, <1>2, <2>1 DEF Standing, StandsWell
<1>13. Assigned'
  <2>1. \A y \in Buf : id[y] # NULL => id'[y] # NULL
    BY <1>0, <1>8
  <2>2. \A q \in Proc : loc'[q].bh # NULL => id'[loc'[q].bh] # NULL
    BY <1>1, <2>1 DEF Assigned, TypeOK, Locals
  <2>3. \A q \in Proc : pc'[q] \in {"wslot", "wslotwait"} => id'[loc'[q].sb] # NULL
    <3> SUFFICES ASSUME NEW q \in Proc, pc'[q] \in {"wslot", "wslotwait"}
                 PROVE  id'[loc'[q].sb] # NULL
      OBVIOUS
    <3>1. q # p /\ pc'[q] = pc[q]
      BY <1>2
    <3>2. loc[q].sb \in Buf /\ id[loc[q].sb] # NULL
      BY <3>1 DEF Assigned, Standing, StandsWell, InSync
    <3> QED
      BY <1>1, <2>1, <3>2
  <2>4. \A y \in Buf : dirt'[y] => id'[y] # NULL
    BY <1>1, <2>1 DEF Assigned
  <2>5. ASSUME NEW i \in 1..NReq, req[i] # NULL, req[i].cmd # "p"
        PROVE  id'[req[i].buf] # NULL
    <3>1. req[i].buf \in Buf
      <4>1. req[i] \in [cmd : {"r", "w"}, buf : Buf]
        BY <2>5 DEF TypeOK, Request
      <4> QED
        BY <4>1
    <3> QED
      BY <2>1, <2>5, <3>1 DEF Assigned
  <2> QED
    BY <1>1, <2>2, <2>3, <2>4, <2>5 DEF Assigned
<1>14. PagesWaitedFor'
  <2> SUFFICES ASSUME NEW i \in 1..NReq, req[i] # NULL, req[i].cmd = "p"
               PROVE  pc'[req[i].buf] = "pwait"
    BY <1>1 DEF PagesWaitedFor
  <2>1. req[i].buf \in Proc
    <3>1. req[i] \in [cmd : {"p"}, buf : Proc]
      BY DEF TypeOK, Request
    <3> QED
      BY <3>1
  <2>2. pc[req[i].buf] = "pwait"
    BY DEF PagesWaitedFor
  <2> QED
    BY <1>0, <1>2, <2>1, <2>2
<1> QED
  BY <1>6, <1>7, <1>9, <1>10, <1>11, <1>12, <1>13, <1>14

LEMMA GotFirstInv ==
    ASSUME CacheInv, NEW p \in Proc, GotFirst(p) PROVE CacheInv'
<1> USE DEF CacheInv
<1> PICK x : x = loc[p].cand
  OBVIOUS
<1>0. /\ pc[p] = "got" /\ loc[p].op \in ReadOps /\ loc[p].blk \in Block /\ x \in Buf
      /\ id[x] = loc[p].blk /\ id[x] # NULL /\ loc[p].bh = NULL /\ x # NULL
  <2>1. pc[p] = "got" /\ loc[p].bh = NULL
    BY DEF GotFirst
  <2>2. /\ loc[p].op \in ReadOps /\ loc[p].blk \in Block /\ x \in Buf /\ id[x] = loc[p].blk
    BY <2>1 DEF Standing, StandsWell, InGetblk, HeldIsWanted
  <2> QED
    BY <2>1, <2>2, NullAssumption
<1>1. SetBh(p, x) /\ UNCHANGED <<heads, req, data>>
  BY DEF GotFirst
<1>2. PICK b \in {"copy", "ahead", "rlock"} : \E s : Move(p, "got", b, s)
  BY DEF GotFirst, Goto, Wait
<1>3. /\ pc'[p] = b /\ \A q \in Proc : q # p => pc'[q] = pc[q]
      /\ cpu' \in Proc \cup {NULL} /\ pc' \in [Proc -> PCs]
  <2>1. b \in PCs
    BY DEF PCs
  <2> QED
    BY <1>2, <2>1, MoveFacts
<1>4. /\ loc' \in [Proc -> Locals]
      /\ \A q \in Proc : q # p => loc'[q] = loc[q]
      /\ loc'[p].op = loc[p].op /\ loc'[p].blk = loc[p].blk /\ loc'[p].bh = x
  BY <1>0, <1>1, SetBhFacts
<1>5. /\ p \in Takers(x) /\ Takers(x)' = Takers(x) \ {p}
      /\ \A y \in Buf : y # x => Takers(y)' = Takers(y)
  BY <1>0, <1>3, <1>4 DEF Takers
<1>6. /\ p \notin Users(x) /\ Users(x)' = Users(x) \cup {p}
      /\ \A y \in Buf : y # x => Users(y)' = Users(y)
  <2>1. \A y \in Buf : y # NULL
    BY NullAssumption
  <2> QED
    BY <1>0, <1>4, <2>1 DEF Users
<1>7. RefCount'
  <2>1. Cardinality(Takers(x)') = Cardinality(Takers(x)) - 1
    BY <1>5, UserSetsFinite, FS_RemoveElement
  <2>2. Cardinality(Users(x)') = Cardinality(Users(x)) + 1
    BY <1>6, UserSetsFinite, FS_AddElement
  <2>3. Cardinality(Users(x)) \in Nat /\ Cardinality(Takers(x)) \in Nat
    BY UserCounts
  <2>4. Cardinality(Users(x)') + Cardinality(Takers(x)')
          = Cardinality(Users(x)) + Cardinality(Takers(x))
    BY <2>1, <2>2, <2>3
  <2>5. ASSUME NEW y \in Buf
        PROVE  count'[y] = Cardinality(Users(y)') + Cardinality(Takers(y)')
    <3>1. count'[y] = Cardinality(Users(y)) + Cardinality(Takers(y))
      BY <1>1 DEF RefCount, heads
    <3>2. CASE y = x
      BY <2>4, <3>1, <3>2
    <3>3. CASE y # x
      BY <1>5, <1>6, <3>1, <3>3
    <3> QED
      BY <3>2, <3>3
  <2> QED
    BY <2>5 DEF RefCount
<1>8. TypeOK' /\ RingComplete'
  BY <1>1, <1>3, <1>4 DEF TypeOK, RingComplete, heads, data
<1>9. StandsWell(p)'
  BY <1>0, <1>3, <1>4 DEF StandsWell, InPage, InSync, InGetblk, HasBh
<1> QED
  BY <1>0, <1>1, <1>3, <1>4, <1>7, <1>8, <1>9, RefStep DEF Assigned, heads

LEMMA BrelseInv ==
    ASSUME CacheInv, NEW p \in Proc, Brelse(p) PROVE CacheInv'
<1> USE DEF CacheInv
<1> PICK x : x = loc[p].bh
  OBVIOUS
<1>0. /\ pc[p] = "rel" /\ loc[p].op \in ReadOps /\ x \in Buf
  <2>1. pc[p] = "rel"
    BY DEF Brelse, Unlocked
  <2> QED
    BY <2>1 DEF Standing, StandsWell, HasBh
<1>1. /\ cpu' = NULL
      /\ pc' = [q \in Proc |-> IF q = p THEN "idle"
                               ELSE IF pc[q] = "nobuf" THEN "find" ELSE pc[q]]
      /\ count' = [count EXCEPT ![x] = count[x] - 1]
      /\ loc' = [loc EXCEPT ![p] = NoLoc]
      /\ UNCHANGED <<id, dirt, lock, upto, ring, req, data>>
  BY DEF Brelse
<1>2. /\ pc'[p] = "idle" /\ pc' \in [Proc -> PCs]
      /\ \A q \in Proc : q # p => \/ pc'[q] = pc[q]
                                  \/ pc[q] = "nobuf" /\ pc'[q] = "find"
  BY <1>1 DEF TypeOK, PCs
<1>3. /\ loc' \in [Proc -> Locals] /\ \A q \in Proc : q # p => loc'[q] = loc[q]
      /\ loc'[p] = NoLoc
  BY <1>1, NoLocType, LocUpdate DEF TypeOK
<1>4. NoLoc.op = NULL /\ NoLoc.bh = NULL /\ NULL \notin ReadOps /\ NULL \notin Buf
  BY NullAssumption DEF NoLoc, Locs, ReadOps
<1>5. /\ p \in Users(x) /\ Users(x)' = Users(x) \ {p}
      /\ \A y \in Buf : y # x => Users(y)' = Users(y)
  BY <1>0, <1>3, <1>4 DEF Users
<1>6. \A y : Takers(y)' = Takers(y)
  BY <1>0, <1>2, <1>3 DEF Takers
<1>7. RefCount' /\ count' \in [Buf -> Nat]
  BY <1>0, <1>1, <1>5, <1>6, GivenUp
<1>8. TypeOK' /\ RingComplete' /\ UniqueBuffer'
  BY <1>1, <1>2, <1>3, <1>7 DEF TypeOK, RingComplete, UniqueBuffer, data
<1>9. HeldIsWanted'
  BY <1>1, <1>2, <1>3 DEF HeldIsWanted
<1>10. Standing'
  <2>1. StandsWell(p)'
    BY <1>2, <1>3, <1>4 DEF StandsWell, InPage, InSync, InGetblk, HasBh
  <2>2. ASSUME NEW q \in Proc, q # p PROVE StandsWell(q)'
    <3>1. StandsWell(q) /\ loc'[q] = loc[q]
      BY <1>3, <2>2 DEF Standing
    <3>2. CASE pc'[q] = pc[q]
      BY <3>1, <3>2 DEF StandsWell
    <3>3. CASE pc[q] = "nobuf" /\ pc'[q] = "find"
      BY <3>1, <3>3 DEF StandsWell, InPage, InSync, InGetblk, HasBh
    <3> QED
      BY <1>2, <2>2, <3>2, <3>3
  <2> QED
    BY <2>1, <2>2 DEF Standing
<1>11. Assigned'
  <2>1. \A q \in Proc : loc'[q].bh # NULL => id'[loc'[q].bh] # NULL
    BY <1>1, <1>3, <1>4 DEF Assigned
  <2>2. \A q \in Proc : pc'[q] \in {"wslot", "wslotwait"} => id'[loc'[q].sb] # NULL
    BY <1>1, <1>2, <1>3 DEF Assigned
  <2> QED
    BY <1>1, <2>1, <2>2 DEF Assigned
<1>12. PagesWaitedFor'
  <2> SUFFICES ASSUME NEW i \in 1..NReq, req[i] # NULL, req[i].cmd = "p"
               PROVE  pc'[req[i].buf] = "pwait"
    BY <1>1 DEF PagesWaitedFor
  <2>1. req[i].buf \in Proc
    <3>1. req[i] \in [cmd : {"p"}, buf : Proc]
      BY DEF TypeOK, Request
    <3> QED
      BY <3>1
  <2>2. pc[req[i].buf] = "pwait"
    BY DEF PagesWaitedFor
  <2> QED
    BY <1>0, <1>2, <2>1, <2>2
<1> QED
  BY <1>7, <1>8, <1>9, <1>10, <1>11, <1>12

-----------------------------------------------------------------------------
(* The disk interrupt *)

LEMMA WokenFacts ==
    ASSUME CacheInv, NEW q \in Proc, pc'[q] = Woken(q), loc'[q] = loc[q]
    PROVE  /\ pc'[q] \in PCs /\ StandsWell(q)'
           /\ \A a \in {"hashwait", "got", "pwait"} : pc'[q] = a <=> pc[q] = a
           /\ pc'[q] \in {"wslot", "wslotwait"} => pc[q] \in {"wslot", "wslotwait"}
<1>1. pc[q] \in PCs /\ StandsWell(q)
  BY DEF CacheInv, TypeOK, Standing
<1>2. /\ pc'[q] \in PCs
      /\ \A a \in {"hashwait", "got", "pwait"} : pc'[q] = a <=> pc[q] = a
      /\ pc'[q] \in {"wslot", "wslotwait"} => pc[q] \in {"wslot", "wslotwait"}
  BY <1>1 DEF Woken, PCs
<1>3. \/ pc'[q] = pc[q]
      \/ pc[q] = "rslotwait" /\ pc'[q] = "rslot"
      \/ pc[q] = "wslotwait" /\ pc'[q] = "wslot"
      \/ pc[q] = "pslotwait" /\ pc'[q] = "pslot"
  BY DEF Woken
<1>4. StandsWell(q)'
  BY <1>1, <1>3 DEF StandsWell, InPage, InSync, InGetblk, HasBh
<1> QED
  BY <1>2, <1>4

LEMMA PageDoneInv ==
    ASSUME CacheInv, NEW i \in 1..NReq, req[i] # NULL, PageDone(req[i]),
           req' = [req EXCEPT ![i] = NULL], UNCHANGED <<cpu, id, count, dirt, ring>>
    PROVE  CacheInv'
<1> USE DEF CacheInv
<1> PICK t : t = req[i].buf
  OBVIOUS
<1>1. t \in Proc /\ req[i] = [cmd |-> "p", buf |-> t] /\ pc[t] = "pwait"
  <2>1. req[i] \in [cmd : {"p"}, buf : Proc]
    BY DEF PageDone, TypeOK, Request
  <2> QED
    BY <2>1 DEF PagesWaitedFor
<1>2. /\ pc' = [p \in Proc |-> IF p = t THEN "idle" ELSE Woken(p)]
      /\ loc' = [loc EXCEPT ![t] = NoLoc] /\ UNCHANGED <<upto, lock, data>>
  BY DEF PageDone
<1>3. /\ pc'[t] = "idle" /\ loc' \in [Proc -> Locals] /\ loc'[t] = NoLoc
      /\ \A q \in Proc : q # t => pc'[q] = Woken(q) /\ loc'[q] = loc[q]
  BY <1>1, <1>2, NoLocType DEF TypeOK
<1>4. NoLoc.op = NULL /\ NoLoc.bh = NULL /\ NULL \notin ReadOps /\ loc[t].bh = NULL
  <2>1. NoLoc.op = NULL /\ NoLoc.bh = NULL /\ NULL \notin ReadOps
    BY NullAssumption DEF NoLoc, Locs, ReadOps
  <2>2. loc[t].op = "ll_rw_page"
    BY <1>1 DEF Standing, StandsWell, InPage
  <2> QED
    BY <1>1, <2>1, <2>2 DEF Standing, StandsWell, ReadOps
<1>5. \A q \in Proc : q # t =>
        /\ pc'[q] \in PCs /\ StandsWell(q)'
        /\ \A a \in {"hashwait", "got", "pwait"} : pc'[q] = a <=> pc[q] = a
        /\ pc'[q] \in {"wslot", "wslotwait"} => pc[q] \in {"wslot", "wslotwait"}
  BY <1>3, WokenFacts
<1>6. pc' \in [Proc -> PCs]
  BY <1>2, <1>3, <1>5 DEF PCs
<1>7. \A j \in 1..NReq : req'[j] = IF j = i THEN NULL ELSE req[j]
  BY DEF TypeOK
<1>8. TypeOK' /\ UniqueBuffer' /\ RingComplete'
  <2>1. req' \in [1..NReq -> Request]
    BY DEF TypeOK, Request
  <2> QED
    BY <1>2, <1>3, <1>6, <2>1 DEF TypeOK, UniqueBuffer, RingComplete, data
<1>9. RefCount'
  <2>1. \A x \in Buf : Users(x)' = Users(x)
    BY <1>3, <1>4 DEF Users
  <2>2. \A x \in Buf : Takers(x)' = Takers(x)
    BY <1>1, <1>3, <1>5 DEF Takers
  <2> QED
    BY <2>1, <2>2 DEF RefCount
<1>10. HeldIsWanted'
  BY <1>3, <1>5 DEF HeldIsWanted
<1>11. Standing'
  <2>1. StandsWell(t)'
    BY <1>3, <1>4 DEF StandsWell, InPage, InSync, InGetblk, HasBh
  <2> QED
    BY <1>5, <2>1 DEF Standing
<1>12. Assigned'
  BY <1>3, <1>4, <1>5, <1>7 DEF Assigned
<1>13. PagesWaitedFor'
  <2> SUFFICES ASSUME NEW j \in 1..NReq, req'[j] # NULL, req'[j].cmd = "p"
               PROVE  /\ pc'[req'[j].buf] = "pwait"
                      /\ \A k \in 1..NReq : req'[k] = req'[j] => k = j
    BY DEF PagesWaitedFor
  <2>1. j # i /\ req'[j] = req[j]
    BY <1>7
  <2>2. req[j] \in [cmd : {"p"}, buf : Proc]
    BY <2>1 DEF TypeOK, Request
  <2>3. req[j].buf # t
    BY <1>1, <2>1, <2>2 DEF PagesWaitedFor
  <2>4. pc'[req'[j].buf] = "pwait"
    BY <1>5, <2>1, <2>2, <2>3 DEF PagesWaitedFor
  <2>5. ASSUME NEW k \in 1..NReq, req'[k] = req'[j] PROVE k = j
    BY <1>7, <2>1, <2>5 DEF PagesWaitedFor
  <2> QED
    BY <2>4, <2>5
<1> QED
  BY <1>8, <1>9, <1>10, <1>11, <1>12, <1>13

LEMMA BlockDoneInv ==
    ASSUME CacheInv, NEW i \in 1..NReq, NEW ok \in BOOLEAN, req[i] # NULL, BlockDone(req[i], ok),
           req' = [req EXCEPT ![i] = NULL], UNCHANGED <<cpu, id, count, dirt, ring>>
    PROVE  CacheInv'
<1> USE DEF CacheInv
<1> PICK x : x = req[i].buf
  OBVIOUS
<1>1. x \in Buf /\ id[x] \in Block
  <2>1. req[i] \in [cmd : {"r", "w"}, buf : Buf] /\ req[i].cmd # "p"
    BY DEF BlockDone, TypeOK, Request
  <2>2. x \in Buf
    BY <2>1
  <2> QED
    BY <2>1, <2>2 DEF Assigned, TypeOK
<1>2. /\ pc' = [p \in Proc |-> Woken(p)] /\ UNCHANGED loc
      /\ upto' = [upto EXCEPT ![x] = ok] /\ lock' = [lock EXCEPT ![x] = FALSE]
  BY DEF BlockDone
<1>3. bcur' \in [Buf -> BOOLEAN] /\ dcur' \in [Block -> BOOLEAN] /\ damaged' \subseteq Block
  <2>1. CASE req[i].cmd = "r"
    <3>1. /\ bcur' = [bcur EXCEPT ![x] = ok /\ dcur[id[x]]]
          /\ UNCHANGED <<dcur, damaged>>
      BY <2>1 DEF BlockDone
    <3>2. (ok /\ dcur[id[x]]) \in BOOLEAN
      OBVIOUS
    <3> QED
      BY <3>1, <3>2 DEF TypeOK
  <2>2. CASE req[i].cmd = "w"
    <3>1. /\ \E c \in Written(x) : dcur' = [dcur EXCEPT ![id[x]] = ok /\ c]
          /\ damaged' \in {damaged, damaged \cup {id[x]}} /\ UNCHANGED bcur
      BY <2>2 DEF BlockDone
    <3>2. PICK c : dcur' = [dcur EXCEPT ![id[x]] = ok /\ c]
      BY <3>1
    <3>3. (ok /\ c) \in BOOLEAN
      OBVIOUS
    <3> QED
      BY <1>1, <3>1, <3>2, <3>3 DEF TypeOK
  <2> QED
    BY <2>1, <2>2 DEF BlockDone
<1>4. \A q \in Proc :
        /\ pc'[q] \in PCs /\ StandsWell(q)'
        /\ \A a \in {"hashwait", "got", "pwait"} : pc'[q] = a <=> pc[q] = a
        /\ pc'[q] \in {"wslot", "wslotwait"} => pc[q] \in {"wslot", "wslotwait"}
  BY <1>2, WokenFacts
<1>5. \A j \in 1..NReq : req'[j] = IF j = i THEN NULL ELSE req[j]
  BY DEF TypeOK
<1>6. TypeOK' /\ UniqueBuffer' /\ RingComplete'
  <2>1. req' \in [1..NReq -> Request]
    BY DEF TypeOK, Request
  <2>2. pc' \in [Proc -> PCs]
    BY <1>2, <1>4
  <2>3. upto' \in [Buf -> BOOLEAN] /\ lock' \in [Buf -> BOOLEAN]
    BY <1>1, <1>2 DEF TypeOK
  <2> QED
    BY <1>2, <1>3, <2>1, <2>2, <2>3 DEF TypeOK, UniqueBuffer, RingComplete
<1>7. RefCount'
  <2>1. \A y \in Buf : Users(y)' = Users(y)
    BY <1>2 DEF Users
  <2>2. \A y \in Buf : Takers(y)' = Takers(y)
    BY <1>2, <1>4 DEF Takers
  <2> QED
    BY <2>1, <2>2 DEF RefCount
<1>8. HeldIsWanted' /\ Standing'
  BY <1>2, <1>4 DEF HeldIsWanted, Standing
<1>9. Assigned'
  BY <1>2, <1>4, <1>5 DEF Assigned
<1>10. PagesWaitedFor'
  <2> SUFFICES ASSUME NEW j \in 1..NReq, req'[j] # NULL, req'[j].cmd = "p"
               PROVE  /\ pc'[req'[j].buf] = "pwait"
                      /\ \A k \in 1..NReq : req'[k] = req'[j] => k = j
    BY DEF PagesWaitedFor
  <2>1. req'[j] = req[j]
    BY <1>5
  <2>2. req[j].buf \in Proc
    <3>1. req[j] \in [cmd : {"p"}, buf : Proc]
      BY <2>1 DEF TypeOK, Request
    <3> QED
      BY <3>1
  <2>3. pc'[req'[j].buf] = "pwait"
    BY <1>4, <2>1, <2>2 DEF PagesWaitedFor
  <2>4. ASSUME NEW k \in 1..NReq, req'[k] = req'[j] PROVE k = j
    BY <1>5, <2>1, <2>4 DEF PagesWaitedFor
  <2> QED
    BY <2>3, <2>4
<1> QED
  BY <1>6, <1>7, <1>8, <1>9, <1>10

-----------------------------------------------------------------------------
(* The theorems *)

LEMMA InitInv == Init => CacheInv
<1> SUFFICES ASSUME Init PROVE CacheInv
  OBVIOUS
<1> USE DEF Init
<1>1. NoLoc.op = NULL /\ NoLoc.bh = NULL /\ NULL \notin ReadOps
  BY NullAssumption DEF NoLoc, Locs, ReadOps
<1>2. TypeOK
  <2>1. req \in [1..NReq -> Request] /\ pc \in [Proc -> PCs]
    BY DEF Request, PCs
  <2>2. ring \in [1..NBuf -> Buf]
    OBVIOUS
  <2> QED
    BY <2>1, <2>2, NoLocType DEF TypeOK
<1>3. UniqueBuffer /\ HeldIsWanted /\ PagesWaitedFor
  BY DEF UniqueBuffer, HeldIsWanted, PagesWaitedFor
<1>4. RefCount
  <2> SUFFICES ASSUME NEW x \in Buf
               PROVE  count[x] = Cardinality(Users(x)) + Cardinality(Takers(x))
    BY DEF RefCount
  <2>1. Users(x) = {} /\ Takers(x) = {}
    BY <1>1, NullAssumption DEF Users, Takers
  <2>2. Cardinality(Users(x)) = 0 /\ Cardinality(Takers(x)) = 0
    BY <2>1, FS_EmptySet
  <2> QED
    BY <2>2
<1>5. Standing
  BY <1>1 DEF Standing, StandsWell, InPage, InSync, InGetblk, HasBh
<1>6. Assigned
  BY <1>1 DEF Assigned
<1>7. RingComplete
  BY DEF RingComplete
<1> QED
  BY <1>2, <1>3, <1>4, <1>5, <1>6, <1>7 DEF CacheInv

LEMMA NextInv == CacheInv /\ [Next]_vars => CacheInv'
<1> SUFFICES ASSUME CacheInv, [Next]_vars PROVE CacheInv'
  OBVIOUS
<1>1. ASSUME NEW p \in Proc, Enter(p) PROVE CacheInv'
  BY <1>1, StartInv, StartSyncInv, StartPageInv DEF Enter
<1>2. ASSUME NEW p \in Proc, Step(p) PROVE CacheInv'
  <2>1. CASE GetHashTable(p) \/ HashWait(p) \/ Scan(p) \/ CandWait(p)
    BY <2>1, GetHashTableInv, HashWaitInv, ScanInv, RetryInv, SyncDevInv, ClaimInv DEF CandWait
  <2>2. CASE \E cmd \in {"r", "w"} : LockBuffer(p, cmd) \/ MakeRequest(p, cmd)
    BY <2>2, LockBufferInv, MakeRequestInv
  <2>3. CASE PageRequest(p) \/ SyncWait(p) \/ SyncNext(p)
    BY <2>3, PageRequestInv, SyncWaitInv, SyncNextInv
  <2>4. CASE GotFirst(p) \/ GotAhead(p) \/ Ahead(p)
    BY <2>4, GotFirstInv, GotAheadInv, AheadInv
  <2>5. CASE ReadWait(p) \/ Copy(p) \/ Brelse(p)
    BY <2>5, ReadWaitInv, CopyInv, BrelseInv
  <2> QED
    BY <1>2, <2>1, <2>2, <2>3, <2>4, <2>5 DEF Step
<1>3. ASSUME NEW i \in 1..NReq, NEW ok \in BOOLEAN, Complete(i, ok) PROVE CacheInv'
  BY <1>3, PageDoneInv, BlockDoneInv DEF Complete
<1>4. CASE UNCHANGED vars
  <2>1. UNCHANGED <<cpu, pc, loc, id, count, dirt, lock, upto, ring, req, bcur, dcur, damaged>>
    BY <1>4 DEF vars, heads, data
  <2>2. TypeOK' /\ UniqueBuffer' /\ HeldIsWanted' /\ RingComplete'
    BY <2>1 DEF CacheInv, TypeOK, UniqueBuffer, HeldIsWanted, RingComplete
  <2>3. \A x : Users(x)' = Users(x) /\ Takers(x)' = Takers(x)
    BY <2>1 DEF Users, Takers
  <2>4. RefCount'
    BY <2>1, <2>3 DEF CacheInv, RefCount
  <2>5. Standing'
    BY <2>1 DEF CacheInv, Standing, StandsWell
  <2>6. Assigned' /\ PagesWaitedFor'
    BY <2>1 DEF CacheInv, Assigned, PagesWaitedFor
  <2> QED
    BY <2>2, <2>4, <2>5, <2>6 DEF CacheInv
<1> QED
  BY <1>1, <1>2, <1>3, <1>4 DEF Next

(***************************************************************************)
(* The inductive invariant of the buffer cache holds in every reachable    *)
(* state, for any number of tasks, blocks, buffers and request slots.      *)
(***************************************************************************)
THEOREM CacheInvariant == Spec => []CacheInv
<1> QED
  BY InitInv, NextInv, PTL DEF Spec

(***************************************************************************)
(* The variables of the buffer cache keep their types; b_count in          *)
(* particular never drops below zero, so brelse does not panic.            *)
(***************************************************************************)
THEOREM TypeCorrect == Spec => []TypeOK
<1>1. CacheInv => TypeOK
  BY DEF CacheInv
<1> QED
  BY <1>1, CacheInvariant, PTL

(***************************************************************************)
(* getblk never gives a block a second buffer, although it sleeps between  *)
(* looking for the block and taking a buffer for it.                       *)
(***************************************************************************)
THEOREM OneBufferPerBlock == Spec => []UniqueBuffer
<1>1. CacheInv => UniqueBuffer
  BY DEF CacheInv
<1> QED
  BY <1>1, CacheInvariant, PTL

(***************************************************************************)
(* b_count is the number of references that tasks hold.                    *)
(***************************************************************************)
THEOREM CountsAreExact == Spec => []RefCount
<1>1. CacheInv => RefCount
  BY DEF CacheInv
<1> QED
  BY <1>1, CacheInvariant, PTL

(***************************************************************************)
(* The buffer get_hash_table waits for is still the block's when the wait  *)
(* ends, and what getblk returns is the block asked for.                   *)
(***************************************************************************)
THEOREM GetblkReturnsTheBlock == Spec => []HeldIsWanted
<1>1. CacheInv => HeldIsWanted
  BY DEF CacheInv
<1> QED
  BY <1>1, CacheInvariant, PTL

-----------------------------------------------------------------------------
(***************************************************************************)
(* Locks and contents.  The inductive invariants behind LockedIsBusy,      *)
(* UptodateIsCurrent and NoLostWrite.                                      *)
(***************************************************************************)
RSlot == {"rslot", "rslotwait"}
WSlot == {"wslot", "wslotwait"}

(* Task p has locked x and looks for a slot, to read or to write it. *)
ReadLocks(p, x) == pc[p] \in RSlot /\ loc[p].bh = x
WriteLocks(p, x) == pc[p] \in WSlot /\ loc[p].sb = x
Locks(p, x) == ReadLocks(p, x) \/ WriteLocks(p, x)

(* Slot i holds a request for a buffer, for buffer x. *)
IsBlk(r) == r # NULL /\ r.cmd # "p"
On(i, x) == IsBlk(req[i]) /\ req[i].buf = x

(* A locked buffer has one owner: a request or a task on its way to one. *)
LockInv ==
    \A x \in Buf :
        /\ \A i \in 1..NReq : On(i, x) => lock[x]
        /\ \A p \in Proc : Locks(p, x) => lock[x]
        /\ \A i, j \in 1..NReq : On(i, x) /\ On(j, x) => i = j
        /\ \A p, q \in Proc : Locks(p, x) /\ Locks(q, x) => p = q
        /\ \A i \in 1..NReq, p \in Proc : ~(On(i, x) /\ Locks(p, x))
        /\ lock[x] => (\E i \in 1..NReq : On(i, x)) \/ (\E p \in Proc : Locks(p, x))

(* A buffer is being read, or being written. *)
Reads(x) == (\E i \in 1..NReq : On(i, x) /\ req[i].cmd = "r") \/ (\E p \in Proc : ReadLocks(p, x))
WritesOn(x) == (\E i \in 1..NReq : On(i, x) /\ req[i].cmd = "w") \/ (\E p \in Proc : WriteLocks(p, x))

(* Only what is not up to date is read, and only what is up to date is     *)
(* changed and written.                                                    *)
ReadsStale == \A x \in Buf : Reads(x) => ~upto[x]
WritesCurrent ==
    \A x \in Buf : dirt[x] \/ WritesOn(x) => upto[x] \/ id[x] \in damaged
CopiesCurrent ==
    \A p \in Proc : pc[p] = "copy" => upto[loc[p].bh] \/ id[loc[p].bh] \in damaged

(* file_write sets b_dirt before it copies and is not interrupted between. *)
DirtyFirst ==
    \A p \in Proc : pc[p] = "copy" /\ loc[p].op = "file_write" => cpu = p /\ dirt[loc[p].bh]

(* The calls that tasks are in *)
OpsOnly == \A p \in Proc : loc[p].op \in Ops \cup {NULL, "sys_sync", "ll_rw_page"}

DataInv == /\ OpsOnly /\ ReadsStale /\ WritesCurrent /\ CopiesCurrent /\ DirtyFirst
           /\ UptodateIsCurrent /\ NoLostWrite

(***************************************************************************)
(* What a step does to locks and contents: nothing, a request ahead, a     *)
(* lock, a request, a new block for a buffer, the use of a buffer for a    *)
(* write, the write to it, or the end of a transfer.                       *)
(***************************************************************************)
SlotKept(q) ==
    /\ pc'[q] \in RSlot <=> pc[q] \in RSlot
    /\ pc'[q] \in WSlot <=> pc[q] \in WSlot
    /\ pc[q] \in RSlot => loc'[q].bh = loc[q].bh
    /\ pc[q] \in WSlot => loc'[q].sb = loc[q].sb
CopyKept(q) == pc'[q] = "copy" => pc[q] = "copy" /\ loc'[q].bh = loc[q].bh /\ loc'[q].op = loc[q].op
Others(p) == cpu \in {NULL, p} /\ \A q \in Proc \ {p} : SlotKept(q) /\ CopyKept(q)
ReqsKept == \A i \in 1..NReq : IsBlk(req'[i]) \/ IsBlk(req[i]) => req'[i] = req[i]
DataKept == UNCHANGED <<id, upto, bcur, dcur, damaged>>

Queued(cmd, x) ==
    \E i \in 1..NReq : /\ ~IsBlk(req[i]) /\ req'[i] = [cmd |-> cmd, buf |-> x]
                       /\ \A j \in 1..NReq \ {i} : req'[j] = req[j]

QuietBy(p) ==
    /\ Others(p) /\ SlotKept(p) /\ ReqsKept /\ DataKept /\ UNCHANGED <<dirt, lock>>
    /\ pc'[p] = "copy" => loc[p].op = "block_write_full"
AheadBy(p, cmd, x) ==
    /\ Others(p) /\ SlotKept(p) /\ DataKept /\ pc'[p] # "copy"
    /\ ~lock[x] /\ (cmd = "r" => ~upto[x]) /\ (cmd = "w" => dirt[x])
    /\ Queued(cmd, x) /\ lock' = [lock EXCEPT ![x] = TRUE] /\ dirt' = [dirt EXCEPT ![x] = FALSE]
LockBy(p, cmd, x) ==
    /\ Others(p) /\ ReqsKept /\ DataKept /\ UNCHANGED dirt /\ pc'[p] # "copy"
    /\ ~lock[x] /\ lock' = [lock EXCEPT ![x] = TRUE]
    /\ pc[p] \notin RSlot \cup WSlot
    /\ cmd = "r" => ~upto[x] /\ pc'[p] \in RSlot /\ loc'[p].bh = x
    /\ cmd = "w" => dirt[x] /\ pc'[p] \in WSlot /\ loc'[p].sb = x
SlotBy(p, cmd, x) ==
    /\ Others(p) /\ DataKept /\ UNCHANGED lock /\ pc'[p] \notin RSlot \cup WSlot \cup {"copy"}
    /\ (cmd = "r" /\ ReadLocks(p, x)) \/ (cmd = "w" /\ WriteLocks(p, x))
    /\ Queued(cmd, x) /\ dirt' = [dirt EXCEPT ![x] = FALSE]
ClaimBy(p, x) ==
    /\ Others(p) /\ SlotKept(p) /\ pc'[p] # "copy"
    /\ ~lock[x] /\ ~dirt[x] /\ count[x] = 0 /\ Found(loc[p].blk) = {} /\ loc[p].blk \in Block
    /\ upto' = [upto EXCEPT ![x] = FALSE] /\ bcur' = [bcur EXCEPT ![x] = FALSE]
    /\ id' = [id EXCEPT ![x] = loc[p].blk]
    /\ UNCHANGED <<dirt, lock, req, dcur, damaged>>
UseBy(p, x) ==
    /\ Others(p) /\ SlotKept(p) /\ ReqsKept /\ DataKept /\ UNCHANGED <<loc, lock>>
    /\ pc'[p] = "copy" /\ loc[p].bh = x /\ upto[x]
    /\ cpu' = (IF MayFault THEN NULL ELSE p)
    /\ dirt' = IF loc[p].op = "file_write" THEN [dirt EXCEPT ![x] = TRUE] ELSE dirt
CopyBy(p, x) ==
    /\ Others(p) /\ SlotKept(p) /\ ReqsKept
    /\ pc[p] = "copy" /\ pc'[p] = "rel" /\ loc[p].bh = x
    /\ bcur' = [bcur EXCEPT ![x] = TRUE] /\ dcur' = [dcur EXCEPT ![id[x]] = FALSE]
    /\ dirt' = IF loc[p].op = "file_write" THEN dirt ELSE [dirt EXCEPT ![x] = TRUE]
    /\ UNCHANGED <<id, lock, upto, damaged>>
PageEnds ==
    /\ \A q \in Proc : SlotKept(q) /\ CopyKept(q)
    /\ ReqsKept /\ DataKept /\ UNCHANGED <<cpu, dirt, lock>>
BlockEnds(i, ok, x) ==
    /\ \A q \in Proc : SlotKept(q) /\ CopyKept(q)
    /\ On(i, x) /\ req'[i] = NULL /\ \A j \in 1..NReq \ {i} : req'[j] = req[j]
    /\ upto' = [upto EXCEPT ![x] = ok] /\ lock' = [lock EXCEPT ![x] = FALSE]
    /\ req[i].cmd = "r" => bcur' = [bcur EXCEPT ![x] = ok /\ dcur[id[x]]] /\ UNCHANGED <<dcur, damaged>>
    /\ req[i].cmd = "w" =>
          /\ \E c \in Written(x) : dcur' = [dcur EXCEPT ![id[x]] = ok /\ c]
          /\ damaged' = IF ok THEN damaged ELSE damaged \cup {id[x]}
          /\ UNCHANGED bcur
    /\ UNCHANGED <<cpu, id, dirt>>

Effect ==
    \/ \E p \in Proc :
          \/ QuietBy(p)
          \/ \E x \in Buf : ClaimBy(p, x) \/ UseBy(p, x) \/ CopyBy(p, x)
          \/ \E x \in Buf, cmd \in {"r", "w"} :
                AheadBy(p, cmd, x) \/ LockBy(p, cmd, x) \/ SlotBy(p, cmd, x)
    \/ PageEnds
    \/ \E i \in 1..NReq, ok \in BOOLEAN, x \in Buf : BlockEnds(i, ok, x)

LEMMA MoveOthers ==
    ASSUME TypeOK, NEW p \in Proc, NEW a, NEW b, NEW s, Move(p, a, b, s),
           \A q \in Proc \ {p} : loc'[q] = loc[q]
    PROVE  Others(p) /\ pc[p] = a /\ pc'[p] = b
<1>1. /\ pc[p] = a /\ cpu \in {NULL, p} /\ pc'[p] = b
      /\ \A q \in Proc \ {p} : pc'[q] = pc[q]
  BY DEF Move, TypeOK
<1> QED
  BY <1>1 DEF Others, SlotKept, CopyKept

(* The steps of a task that touch no lock and no content *)
LEMMA QuietMove ==
    ASSUME TypeOK, NEW p \in Proc, NEW a, NEW b, NEW s, Move(p, a, b, s),
           \A q \in Proc \ {p} : loc'[q] = loc[q],
           a \notin RSlot \cup WSlot, b \notin RSlot \cup WSlot,
           b = "copy" => loc[p].op = "block_write_full",
           UNCHANGED <<id, dirt, lock, upto, bcur, dcur, damaged>>, ReqsKept
    PROVE  QuietBy(p)
<1>1. Others(p) /\ pc[p] = a /\ pc'[p] = b
  BY MoveOthers
<1> QED
  BY <1>1 DEF QuietBy, SlotKept, DataKept

LEMMA LocKept ==
    ASSUME TypeOK, NEW p \in Proc, NEW r, loc' = [loc EXCEPT ![p] = r]
    PROVE  \A q \in Proc \ {p} : loc'[q] = loc[q]
  BY DEF TypeOK

(* Assignments to the locals of p leave the others' alone. *)
LEMMA LocalsKept ==
    ASSUME TypeOK, NEW p \in Proc, NEW x, NEW y, NEW k, NEW n,
           \/ UNCHANGED loc
           \/ SetCand(p, x) \/ SetScan(p, x, n) \/ SetSync(p, k, n, y) \/ SetBh(p, x) \/ SetBlk(p, x, y)
    PROVE  \A q \in Proc \ {p} : loc'[q] = loc[q]
<1>1. UNCHANGED loc \/ \E r : loc' = [loc EXCEPT ![p] = r]
  BY Zenon DEF SetCand, SetScan, SetSync, SetBh, SetBlk
<1> QED
  BY <1>1, LocKept

LEMMA SameReqs == ASSUME UNCHANGED req PROVE ReqsKept
  BY DEF ReqsKept

LEMMA StartEffect ==
    ASSUME CacheInv, NEW p \in Proc, Enter(p) PROVE QuietBy(p)
<1>0. TypeOK
  BY DEF CacheInv
<1>1. ASSUME NEW op, NEW b, NEW a, Start(p, op, b, a) PROVE QuietBy(p)
  <2>1. Move(p, "idle", "find", FALSE) /\ UNCHANGED <<id, dirt, lock, upto, bcur, dcur, damaged, req>>
    BY <1>1 DEF Start, Goto, heads, data
  <2>2. \A q \in Proc \ {p} : loc'[q] = loc[q]
    BY <1>0, <1>1, LocKept DEF Start
  <2> QED
    BY <1>0, <2>1, <2>2, QuietMove, SameReqs DEF RSlot, WSlot
<1>2. CASE StartSync(p)
  <2>1. Move(p, "idle", "syncwait", lock[ring[1]]) /\ UNCHANGED <<id, dirt, lock, upto, bcur, dcur, damaged, req>>
    BY <1>2 DEF StartSync, Wait, heads, data
  <2>2. \A q \in Proc \ {p} : loc'[q] = loc[q]
    BY <1>0, <1>2, LocKept DEF StartSync
  <2> QED
    BY <1>0, <2>1, <2>2, QuietMove, SameReqs DEF RSlot, WSlot
<1>3. CASE StartPage(p)
  <2>1. Move(p, "idle", "pslot", FALSE) /\ UNCHANGED <<id, dirt, lock, upto, bcur, dcur, damaged, req>>
    BY <1>3 DEF StartPage, Goto, heads, data
  <2>2. \A q \in Proc \ {p} : loc'[q] = loc[q]
    BY <1>0, <1>3, LocKept DEF StartPage
  <2> QED
    BY <1>0, <2>1, <2>2, QuietMove, SameReqs DEF RSlot, WSlot
<1> QED
  BY <1>1, <1>2, <1>3 DEF Enter

LEMMA FindEffect ==
    ASSUME CacheInv, NEW p \in Proc, GetHashTable(p) \/ HashWait(p) \/ Retry(p) \/ SyncDev(p)
    PROVE  QuietBy(p)
<1>0. TypeOK
  BY DEF CacheInv
<1>1. UNCHANGED <<id, dirt, lock, upto, bcur, dcur, damaged, req>>
  BY DEF GetHashTable, HashWait, Retry, SyncDev, heads, data
<1>2. \E a \in {"find", "hashwait", "candwait"}, b \in {"hashwait", "scan", "got", "find", "syncwait"} :
         \E s : Move(p, a, b, s)
  BY Zenon DEF GetHashTable, HashWait, Retry, SyncDev, Wait, Goto
<1>3. \A q \in Proc \ {p} : loc'[q] = loc[q]
  <2>1. \E x, y, k, n :
           UNCHANGED loc \/ SetCand(p, x) \/ SetScan(p, x, n) \/ SetSync(p, k, n, y)
    BY Zenon DEF GetHashTable, HashWait, Retry, SyncDev
  <2> QED
    BY <1>0, <2>1, LocalsKept
<1> QED
  BY <1>0, <1>1, <1>2, <1>3, QuietMove, SameReqs DEF RSlot, WSlot

LEMMA SyncEffect ==
    ASSUME CacheInv, NEW p \in Proc, SyncWait(p) \/ SyncNext(p) PROVE QuietBy(p)
<1>0. TypeOK
  BY DEF CacheInv
<1>1. UNCHANGED <<id, dirt, lock, upto, bcur, dcur, damaged, req>>
  BY DEF SyncWait, SyncNext, heads, data
<1>2. \E a \in {"syncwait", "syncnext"}, b \in {"wlock", "syncnext", "syncwait", "idle", "candwait"} :
         \E s : Move(p, a, b, s)
  <2>1. CASE SyncWait(p)
    BY <2>1 DEF SyncWait, Goto
  <2>2. CASE SyncNext(p)
    BY <2>2, Zenon DEF SyncNext, Wait, Sleep
  <2> QED
    BY <2>1, <2>2
<1>3. \A q \in Proc \ {p} : loc'[q] = loc[q]
  <2>1. \/ \E x, y, k, n : UNCHANGED loc \/ SetCand(p, x) \/ SetScan(p, x, n) \/ SetSync(p, k, n, y)
        \/ \E r : loc' = [loc EXCEPT ![p] = r]
    BY Zenon DEF SyncWait, SyncNext
  <2> QED
    BY <1>0, <2>1, LocalsKept, LocKept
<1> QED
  BY <1>0, <1>1, <1>2, <1>3, QuietMove, SameReqs DEF RSlot, WSlot

LEMMA PageEffect ==
    ASSUME CacheInv, NEW p \in Proc, PageRequest(p) PROVE QuietBy(p)
<1>0. TypeOK
  BY DEF CacheInv
<1>1. UNCHANGED <<loc, id, dirt, lock, upto, bcur, dcur, damaged>>
  BY DEF PageRequest, heads, data
<1>2. \E a \in {"pslot", "pslotgap"}, b \in {"pwait", "pslotgap", "pslotwait"} :
         \E s : Move(p, a, b, s)
  BY Zenon DEF PageRequest, Goto, Sleep
<1>3. ReqsKept
  <2>1. CASE UNCHANGED req
    BY <2>1, SameReqs
  <2>2. CASE \E i \in 1..NReq : IsSlot(i, "p") /\ req' = [req EXCEPT ![i] = [cmd |-> "p", buf |-> p]]
    <3>1. PICK i \in 1..NReq : req[i] = NULL /\ req' = [req EXCEPT ![i] = [cmd |-> "p", buf |-> p]]
      BY <2>2 DEF IsSlot, FreeSlots
    <3>2. req'[i].cmd = "p" /\ \A j \in 1..NReq \ {i} : req'[j] = req[j]
      BY <1>0, <3>1 DEF TypeOK
    <3> QED
      BY <3>1, <3>2 DEF ReqsKept, IsBlk
  <2> QED
    BY <2>1, <2>2 DEF PageRequest
<1> QED
  BY <1>0, <1>1, <1>2, <1>3, QuietMove DEF RSlot, WSlot

(* add_request fills a slot that was free. *)
LEMMA AddQueues ==
    ASSUME TypeOK, NEW cmd \in {"r", "w"}, NEW x \in Buf, AddRequest(cmd, x)
    PROVE  Queued(cmd, x) /\ dirt' = [dirt EXCEPT ![x] = FALSE]
<1>1. PICK i \in 1..NReq : req[i] = NULL /\ req' = [req EXCEPT ![i] = [cmd |-> cmd, buf |-> x]]
  BY DEF AddRequest, IsSlot, FreeSlots
<1>2. req'[i] = [cmd |-> cmd, buf |-> x] /\ \A j \in 1..NReq \ {i} : req'[j] = req[j]
  BY <1>1 DEF TypeOK
<1> QED
  BY <1>1, <1>2 DEF Queued, IsBlk, AddRequest

LEMMA AheadEffect ==
    ASSUME TypeOK, NEW p \in Proc, NEW cmd \in {"r", "w"}, NEW x \in Buf, RequestAhead(cmd, x),
           NEW a, NEW b, NEW s, Move(p, a, b, s), a \notin RSlot \cup WSlot, b \notin RSlot \cup WSlot \cup {"copy"},
           \A q \in Proc \ {p} : loc'[q] = loc[q],
           UNCHANGED <<id, upto, bcur, dcur, damaged>>
    PROVE  QuietBy(p) \/ AheadBy(p, cmd, x)
<1>1. CASE lock[x] \/ FreeSlots(cmd) = {} \/ (cmd = "w" /\ ~dirt[x]) \/ (cmd = "r" /\ upto[x])
  <2>1. UNCHANGED <<req, dirt, lock>>
    BY <1>1 DEF RequestAhead
  <2> QED
    BY <2>1, QuietMove, SameReqs
<1>2. CASE ~(lock[x] \/ FreeSlots(cmd) = {} \/ (cmd = "w" /\ ~dirt[x]) \/ (cmd = "r" /\ upto[x]))
  <2>1. AddRequest(cmd, x) /\ lock' = [lock EXCEPT ![x] = TRUE]
    BY <1>2 DEF RequestAhead
  <2>2. Queued(cmd, x) /\ dirt' = [dirt EXCEPT ![x] = FALSE]
    BY <2>1, AddQueues
  <2>3. Others(p) /\ pc[p] = a /\ pc'[p] = b
    BY MoveOthers
  <2> QED
    BY <1>2, <2>1, <2>2, <2>3 DEF AheadBy, SlotKept, DataKept
<1> QED
  BY <1>1, <1>2

LEMMA ScanEffect ==
    ASSUME CacheInv, NEW p \in Proc, Scan(p)
    PROVE  QuietBy(p) \/ \E x \in Buf : AheadBy(p, "w", x)
<1> PICK tmp : tmp = ring[1 + ((NBuf + 2 - loc[p].left) % NBuf)]
  OBVIOUS
<1>0. TypeOK
  BY DEF CacheInv
<1>1. tmp \in Buf
  <2>1. loc[p].left \in 1..(NBuf + 1)
    <3>1. loc[p].left > 0 /\ loc[p].left \in 0..(NBuf + 1)
      BY DEF CacheInv, TypeOK, Locals, Standing, StandsWell, Scan
    <3> QED
      BY <3>1, NBufType
  <2>2. NBuf + 2 - loc[p].left \in Nat
    BY <2>1, NBufType
  <2>3. (NBuf + 2 - loc[p].left) % NBuf \in 0..(NBuf - 1)
    BY <2>2, NBufType
  <2>4. 1 + ((NBuf + 2 - loc[p].left) % NBuf) \in 1..NBuf
    BY <2>3, NBufType
  <2> QED
    BY <1>0, <2>4 DEF TypeOK
<1>2. UNCHANGED <<id, upto, bcur, dcur, damaged>>
  BY DEF Scan, data
<1>3. PICK b \in {"scan", "nobuf", "candwait"} : \E s : Move(p, "scan", b, s)
  BY DEF Scan, Goto, Sleep
<1>4. \A q \in Proc \ {p} : loc'[q] = loc[q]
  <2>1. \E x, n : SetScan(p, x, n)
    BY DEF Scan
  <2> QED
    BY <1>0, <2>1, LocalsKept
<1>5. CASE UNCHANGED <<req, dirt, lock>>
  BY <1>0, <1>2, <1>3, <1>4, <1>5, QuietMove, SameReqs DEF RSlot, WSlot
<1>6. CASE RequestAhead("w", tmp)
  BY <1>0, <1>1, <1>2, <1>3, <1>4, <1>6, AheadEffect DEF RSlot, WSlot
<1> QED
  BY <1>5, <1>6 DEF Scan

LEMMA GotAheadEffect ==
    ASSUME CacheInv, NEW p \in Proc, GotAhead(p)
    PROVE  QuietBy(p) \/ \E x \in Buf : AheadBy(p, "r", x)
<1> PICK x : x = loc[p].cand
  OBVIOUS
<1>0. TypeOK
  BY DEF CacheInv
<1>1. x \in Buf
  BY DEF CacheInv, Standing, StandsWell, GotAhead
<1>2. UNCHANGED <<id, upto, bcur, dcur, damaged>> /\ RequestAhead("r", x) /\ Move(p, "got", "ahead", FALSE)
  BY DEF GotAhead, data, Goto
<1>3. \A q \in Proc \ {p} : loc'[q] = loc[q]
  BY <1>0, LocalsKept DEF GotAhead
<1> QED
  BY <1>0, <1>1, <1>2, <1>3, AheadEffect DEF RSlot, WSlot

LEMMA CallerEffect ==
    ASSUME CacheInv, NEW p \in Proc, GotFirst(p) \/ Ahead(p) \/ Brelse(p) PROVE QuietBy(p)
<1>0. TypeOK
  BY DEF CacheInv
<1>1. UNCHANGED <<id, dirt, lock, upto, bcur, dcur, damaged, req>>
  BY DEF GotFirst, Ahead, Brelse, heads, data
<1>2. CASE GotFirst(p)
  <2>1. PICK b \in {"copy", "ahead", "rlock"} : /\ \E s : Move(p, "got", b, s)
                                                /\ b = "copy" => loc[p].op = "block_write_full"
    BY <1>2 DEF GotFirst, Goto, Wait
  <2>2. \A q \in Proc \ {p} : loc'[q] = loc[q]
    BY <1>0, <1>2, LocalsKept DEF GotFirst
  <2> QED
    BY <1>0, <1>1, <2>1, <2>2, QuietMove, SameReqs DEF RSlot, WSlot
<1>3. CASE Ahead(p)
  <2>1. PICK b \in {"find", "rdwait"} : \E s : Move(p, "ahead", b, s)
    BY <1>3 DEF Ahead, Goto, Wait
  <2>2. \A q \in Proc \ {p} : loc'[q] = loc[q]
    <3>1. UNCHANGED loc \/ \E x, y : SetBlk(p, x, y)
      BY <1>3 DEF Ahead
    <3> QED
      BY <1>0, <3>1, LocalsKept
  <2> QED
    BY <1>0, <1>1, <2>1, <2>2, QuietMove, SameReqs DEF RSlot, WSlot
<1>4. CASE Brelse(p)
  <2>1. /\ cpu \in {NULL, p} /\ pc[p] = "rel" /\ pc'[p] = "idle"
        /\ \A q \in Proc \ {p} : pc'[q] = pc[q] \/ (pc[q] = "nobuf" /\ pc'[q] = "find")
        /\ \A q \in Proc \ {p} : loc'[q] = loc[q]
    BY <1>0, <1>4 DEF Brelse, Unlocked, TypeOK
  <2>2. Others(p) /\ SlotKept(p)
    BY <2>1 DEF Others, SlotKept, CopyKept, RSlot, WSlot
  <2> QED
    BY <1>1, <2>1, <2>2, SameReqs DEF QuietBy, DataKept
<1> QED
  BY <1>2, <1>3, <1>4

LEMMA LockEffect ==
    ASSUME CacheInv, NEW p \in Proc, NEW cmd \in {"r", "w"}, LockBuffer(p, cmd)
    PROVE  QuietBy(p) \/ \E x \in Buf : LockBy(p, cmd, x)
<1> PICK x : x = Target(p, cmd)
  OBVIOUS
<1> PICK a : a = IF cmd = "r" THEN "rlock" ELSE "wlock"
  OBVIOUS
<1> PICK b : b = IF cmd = "r" THEN "rslot" ELSE "wslot"
  OBVIOUS
<1> PICK c : c = IF cmd = "r" THEN "ahead" ELSE "syncnext"
  OBVIOUS
<1>0. TypeOK
  BY DEF CacheInv
<1>1. a = At(cmd, "lock") /\ b = At(cmd, "slot") /\ c = At(cmd, "done")
  BY DEF At
<1>2. pc[p] = a /\ ~lock[x]
  BY <1>1 DEF LockBuffer, Unlocked
<1>3. x \in Buf
  BY <1>2 DEF CacheInv, Target, Standing, StandsWell, HasBh, InSync
<1>4. UNCHANGED <<loc, id, dirt, upto, bcur, dcur, damaged, req>>
  BY DEF LockBuffer, data
<1>5. CASE (cmd = "w" /\ ~dirt[x]) \/ (cmd = "r" /\ upto[x])
  <2>1. Move(p, a, c, FALSE) /\ UNCHANGED lock
    BY <1>1, <1>5 DEF LockBuffer, Goto
  <2> QED
    BY <1>0, <1>4, <2>1, QuietMove, SameReqs DEF RSlot, WSlot
<1>6. CASE ~((cmd = "w" /\ ~dirt[x]) \/ (cmd = "r" /\ upto[x]))
  <2>1. Move(p, a, b, FALSE) /\ lock' = [lock EXCEPT ![x] = TRUE]
    BY <1>1, <1>6 DEF LockBuffer, Goto
  <2>2. Others(p) /\ pc'[p] = b
    BY <1>0, <1>4, <2>1, MoveOthers
  <2>3. (cmd = "r" => loc'[p].bh = x) /\ (cmd = "w" => loc'[p].sb = x)
    BY <1>4 DEF Target
  <2> QED
    BY <1>2, <1>3, <1>4, <1>6, <2>1, <2>2, <2>3, SameReqs DEF LockBy, DataKept, RSlot, WSlot
<1> QED
  BY <1>5, <1>6

LEMMA SlotEffect ==
    ASSUME CacheInv, NEW p \in Proc, NEW cmd \in {"r", "w"}, MakeRequest(p, cmd)
    PROVE  QuietBy(p) \/ \E x \in Buf : SlotBy(p, cmd, x)
<1> PICK x : x = Target(p, cmd)
  OBVIOUS
<1> PICK a : a = IF cmd = "r" THEN "rslot" ELSE "wslot"
  OBVIOUS
<1> PICK b : b = IF cmd = "r" THEN "rslotwait" ELSE "wslotwait"
  OBVIOUS
<1> PICK c : c = IF cmd = "r" THEN "ahead" ELSE "syncnext"
  OBVIOUS
<1>0. TypeOK
  BY DEF CacheInv
<1>1. a = At(cmd, "slot") /\ b = At(cmd, "wait") /\ c = At(cmd, "done")
  BY DEF At
<1>2. CASE Move(p, a, c, FALSE) /\ AddRequest(cmd, x) /\ UNCHANGED <<loc, id, lock, upto, data>>
  <2>1. Others(p) /\ pc[p] = a /\ pc'[p] = c
    BY <1>0, <1>2, MoveOthers
  <2>2. x \in Buf
    BY <2>1 DEF CacheInv, Target, Standing, StandsWell, HasBh, InSync
  <2>3. Queued(cmd, x) /\ dirt' = [dirt EXCEPT ![x] = FALSE]
    BY <1>0, <1>2, <2>2, AddQueues
  <2>4. (cmd = "r" /\ ReadLocks(p, x)) \/ (cmd = "w" /\ WriteLocks(p, x))
    BY <2>1 DEF ReadLocks, WriteLocks, Target, RSlot, WSlot
  <2>5. DataKept /\ UNCHANGED lock
    BY <1>2 DEF DataKept, data
  <2> QED
    BY <2>1, <2>2, <2>3, <2>4, <2>5 DEF SlotBy, RSlot, WSlot
<1>3. CASE Move(p, a, b, TRUE) /\ UNCHANGED <<loc, heads, req, data>>
  <2>1. Others(p) /\ pc[p] = a /\ pc'[p] = b
    BY <1>0, <1>3, MoveOthers
  <2>2. SlotKept(p)
    BY <1>3, <2>1 DEF SlotKept, RSlot, WSlot
  <2>3. DataKept /\ UNCHANGED <<dirt, lock>> /\ ReqsKept
    BY <1>3, SameReqs DEF DataKept, heads, data
  <2> QED
    BY <2>1, <2>2, <2>3 DEF QuietBy
<1> QED
  BY <1>1, <1>2, <1>3, Zenon DEF MakeRequest, Goto, Sleep

LEMMA ClaimEffect ==
    ASSUME CacheInv, NEW p \in Proc, ~lock[loc[p].cand], Claim(p) PROVE \E x \in Buf : ClaimBy(p, x)
<1> PICK x : x = loc[p].cand
  OBVIOUS
<1>0. TypeOK
  BY DEF CacheInv
<1>1. /\ count[x] = 0 /\ ~dirt[x] /\ Found(loc[p].blk) = {}
      /\ Move(p, "candwait", "got", FALSE)
      /\ upto' = [upto EXCEPT ![x] = FALSE]
      /\ id' = [id EXCEPT ![x] = loc[p].blk]
      /\ bcur' = [bcur EXCEPT ![x] = FALSE]
      /\ UNCHANGED <<loc, dirt, lock, req, dcur, damaged>>
  BY DEF Claim, Goto
<1>2. Others(p) /\ pc[p] = "candwait" /\ pc'[p] = "got"
  BY <1>0, <1>1, MoveOthers
<1>3. x \in Buf /\ loc[p].blk \in Block
  BY <1>2 DEF CacheInv, Standing, StandsWell, InGetblk
<1> QED
  BY <1>1, <1>2, <1>3 DEF ClaimBy, SlotKept, RSlot, WSlot

LEMMA UseEffect ==
    ASSUME CacheInv, NEW p \in Proc, ReadWait(p) PROVE QuietBy(p) \/ \E x \in Buf : UseBy(p, x)
<1> PICK x : x = loc[p].bh
  OBVIOUS
<1>0. TypeOK
  BY DEF CacheInv
<1>1. /\ pc[p] = "rdwait"
      /\ UNCHANGED <<loc, id, lock, upto, bcur, dcur, damaged, req>>
      /\ dirt' = IF upto[x] /\ loc[p].op = "file_write" THEN [dirt EXCEPT ![x] = TRUE] ELSE dirt
  BY DEF ReadWait, Unlocked, data
<1>2. x \in Buf
  BY <1>1 DEF CacheInv, Standing, StandsWell, HasBh
<1>3. CASE upto[x] /\ loc[p].op \in {"block_write", "file_write"}
  <2>1. Move(p, "rdwait", "copy", MayFault)
    BY <1>3 DEF ReadWait
  <2>2. Others(p) /\ pc'[p] = "copy"
    BY <1>0, <1>1, <2>1, MoveOthers
  <2>3. cpu' = IF MayFault THEN NULL ELSE p
    BY <2>1 DEF Move
  <2> QED
    BY <1>1, <1>2, <1>3, <2>2, <2>3, SameReqs DEF UseBy, SlotKept, DataKept, RSlot, WSlot
<1>4. CASE ~(upto[x] /\ loc[p].op \in {"block_write", "file_write"})
  <2>1. Move(p, "rdwait", "rel", upto[x] /\ MayFault) /\ UNCHANGED dirt
    BY <1>1, <1>4, Zenon DEF ReadWait
  <2> QED
    BY <1>0, <1>1, <2>1, QuietMove, SameReqs DEF RSlot, WSlot
<1> QED
  BY <1>3, <1>4

LEMMA CopyEffect ==
    ASSUME CacheInv, NEW p \in Proc, Copy(p) PROVE \E x \in Buf : CopyBy(p, x)
<1> PICK x : x = loc[p].bh
  OBVIOUS
<1>0. TypeOK
  BY DEF CacheInv
<1>1. /\ Move(p, "copy", "rel", lock[x])
      /\ bcur' = [bcur EXCEPT ![x] = TRUE]
      /\ dcur' = [dcur EXCEPT ![id[x]] = FALSE]
      /\ dirt' = (IF loc[p].op = "file_write" THEN dirt ELSE [dirt EXCEPT ![x] = TRUE])
      /\ UNCHANGED <<loc, id, lock, upto, req, damaged>>
  BY DEF Copy, Wait
<1>2. Others(p) /\ pc[p] = "copy" /\ pc'[p] = "rel"
  BY <1>0, <1>1, MoveOthers
<1>3. x \in Buf
  BY <1>2 DEF CacheInv, Standing, StandsWell, HasBh
<1> QED
  BY <1>1, <1>2, <1>3, SameReqs DEF CopyBy, SlotKept, RSlot, WSlot

LEMMA WokenKeeps ==
    ASSUME NEW q \in Proc, pc'[q] = Woken(q), UNCHANGED loc PROVE SlotKept(q) /\ CopyKept(q)
  BY DEF Woken, SlotKept, CopyKept, RSlot, WSlot

LEMMA CompleteEffect ==
    ASSUME CacheInv, NEW i \in 1..NReq, NEW ok \in BOOLEAN, Complete(i, ok)
    PROVE  PageEnds \/ \E x \in Buf : BlockEnds(i, ok, x)
<1> PICK x : x = req[i].buf
  OBVIOUS
<1>0. TypeOK
  BY DEF CacheInv
<1>1. /\ req[i] # NULL /\ req' = [req EXCEPT ![i] = NULL] /\ UNCHANGED <<cpu, id, dirt>>
  BY DEF Complete
<1>2. req'[i] = NULL /\ \A j \in 1..NReq \ {i} : req'[j] = req[j]
  BY <1>0, <1>1 DEF TypeOK
<1>3. CASE PageDone(req[i])
  <2>1. /\ req[i].cmd = "p" /\ pc' = [p \in Proc |-> IF p = x THEN "idle" ELSE Woken(p)]
        /\ loc' = [loc EXCEPT ![x] = NoLoc]
        /\ UNCHANGED <<upto, lock, bcur, dcur, damaged>>
    BY <1>3 DEF PageDone, data
  <2>2. pc[x] = "pwait"
    BY <1>1, <2>1 DEF CacheInv, PagesWaitedFor
  <2>3. ASSUME NEW q \in Proc PROVE SlotKept(q) /\ CopyKept(q)
    <3>1. CASE q = x
      BY <2>1, <2>2, <3>1 DEF SlotKept, CopyKept, RSlot, WSlot
    <3>2. CASE q # x
      <4>1. pc'[q] = Woken(q) /\ loc'[q] = loc[q]
        BY <1>0, <2>1, <3>2 DEF TypeOK
      <4> QED
        BY <4>1 DEF Woken, SlotKept, CopyKept, RSlot, WSlot
    <3> QED
      BY <3>1, <3>2
  <2>4. ReqsKept
    BY <1>2, <2>1 DEF ReqsKept, IsBlk
  <2> QED
    BY <1>1, <2>1, <2>3, <2>4 DEF PageEnds, DataKept
<1>4. CASE BlockDone(req[i], ok)
  <2>1. /\ req[i].cmd \in {"r", "w"}
        /\ pc' = [p \in Proc |-> Woken(p)] /\ UNCHANGED loc
        /\ upto' = [upto EXCEPT ![x] = ok] /\ lock' = [lock EXCEPT ![x] = FALSE]
        /\ req[i].cmd = "r" => bcur' = [bcur EXCEPT ![x] = ok /\ dcur[id[x]]] /\ UNCHANGED <<dcur, damaged>>
        /\ req[i].cmd = "w" =>
              /\ \E c \in Written(x) : dcur' = [dcur EXCEPT ![id[x]] = ok /\ c]
              /\ damaged' = (IF ok THEN damaged ELSE damaged \cup {id[x]})
              /\ UNCHANGED bcur
    BY <1>4 DEF BlockDone
  <2>2. x \in Buf
    <3>1. req[i] \in [cmd : {"r", "w"}, buf : Buf]
      BY <1>0, <1>1, <2>1 DEF TypeOK, Request
    <3> QED
      BY <3>1
  <2>3. \A q \in Proc : SlotKept(q) /\ CopyKept(q)
    BY <2>1, WokenKeeps
  <2>4. On(i, x)
    BY <1>1, <2>1 DEF On, IsBlk
  <2> QED
    BY <1>1, <1>2, <2>1, <2>2, <2>3, <2>4 DEF BlockEnds
<1> QED
  BY <1>3, <1>4 DEF Complete

LEMMA StepEffect == ASSUME CacheInv, [Next]_vars PROVE Effect
<1>1. ASSUME NEW p \in Proc, Enter(p) PROVE Effect
  BY <1>1, StartEffect DEF Effect
<1>2. ASSUME NEW p \in Proc, Step(p) PROVE Effect
  <2>1. CASE GetHashTable(p) \/ HashWait(p) \/ Scan(p)
    BY <2>1, FindEffect, ScanEffect DEF Effect
  <2>2. CASE CandWait(p)
    <3>1. ~lock[loc[p].cand] /\ (Retry(p) \/ SyncDev(p) \/ Claim(p))
      BY <2>2 DEF CandWait, Unlocked
    <3> QED
      BY <3>1, FindEffect, ClaimEffect DEF Effect
  <2>3. CASE \E cmd \in {"r", "w"} : LockBuffer(p, cmd) \/ MakeRequest(p, cmd)
    BY <2>3, LockEffect, SlotEffect DEF Effect
  <2>4. CASE PageRequest(p) \/ SyncWait(p) \/ SyncNext(p)
    BY <2>4, PageEffect, SyncEffect DEF Effect
  <2>5. CASE GotFirst(p) \/ GotAhead(p) \/ Ahead(p)
    BY <2>5, CallerEffect, GotAheadEffect DEF Effect
  <2>6. CASE ReadWait(p) \/ Copy(p) \/ Brelse(p)
    BY <2>6, UseEffect, CopyEffect, CallerEffect DEF Effect
  <2> QED
    BY <1>2, <2>1, <2>2, <2>3, <2>4, <2>5, <2>6 DEF Step
<1>3. ASSUME NEW i \in 1..NReq, NEW ok \in BOOLEAN, Complete(i, ok) PROVE Effect
  BY <1>3, CompleteEffect DEF Effect
<1>4. CASE UNCHANGED vars
  <2>1. UNCHANGED <<cpu, pc, loc, id, dirt, lock, upto, req, bcur, dcur, damaged>>
    BY <1>4 DEF vars, heads, data
  <2>2. PageEnds
    BY <2>1, SameReqs DEF PageEnds, SlotKept, CopyKept, DataKept
  <2> QED
    BY <2>2 DEF Effect
<1> QED
  BY <1>1, <1>2, <1>3, <1>4 DEF Next

-----------------------------------------------------------------------------
(***************************************************************************)
(* Locks.                                                                  *)
(***************************************************************************)
LEMMA LocksKept ==
    ASSUME NEW q \in Proc, SlotKept(q), NEW x
    PROVE  /\ Locks(q, x)' <=> Locks(q, x)
           /\ ReadLocks(q, x)' <=> ReadLocks(q, x)
           /\ WriteLocks(q, x)' <=> WriteLocks(q, x)
  BY DEF SlotKept, Locks, ReadLocks, WriteLocks

LEMMA OnKept ==
    ASSUME ReqsKept, NEW i \in 1..NReq, NEW x
    PROVE  (On(i, x)' <=> On(i, x)) /\ (On(i, x) => req'[i] = req[i])
  BY DEF ReqsKept, On

LEMMA OnQueued ==
    ASSUME NEW cmd \in {"r", "w"}, NEW x \in Buf, Queued(cmd, x)
    PROVE  \E i \in 1..NReq :
              /\ \A y : ~On(i, y)
              /\ req'[i].cmd = cmd
              /\ \A y : On(i, y)' <=> y = x
              /\ \A j \in 1..NReq \ {i}, y \in Buf : (On(j, y)' <=> On(j, y)) /\ req'[j] = req[j]
<1>1. PICK i \in 1..NReq : /\ ~IsBlk(req[i]) /\ req'[i] = [cmd |-> cmd, buf |-> x]
                           /\ \A j \in 1..NReq \ {i} : req'[j] = req[j]
  BY DEF Queued
<1>2. IsBlk(req'[i]) /\ req'[i].buf = x /\ req'[i].cmd = cmd
  <2>1. req'[i].cmd = cmd /\ req'[i].buf = x
    BY <1>1
  <2>2. req'[i] # NULL
    BY <1>1, NullRequest
  <2> QED
    BY <2>1, <2>2 DEF IsBlk
<1> QED
  BY <1>1, <1>2 DEF On

LEMMA LockQuiet ==
    ASSUME LockInv, \A q \in Proc : SlotKept(q), ReqsKept, UNCHANGED lock PROVE LockInv'
<1>1. \A q \in Proc, x \in Buf : Locks(q, x)' <=> Locks(q, x)
  BY LocksKept
<1>2. \A i \in 1..NReq, x \in Buf : On(i, x)' <=> On(i, x)
  BY OnKept
<1> QED
  BY <1>1, <1>2 DEF LockInv

LEMMA LockAhead ==
    ASSUME TypeOK, LockInv, NEW p \in Proc, NEW cmd \in {"r", "w"}, NEW x \in Buf, AheadBy(p, cmd, x)
    PROVE  LockInv'
<1>1. \A q \in Proc, y \in Buf : Locks(q, y)' <=> Locks(q, y)
  BY LocksKept DEF AheadBy, Others
<1>2. PICK i \in 1..NReq : /\ \A y : On(i, y)' <=> y = x
                           /\ \A j \in 1..NReq \ {i}, y \in Buf : On(j, y)' <=> On(j, y)
                           /\ \A y : ~On(i, y)
  BY OnQueued DEF AheadBy
<1>3. ~lock[x] /\ lock'[x] /\ \A y \in Buf \ {x} : lock'[y] = lock[y]
  BY DEF AheadBy, TypeOK
<1>4. ASSUME NEW y \in Buf, y # x
      PROVE  \A j \in 1..NReq : On(j, y)' <=> On(j, y)
  BY <1>2, <1>4
<1>5. \A j \in 1..NReq : ~On(j, x)
  BY <1>3 DEF LockInv
<1>6. \A q \in Proc : ~Locks(q, x)
  BY <1>3 DEF LockInv
<1> QED
  BY <1>1, <1>2, <1>3, <1>4, <1>5, <1>6 DEF LockInv

LEMMA LockLock ==
    ASSUME TypeOK, LockInv, NEW p \in Proc, NEW cmd \in {"r", "w"}, NEW x \in Buf, LockBy(p, cmd, x)
    PROVE  LockInv'
<1>1. \A q \in Proc \ {p}, y \in Buf : Locks(q, y)' <=> Locks(q, y)
  BY LocksKept DEF LockBy, Others
<1>2. \A j \in 1..NReq, y \in Buf : On(j, y)' <=> On(j, y)
  BY OnKept DEF LockBy
<1>3. ~lock[x] /\ lock'[x] /\ \A y \in Buf \ {x} : lock'[y] = lock[y]
  BY DEF LockBy, TypeOK
<1>4. \A y \in Buf : ~Locks(p, y) /\ (Locks(p, y)' <=> y = x)
  BY DEF LockBy, Locks, ReadLocks, WriteLocks, RSlot, WSlot
<1>5. (\A j \in 1..NReq : ~On(j, x)) /\ (\A q \in Proc : ~Locks(q, x))
  BY <1>3 DEF LockInv
<1> QED
  BY <1>1, <1>2, <1>3, <1>4, <1>5 DEF LockInv

LEMMA LockSlot ==
    ASSUME TypeOK, LockInv, NEW p \in Proc, NEW cmd \in {"r", "w"}, NEW x \in Buf, SlotBy(p, cmd, x)
    PROVE  LockInv'
<1>1. \A q \in Proc \ {p}, y \in Buf : Locks(q, y)' <=> Locks(q, y)
  BY LocksKept DEF SlotBy, Others
<1>2. PICK i \in 1..NReq : /\ \A y : On(i, y)' <=> y = x
                           /\ \A j \in 1..NReq \ {i}, y \in Buf : On(j, y)' <=> On(j, y)
                           /\ \A y : ~On(i, y)
  BY OnQueued DEF SlotBy
<1>3. UNCHANGED lock
  BY DEF SlotBy
<1>4. \A y \in Buf : ~Locks(p, y)' /\ (Locks(p, y) <=> y = x)
  BY DEF SlotBy, Locks, ReadLocks, WriteLocks, RSlot, WSlot
<1>5. lock[x] /\ (\A j \in 1..NReq : ~On(j, x)) /\ (\A q \in Proc \ {p} : ~Locks(q, x))
  BY <1>4 DEF LockInv
<1> QED
  BY <1>1, <1>2, <1>3, <1>4, <1>5 DEF LockInv

LEMMA LockEnds ==
    ASSUME TypeOK, LockInv, NEW i \in 1..NReq, NEW ok \in BOOLEAN, NEW x \in Buf, BlockEnds(i, ok, x)
    PROVE  LockInv'
<1>1. \A q \in Proc, y \in Buf : Locks(q, y)' <=> Locks(q, y)
  BY LocksKept DEF BlockEnds
<1>2. /\ \A y : ~On(i, y)'
      /\ \A j \in 1..NReq \ {i}, y \in Buf : On(j, y)' <=> On(j, y)
  BY DEF BlockEnds, On, IsBlk
<1>3. \A y \in Buf : On(i, y) <=> y = x
  BY DEF BlockEnds, On
<1>4. ~lock'[x] /\ \A y \in Buf \ {x} : lock'[y] = lock[y]
  BY DEF BlockEnds, TypeOK
<1>5. /\ \A j \in 1..NReq \ {i} : ~On(j, x)
      /\ \A q \in Proc : ~Locks(q, x)
  BY <1>3 DEF LockInv
<1> QED
  BY <1>1, <1>2, <1>3, <1>4, <1>5 DEF LockInv

LEMMA StepLocks == ASSUME CacheInv, LockInv, [Next]_vars PROVE LockInv'
<1>0. TypeOK /\ Effect
  BY StepEffect DEF CacheInv
<1>1. ASSUME NEW p \in Proc, QuietBy(p) PROVE LockInv'
  BY <1>1, LockQuiet DEF QuietBy, Others
<1>2. ASSUME NEW p \in Proc, NEW x \in Buf, ClaimBy(p, x) \/ UseBy(p, x) \/ CopyBy(p, x) PROVE LockInv'
  <2>1. (\A q \in Proc : SlotKept(q)) /\ UNCHANGED lock
    BY <1>2 DEF ClaimBy, UseBy, CopyBy, Others
  <2>2. ReqsKept
    BY <1>2, SameReqs DEF ClaimBy, UseBy, CopyBy
  <2> QED
    BY <2>1, <2>2, LockQuiet
<1>3. ASSUME NEW p \in Proc, NEW x \in Buf, NEW cmd \in {"r", "w"},
             AheadBy(p, cmd, x) \/ LockBy(p, cmd, x) \/ SlotBy(p, cmd, x)
      PROVE  LockInv'
  BY <1>0, <1>3, LockAhead, LockLock, LockSlot
<1>4. CASE PageEnds
  BY <1>4, LockQuiet DEF PageEnds
<1> QED
  BY <1>0, <1>1, <1>2, <1>3, <1>4, LockEnds DEF Effect

LEMMA InitLocks == Init => LockInv
<1> SUFFICES ASSUME Init PROVE LockInv
  OBVIOUS
<1>1. \A i \in 1..NReq : ~IsBlk(req[i])
  BY DEF Init, IsBlk
<1>2. \A p \in Proc : pc[p] \notin RSlot \cup WSlot
  BY DEF Init, RSlot, WSlot
<1>3. \A x \in Buf : ~lock[x]
  BY DEF Init
<1> QED
  BY <1>1, <1>2, <1>3 DEF LockInv, On, Locks, ReadLocks, WriteLocks

(* A set all of whose elements are equal has one element, or none. *)
LEMMA OneOrNone ==
    ASSUME NEW S, \A a, b \in S : a = b
    PROVE  Cardinality(S) = IF S = {} THEN 0 ELSE 1
<1>1. CASE S = {}
  BY <1>1, FS_EmptySet
<1>2. CASE S # {}
  <2>1. PICK a \in S : TRUE
    BY <1>2
  <2>2. S = {a}
    BY <2>1
  <2> QED
    BY <1>2, <2>2, FS_Singleton
<1> QED
  BY <1>1, <1>2

LEMMA LockInvSuffices == LockInv => LockedIsBusy
<1> SUFFICES ASSUME LockInv, NEW x \in Buf
             PROVE  Cardinality(Requests(x)) + Cardinality(Lockers(x)) = IF lock[x] THEN 1 ELSE 0
  BY DEF LockedIsBusy
<1>1. Requests(x) = {i \in 1..NReq : On(i, x)}
  BY DEF Requests, On, IsBlk
<1>2. Lockers(x) = {p \in Proc : Locks(p, x)}
  <2>1. /\ {At("r", "slot"), At("r", "wait")} = RSlot
        /\ {At("w", "slot"), At("w", "wait")} = WSlot
    BY DEF At, RSlot, WSlot
  <2>2. \A p \in Proc : Target(p, "r") = loc[p].bh /\ Target(p, "w") = loc[p].sb
    BY DEF Target
  <2> QED
    BY <2>1, <2>2 DEF Lockers, Locks, ReadLocks, WriteLocks
<1>3. /\ \A i, j \in Requests(x) : i = j
      /\ \A p, q \in Lockers(x) : p = q
      /\ Requests(x) = {} \/ Lockers(x) = {}
      /\ lock[x] <=> Requests(x) # {} \/ Lockers(x) # {}
  BY <1>1, <1>2 DEF LockInv
<1>4. /\ Cardinality(Requests(x)) = IF Requests(x) = {} THEN 0 ELSE 1
      /\ Cardinality(Lockers(x)) = IF Lockers(x) = {} THEN 0 ELSE 1
  BY <1>3, OneOrNone
<1> QED
  BY <1>3, <1>4

THEOREM LockInvariant == Spec => []LockInv
<1>1. CacheInv /\ LockInv /\ [Next]_vars => LockInv'
  BY StepLocks
<1> QED
  BY <1>1, InitLocks, CacheInvariant, PTL DEF Spec

(***************************************************************************)
(* b_lock and the requests agree (lock_buffer, make_request, end_request): *)
(* a buffer is locked exactly while one request, or one task on its way to *)
(* a slot, is responsible for it.                                          *)
(***************************************************************************)
THEOREM LocksHaveOwners == Spec => []LockedIsBusy
  BY LockInvSuffices, LockInvariant, PTL

-----------------------------------------------------------------------------
(***************************************************************************)
(* Contents.                                                               *)
(***************************************************************************)
LEMMA OpKept ==
    ASSUME TypeOK, OpsOnly, NEW p \in Proc, NEW r, loc' = [loc EXCEPT ![p] = r],
           r.op \in Ops \cup {NULL, "sys_sync", "ll_rw_page"}
    PROVE  OpsOnly'
  BY DEF TypeOK, OpsOnly

LEMMA OpsKept ==
    ASSUME TypeOK, OpsOnly, NEW p \in Proc, NEW x, NEW y, NEW k, NEW n,
           \/ UNCHANGED loc
           \/ SetCand(p, x) \/ SetScan(p, x, n) \/ SetSync(p, k, n, y) \/ SetBh(p, x) \/ SetBlk(p, x, y)
    PROVE  OpsOnly'
<1>1. CASE UNCHANGED loc
  BY <1>1 DEF OpsOnly
<1>2. CASE ~UNCHANGED loc
  <2>1. loc[p] \in Locals
    BY DEF TypeOK
  <2>2. \E r : r.op = loc[p].op /\ loc' = [loc EXCEPT ![p] = r]
    <3>1. /\ [loc[p] EXCEPT !.cand = x].op = loc[p].op
          /\ [loc[p] EXCEPT !.cand = x, !.left = n].op = loc[p].op
          /\ [loc[p] EXCEPT !.pass = k, !.left = n, !.sb = y].op = loc[p].op
          /\ [loc[p] EXCEPT !.bh = x, !.cand = NULL].op = loc[p].op
          /\ [loc[p] EXCEPT !.blk = x, !.todo = y].op = loc[p].op
      BY <2>1, Zenon DEF Locals
    <3> QED
      BY <1>2, <3>1, Zenon DEF SetCand, SetScan, SetSync, SetBh, SetBlk
  <2> QED
    BY <2>2, OpKept DEF OpsOnly
<1> QED
  BY <1>1, <1>2

LEMMA NoLocOp == NoLoc.op = NULL
  BY DEF NoLoc, Locs

LEMMA StepOps == ASSUME CacheInv, OpsOnly, [Next]_vars PROVE OpsOnly'
<1>0. TypeOK
  BY DEF CacheInv
<1>1. ASSUME NEW p \in Proc, Enter(p) PROVE OpsOnly'
  <2>1. ASSUME NEW op \in Ops, NEW b \in Block, NEW a \in Aheads, Start(p, op, b, a) PROVE OpsOnly'
    <3>1. loc' = [loc EXCEPT ![p] = Locs(op, b, a, 0, NULL, 0)] /\ Locs(op, b, a, 0, NULL, 0).op = op
      BY <2>1 DEF Start, Locs
    <3> QED
      BY <1>0, <3>1, OpKept
  <2>2. CASE StartSync(p)
    <3>1. PICK r : r = Locs("sys_sync", NULL, <<>>, NBuf, ring[1], 1)
      OBVIOUS
    <3>2. loc' = [loc EXCEPT ![p] = r] /\ r.op = "sys_sync"
      BY <2>2, <3>1 DEF StartSync, Locs
    <3> QED
      BY <1>0, <3>2, OpKept
  <2>3. CASE StartPage(p)
    <3>1. PICK r : r = Locs("ll_rw_page", NULL, <<>>, 0, NULL, 0)
      OBVIOUS
    <3>2. loc' = [loc EXCEPT ![p] = r] /\ r.op = "ll_rw_page"
      BY <2>3, <3>1 DEF StartPage, Locs
    <3> QED
      BY <1>0, <3>2, OpKept
  <2> QED
    BY <1>1, <2>1, <2>2, <2>3 DEF Enter
<1>2. ASSUME NEW p \in Proc, Step(p) PROVE OpsOnly'
  <2>1. \/ \E x, y, k, n : UNCHANGED loc \/ SetCand(p, x) \/ SetScan(p, x, n) \/ SetSync(p, k, n, y)
                           \/ SetBh(p, x) \/ SetBlk(p, x, y)
        \/ loc' = [loc EXCEPT ![p] = NoLoc]
    <3>1. CASE GetHashTable(p) \/ HashWait(p) \/ Scan(p) \/ CandWait(p)
      BY <3>1, Zenon DEF GetHashTable, HashWait, Scan, CandWait, Retry, SyncDev, Claim
    <3>2. CASE \E cmd \in {"r", "w"} : LockBuffer(p, cmd) \/ MakeRequest(p, cmd)
      BY <3>2 DEF LockBuffer, MakeRequest
    <3>3. CASE PageRequest(p) \/ SyncWait(p) \/ SyncNext(p)
      BY <3>3, Zenon DEF PageRequest, SyncWait, SyncNext
    <3>4. CASE GotFirst(p) \/ GotAhead(p) \/ Ahead(p)
      BY <3>4, Zenon DEF GotFirst, GotAhead, Ahead
    <3>5. CASE ReadWait(p) \/ Copy(p) \/ Brelse(p)
      BY <3>5 DEF ReadWait, Copy, Brelse
    <3> QED
      BY <1>2, <3>1, <3>2, <3>3, <3>4, <3>5 DEF Step
  <2> QED
    BY <1>0, <2>1, OpsKept, OpKept, NoLocOp
<1>3. ASSUME NEW i \in 1..NReq, NEW ok \in BOOLEAN, Complete(i, ok) PROVE OpsOnly'
  <2>1. UNCHANGED loc \/ \E q : loc' = [loc EXCEPT ![q] = NoLoc]
    BY <1>3 DEF Complete, PageDone, BlockDone
  <2> QED
    BY <1>0, <2>1, NoLocOp DEF OpsOnly, TypeOK
<1>4. CASE UNCHANGED vars
  BY <1>4 DEF vars, OpsOnly
<1> QED
  BY <1>1, <1>2, <1>3, <1>4 DEF Next

(* A write request for x *)
WReq(x) == \E i \in 1..NReq : On(i, x) /\ req[i].cmd = "w"

LEMMA LostIs ==
    NoLostWrite <=>
      \A b \in Block \ damaged :
        \/ dcur[b]
        \/ \E x \in Buf : id[x] = b /\ bcur[x] /\ (dirt[x] \/ WReq(x))
  BY DEF NoLostWrite, Requests, WReq, On, IsBlk

LEMMA LostIsNext ==
    NoLostWrite' <=>
      \A b \in Block \ damaged' :
        \/ dcur'[b]
        \/ \E x \in Buf : id'[x] = b /\ bcur'[x] /\ (dirt'[x] \/ WReq(x)')
  BY DEF NoLostWrite, Requests, WReq, On, IsBlk

(* An unlocked buffer is neither read nor written. *)
LEMMA UnlockedIdle ==
    ASSUME LockInv, NEW x \in Buf, ~lock[x] PROVE ~Reads(x) /\ ~WritesOn(x) /\ ~WReq(x)
  BY DEF LockInv, Reads, WritesOn, WReq, Locks

LEMMA BusyKept ==
    ASSUME ReqsKept, \A q \in Proc : SlotKept(q), NEW x \in Buf
    PROVE  (Reads(x)' <=> Reads(x)) /\ (WritesOn(x)' <=> WritesOn(x)) /\ (WReq(x)' <=> WReq(x))
<1>1. \A q \in Proc : (ReadLocks(q, x)' <=> ReadLocks(q, x)) /\ (WriteLocks(q, x)' <=> WriteLocks(q, x))
  BY LocksKept
<1>2. \A i \in 1..NReq : (On(i, x)' <=> On(i, x)) /\ (On(i, x) => req'[i] = req[i])
  BY OnKept
<1> QED
  BY <1>1, <1>2 DEF Reads, WritesOn, WReq

(* A step of task p that does not begin to copy *)
LEMMA CopiesKept ==
    ASSUME DataInv, NEW p \in Proc, Others(p), pc'[p] # "copy",
           \A q \in Proc : pc[q] = "copy" =>
               (upto'[loc[q].bh] <=> upto[loc[q].bh]) /\ id'[loc[q].bh] = id[loc[q].bh],
           UNCHANGED damaged
    PROVE  CopiesCurrent' /\ DirtyFirst'
<1>1. ASSUME NEW q \in Proc, pc'[q] = "copy"
      PROVE  q # p /\ pc[q] = "copy" /\ loc'[q].bh = loc[q].bh /\ loc'[q].op = loc[q].op
  BY <1>1 DEF Others, CopyKept
<1>2. CopiesCurrent'
  BY <1>1 DEF DataInv, CopiesCurrent
<1>3. ASSUME NEW q \in Proc, pc'[q] = "copy", loc'[q].op = "file_write" PROVE FALSE
  <2>1. cpu = q /\ q # p
    BY <1>1, <1>3 DEF DataInv, DirtyFirst
  <2> QED
    BY <2>1, NullAssumption DEF Others
<1> QED
  BY <1>2, <1>3 DEF DirtyFirst

LEMMA DataQuiet ==
    ASSUME DataInv, \A q \in Proc : SlotKept(q), ReqsKept, DataKept, UNCHANGED dirt
    PROVE  ReadsStale' /\ WritesCurrent' /\ UptodateIsCurrent' /\ NoLostWrite'
<1>1. \A x \in Buf : (Reads(x)' <=> Reads(x)) /\ (WritesOn(x)' <=> WritesOn(x)) /\ (WReq(x)' <=> WReq(x))
  BY BusyKept
<1>2. ReadsStale' /\ WritesCurrent' /\ UptodateIsCurrent'
  BY <1>1 DEF DataInv, ReadsStale, WritesCurrent, UptodateIsCurrent, DataKept
<1>3. NoLostWrite'
  BY <1>1, LostIs, LostIsNext DEF DataInv, DataKept
<1> QED
  BY <1>2, <1>3

LEMMA DataPage ==
    ASSUME DataInv, PageEnds PROVE OpsOnly' => DataInv'
<1>1. ReadsStale' /\ WritesCurrent' /\ UptodateIsCurrent' /\ NoLostWrite'
  BY DataQuiet DEF PageEnds
<1>2. CopiesCurrent' /\ DirtyFirst'
  BY DEF PageEnds, CopyKept, DataKept, DataInv, CopiesCurrent, DirtyFirst
<1> QED
  BY <1>1, <1>2 DEF DataInv

LEMMA DataQuietBy ==
    ASSUME "block_write_full" \notin Ops, DataInv, NEW p \in Proc, QuietBy(p) PROVE OpsOnly' => DataInv'
<1>1. ReadsStale' /\ WritesCurrent' /\ UptodateIsCurrent' /\ NoLostWrite'
  BY DataQuiet DEF QuietBy, Others
<1>2. pc'[p] # "copy"
  BY NullAssumption DEF QuietBy, DataInv, OpsOnly, AllOps
<1>3. CopiesCurrent' /\ DirtyFirst'
  BY <1>2, CopiesKept DEF QuietBy, DataKept
<1> QED
  BY <1>1, <1>3 DEF DataInv

LEMMA DataLock ==
    ASSUME TypeOK, LockInv, DataInv, NEW p \in Proc, NEW cmd \in {"r", "w"}, NEW x \in Buf, LockBy(p, cmd, x)
    PROVE  OpsOnly' => DataInv'
<1>1. \A y \in Buf : WReq(y)' <=> WReq(y)
  BY OnKept DEF LockBy, WReq
<1>2. /\ \A y \in Buf : Reads(y)' => Reads(y) \/ (y = x /\ ~upto[x])
      /\ \A y \in Buf : WritesOn(y)' => WritesOn(y) \/ (y = x /\ dirt[x])
  <2>1. \A i \in 1..NReq, y \in Buf : (On(i, y)' <=> On(i, y)) /\ (On(i, y) => req'[i] = req[i])
    BY OnKept DEF LockBy
  <2>2. \A q \in Proc \ {p}, y \in Buf :
           (ReadLocks(q, y)' <=> ReadLocks(q, y)) /\ (WriteLocks(q, y)' <=> WriteLocks(q, y))
    BY LocksKept DEF LockBy, Others
  <2>3. \A y \in Buf : (ReadLocks(p, y)' => y = x /\ ~upto[x]) /\ (WriteLocks(p, y)' => y = x /\ dirt[x])
    BY DEF LockBy, ReadLocks, WriteLocks, RSlot, WSlot
  <2> QED
    BY <2>1, <2>2, <2>3 DEF Reads, WritesOn
<1>3. ReadsStale' /\ WritesCurrent' /\ UptodateIsCurrent'
  BY <1>2 DEF DataInv, ReadsStale, WritesCurrent, UptodateIsCurrent, LockBy, DataKept
<1>4. NoLostWrite'
  BY <1>1, LostIs, LostIsNext DEF DataInv, LockBy, DataKept
<1>5. CopiesCurrent' /\ DirtyFirst'
  BY CopiesKept DEF LockBy, DataKept
<1> QED
  BY <1>3, <1>4, <1>5 DEF DataInv

(* A request: what was dirty is in a write request now. *)
LEMMA DataRequest ==
    ASSUME TypeOK, DataInv, NEW cmd \in {"r", "w"}, NEW x \in Buf, Queued(cmd, x),
           dirt' = [dirt EXCEPT ![x] = FALSE], DataKept,
           \A q \in Proc, y \in Buf : (ReadLocks(q, y)' => ReadLocks(q, y)) /\ (WriteLocks(q, y)' => WriteLocks(q, y)),
           cmd = "r" => ~upto[x],
           cmd = "w" => upto[x] \/ id[x] \in damaged
    PROVE  ReadsStale' /\ WritesCurrent' /\ UptodateIsCurrent' /\ NoLostWrite'
<1>1. PICK i \in 1..NReq :
              /\ \A y : ~On(i, y)
              /\ req'[i].cmd = cmd
              /\ \A y : On(i, y)' <=> y = x
              /\ \A j \in 1..NReq \ {i}, y \in Buf : (On(j, y)' <=> On(j, y)) /\ req'[j] = req[j]
  BY OnQueued
<1>2. /\ ~dirt'[x] /\ \A y \in Buf \ {x} : dirt'[y] = dirt[y]
      /\ UNCHANGED <<id, upto, bcur, dcur, damaged>>
  BY DEF TypeOK, DataKept
<1>3. /\ \A y \in Buf : Reads(y)' => Reads(y) \/ (y = x /\ cmd = "r")
      /\ \A y \in Buf : WritesOn(y)' => WritesOn(y) \/ (y = x /\ cmd = "w")
  BY <1>1 DEF Reads, WritesOn
<1>4. \A y \in Buf : WReq(y) => WReq(y)'
  BY <1>1 DEF WReq
<1>5. cmd = "w" => WReq(x)'
  BY <1>1 DEF WReq
<1>6. ReadsStale' /\ WritesCurrent' /\ UptodateIsCurrent'
  BY <1>2, <1>3 DEF DataInv, ReadsStale, WritesCurrent, UptodateIsCurrent
<1>7. ASSUME NEW b \in Block \ damaged, NEW y \in Buf, id[y] = b, bcur[y], dirt[y] \/ WReq(y)
      PROVE  dirt'[y] \/ WReq(y)'
  <2>1. CASE cmd = "r" /\ y = x /\ dirt[x]
    BY <1>7, <2>1 DEF DataInv, WritesCurrent
  <2> QED
    BY <1>2, <1>4, <1>5, <1>7, <2>1
<1>8. NoLostWrite'
  BY <1>2, <1>7, LostIs, LostIsNext DEF DataInv
<1> QED
  BY <1>6, <1>8

LEMMA DataAhead ==
    ASSUME TypeOK, LockInv, DataInv, NEW p \in Proc, NEW cmd \in {"r", "w"}, NEW x \in Buf, AheadBy(p, cmd, x)
    PROVE  OpsOnly' => DataInv'
<1>1. \A q \in Proc, y \in Buf : (ReadLocks(q, y)' => ReadLocks(q, y)) /\ (WriteLocks(q, y)' => WriteLocks(q, y))
  BY LocksKept DEF AheadBy, Others
<1>2. (cmd = "r" => ~upto[x]) /\ (cmd = "w" => upto[x] \/ id[x] \in damaged)
  BY DEF AheadBy, DataInv, WritesCurrent
<1>3. ReadsStale' /\ WritesCurrent' /\ UptodateIsCurrent' /\ NoLostWrite'
  BY <1>1, <1>2, DataRequest DEF AheadBy
<1>4. CopiesCurrent' /\ DirtyFirst'
  BY CopiesKept DEF AheadBy, DataKept
<1> QED
  BY <1>3, <1>4 DEF DataInv

LEMMA DataSlot ==
    ASSUME TypeOK, LockInv, DataInv, NEW p \in Proc, NEW cmd \in {"r", "w"}, NEW x \in Buf, SlotBy(p, cmd, x)
    PROVE  OpsOnly' => DataInv'
<1>1. \A q \in Proc, y \in Buf : (ReadLocks(q, y)' => ReadLocks(q, y)) /\ (WriteLocks(q, y)' => WriteLocks(q, y))
  <2>1. \A y \in Buf : ~ReadLocks(p, y)' /\ ~WriteLocks(p, y)'
    BY DEF SlotBy, ReadLocks, WriteLocks
  <2> QED
    BY <2>1, LocksKept DEF SlotBy, Others
<1>2. (cmd = "r" => ~upto[x]) /\ (cmd = "w" => upto[x] \/ id[x] \in damaged)
  BY DEF SlotBy, DataInv, ReadsStale, WritesCurrent, Reads, WritesOn
<1>3. ReadsStale' /\ WritesCurrent' /\ UptodateIsCurrent' /\ NoLostWrite'
  BY <1>1, <1>2, DataRequest DEF SlotBy
<1>4. CopiesCurrent' /\ DirtyFirst'
  BY CopiesKept DEF SlotBy, DataKept
<1> QED
  BY <1>3, <1>4 DEF DataInv

(* getblk takes a buffer that nobody uses, transfers or has changed. *)
LEMMA DataClaim ==
    ASSUME CacheInv, LockInv, DataInv, NEW p \in Proc, NEW x \in Buf, ClaimBy(p, x)
    PROVE  OpsOnly' => DataInv'
<1>0. TypeOK
  BY DEF CacheInv
<1>1. /\ ~upto'[x] /\ ~dirt[x] /\ \A y \in Buf \ {x} : upto'[y] = upto[y] /\ bcur'[y] = bcur[y] /\ id'[y] = id[y]
      /\ UNCHANGED <<dirt, req, dcur, damaged>>
  BY <1>0 DEF ClaimBy, TypeOK
<1>2. ~Reads(x) /\ ~WritesOn(x) /\ ~WReq(x)
  BY UnlockedIdle DEF ClaimBy
<1>3. \A y \in Buf : (Reads(y)' <=> Reads(y)) /\ (WritesOn(y)' <=> WritesOn(y)) /\ (WReq(y)' <=> WReq(y))
  <2>1. ReqsKept /\ \A q \in Proc : SlotKept(q)
    BY SameReqs DEF ClaimBy, Others
  <2> QED
    BY <2>1, BusyKept
<1>4. ReadsStale' /\ WritesCurrent' /\ UptodateIsCurrent'
  BY <1>1, <1>2, <1>3 DEF DataInv, ReadsStale, WritesCurrent, UptodateIsCurrent
<1>5. NoLostWrite'
  <2>1. \A b \in Block \ damaged, y \in Buf : id[y] = b /\ bcur[y] /\ (dirt[y] \/ WReq(y)) => y # x
    BY <1>1, <1>2
  <2> QED
    BY <1>1, <1>3, <2>1, LostIs, LostIsNext DEF DataInv
<1>6. \A q \in Proc : pc[q] = "copy" => loc[q].bh \in Buf \ {x}
  <2> SUFFICES ASSUME NEW q \in Proc, pc[q] = "copy" PROVE loc[q].bh \in Buf \ {x}
    OBVIOUS
  <2>1. loc[q].bh \in Buf
    BY DEF CacheInv, Standing, StandsWell, HasBh
  <2>2. Users(x) = {}
    <3>1. count[x] = 0 /\ count[x] = Cardinality(Users(x)) + Cardinality(Takers(x))
      BY DEF ClaimBy, CacheInv, RefCount
    <3> QED
      BY <3>1, UserCounts
  <2> QED
    BY <2>1, <2>2 DEF Users
<1>7. CopiesCurrent' /\ DirtyFirst'
  BY <1>1, <1>6, CopiesKept DEF ClaimBy
<1> QED
  BY <1>4, <1>5, <1>7 DEF DataInv

(* A task is about to write to a buffer that is up to date. *)
LEMMA DataUse ==
    ASSUME MayFault => "file_write" \notin Ops, CacheInv, DataInv, NEW p \in Proc, NEW x \in Buf, UseBy(p, x)
    PROVE  OpsOnly' => DataInv'
<1>0. TypeOK
  BY DEF CacheInv
<1>1. /\ upto[x] /\ \A y \in Buf : dirt[y] => dirt'[y]
      /\ \A y \in Buf \ {x} : dirt'[y] = dirt[y]
      /\ loc[p].op = "file_write" => dirt'[x]
      /\ UNCHANGED <<id, upto, bcur, dcur, damaged, loc>>
  BY <1>0 DEF UseBy, TypeOK, DataKept
<1>2. \A y \in Buf : (Reads(y)' <=> Reads(y)) /\ (WritesOn(y)' <=> WritesOn(y)) /\ (WReq(y)' <=> WReq(y))
  BY BusyKept DEF UseBy, Others
<1>3. ReadsStale' /\ WritesCurrent' /\ UptodateIsCurrent'
  BY <1>1, <1>2 DEF DataInv, ReadsStale, WritesCurrent, UptodateIsCurrent
<1>4. NoLostWrite'
  BY <1>1, <1>2, LostIs, LostIsNext DEF DataInv
<1>5. CopiesCurrent'
  BY <1>1 DEF UseBy, Others, CopyKept, DataInv, CopiesCurrent
<1>6. DirtyFirst'
  <2> SUFFICES ASSUME NEW q \in Proc, pc'[q] = "copy", loc'[q].op = "file_write"
               PROVE  cpu' = q /\ dirt'[loc'[q].bh]
    BY DEF DirtyFirst
  <2>1. CASE q = p
    <3>1. loc[p].op = "file_write" /\ loc[p].bh = x
      BY <1>1, <2>1 DEF UseBy
    <3>2. ~MayFault
      BY <3>1, NullAssumption DEF DataInv, OpsOnly, AllOps
    <3> QED
      BY <1>1, <2>1, <3>1, <3>2 DEF UseBy
  <2>2. CASE q # p
    <3>1. pc[q] = "copy" /\ loc[q].op = "file_write"
      BY <1>1, <2>2 DEF UseBy, Others, CopyKept
    <3>2. cpu = q /\ cpu \in {NULL, p}
      BY <3>1 DEF UseBy, Others, DataInv, DirtyFirst
    <3> QED
      BY <2>2, <3>2, NullAssumption
  <2> QED
    BY <2>1, <2>2
<1> QED
  BY <1>3, <1>4, <1>5, <1>6 DEF DataInv

(* The bytes are written, and the buffer is dirty. *)
LEMMA DataCopy ==
    ASSUME CacheInv, DataInv, NEW p \in Proc, NEW x \in Buf, CopyBy(p, x)
    PROVE  OpsOnly' => DataInv'
<1>0. TypeOK
  BY DEF CacheInv
<1>1. id[x] \in Block
  BY <1>0, NullAssumption DEF CopyBy, CacheInv, Assigned, TypeOK
<1>2. /\ bcur'[x] /\ \A y \in Buf \ {x} : bcur'[y] = bcur[y]
      /\ \A b \in Block \ {id[x]} : dcur'[b] = dcur[b]
      /\ UNCHANGED <<id, upto, damaged>>
  BY <1>0, <1>1 DEF CopyBy, TypeOK
<1>3. dirt'[x] /\ \A y \in Buf \ {x} : dirt'[y] = dirt[y]
  BY <1>0 DEF CopyBy, TypeOK, DataInv, DirtyFirst
<1>4. upto[x] \/ id[x] \in damaged
  BY DEF CopyBy, DataInv, CopiesCurrent
<1>5. \A y \in Buf : (Reads(y)' <=> Reads(y)) /\ (WritesOn(y)' <=> WritesOn(y)) /\ (WReq(y)' <=> WReq(y))
  BY BusyKept DEF CopyBy, Others
<1>6. ReadsStale' /\ WritesCurrent' /\ UptodateIsCurrent'
  BY <1>2, <1>3, <1>4, <1>5 DEF DataInv, ReadsStale, WritesCurrent, UptodateIsCurrent
<1>7. NoLostWrite'
  BY <1>1, <1>2, <1>3, <1>5, LostIs, LostIsNext DEF DataInv
<1>8. CopiesCurrent' /\ DirtyFirst'
  BY <1>2, CopiesKept DEF CopyBy
<1> QED
  BY <1>6, <1>7, <1>8 DEF DataInv

(* The end of a transfer: only one request was for the buffer. *)
LEMMA BusyEnds ==
    ASSUME LockInv, NEW i \in 1..NReq, NEW ok \in BOOLEAN, NEW x \in Buf, BlockEnds(i, ok, x)
    PROVE  /\ ~Reads(x)' /\ ~WritesOn(x)'
           /\ req[i].cmd = "r" => Reads(x) /\ ~WritesOn(x) /\ ~WReq(x)
           /\ req[i].cmd = "w" => WritesOn(x) /\ ~Reads(x)
           /\ \A y \in Buf \ {x} :
                 (Reads(y)' <=> Reads(y)) /\ (WritesOn(y)' <=> WritesOn(y)) /\ (WReq(y)' <=> WReq(y))
<1>1. \A q \in Proc, y \in Buf :
         (ReadLocks(q, y)' <=> ReadLocks(q, y)) /\ (WriteLocks(q, y)' <=> WriteLocks(q, y))
  BY LocksKept DEF BlockEnds
<1>2. /\ \A y : ~On(i, y)'
      /\ \A j \in 1..NReq \ {i}, y \in Buf : (On(j, y)' <=> On(j, y)) /\ req'[j] = req[j]
      /\ \A y \in Buf : On(i, y) <=> y = x
  BY DEF BlockEnds, On, IsBlk
<1>3. /\ \A j \in 1..NReq \ {i} : ~On(j, x)
      /\ \A q \in Proc : ~ReadLocks(q, x) /\ ~WriteLocks(q, x)
  BY <1>2 DEF LockInv, Locks
<1>4. ~Reads(x)' /\ ~WritesOn(x)'
  BY <1>1, <1>2, <1>3 DEF Reads, WritesOn
<1>5. /\ req[i].cmd = "r" => Reads(x) /\ ~WritesOn(x) /\ ~WReq(x)
      /\ req[i].cmd = "w" => WritesOn(x) /\ ~Reads(x)
  BY <1>2, <1>3 DEF Reads, WritesOn, WReq
<1>6. \A y \in Buf \ {x} :
         (Reads(y)' <=> Reads(y)) /\ (WritesOn(y)' <=> WritesOn(y)) /\ (WReq(y)' <=> WReq(y))
  BY <1>1, <1>2 DEF Reads, WritesOn, WReq
<1> QED
  BY <1>4, <1>5, <1>6

(* What is read is on the disk: a block that is not up to date has no      *)
(* newer content in the cache.                                             *)
LEMMA DataReadEnds ==
    ASSUME CacheInv, LockInv, DataInv, NEW i \in 1..NReq, NEW ok \in BOOLEAN, NEW x \in Buf,
           BlockEnds(i, ok, x), req[i].cmd = "r"
    PROVE  OpsOnly' => DataInv'
<1>0. TypeOK
  BY DEF CacheInv
<1>1. id[x] \in Block
  BY <1>0 DEF BlockEnds, On, IsBlk, CacheInv, Assigned, TypeOK
<1>2. /\ bcur' = [bcur EXCEPT ![x] = ok /\ dcur[id[x]]]
      /\ upto' = [upto EXCEPT ![x] = ok]
      /\ UNCHANGED <<dcur, damaged, cpu, id, dirt>>
  BY DEF BlockEnds
<1>3. /\ \A y \in Buf \ {x} : bcur'[y] = bcur[y] /\ upto'[y] = upto[y]
      /\ bcur'[x] <=> ok /\ dcur[id[x]]
      /\ upto'[x] <=> ok
  BY <1>0, <1>2 DEF TypeOK
<1>4. /\ Reads(x) /\ ~WReq(x) /\ ~upto[x] /\ ~Reads(x)' /\ ~WritesOn(x)'
      /\ \A y \in Buf \ {x} :
            (Reads(y)' <=> Reads(y)) /\ (WritesOn(y)' <=> WritesOn(y)) /\ (WReq(y)' <=> WReq(y))
  BY BusyEnds DEF DataInv, ReadsStale
<1>5. dirt[x] => id[x] \in damaged
  BY <1>4 DEF DataInv, WritesCurrent
<1>6. id[x] \notin damaged => dcur[id[x]]
  <2>1. \A y \in Buf : id[y] = id[x] => y = x
    BY <1>1, NullAssumption DEF CacheInv, UniqueBuffer
  <2> QED
    BY <1>1, <1>4, <1>5, <2>1, LostIs DEF DataInv
<1>7. ReadsStale'
  BY <1>3, <1>4 DEF DataInv, ReadsStale
<1>8. WritesCurrent'
  BY <1>2, <1>3, <1>4, <1>5 DEF DataInv, WritesCurrent
<1>9. UptodateIsCurrent'
  BY <1>2, <1>3, <1>6 DEF DataInv, UptodateIsCurrent
<1>10. NoLostWrite'
  BY <1>2, <1>3, <1>4, <1>5, LostIs, LostIsNext DEF DataInv
<1>11. CopiesCurrent' /\ DirtyFirst'
  <2>1. \A q \in Proc : pc'[q] = "copy" => pc[q] = "copy" /\ loc'[q].bh = loc[q].bh /\ loc'[q].op = loc[q].op
    BY DEF BlockEnds, CopyKept
  <2>2. \A q \in Proc : pc[q] = "copy" => loc[q].bh \in Buf
    BY DEF CacheInv, Standing, StandsWell, HasBh
  <2>3. \A q \in Proc : pc[q] = "copy" /\ loc[q].bh = x => id[x] \in damaged
    BY <1>4 DEF DataInv, CopiesCurrent
  <2> QED
    BY <1>2, <1>3, <2>1, <2>2, <2>3 DEF DataInv, CopiesCurrent, DirtyFirst
<1> QED
  BY <1>7, <1>8, <1>9, <1>10, <1>11 DEF DataInv

(* What is written is the content of the buffer, or the buffer is dirty    *)
(* again; an error leaves the block damaged.                               *)
LEMMA DataWriteEnds ==
    ASSUME CacheInv, LockInv, DataInv, NEW i \in 1..NReq, NEW ok \in BOOLEAN, NEW x \in Buf,
           BlockEnds(i, ok, x), req[i].cmd = "w"
    PROVE  OpsOnly' => DataInv'
<1>0. TypeOK
  BY DEF CacheInv
<1>1. id[x] \in Block
  BY <1>0 DEF BlockEnds, On, IsBlk, CacheInv, Assigned, TypeOK
<1>2. PICK c \in Written(x) : dcur' = [dcur EXCEPT ![id[x]] = ok /\ c]
  BY DEF BlockEnds
<1>3. /\ damaged' = (IF ok THEN damaged ELSE damaged \cup {id[x]})
      /\ upto' = [upto EXCEPT ![x] = ok]
      /\ UNCHANGED <<bcur, cpu, id, dirt>>
  BY DEF BlockEnds
<1>4. /\ \A y \in Buf \ {x} : upto'[y] = upto[y]
      /\ upto'[x] <=> ok
      /\ \A b \in Block \ {id[x]} : dcur'[b] = dcur[b]
      /\ dcur'[id[x]] <=> ok /\ c
  BY <1>0, <1>1, <1>2, <1>3 DEF TypeOK
<1>5. /\ WritesOn(x) /\ ~Reads(x)' /\ ~WritesOn(x)'
      /\ \A y \in Buf \ {x} :
            (Reads(y)' <=> Reads(y)) /\ (WritesOn(y)' <=> WritesOn(y)) /\ (WReq(y)' <=> WReq(y))
  BY BusyEnds
<1>6. id[x] \notin damaged => bcur[x]
  BY <1>5 DEF DataInv, WritesCurrent, UptodateIsCurrent
<1>7. damaged \subseteq damaged' /\ (ok \/ id[x] \in damaged')
  BY <1>3
<1>8. ReadsStale'
  BY <1>4, <1>5 DEF DataInv, ReadsStale
<1>9. WritesCurrent'
  BY <1>3, <1>4, <1>5, <1>7 DEF DataInv, WritesCurrent
<1>10. UptodateIsCurrent'
  BY <1>3, <1>4, <1>6, <1>7 DEF DataInv, UptodateIsCurrent
<1>11. NoLostWrite'
  <2>1. ASSUME NEW b \in Block \ damaged', b # id[x]
        PROVE  dcur'[b] \/ \E y \in Buf : id'[y] = b /\ bcur'[y] /\ (dirt'[y] \/ WReq(y)')
    <3>1. dcur[b] \/ \E y \in Buf : id[y] = b /\ bcur[y] /\ (dirt[y] \/ WReq(y))
      BY <1>7, <2>1, LostIs DEF DataInv
    <3> QED
      BY <1>3, <1>4, <1>5, <2>1, <3>1
  <2>2. ASSUME id[x] \notin damaged'
        PROVE  dcur'[id[x]] \/ (bcur'[x] /\ dirt'[x])
    <3>1. ok /\ bcur[x]
      BY <1>6, <1>7, <2>2
    <3>2. c = bcur[x] \/ dirt[x]
      BY <1>2 DEF Written
    <3> QED
      BY <1>3, <1>4, <3>1, <3>2
  <2> QED
    BY <1>1, <1>3, <2>1, <2>2, LostIsNext
<1>12. CopiesCurrent' /\ DirtyFirst'
  <2>1. \A q \in Proc : pc'[q] = "copy" => pc[q] = "copy" /\ loc'[q].bh = loc[q].bh /\ loc'[q].op = loc[q].op
    BY DEF BlockEnds, CopyKept
  <2>2. \A q \in Proc : pc[q] = "copy" => loc[q].bh \in Buf
    BY DEF CacheInv, Standing, StandsWell, HasBh
  <2> QED
    BY <1>3, <1>4, <1>7, <2>1, <2>2 DEF DataInv, CopiesCurrent, DirtyFirst
<1> QED
  BY <1>8, <1>9, <1>10, <1>11, <1>12 DEF DataInv

LEMMA StepData ==
    ASSUME "block_write_full" \notin Ops, MayFault => "file_write" \notin Ops,
           CacheInv, LockInv, DataInv, [Next]_vars
    PROVE  DataInv'
<1>0. TypeOK /\ Effect /\ OpsOnly'
  BY StepEffect, StepOps DEF CacheInv, DataInv
<1>1. ASSUME NEW p \in Proc, QuietBy(p) PROVE DataInv'
  BY <1>0, <1>1, DataQuietBy
<1>2. ASSUME NEW p \in Proc, NEW x \in Buf, ClaimBy(p, x) \/ UseBy(p, x) \/ CopyBy(p, x) PROVE DataInv'
  BY <1>0, <1>2, DataClaim, DataUse, DataCopy
<1>3. ASSUME NEW p \in Proc, NEW x \in Buf, NEW cmd \in {"r", "w"},
             AheadBy(p, cmd, x) \/ LockBy(p, cmd, x) \/ SlotBy(p, cmd, x)
      PROVE  DataInv'
  BY <1>0, <1>3, DataAhead, DataLock, DataSlot
<1>4. CASE PageEnds
  BY <1>0, <1>4, DataPage
<1>5. ASSUME NEW i \in 1..NReq, NEW ok \in BOOLEAN, NEW x \in Buf, BlockEnds(i, ok, x) PROVE DataInv'
  <2>1. req[i].cmd \in {"r", "w"}
    <3>1. req[i] \in Request /\ req[i] # NULL /\ req[i].cmd # "p"
      BY <1>0, <1>5 DEF BlockEnds, On, IsBlk, TypeOK
    <3> QED
      BY <3>1 DEF Request
  <2> QED
    BY <1>0, <1>5, <2>1, DataReadEnds, DataWriteEnds
<1> QED
  BY <1>0, <1>1, <1>2, <1>3, <1>4, <1>5 DEF Effect

LEMMA InitData == Init => DataInv
<1> SUFFICES ASSUME Init PROVE DataInv
  OBVIOUS
<1>1. /\ \A i \in 1..NReq : ~IsBlk(req[i])
      /\ \A p \in Proc : pc[p] \notin RSlot \cup WSlot \cup {"copy"} /\ loc[p].op = NULL
      /\ \A x \in Buf : ~dirt[x] /\ ~upto[x]
      /\ \A b \in Block : dcur[b]
  BY NoLocOp DEF Init, IsBlk, RSlot, WSlot
<1>2. \A x \in Buf : ~Reads(x) /\ ~WritesOn(x)
  BY <1>1 DEF Reads, WritesOn, On, ReadLocks, WriteLocks
<1> QED
  BY <1>1, <1>2 DEF DataInv, OpsOnly, ReadsStale, WritesCurrent, CopiesCurrent, DirtyFirst,
                    UptodateIsCurrent, NoLostWrite

(***************************************************************************)
(* The contents: the hypotheses leave out the two callers that the code    *)
(* does not protect.  block_write of a whole block leaves b_uptodate       *)
(* clear, so that the next reader reads the old block over it, and         *)
(* file_write marks the buffer dirty before it copies, so that a page      *)
(* fault in the copy lets the old content be written in between.           *)
(***************************************************************************)
THEOREM DataInvariant ==
    ASSUME "block_write_full" \notin Ops, MayFault => "file_write" \notin Ops
    PROVE  Spec => []DataInv
<1>1. CacheInv /\ LockInv /\ DataInv /\ [Next]_vars => DataInv'
  BY StepData
<1> QED
  BY <1>1, InitData, CacheInvariant, LockInvariant, PTL DEF Spec

(***************************************************************************)
(* A buffer that is up to date holds what was last written to its block    *)
(* (bread, breada, end_request).                                           *)
(***************************************************************************)
THEOREM UptodateBuffers ==
    ASSUME "block_write_full" \notin Ops, MayFault => "file_write" \notin Ops
    PROVE  Spec => []UptodateIsCurrent
<1>1. DataInv => UptodateIsCurrent
  BY DEF DataInv
<1> QED
  BY <1>1, DataInvariant, PTL

(***************************************************************************)
(* What was written is not lost by eviction (getblk), by a read over it    *)
(* (make_request) or by a transfer that overlaps the change, on a block    *)
(* whose writes have not failed.                                           *)
(***************************************************************************)
THEOREM WritesAreKept ==
    ASSUME "block_write_full" \notin Ops, MayFault => "file_write" \notin Ops
    PROVE  Spec => []NoLostWrite
<1>1. DataInv => NoLostWrite
  BY DEF DataInv
<1> QED
  BY <1>1, DataInvariant, PTL

=============================================================================
