---------------------------- MODULE PagingProofs ----------------------------
(***************************************************************************)
(* Proofs about module Paging, for any number of frames and swap pages and *)
(* up to NR_TASKS tasks: mem_map counts the references to every frame      *)
(* exactly and never wraps, a swap page is free or in one table entry, and *)
(* a task finds in its memory what it has written or inherited.            *)
(*                                                                         *)
(* All of this holds up to the three races of the README, which break it:  *)
(* the theorems assume StopAtRaces, so that a behaviour ends at a race,    *)
(* and are about the states before.                                        *)
(*                                                                         *)
(* MemInv below is the inductive invariant.  Lemmas Step, OwnStep and      *)
(* FamilyStep say what an action has to show to keep it; one lemma per     *)
(* action follows, each named after the action, and NextKeeps combines     *)
(* them.                                                                   *)
(***************************************************************************)
EXTENDS Paging, FiniteSetTheorems, WellFoundedInduction, TLAPS

-----------------------------------------------------------------------------
(* Where a task can be *)
InKernel == Callers \cup {"get", "share"}
Rests == {"user", "dead", "born"}
Reads == {"imageread", "swapread", "copyread"}
Positions == InKernel \cup Rests \cup Reads \cup {"swapwrite", "try"}

(* What a task is at: what it wants a page for, while it gets one *)
Job(t) == IF pc[t] \in {"get", "swapwrite"} THEN loc[t].why ELSE pc[t]

Types ==
    /\ cpu \in Task \cup {NULL} /\ halted \in BOOLEAN
    /\ pc \in [Task -> Positions] /\ loc \in [Task -> Locals]
    /\ dir \in [Task -> [Page -> 0..NFrame]]
    /\ pte \in [Task -> [Page -> Entry]]
    /\ mem_map \in [Frame -> Nat] /\ data \in [Frame -> Value]
    /\ bitmap \in [at : 0..NFrame, free : SUBSET Slot] /\ sdata \in [Slot -> Value]
    /\ expect \in [Task -> [Page -> Value]]

(* What the position of a task says of its locals *)
Place(t) ==
    /\ pc[t] \in InKernel => cpu = t
    /\ pc[t] \in Rests => loc[t] = Idle
    /\ pc[t] \in Callers => loc[t].why = pc[t]
    /\ pc[t] \in {"get", "swapwrite"} => loc[t].why \in Callers
    /\ loc[t].v \in Page
    /\ pc[t] \in Reads => loc[t].page # 0
    /\ loc[t].page # 0 => pc[t] \in Callers \cup Reads
    /\ loc[t].victim # 0 <=> pc[t] = "swapwrite"
    /\ loc[t].arg # 0 <=> Job(t) = "argtable"
    /\ loc[t].child # NULL <=> Job(t) \in {"copytable", "copyswap", "copyread"}
    /\ loc[t].why = "bitmap" => Job(t) = "bitmap"
    /\ Job(t) = "cow" => loc[t].old.in = "mem" /\ loc[t].acc # "read"
    /\ loc[t].copied => pc[t] = "try"

(* The forks under way, and the swapon *)
Pairs ==
    /\ \A t \in Task : loc[t].child # NULL => loc[t].child # t /\ pc[loc[t].child] = "born"
    /\ \A t, u \in Task : loc[t].child # NULL /\ loc[t].child = loc[u].child => t = u
    /\ \A t \in Task : Job(t) = "bitmap" => bitmap.at = 0
    /\ \A t, u \in Task : Job(t) = "bitmap" /\ Job(u) = "bitmap" => t = u

(* What the position of a task says of its tables *)
TablesOf(t) ==
    LET v == loc[t].v  c == loc[t].child  j == Job(t) IN
    /\ \A w \in Page : dir[t][w] = 0 => pte[t][w] = None
    /\ pc[t] = "dead" => dir[t] = [w \in Page |-> 0]
    /\ j = "table" => dir[t][v] = 0
    /\ j \in {"share", "image", "imageread"} => v = 1
    /\ j = "anon" => v = 2
    /\ j \in {"share", "anon", "image", "imageread"} => dir[t][v] # 0 /\ pte[t][v] = None
    /\ j \in {"swapin", "swapread", "copyswap", "copyread"} => pte[t][v].in = "swap"
    /\ j \in {"cow", "copytable"} => dir[t][v] # 0
    /\ j = "copytable" => \A w \in Page : w >= v => dir[c][w] = 0
    /\ j \in {"copyswap", "copyread"} => /\ dir[c][v] # 0 /\ pte[c][v] = None
                                         /\ \A w \in Page : w > v => dir[c][w] = 0
    /\ j \in {"copytable", "copyswap", "copyread"} =>
           \A w \in Page : w < v /\ dir[t][w] = 0 => dir[c][w] = 0
    /\ j = "copystrings" => dir[t][1] # 0
    /\ j = "argtable" => dir[t] = [w \in Page |-> 0]
    /\ loc[t].copied => pte[t][v].in = "mem" /\ pte[t][v].w /\ ~pte[t][v].d /\ loc[t].acc # "read"

Counted == \A f \in Frame : mem_map[f] = References(f)

(* Who holds a frame alone *)
Sole ==
    /\ \A t \in Task, v \in Page : dir[t][v] # 0 => mem_map[dir[t][v]] = 1
    /\ \A t \in Task, v \in Page : pte[t][v].in = "mem" /\ pte[t][v].w => mem_map[pte[t][v].f] = 1
    /\ \A t \in Task : /\ loc[t].page # 0 => mem_map[loc[t].page] = 1
                       /\ loc[t].victim # 0 => mem_map[loc[t].victim] = 1
                       /\ loc[t].arg # 0 => mem_map[loc[t].arg] = 1
    /\ bitmap.at # 0 => mem_map[bitmap.at] = 1

(* The swap device *)
Swaps ==
    /\ bitmap.at = 0 => \A t \in Task, v \in Page : pte[t][v].in # "swap"
    /\ bitmap.at # 0 => \A s \in Slot :
         /\ s \in bitmap.free => \A t \in Task, v \in Page : pte[t][v] # Swapped(s)
         /\ s \notin bitmap.free => \E t \in Task, v \in Page : pte[t][v] = Swapped(s)
    /\ \A t, u \in Task, v, w \in Page :
         pte[t][v].in = "swap" /\ pte[u][w] = pte[t][v] => t = u /\ v = w

(* Clean pages are those of the file; pages on their way have the contents *)
(* they are for                                                            *)
Clean ==
    \A t \in Task, v \in Page :
        pte[t][v].in = "mem" /\ ~pte[t][v].d /\ ~(loc[t].copied /\ loc[t].v = v) => data[pte[t][v].f] = FileOf(v)
OnTheWay(t) ==
    LET l == loc[t] IN
    /\ pc[t] = "anon" /\ l.page # 0 => data[l.page] = <<"zero">>
    /\ pc[t] = "imageread" => data[l.page] = <<"image">>
    /\ pc[t] \in {"swapread", "copyread"} => data[l.page] = sdata[pte[t][l.v].s]
    /\ l.arg # 0 => data[l.arg] = <<t, 2>>

Intact ==
    /\ \A t \in Task, v \in Page : pc[t] # "born" => Contents(t, v) = expect[t][v]
    /\ \A t \in Task : pc[t] \in {"dead", "born"} \/ Job(t) = "argtable" => expect[t] = [v \in Page |-> FileOf(v)]
    /\ \A t \in Task, v \in Page : loc[t].child # NULL /\ v < loc[t].v => Contents(loc[t].child, v) = expect[t][v]

ArgRoom == \A t \in Task : Job(t) = "argtable" /\ loc[t].page = 0 => pc[t] = "get" /\ Free # {}

MemInv ==
    /\ Types /\ (\A t \in Task : Place(t)) /\ Pairs /\ (\A t \in Task : TablesOf(t))
    /\ Counted /\ Sole /\ Swaps /\ Clean /\ (\A t \in Task : OnTheWay(t)) /\ Intact /\ ArgRoom

-----------------------------------------------------------------------------
(* Table entries *)
FrameOf(e) == IF e.in = "mem" THEN e.f ELSE 0

(* What the three kinds of table entry are made of *)
LEMMA Entries ==
    /\ None \in Entry /\ None.in = "none"
    /\ \A f \in Frame, w \in BOOLEAN, d \in BOOLEAN :
          /\ Mem(f, w, d) \in Entry /\ Mem(f, w, d).in = "mem" /\ Mem(f, w, d).f = f
          /\ Mem(f, w, d).w = w /\ Mem(f, w, d).d = d
    /\ \A s \in Slot : Swapped(s) \in Entry /\ Swapped(s).in = "swap" /\ Swapped(s).s = s
<1>1. None \in Entry /\ None.in = "none"
  BY DEF Entry, None
<1>2. ASSUME NEW f \in Frame, NEW w \in BOOLEAN, NEW d \in BOOLEAN
      PROVE  Mem(f, w, d) \in Entry
  BY DEF Entry
<1>3. ASSUME NEW f, NEW w, NEW d
      PROVE  /\ Mem(f, w, d).in = "mem" /\ Mem(f, w, d).f = f
             /\ Mem(f, w, d).w = w /\ Mem(f, w, d).d = d
  BY DEF Mem
<1>4. ASSUME NEW s \in Slot
      PROVE  Swapped(s) \in Entry /\ Swapped(s).in = "swap" /\ Swapped(s).s = s
  BY DEF Entry, Swapped
<1> QED
  BY <1>1, <1>2, <1>3, <1>4

(* Every table entry is of one of the three kinds. *)
LEMMA EntryKinds ==
    ASSUME NEW e \in Entry
    PROVE  /\ e.in \in {"none", "mem", "swap"}
           /\ e.in = "none" => e = None
           /\ e.in = "mem" => /\ e.f \in Frame /\ e.w \in BOOLEAN /\ e.d \in BOOLEAN
                              /\ e = Mem(e.f, e.w, e.d)
           /\ e.in = "swap" => e.s \in Slot /\ e = Swapped(e.s)
           /\ FrameOf(e) \in 0..NFrame
           /\ FrameOf(e) # 0 <=> e.in = "mem"
<1>1. /\ e.in \in {"none", "mem", "swap"}
      /\ e.in = "none" => e = None
      /\ e.in = "mem" => e.f \in Frame /\ e.w \in BOOLEAN /\ e.d \in BOOLEAN /\ e = Mem(e.f, e.w, e.d)
      /\ e.in = "swap" => e.s \in Slot /\ e = Swapped(e.s)
  BY DEF Entry, None, Mem, Swapped
<1> QED
  BY <1>1, MemAssumption DEF FrameOf, Frame

(* Changing a bit of an entry in memory leaves the frame as it is. *)
LEMMA EntryChange ==
    ASSUME NEW e \in Entry, e.in = "mem", NEW x \in BOOLEAN
    PROVE  [e EXCEPT !.w = x] = Mem(e.f, x, e.d) /\ [e EXCEPT !.d = x] = Mem(e.f, e.w, x)
<1>1. PICK f \in Frame, w \in BOOLEAN, d \in BOOLEAN : e = Mem(f, w, d)
  BY EntryKinds
<1> QED
  BY <1>1 DEF Mem

-----------------------------------------------------------------------------
(* Counting *)
Count(g, f) == Cardinality({x \in Task \X Page : g[x[1]][x[2]] = f})
Held(k, f) == Cardinality({t \in Task : k[t] = f})
Hit(x, f) == IF x = f THEN 1 ELSE 0

(* There are finitely many tasks, and two pages of each. *)
LEMMA Finite ==
    /\ IsFiniteSet(Page) /\ Cardinality(Page) = 2
    /\ IsFiniteSet(Task \X Page) /\ Cardinality(Task \X Page) = Cardinality(Task) * 2
    /\ Cardinality(Task) \in Nat
<1>1. IsFiniteSet(Page) /\ Cardinality(Page) = 2
  <2>1. IsFiniteSet(1..2) /\ Cardinality(1..2) = IF 1 > 2 THEN 0 ELSE 2 - 1 + 1
    BY ONLY FS_Interval, 1 \in Int, 2 \in Int
  <2> QED
    BY <2>1 DEF Page
<1>2. IsFiniteSet(Task) /\ Cardinality(Task) \in Nat
  BY NrTasks, FS_CardinalityType
<1> QED
  BY <1>1, <1>2, FS_Product

(* A frame is in at most two entries of each task. *)
LEMMA CountNat == ASSUME NEW g, NEW f PROVE Count(g, f) \in Nat /\ Count(g, f) <= Cardinality(Task) * 2
<1> DEFINE A == {x \in Task \X Page : g[x[1]][x[2]] = f}
<1>1. A \in SUBSET (Task \X Page)
  OBVIOUS
<1> QED
  BY <1>1, Finite, FS_Subset, FS_CardinalityType DEF Count

(* The tasks that hold a frame can be counted. *)
LEMMA HeldNat == ASSUME NEW k, NEW f PROVE Held(k, f) \in Nat
<1> DEFINE A == {t \in Task : k[t] = f}
<1>1. A \in SUBSET Task
  OBVIOUS
<1> QED
  BY <1>1, NrTasks, FS_Subset, FS_CardinalityType DEF Held

(* One entry of a table, the locals of one task change. *)
But(g, h, t, v) == \A u \in Task, w \in Page : u # t \/ w # v => h[u][w] = g[u][w]
ButOf(k, m, t) == \A u \in Task : u # t => m[u] = k[u]

(* One entry changes: the count loses the old frame and gains the new. *)
LEMMA CountChange ==
    ASSUME NEW g, NEW h, NEW t \in Task, NEW v \in Page, NEW f, But(g, h, t, v)
    PROVE  Count(h, f) = Count(g, f) - Hit(g[t][v], f) + Hit(h[t][v], f)
<1> DEFINE A == {x \in Task \X Page : g[x[1]][x[2]] = f}
           B == {x \in Task \X Page : h[x[1]][x[2]] = f}
           p == <<t, v>>
<1>1. IsFiniteSet(A) /\ IsFiniteSet(B)
  <2>1. A \in SUBSET (Task \X Page) /\ B \in SUBSET (Task \X Page)
    OBVIOUS
  <2> QED
    BY <2>1, Finite, FS_Subset
<1>2. A \ {p} = B \ {p}
  BY DEF But
<1>3. (p \in A <=> g[t][v] = f) /\ (p \in B <=> h[t][v] = f)
  OBVIOUS
<1> HIDE DEF A, B, p
<1>4. Cardinality(A) \in Nat /\ Cardinality(B) \in Nat
  BY <1>1, FS_CardinalityType
<1>5. Cardinality(A \ {p}) = Cardinality(A) - Hit(g[t][v], f)
  <2>1. Cardinality(A \ {p}) = IF p \in A THEN Cardinality(A) - 1 ELSE Cardinality(A)
    BY <1>1, FS_RemoveElement
  <2> QED
    BY <1>3, <1>4, <2>1 DEF Hit
<1>6. Cardinality(B \ {p}) = Cardinality(B) - Hit(h[t][v], f)
  <2>1. Cardinality(B \ {p}) = IF p \in B THEN Cardinality(B) - 1 ELSE Cardinality(B)
    BY <1>1, FS_RemoveElement
  <2> QED
    BY <1>3, <1>4, <2>1 DEF Hit
<1>7. Cardinality(B) = Cardinality(A) - Hit(g[t][v], f) + Hit(h[t][v], f)
  <2>1. Hit(g[t][v], f) \in Int /\ Hit(h[t][v], f) \in Int
    BY DEF Hit
  <2>2. Cardinality(A \ {p}) = Cardinality(B \ {p})
    BY <1>2, Zenon
  <2> QED
    BY <1>4, <1>5, <1>6, <2>1, <2>2
<1> QED
  BY <1>7 DEF Count, A, B

(* One task changes what it holds: the same. *)
LEMMA HeldChange ==
    ASSUME NEW k, NEW m, NEW t \in Task, NEW f, ButOf(k, m, t)
    PROVE  Held(m, f) = Held(k, f) - Hit(k[t], f) + Hit(m[t], f)
<1> DEFINE A == {u \in Task : k[u] = f}
           B == {u \in Task : m[u] = f}
<1>1. IsFiniteSet(A) /\ IsFiniteSet(B)
  <2>1. A \in SUBSET Task /\ B \in SUBSET Task
    OBVIOUS
  <2> QED
    BY <2>1, NrTasks, FS_Subset
<1>2. A \ {t} = B \ {t}
  BY DEF ButOf
<1>3. (t \in A <=> k[t] = f) /\ (t \in B <=> m[t] = f)
  OBVIOUS
<1> HIDE DEF A, B
<1>4. Cardinality(A) \in Nat /\ Cardinality(B) \in Nat
  BY <1>1, FS_CardinalityType
<1>5. Cardinality(A \ {t}) = Cardinality(A) - Hit(k[t], f)
  <2>1. Cardinality(A \ {t}) = IF t \in A THEN Cardinality(A) - 1 ELSE Cardinality(A)
    BY <1>1, FS_RemoveElement
  <2> QED
    BY <1>3, <1>4, <2>1 DEF Hit
<1>6. Cardinality(B \ {t}) = Cardinality(B) - Hit(m[t], f)
  <2>1. Cardinality(B \ {t}) = IF t \in B THEN Cardinality(B) - 1 ELSE Cardinality(B)
    BY <1>1, FS_RemoveElement
  <2> QED
    BY <1>3, <1>4, <2>1 DEF Hit
<1>7. Cardinality(B) = Cardinality(A) - Hit(k[t], f) + Hit(m[t], f)
  <2>1. Hit(k[t], f) \in Int /\ Hit(m[t], f) \in Int
    BY DEF Hit
  <2>2. Cardinality(A \ {t}) = Cardinality(B \ {t})
    BY <1>2, Zenon
  <2> QED
    BY <1>4, <1>5, <1>6, <2>1, <2>2
<1> QED
  BY <1>7 DEF Held, A, B

(* How much one entry, two entries, or one task count *)
LEMMA CountOne ==
    ASSUME NEW g, NEW t \in Task, NEW v \in Page
    PROVE  Count(g, g[t][v]) >= 1
<1> DEFINE f == g[t][v]
           A == {x \in Task \X Page : g[x[1]][x[2]] = f}
<1>1. <<t, v>> \in A /\ A \in SUBSET (Task \X Page)
  OBVIOUS
<1> HIDE DEF A
<1>2. IsFiniteSet(A) /\ A # {}
  BY <1>1, Finite, FS_Subset
<1>3. Cardinality(A) \in Nat /\ Cardinality(A) # 0
  BY <1>2, FS_EmptySet, FS_CardinalityType
<1> QED
  BY <1>3 DEF Count, A

(* A frame in two entries counts at least 2. *)
LEMMA CountTwo ==
    ASSUME NEW g, NEW t \in Task, NEW v \in Page, NEW u \in Task, NEW w \in Page,
           u # t \/ w # v, g[u][w] = g[t][v]
    PROVE  Count(g, g[t][v]) >= 2
<1> DEFINE f == g[t][v]
           A == {x \in Task \X Page : g[x[1]][x[2]] = f}
<1>1. <<t, v>> \in A /\ <<u, w>> \in A /\ A \in SUBSET (Task \X Page) /\ <<t, v>> # <<u, w>>
  OBVIOUS
<1> HIDE DEF A
<1>2. IsFiniteSet(A)
  BY <1>1, Finite, FS_Subset
<1>3. Cardinality(A) \in Nat /\ Cardinality(A) # 0 /\ Cardinality(A) # 1
  BY <1>1, <1>2, FS_EmptySet, FS_CardinalityType, FS_Singleton
<1> QED
  BY <1>3 DEF Count, A

(* A frame that a task holds counts at least 1. *)
LEMMA HeldOne ==
    ASSUME NEW k, NEW t \in Task
    PROVE  Held(k, k[t]) >= 1
<1> DEFINE A == {u \in Task : k[u] = k[t]}
<1>1. t \in A /\ A \in SUBSET Task
  OBVIOUS
<1> HIDE DEF A
<1>2. IsFiniteSet(A) /\ A # {}
  BY <1>1, NrTasks, FS_Subset
<1>3. Cardinality(A) \in Nat /\ Cardinality(A) # 0
  BY <1>2, FS_EmptySet, FS_CardinalityType
<1> QED
  BY <1>3 DEF Held, A

(* A frame that two tasks hold counts at least 2. *)
LEMMA HeldTwo ==
    ASSUME NEW k, NEW t \in Task, NEW u \in Task, u # t, k[u] = k[t]
    PROVE  Held(k, k[t]) >= 2
<1> DEFINE A == {s \in Task : k[s] = k[t]}
<1>1. t \in A /\ u \in A /\ A \in SUBSET Task
  OBVIOUS
<1> HIDE DEF A
<1>2. IsFiniteSet(A)
  BY <1>1, NrTasks, FS_Subset
<1>3. Cardinality(A) \in Nat /\ Cardinality(A) # 0 /\ Cardinality(A) # 1
  BY <1>1, <1>2, FS_EmptySet, FS_CardinalityType, FS_Singleton
<1> QED
  BY <1>3 DEF Held, A

-----------------------------------------------------------------------------
(* References, as a sum of counts *)
FramesIn(pt) == [t \in Task |-> [v \in Page |-> FrameOf(pt[t][v])]]
PagesIn(lc) == [t \in Task |-> lc[t].page]
VictimsIn(lc) == [t \in Task |-> lc[t].victim]
ArgsIn(lc) == [t \in Task |-> lc[t].arg]
Refs(dr, pt, lc, at, f) ==
    Count(dr, f) + Count(FramesIn(pt), f)
    + Held(PagesIn(lc), f) + Held(VictimsIn(lc), f) + Held(ArgsIn(lc), f) + Hit(at, f)

(* References, of the tables and locals given *)
ReferencesIn(dr, pt, lc, at, f) ==
    Cardinality({x \in Task \X Page : dr[x[1]][x[2]] = f})
    + Cardinality({x \in Task \X Page : pt[x[1]][x[2]].in = "mem" /\ pt[x[1]][x[2]].f = f})
    + Cardinality({t \in Task : lc[t].page = f}) + Cardinality({t \in Task : lc[t].victim = f})
    + Cardinality({t \in Task : lc[t].arg = f}) + (IF at = f THEN 1 ELSE 0)

(* References(f) is the sum of six counts. *)
LEMMA SumOfCounts ==
    ASSUME NEW dr, NEW pt \in [Task -> [Page -> Entry]], NEW lc, NEW at, NEW f \in Frame
    PROVE  ReferencesIn(dr, pt, lc, at, f) = Refs(dr, pt, lc, at, f)
<1>1. {x \in Task \X Page : pt[x[1]][x[2]].in = "mem" /\ pt[x[1]][x[2]].f = f}
        = {x \in Task \X Page : FramesIn(pt)[x[1]][x[2]] = f}
  <2> SUFFICES ASSUME NEW x \in Task \X Page
               PROVE  pt[x[1]][x[2]].in = "mem" /\ pt[x[1]][x[2]].f = f <=> FramesIn(pt)[x[1]][x[2]] = f
    OBVIOUS
  <2>1. x[1] \in Task /\ x[2] \in Page /\ f # 0
    BY DEF Frame
  <2> QED
    BY <2>1 DEF FramesIn, FrameOf
<1>2. Cardinality({x \in Task \X Page : pt[x[1]][x[2]].in = "mem" /\ pt[x[1]][x[2]].f = f}) = Count(FramesIn(pt), f)
  BY <1>1, Zenon DEF Count
<1>3. {t \in Task : lc[t].page = f} = {t \in Task : PagesIn(lc)[t] = f}
  BY DEF PagesIn
<1>4. {t \in Task : lc[t].victim = f} = {t \in Task : VictimsIn(lc)[t] = f}
  BY DEF VictimsIn
<1>5. {t \in Task : lc[t].arg = f} = {t \in Task : ArgsIn(lc)[t] = f}
  BY DEF ArgsIn
<1>6. /\ Cardinality({t \in Task : lc[t].page = f}) = Held(PagesIn(lc), f)
      /\ Cardinality({t \in Task : lc[t].victim = f}) = Held(VictimsIn(lc), f)
      /\ Cardinality({t \in Task : lc[t].arg = f}) = Held(ArgsIn(lc), f)
  BY <1>3, <1>4, <1>5, Zenon DEF Held
<1>7. Cardinality({x \in Task \X Page : dr[x[1]][x[2]] = f}) = Count(dr, f)
  BY DEF Count
<1> QED
  BY <1>2, <1>6, <1>7 DEF ReferencesIn, Refs, Hit

(* The same of a state ... *)
LEMMA References0 ==
    ASSUME Types, NEW f \in Frame
    PROVE  References(f) = Refs(dir, pte, loc, bitmap.at, f)
<1>1. References(f) = ReferencesIn(dir, pte, loc, bitmap.at, f)
  BY DEF References, ReferencesIn, Present
<1> QED
  BY <1>1, SumOfCounts DEF Types

(* ... and of the next one. *)
LEMMA References1 ==
    ASSUME Types', NEW f \in Frame
    PROVE  References(f)' = Refs(dir', pte', loc', bitmap'.at, f)
<1>1. References(f)' = ReferencesIn(dir', pte', loc', bitmap'.at, f)
  BY DEF References, ReferencesIn, Present
<1> QED
  BY <1>1, SumOfCounts DEF Types

(* A step that changes at most one table, the frame of one entry, and the  *)
(* locals of one task                                                      *)
LEMMA Recount ==
    ASSUME NEW dr, NEW pt, NEW lc, NEW at, NEW dr2, NEW pt2, NEW lc2, NEW at2,
           NEW a \in Task, NEW i \in Page, NEW b \in Task, NEW j \in Page, NEW t \in Task, NEW f,
           But(dr, dr2, a, i), But(FramesIn(pt), FramesIn(pt2), b, j), ButOf(PagesIn(lc), PagesIn(lc2), t),
           ButOf(VictimsIn(lc), VictimsIn(lc2), t), ButOf(ArgsIn(lc), ArgsIn(lc2), t)
    PROVE  /\ Refs(dr, pt, lc, at, f) \in Nat
           /\ Refs(dr2, pt2, lc2, at2, f)
                = Refs(dr, pt, lc, at, f)
                  + (Hit(dr2[a][i], f) - Hit(dr[a][i], f))
                  + (Hit(FrameOf(pt2[b][j]), f) - Hit(FrameOf(pt[b][j]), f))
                  + (Hit(lc2[t].page, f) - Hit(lc[t].page, f))
                  + (Hit(lc2[t].victim, f) - Hit(lc[t].victim, f))
                  + (Hit(lc2[t].arg, f) - Hit(lc[t].arg, f))
                  + (Hit(at2, f) - Hit(at, f))
<1>1. Count(dr2, f) = Count(dr, f) - Hit(dr[a][i], f) + Hit(dr2[a][i], f)
  BY ONLY CountChange, a \in Task, i \in Page, But(dr, dr2, a, i)
<1>2. Count(FramesIn(pt2), f) = Count(FramesIn(pt), f) - Hit(FrameOf(pt[b][j]), f) + Hit(FrameOf(pt2[b][j]), f)
  <2>1. FramesIn(pt)[b][j] = FrameOf(pt[b][j]) /\ FramesIn(pt2)[b][j] = FrameOf(pt2[b][j])
    BY DEF FramesIn
  <2> DEFINE g == FramesIn(pt)
             h == FramesIn(pt2)
  <2>2. But(g, h, b, j)
    OBVIOUS
  <2> HIDE DEF g, h
  <2>3. Count(h, f) = Count(g, f) - Hit(g[b][j], f) + Hit(h[b][j], f)
    BY <2>2, CountChange
  <2> QED
    BY <2>1, <2>3 DEF g, h
<1>3. Held(PagesIn(lc2), f) = Held(PagesIn(lc), f) - Hit(lc[t].page, f) + Hit(lc2[t].page, f)
  <2>1. PagesIn(lc)[t] = lc[t].page /\ PagesIn(lc2)[t] = lc2[t].page
    BY DEF PagesIn
  <2>2. Held(PagesIn(lc2), f) = Held(PagesIn(lc), f) - Hit(PagesIn(lc)[t], f) + Hit(PagesIn(lc2)[t], f)
    BY HeldChange
  <2> QED
    BY <2>1, <2>2
<1>4. Held(VictimsIn(lc2), f) = Held(VictimsIn(lc), f) - Hit(lc[t].victim, f) + Hit(lc2[t].victim, f)
  <2>1. VictimsIn(lc)[t] = lc[t].victim /\ VictimsIn(lc2)[t] = lc2[t].victim
    BY DEF VictimsIn
  <2>2. Held(VictimsIn(lc2), f) = Held(VictimsIn(lc), f) - Hit(VictimsIn(lc)[t], f) + Hit(VictimsIn(lc2)[t], f)
    BY HeldChange
  <2> QED
    BY <2>1, <2>2
<1>5. Held(ArgsIn(lc2), f) = Held(ArgsIn(lc), f) - Hit(lc[t].arg, f) + Hit(lc2[t].arg, f)
  <2>1. ArgsIn(lc)[t] = lc[t].arg /\ ArgsIn(lc2)[t] = lc2[t].arg
    BY DEF ArgsIn
  <2>2. Held(ArgsIn(lc2), f) = Held(ArgsIn(lc), f) - Hit(ArgsIn(lc)[t], f) + Hit(ArgsIn(lc2)[t], f)
    BY HeldChange
  <2> QED
    BY <2>1, <2>2
<1>6. \A x : Hit(x, f) \in Nat
  BY DEF Hit
<1>7. /\ Count(dr, f) \in Nat /\ Count(FramesIn(pt), f) \in Nat /\ Held(PagesIn(lc), f) \in Nat
      /\ Held(VictimsIn(lc), f) \in Nat /\ Held(ArgsIn(lc), f) \in Nat
  BY CountNat, HeldNat
<1> QED
  BY <1>1, <1>2, <1>3, <1>4, <1>5, <1>6, <1>7 DEF Refs

(* The same for a step of the system: the counts are exact afterwards if   *)
(* mem_map has changed by the difference.                                  *)
LEMMA StillCounted ==
    ASSUME Types, Types', Counted,
           NEW a \in Task, NEW i \in Page, NEW b \in Task, NEW j \in Page, NEW t \in Task,
           \A u \in Task, w \in Page : u # a \/ w # i => dir'[u][w] = dir[u][w],
           \A u \in Task, w \in Page : u # b \/ w # j => FrameOf(pte'[u][w]) = FrameOf(pte[u][w]),
           \A u \in Task : u # t => /\ loc'[u].page = loc[u].page /\ loc'[u].victim = loc[u].victim
                                    /\ loc'[u].arg = loc[u].arg,
           \A f \in Frame : mem_map'[f] = mem_map[f]
                  + (Hit(dir'[a][i], f) - Hit(dir[a][i], f))
                  + (Hit(FrameOf(pte'[b][j]), f) - Hit(FrameOf(pte[b][j]), f))
                  + (Hit(loc'[t].page, f) - Hit(loc[t].page, f))
                  + (Hit(loc'[t].victim, f) - Hit(loc[t].victim, f))
                  + (Hit(loc'[t].arg, f) - Hit(loc[t].arg, f))
                  + (Hit(bitmap'.at, f) - Hit(bitmap.at, f))
    PROVE  Counted'
<1> SUFFICES ASSUME NEW f \in Frame PROVE mem_map'[f] = References(f)'
  BY DEF Counted
<1>1. References(f) = Refs(dir, pte, loc, bitmap.at, f) /\ References(f)' = Refs(dir', pte', loc', bitmap'.at, f)
  BY References0, References1
<1>2. mem_map[f] = References(f)
  BY DEF Counted
<1>3. Refs(dir', pte', loc', bitmap'.at, f)
                = Refs(dir, pte, loc, bitmap.at, f)
                  + (Hit(dir'[a][i], f) - Hit(dir[a][i], f))
                  + (Hit(FrameOf(pte'[b][j]), f) - Hit(FrameOf(pte[b][j]), f))
                  + (Hit(loc'[t].page, f) - Hit(loc[t].page, f))
                  + (Hit(loc'[t].victim, f) - Hit(loc[t].victim, f))
                  + (Hit(loc'[t].arg, f) - Hit(loc[t].arg, f))
                  + (Hit(bitmap'.at, f) - Hit(bitmap.at, f))
  <2>1. But(dir, dir', a, i) /\ But(FramesIn(pte), FramesIn(pte'), b, j)
    BY DEF But, FramesIn
  <2>2. /\ ButOf(PagesIn(loc), PagesIn(loc'), t) /\ ButOf(VictimsIn(loc), VictimsIn(loc'), t)
        /\ ButOf(ArgsIn(loc), ArgsIn(loc'), t)
    BY DEF ButOf, PagesIn, VictimsIn, ArgsIn
  <2> QED
    BY <2>1, <2>2, Recount
<1> QED
  BY <1>1, <1>2, <1>3

-----------------------------------------------------------------------------
(* What a count of 0 or 1 says *)
Maps(t, v, f) == pte[t][v].in = "mem" /\ pte[t][v].f = f

Shares(f, d, e, p, x, a, b) ==
    /\ \A t \in Task, v \in Page :
          /\ dir[t][v] = f => d >= 1
          /\ Maps(t, v, f) => e >= 1
          /\ \A u \in Task, w \in Page : u # t \/ w # v =>
                /\ dir[t][v] = f /\ dir[u][w] = f => d >= 2
                /\ Maps(t, v, f) /\ Maps(u, w, f) => e >= 2
    /\ \A t \in Task :
          /\ loc[t].page = f => p >= 1
          /\ loc[t].victim = f => x >= 1
          /\ loc[t].arg = f => a >= 1
          /\ \A u \in Task : u # t =>
                /\ loc[t].page = f /\ loc[u].page = f => p >= 2
                /\ loc[t].victim = f /\ loc[u].victim = f => x >= 2
                /\ loc[t].arg = f /\ loc[u].arg = f => a >= 2
    /\ bitmap.at = f => b >= 1

(* mem_map[f] is that sum, and every holder has its share in it. *)
LEMMA Parts ==
    ASSUME Types, Counted, NEW f \in Frame
    PROVE  LET d == Count(dir, f)
               e == Count(FramesIn(pte), f)
               p == Held(PagesIn(loc), f)
               x == Held(VictimsIn(loc), f)
               a == Held(ArgsIn(loc), f)
               b == Hit(bitmap.at, f)
           IN  /\ d \in Nat /\ e \in Nat /\ p \in Nat /\ x \in Nat /\ a \in Nat /\ b \in Nat
               /\ mem_map[f] = d + e + p + x + a + b
               /\ Shares(f, d, e, p, x, a, b)
               /\ e <= Cardinality(Task) * 2
<1> DEFINE d == Count(dir, f)
           e == Count(FramesIn(pte), f)
           p == Held(PagesIn(loc), f)
           x == Held(VictimsIn(loc), f)
           a == Held(ArgsIn(loc), f)
           b == Hit(bitmap.at, f)
<1>1. d \in Nat /\ e \in Nat /\ p \in Nat /\ x \in Nat /\ a \in Nat /\ b \in Nat
  BY CountNat, HeldNat DEF Hit
<1>2. mem_map[f] = d + e + p + x + a + b
  BY References0 DEF Counted, Refs
<1>3. ASSUME NEW t \in Task, NEW v \in Page
      PROVE  /\ dir[t][v] = f => d >= 1
             /\ Maps(t, v, f) => e >= 1
             /\ \A u \in Task, w \in Page : u # t \/ w # v =>
                   /\ dir[t][v] = f /\ dir[u][w] = f => d >= 2
                   /\ Maps(t, v, f) /\ Maps(u, w, f) => e >= 2
  <2> DEFINE g == FramesIn(pte)
  <2>1. \A u \in Task, w \in Page : Maps(u, w, f) => g[u][w] = f
    BY DEF FramesIn, FrameOf, Maps
  <2>2. dir[t][v] = f => d >= 1
    BY CountOne
  <2>3. ASSUME NEW u \in Task, NEW w \in Page, u # t \/ w # v, dir[t][v] = f, dir[u][w] = f PROVE d >= 2
    BY <2>3, CountTwo
  <2> HIDE DEF g
  <2>4. Maps(t, v, f) => Count(g, f) >= 1
    BY <2>1, CountOne
  <2>5. ASSUME NEW u \in Task, NEW w \in Page, u # t \/ w # v, Maps(t, v, f), Maps(u, w, f) PROVE Count(g, f) >= 2
    BY <2>1, <2>5, CountTwo
  <2> QED
    BY <2>2, <2>3, <2>4, <2>5 DEF g
<1>4. ASSUME NEW t \in Task
      PROVE  /\ loc[t].page = f => p >= 1
             /\ loc[t].victim = f => x >= 1
             /\ loc[t].arg = f => a >= 1
             /\ \A u \in Task : u # t =>
                   /\ loc[t].page = f /\ loc[u].page = f => p >= 2
                   /\ loc[t].victim = f /\ loc[u].victim = f => x >= 2
                   /\ loc[t].arg = f /\ loc[u].arg = f => a >= 2
  <2> DEFINE k == PagesIn(loc)
             m == VictimsIn(loc)
             n == ArgsIn(loc)
  <2>1. \A u \in Task : k[u] = loc[u].page /\ m[u] = loc[u].victim /\ n[u] = loc[u].arg
    BY DEF PagesIn, VictimsIn, ArgsIn
  <2> HIDE DEF k, m, n
  <2>2. /\ loc[t].page = f => Held(k, f) >= 1
        /\ loc[t].victim = f => Held(m, f) >= 1
        /\ loc[t].arg = f => Held(n, f) >= 1
    BY <2>1, HeldOne
  <2>3. ASSUME NEW u \in Task, u # t
        PROVE  /\ loc[t].page = f /\ loc[u].page = f => Held(k, f) >= 2
               /\ loc[t].victim = f /\ loc[u].victim = f => Held(m, f) >= 2
               /\ loc[t].arg = f /\ loc[u].arg = f => Held(n, f) >= 2
    BY <2>1, <2>3, HeldTwo
  <2> QED
    BY <2>2, <2>3 DEF k, m, n
<1>5. bitmap.at = f => b >= 1
  BY DEF Hit
<1>6. e <= Cardinality(Task) * 2
  BY CountNat
<1> HIDE DEF d, e, p, x, a, b
<1>7. Shares(f, d, e, p, x, a, b)
  BY <1>3, <1>4, <1>5 DEF Shares
<1> QED
  BY <1>1, <1>2, <1>6, <1>7 DEF d, e, p, x, a, b

(* A frame that counts 0 is held by nobody. *)
LEMMA Unheld ==
    ASSUME Types, Counted, NEW f \in Frame, mem_map[f] = 0
    PROVE  /\ \A t \in Task, v \in Page : dir[t][v] # f /\ ~Maps(t, v, f)
           /\ \A t \in Task : loc[t].page # f /\ loc[t].victim # f /\ loc[t].arg # f
           /\ bitmap.at # f
<1> DEFINE d == Count(dir, f)
           e == Count(FramesIn(pte), f)
           p == Held(PagesIn(loc), f)
           x == Held(VictimsIn(loc), f)
           a == Held(ArgsIn(loc), f)
           b == Hit(bitmap.at, f)
<1>1. /\ d \in Nat /\ e \in Nat /\ p \in Nat /\ x \in Nat /\ a \in Nat /\ b \in Nat
      /\ mem_map[f] = d + e + p + x + a + b
      /\ Shares(f, d, e, p, x, a, b)
  BY Parts
<1> HIDE DEF d, e, p, x, a, b
<1> QED
  BY <1>1 DEF Shares

(* A frame that somebody holds counts at least 1. *)
LEMMA HolderCounts ==
    ASSUME Types, Counted, NEW f \in Frame
    PROVE  /\ \A t \in Task, v \in Page : dir[t][v] = f \/ Maps(t, v, f) => mem_map[f] >= 1
           /\ \A t \in Task : f \in {loc[t].page, loc[t].victim, loc[t].arg} => mem_map[f] >= 1
           /\ bitmap.at = f => mem_map[f] >= 1
<1> DEFINE d == Count(dir, f)
           e == Count(FramesIn(pte), f)
           p == Held(PagesIn(loc), f)
           x == Held(VictimsIn(loc), f)
           a == Held(ArgsIn(loc), f)
           b == Hit(bitmap.at, f)
<1>1. /\ d \in Nat /\ e \in Nat /\ p \in Nat /\ x \in Nat /\ a \in Nat /\ b \in Nat
      /\ mem_map[f] = d + e + p + x + a + b
      /\ Shares(f, d, e, p, x, a, b)
  BY Parts
<1> HIDE DEF d, e, p, x, a, b
<1> QED
  BY <1>1 DEF Shares

(* A frame that counts 1 is held once. *)
LEMMA HeldOnce ==
    ASSUME Types, Counted, NEW f \in Frame, mem_map[f] = 1
    PROVE  /\ \A t, u \in Task, v, w \in Page :
                 /\ Maps(t, v, f) /\ Maps(u, w, f) => t = u /\ v = w
                 /\ dir[t][v] = f /\ dir[u][w] = f => t = u /\ v = w
                 /\ ~(Maps(t, v, f) /\ dir[u][w] = f)
           /\ \A t, u \in Task, v \in Page :
                 Maps(t, v, f) \/ dir[t][v] = f => f \notin {loc[u].page, loc[u].victim, loc[u].arg, bitmap.at}
           /\ \A t, u \in Task :
                 /\ loc[t].page = f => f \notin {loc[u].victim, loc[u].arg, bitmap.at}
                 /\ loc[t].victim = f => f \notin {loc[u].arg, bitmap.at}
                 /\ loc[t].arg = f => f # bitmap.at
                 /\ loc[t].page = f /\ loc[u].page = f => t = u
                 /\ loc[t].victim = f /\ loc[u].victim = f => t = u
                 /\ loc[t].arg = f /\ loc[u].arg = f => t = u
<1> DEFINE d == Count(dir, f)
           e == Count(FramesIn(pte), f)
           p == Held(PagesIn(loc), f)
           x == Held(VictimsIn(loc), f)
           a == Held(ArgsIn(loc), f)
           b == Hit(bitmap.at, f)
<1>1. /\ d \in Nat /\ e \in Nat /\ p \in Nat /\ x \in Nat /\ a \in Nat /\ b \in Nat
      /\ mem_map[f] = d + e + p + x + a + b
      /\ Shares(f, d, e, p, x, a, b)
  BY Parts
<1> HIDE DEF d, e, p, x, a, b
<1>2. d + e + p + x + a + b = 1
  BY <1>1
<1>3. \A t, u \in Task, v, w \in Page :
                 /\ Maps(t, v, f) /\ Maps(u, w, f) => t = u /\ v = w
                 /\ dir[t][v] = f /\ dir[u][w] = f => t = u /\ v = w
                 /\ ~(Maps(t, v, f) /\ dir[u][w] = f)
  BY <1>1, <1>2 DEF Shares
<1>4. \A t, u \in Task, v \in Page :
                 Maps(t, v, f) \/ dir[t][v] = f => f \notin {loc[u].page, loc[u].victim, loc[u].arg, bitmap.at}
  BY <1>1, <1>2 DEF Shares
<1>5. \A t, u \in Task :
                 /\ loc[t].page = f => f \notin {loc[u].victim, loc[u].arg, bitmap.at}
                 /\ loc[t].victim = f => f \notin {loc[u].arg, bitmap.at}
                 /\ loc[t].arg = f => f # bitmap.at
                 /\ loc[t].page = f /\ loc[u].page = f => t = u
                 /\ loc[t].victim = f /\ loc[u].victim = f => t = u
                 /\ loc[t].arg = f /\ loc[u].arg = f => t = u
  BY <1>1, <1>2 DEF Shares
<1> QED
  BY <1>3, <1>4, <1>5

-----------------------------------------------------------------------------
(* A count is at most the number of entries, or 1: a byte is enough. *)
LEMMA CountNone ==
    ASSUME NEW g, NEW f, \A t \in Task, v \in Page : g[t][v] # f PROVE Count(g, f) = 0
<1>1. {x \in Task \X Page : g[x[1]][x[2]] = f} = {}
  OBVIOUS
<1> QED
  BY <1>1, FS_EmptySet DEF Count

(* A frame that no task holds counts 0. *)
LEMMA HeldNone ==
    ASSUME NEW k, NEW f, \A t \in Task : k[t] # f PROVE Held(k, f) = 0
<1>1. {t \in Task : k[t] = f} = {}
  OBVIOUS
<1> QED
  BY <1>1, FS_EmptySet DEF Held

(* NR_TASKS tasks with two pages each: at most 128 references. *)
LEMMA CountsFit ==
    ASSUME Types, Counted, Sole, NEW f \in Frame
    PROVE  mem_map[f] \in 0..128
<1>0. f # 0
  BY DEF Frame
<1>1. CASE \/ \E t \in Task, v \in Page : dir[t][v] = f
           \/ \E t \in Task : f \in {loc[t].page, loc[t].victim, loc[t].arg}
           \/ bitmap.at = f
  <2>1. mem_map[f] = 1
    BY <1>0, <1>1 DEF Sole
  <2> QED
    BY <2>1
<1>2. CASE /\ \A t \in Task, v \in Page : dir[t][v] # f
           /\ \A t \in Task : f \notin {loc[t].page, loc[t].victim, loc[t].arg}
           /\ bitmap.at # f
  <2>1. Count(dir, f) = 0
    BY <1>2, CountNone
  <2>2. Held(PagesIn(loc), f) = 0
    BY <1>2, HeldNone DEF PagesIn
  <2>3. Held(VictimsIn(loc), f) = 0
    BY <1>2, HeldNone DEF VictimsIn
  <2>4. Held(ArgsIn(loc), f) = 0
    BY <1>2, HeldNone DEF ArgsIn
  <2>5. Hit(bitmap.at, f) = 0
    BY <1>2 DEF Hit
  <2>6. /\ Count(FramesIn(pte), f) \in Nat /\ Count(FramesIn(pte), f) <= Cardinality(Task) * 2
        /\ mem_map[f] = Count(dir, f) + Count(FramesIn(pte), f)
               + Held(PagesIn(loc), f) + Held(VictimsIn(loc), f) + Held(ArgsIn(loc), f) + Hit(bitmap.at, f)
    BY Parts
  <2> QED
    BY <2>1, <2>2, <2>3, <2>4, <2>5, <2>6, NrTasks, Finite
<1> QED
  BY <1>1, <1>2

-----------------------------------------------------------------------------
(* Who does not move *)
LEMMA IdleType ==
    /\ Idle \in Locals /\ Idle.v = 1 /\ Idle.acc = "read" /\ Idle.why = "none" /\ Idle.page = 0 /\ Idle.victim = 0
    /\ Idle.arg = 0 /\ Idle.old = None /\ Idle.child = NULL /\ Idle.copied = FALSE
<1>1. 0 \in 0..NFrame /\ None \in Entry
  BY MemAssumption, Entries
<1>2. Idle \in Locals
  BY <1>1 DEF Idle, Locals
<1>3. /\ Idle.v = 1 /\ Idle.acc = "read" /\ Idle.why = "none" /\ Idle.page = 0 /\ Idle.victim = 0
      /\ Idle.arg = 0 /\ Idle.old = None /\ Idle.child = NULL
  BY DEF Idle
<1>4. Idle.copied = FALSE
  BY DEF Idle
<1> QED
  BY <1>2, <1>3, <1>4

Still(t) == \A u \in Task : u # t => pc'[u] = pc[u] /\ loc'[u] = loc[u]

(* A step of one task leaves the others in their places. *)
LEMMA OthersPlaced ==
    ASSUME MemInv, NEW t \in Task, cpu \in {t, NULL}, Still(t)
    PROVE  \A u \in Task : u # t => Place(u)'
<1> SUFFICES ASSUME NEW u \in Task, u # t PROVE Place(u)'
  OBVIOUS
<1>1. Place(u) /\ pc'[u] = pc[u] /\ loc'[u] = loc[u]
  BY DEF MemInv, Still
<1>2. pc[u] \notin InKernel
  BY <1>1, TaskAssumption DEF Place
<1> QED
  BY <1>1, <1>2 DEF Place, Job

(* Of the tables of others only entries of pages in memory change, and not *)
(* one that is a copy not written to yet.                                  *)
Alike(u, w) ==
    /\ pte[u][w].in # "mem" => pte'[u][w] = pte[u][w]
    /\ loc[u].copied /\ loc[u].v = w => pte'[u][w].in = "mem" /\ pte'[u][w].w /\ ~pte'[u][w].d

(* The tables of a task fit its place if both stay as they were. *)
LEMMA TablesStay ==
    ASSUME MemInv, Types', NEW u \in Task, pc'[u] = "dead" => pc[u] = "dead", Job(u)' = Job(u),
           loc'[u].v = loc[u].v, loc'[u].child = loc[u].child, loc'[u].acc = loc[u].acc,
           loc'[u].copied => loc[u].copied,
           \A x \in Task, w \in Page : x \in {u, loc[u].child} => dir'[x][w] = dir[x][w] /\ Alike(x, w)
    PROVE  TablesOf(u)'
<1>1. /\ TablesOf(u) /\ Place(u) /\ Types /\ Pairs
      /\ loc[u].child # NULL => loc[u].child \in Task
  BY DEF MemInv, Pairs, Types, Locals
<1>2. \A x \in Task, w \in Page : pte[x][w] \in Entry /\ pte'[x][w] \in Entry
  BY <1>1 DEF Types
<1>3. \A x \in Task, w \in Page :
          x \in {u, loc[u].child} => /\ pte[x][w] = None => pte'[x][w] = None
                                     /\ pte[x][w].in = "swap" => pte'[x][w].in = "swap"
  BY <1>2, EntryKinds, Entries DEF Alike
<1>4. \A w \in Page : dir[u][w] = 0 => pte[u][w] = None
  BY <1>1 DEF TablesOf
<1>5. dir[u] \in [Page -> 0..NFrame] /\ dir'[u] \in [Page -> 0..NFrame]
  BY <1>1 DEF Types
<1>6. dir'[u] = dir[u]
  BY <1>5
<1>7. loc[u].copied => pte'[u][loc[u].v].in = "mem" /\ pte'[u][loc[u].v].w /\ ~pte'[u][loc[u].v].d
  BY <1>1 DEF Alike, Place
<1> QED
  BY <1>1, <1>3, <1>6, <1>7, <1>2 DEF TablesOf, Place

(* A step of one task leaves the tables of the others fitting. *)
LEMMA OthersTables ==
    ASSUME MemInv, Types', NEW t \in Task, Still(t), pc[t] # "born",
           \A u \in Task, w \in Page : u # t => dir'[u][w] = dir[u][w] /\ Alike(u, w)
    PROVE  \A u \in Task : u # t => TablesOf(u)'
<1> SUFFICES ASSUME NEW u \in Task, u # t PROVE TablesOf(u)'
  OBVIOUS
<1>1. /\ pc'[u] = pc[u] /\ loc'[u] = loc[u] /\ Job(u)' = Job(u)
  BY DEF Still, Job
<1>2. t # loc[u].child
  BY TaskAssumption DEF MemInv, Pairs
<1> QED
  BY <1>1, <1>2, TablesStay

-----------------------------------------------------------------------------
(* A step of a task that neither begins nor ends a fork *)
LEMMA ForksStay ==
    ASSUME MemInv, NEW t \in Task, Still(t), Types', pc[t] # "born", loc'[t].child = loc[t].child,
           Job(t)' = "bitmap" => Job(t) = "bitmap" \/ (bitmap.at = 0 /\ \A u \in Task : Job(u) # "bitmap"),
           bitmap'.at = bitmap.at \/ (Job(t) = "bitmap" /\ Job(t)' # "bitmap")
    PROVE  Pairs'
<1>1. \A u \in Task : u # t => Job(u)' = Job(u)
  BY DEF Still, Job
<1>2. \A u \in Task : loc'[u].child = loc[u].child /\ loc[u].child \in Task \cup {NULL}
  BY DEF MemInv, Still, Types, Locals
<1>3. \A u \in Task : loc[u].child # NULL => loc[u].child \in Task /\ pc'[loc[u].child] = pc[loc[u].child]
  BY <1>2 DEF Still, Pairs, MemInv
<1>4. /\ \A u \in Task : loc'[u].child # NULL => loc'[u].child # u /\ pc'[loc'[u].child] = "born"
      /\ \A x, u \in Task : loc'[x].child # NULL /\ loc'[x].child = loc'[u].child => x = u
  BY <1>2, <1>3 DEF Pairs, MemInv
<1>5. /\ \A u \in Task : Job(u)' = "bitmap" => bitmap'.at = 0
      /\ \A x, u \in Task : Job(x)' = "bitmap" /\ Job(u)' = "bitmap" => x = u
  BY <1>1 DEF Pairs, MemInv
<1> QED
  BY <1>4, <1>5 DEF Pairs

(* What a step of a task begins with *)
LEMMA Standing ==
    ASSUME MemInv, NEW t \in Task
    PROVE  /\ Types /\ Place(t) /\ TablesOf(t) /\ OnTheWay(t)
           /\ pc[t] \in Positions /\ loc[t] \in Locals /\ loc[t].v \in Page
           /\ dir[t] \in [Page -> 0..NFrame] /\ pte[t] \in [Page -> Entry]
           /\ \A v \in Page : dir[t][v] \in 0..NFrame /\ pte[t][v] \in Entry
           /\ \A f \in Frame : mem_map[f] \in Nat
BY DEF MemInv, Types, Place

(* What is held is a frame. *)
LEMMA InFrames ==
    ASSUME Types
    PROVE  /\ \A u \in Task, v \in Page : /\ dir[u][v] # 0 => dir[u][v] \in Frame
                                          /\ pte[u][v].in = "mem" => pte[u][v].f \in Frame
           /\ \A u \in Task : /\ loc[u].page # 0 => loc[u].page \in Frame
                              /\ loc[u].victim # 0 => loc[u].victim \in Frame
                              /\ loc[u].arg # 0 => loc[u].arg \in Frame
           /\ bitmap.at # 0 => bitmap.at \in Frame
           /\ 0 \notin Frame
<1>1. \A u \in Task, v \in Page : /\ dir[u][v] # 0 => dir[u][v] \in Frame
                                  /\ pte[u][v].in = "mem" => pte[u][v].f \in Frame
  BY EntryKinds, MemAssumption DEF Types, Frame
<1>2. \A u \in Task : /\ loc[u].page # 0 => loc[u].page \in Frame
                      /\ loc[u].victim # 0 => loc[u].victim \in Frame
                      /\ loc[u].arg # 0 => loc[u].arg \in Frame
  BY MemAssumption DEF Types, Locals, Frame
<1>3. (bitmap.at # 0 => bitmap.at \in Frame) /\ 0 \notin Frame
  BY MemAssumption DEF Types, Frame
<1> QED
  BY <1>1, <1>2, <1>3

(* No entry of a swapped page changes. *)
LEMMA SwapsStay ==
    ASSUME Swaps, bitmap' = bitmap,
           \A x \in Task, w \in Page : pte'[x][w].in = "swap" <=> pte[x][w].in = "swap",
           \A x \in Task, w \in Page : pte[x][w].in = "swap" => pte'[x][w] = pte[x][w]
    PROVE  Swaps'
<1>1. \A x \in Task, w \in Page, s \in Slot : pte'[x][w] = Swapped(s) <=> pte[x][w] = Swapped(s)
  BY Entries
<1> QED
  BY <1>1 DEF Swaps

(* What such a step has to show: the rest is as it was. *)
LEMMA Step ==
    ASSUME MemInv, NEW t \in Task, cpu \in {t, NULL}, Still(t), Types',
           pc[t] \notin {"dead", "born"}, pc'[t] # "born",
           \A u \in Task, w \in Page : u # t => /\ dir'[u][w] = dir[u][w] /\ Alike(u, w)
                                                /\ Contents(u, w)' = Contents(u, w),
           \A u \in Task : u # t => expect'[u] = expect[u],
           loc'[t].child = loc[t].child,
           loc[t].child = NULL \/ (loc'[t].v = loc[t].v /\ expect'[t] = expect[t]),
           Job(t)' = "bitmap" => Job(t) = "bitmap" \/ (bitmap.at = 0 /\ \A u \in Task : Job(u) # "bitmap"),
           bitmap'.at = bitmap.at \/ (Job(t) = "bitmap" /\ Job(t)' # "bitmap"),
           pc'[t] = "dead" \/ Job(t)' = "argtable" => expect'[t] = [w \in Page |-> FileOf(w)],
           Job(t)' = "argtable" /\ loc'[t].page = 0 => pc'[t] = "get" /\ Free' # {},
           Place(t)', TablesOf(t)', Counted', Sole', Swaps', Clean', \A u \in Task : OnTheWay(u)',
           \A w \in Page : Contents(t, w)' = expect'[t][w]
    PROVE  MemInv'
<1>1. \A u \in Task : Place(u)'
  BY OthersPlaced
<1>2. \A u \in Task : TablesOf(u)'
  BY OthersTables
<1>3. \A u \in Task : u # t => Job(u)' = Job(u)
  BY DEF Still, Job
<1>4. Pairs'
  BY ForksStay
<1>5. Intact'
  <2>1. \A u \in Task, w \in Page : pc'[u] # "born" => Contents(u, w)' = expect'[u][w]
    BY DEF Intact, MemInv, Still
  <2>2. \A u \in Task : pc'[u] \in {"dead", "born"} \/ Job(u)' = "argtable" => expect'[u] = [w \in Page |-> FileOf(w)]
    BY <1>3 DEF Intact, MemInv, Still
  <2>3. ASSUME NEW u \in Task, NEW w \in Page, loc'[u].child # NULL, w < loc'[u].v
        PROVE  Contents(loc[u].child, w)' = expect'[u][w]
    <3>1. loc[u].child # NULL /\ loc'[u].child = loc[u].child /\ loc'[u].v = loc[u].v /\ expect'[u] = expect[u]
      BY <2>3 DEF Still
    <3>2. loc[u].child \in Task /\ Contents(loc[u].child, w) = expect[u][w] /\ loc[u].child # t
      BY <2>3, <3>1 DEF Intact, MemInv, Types, Locals, Pairs
    <3> QED
      BY <3>1, <3>2
  <2>4. \A u \in Task : loc'[u].child = loc[u].child
    BY DEF Still
  <2> QED
    BY <2>1, <2>2, <2>3, <2>4 DEF Intact
<1>6. ArgRoom'
  <2>1. ASSUME NEW u \in Task, u # t, Job(u)' = "argtable", loc'[u].page = 0 PROVE FALSE
    <3>1. Job(u) = "argtable" /\ loc[u].page = 0
      BY <1>3, <2>1 DEF Still
    <3>2. pc[u] = "get" /\ Place(u)
      BY <3>1 DEF ArgRoom, MemInv
    <3> QED
      BY <2>1, <3>2, TaskAssumption DEF Place, InKernel
  <2> QED
    BY <2>1 DEF ArgRoom
<1> QED
  BY <1>1, <1>2, <1>4, <1>5, <1>6 DEF MemInv

(* A step of a task that changes its own tables and the contents of a      *)
(* frame that no other task has                                            *)
Private(t, f) ==
    \A u \in Task : u # t => /\ \A w \in Page : ~Maps(u, w, f)
                             /\ loc[u].page # f /\ loc[u].arg # f

(* Such a step keeps the invariant if what it changes is right. *)
LEMMA OwnStep ==
    ASSUME MemInv, NEW t \in Task, cpu \in {t, NULL}, Still(t), Types',
           pc[t] \notin {"dead", "born"}, pc'[t] # "born",
           NEW f, Private(t, f), \A g \in Frame : g # f => data'[g] = data[g], sdata' = sdata,
           \A u \in Task : u # t => dir'[u] = dir[u] /\ pte'[u] = pte[u] /\ expect'[u] = expect[u],
           loc'[t].child = loc[t].child,
           loc[t].child = NULL \/ (loc'[t].v = loc[t].v /\ expect'[t] = expect[t]),
           Job(t)' = "bitmap" => Job(t) = "bitmap" \/ (bitmap.at = 0 /\ \A u \in Task : Job(u) # "bitmap"),
           bitmap'.at = bitmap.at \/ (Job(t) = "bitmap" /\ Job(t)' # "bitmap"),
           pc'[t] = "dead" \/ Job(t)' = "argtable" => expect'[t] = [w \in Page |-> FileOf(w)],
           Job(t)' = "argtable" /\ loc'[t].page = 0 => pc'[t] = "get" /\ Free' # {},
           Place(t)', TablesOf(t)', Counted', Sole', Swaps', OnTheWay(t)',
           \A w \in Page : pte'[t][w].in = "mem" /\ ~pte'[t][w].d /\ ~(loc'[t].copied /\ loc'[t].v = w)
                             => data'[pte'[t][w].f] = FileOf(w),
           \A w \in Page : Contents(t, w)' = expect'[t][w]
    PROVE  MemInv'
<1>1. \A u \in Task, w \in Page : pte[u][w] \in Entry
  BY DEF MemInv, Types
<1>2. \A u \in Task, w \in Page : u # t /\ pte[u][w].in = "mem" => data'[pte[u][w].f] = data[pte[u][w].f]
  BY <1>1, EntryKinds DEF Private, Maps
<1>3. \A u \in Task, w \in Page : u # t => Contents(u, w)' = Contents(u, w)
  BY <1>2 DEF Contents
<1>4. ASSUME NEW u \in Task, u # t PROVE OnTheWay(u)'
  <2>1. OnTheWay(u) /\ Place(u) /\ loc'[u] = loc[u] /\ pc'[u] = pc[u] /\ pte'[u] = pte[u] /\ loc[u] \in Locals
    BY <1>4, Standing DEF Still
  <2>2. /\ loc[u].page # 0 => loc[u].page \in Frame
        /\ loc[u].arg # 0 => loc[u].arg \in Frame
    BY <2>1, MemAssumption DEF Locals, Frame
  <2>3. /\ loc[u].page # 0 => data'[loc[u].page] = data[loc[u].page]
        /\ loc[u].arg # 0 => data'[loc[u].arg] = data[loc[u].arg]
    BY <1>4, <2>2 DEF Private
  <2> QED
    BY <2>1, <2>3 DEF OnTheWay, Place, Reads
<1>5. Clean'
  <2>1. ASSUME NEW u \in Task, NEW w \in Page, pte'[u][w].in = "mem", ~pte'[u][w].d,
               ~(loc'[u].copied /\ loc'[u].v = w), u # t
        PROVE  data'[pte'[u][w].f] = FileOf(w)
    BY <1>2, <2>1 DEF Clean, MemInv, Still
  <2> QED
    BY <2>1 DEF Clean
<1>6. \A u \in Task, w \in Page : u # t => Alike(u, w)
  BY DEF Alike, MemInv, TablesOf
<1> QED
  BY <1>3, <1>4, <1>5, <1>6, Step


-----------------------------------------------------------------------------
(* Steps that only move a task *)
LEMMA QuietStep ==
    ASSUME MemInv, NEW t \in Task, cpu \in {t, NULL}, Still(t), Types',
           UNCHANGED <<dir, pte, mem_map, data, bitmap, sdata, expect>>,
           pc[t] \notin {"dead", "born"}, pc'[t] \notin {"dead", "born"},
           loc'[t].page = loc[t].page, loc'[t].victim = loc[t].victim, loc'[t].arg = loc[t].arg,
           loc'[t].child = loc[t].child, ~loc[t].copied, ~loc'[t].copied,
           loc[t].child = NULL \/ loc'[t].v = loc[t].v,
           Job(t)' = "bitmap" => Job(t) = "bitmap" \/ (bitmap.at = 0 /\ \A u \in Task : Job(u) # "bitmap"),
           Job(t)' = "argtable" => Job(t) = "argtable" /\ (loc[t].page = 0 => pc'[t] = "get"),
           Place(t)', TablesOf(t)', OnTheWay(t)'
    PROVE  MemInv'
<1>1. \A u \in Task : Place(u)'
  BY OthersPlaced
<1>2. Types /\ \A u \in Task, w \in Page : Alike(u, w)
  BY DEF Alike, MemInv, TablesOf
<1>3. \A u \in Task : TablesOf(u)'
  BY <1>2, OthersTables
<1>4. \A u \in Task : u # t => Job(u)' = Job(u)
  BY DEF Still, Job
<1>5. Pairs'
  <2>1. \A u \in Task : loc'[u].child = loc[u].child /\ loc[u].child \in Task \cup {NULL}
    BY <1>2 DEF Still, Types, Locals
  <2>2. \A u \in Task : loc[u].child # NULL => loc[u].child \in Task /\ pc'[loc[u].child] = pc[loc[u].child]
    BY <2>1 DEF Still, Pairs, MemInv
  <2>3. /\ \A u \in Task : loc'[u].child # NULL => loc'[u].child # u /\ pc'[loc'[u].child] = "born"
        /\ \A x, u \in Task : loc'[x].child # NULL /\ loc'[x].child = loc'[u].child => x = u
    BY <2>1, <2>2 DEF Pairs, MemInv
  <2>4. /\ \A u \in Task : Job(u)' = "bitmap" => bitmap'.at = 0
        /\ \A x, u \in Task : Job(x)' = "bitmap" /\ Job(u)' = "bitmap" => x = u
    BY <1>4 DEF Pairs, MemInv
  <2> QED
    BY <2>3, <2>4 DEF Pairs
<1>6. Counted'
  <2>1. \A u \in Task, w \in Page : FrameOf(pte'[u][w]) = FrameOf(pte[u][w]) /\ dir'[u][w] = dir[u][w]
    OBVIOUS
  <2>2. \A f \in Frame : mem_map'[f] = mem_map[f] /\ mem_map[f] \in Nat
    BY <1>2 DEF Types
  <2>3. \A u \in Task : /\ loc'[u].page = loc[u].page /\ loc'[u].victim = loc[u].victim /\ loc'[u].arg = loc[u].arg
    BY DEF Still
  <2>4. 1 \in Page
    BY DEF Page
  <2>5. \A x, f : Hit(x, f) - Hit(x, f) = 0
    BY DEF Hit
  <2> QED
    BY <1>2, <2>1, <2>2, <2>3, <2>4, <2>5, StillCounted DEF MemInv
<1>7. Sole'
  BY DEF Sole, MemInv, Still
<1>8. Swaps'
  BY DEF Swaps, MemInv
<1>9. Clean'
  BY DEF Clean, MemInv, Still
<1>10. \A u \in Task : OnTheWay(u)'
  <2>1. ASSUME NEW u \in Task, u # t PROVE OnTheWay(u)'
    <3>1. OnTheWay(u) /\ pc'[u] = pc[u] /\ loc'[u] = loc[u]
      BY <2>1 DEF MemInv, Still
    <3>2. data' = data /\ sdata' = sdata /\ pte' = pte
      OBVIOUS
    <3> QED
      BY ONLY <3>1, <3>2 DEF OnTheWay
  <2> QED
    BY <2>1
<1>11. Intact'
  <2>1. \A u \in Task, w \in Page : Contents(u, w)' = Contents(u, w)
    BY DEF Contents
  <2>2. \A u \in Task, w \in Page : pc'[u] # "born" => Contents(u, w)' = expect'[u][w]
    BY <2>1 DEF Intact, MemInv, Still
  <2>3. \A u \in Task : pc'[u] \in {"dead", "born"} \/ Job(u)' = "argtable" => expect'[u] = [w \in Page |-> FileOf(w)]
    BY <1>4 DEF Intact, MemInv, Still
  <2>4. ASSUME NEW u \in Task, NEW w \in Page, loc'[u].child # NULL, w < loc'[u].v
        PROVE  Contents(loc[u].child, w)' = expect'[u][w]
    <3>1. loc[u].child # NULL /\ loc'[u].child = loc[u].child /\ loc'[u].v = loc[u].v
      BY <2>4 DEF Still
    <3>2. loc[u].child \in Task /\ Contents(loc[u].child, w) = expect[u][w]
      BY <1>2, <2>4, <3>1 DEF Intact, MemInv, Types, Locals
    <3> QED
      BY <2>1, <3>1, <3>2
  <2> QED
    BY <2>2, <2>3, <2>4 DEF Intact
<1>12. ArgRoom'
  BY <1>4 DEF ArgRoom, MemInv, Still, Free
<1> QED
  BY <1>1, <1>3, <1>5, <1>6, <1>7, <1>8, <1>9, <1>10, <1>11, <1>12 DEF MemInv

(* get_free_page returns 0: the caller is not put_dirty_page. *)
LEMMA NoMemoryInv ==
    ASSUME MemInv, NEW t \in Task, NoMemory(t)
    PROVE  MemInv'
<1>1. Types /\ Place(t) /\ TablesOf(t) /\ loc[t].why \in Callers /\ pc[t] = "get"
  BY Standing DEF NoMemory, Place
<1>2. Types' /\ Still(t) /\ pc'[t] = loc[t].why /\ loc' = loc
  BY <1>1 DEF NoMemory, Goto, Types, Still, Positions, InKernel
<1>3. Job(t) = loc[t].why /\ Job(t)' = loc[t].why /\ cpu' = t
  BY <1>1, <1>2 DEF Job, Callers, NoMemory, Goto
<1>4. Place(t)' /\ TablesOf(t)'
  BY <1>1, <1>2, <1>3 DEF Place, TablesOf, NoMemory, Callers, InKernel, Reads, Rests
<1>5. OnTheWay(t)'
  BY <1>1, <1>2, Standing DEF NoMemory, OnTheWay, Place, Callers, Reads, InKernel, Rests
<1>6. loc[t].why # "argtable"
  BY <1>1, <1>3 DEF MemInv, ArgRoom, NoMemory, Place, Callers, Reads, InKernel, Rests
<1> QED
  BY <1>1, <1>2, <1>3, <1>4, <1>5, <1>6, QuietStep DEF NoMemory, Callers, Place

Accs == {"read", "write", "kwrite"}

(* The locals of a page fault have their types. *)
LEMMA LocalsOfType ==
    ASSUME NEW t \in Task, NEW v \in Page, NEW a \in Accs, loc[t] \in Locals
    PROVE  LET l == LocalsOf(t, v, a) IN
           /\ l \in Locals /\ l.v = v /\ l.acc = a /\ l.why = "none" /\ l.page = 0 /\ l.victim = 0
           /\ l.arg = 0 /\ l.old = None /\ l.child = NULL /\ (l.copied <=> loc[t].copied)
<1>1. 0 \in 0..NFrame /\ None \in Entry /\ v \in 1..3
  BY MemAssumption, Entries DEF Page
<1> QED
  BY <1>1 DEF LocalsOf, Idle, Locals, Accs

Same(l, m) ==
    /\ m.v = l.v /\ m.acc = l.acc /\ m.page = l.page /\ m.victim = l.victim /\ m.arg = l.arg
    /\ m.old = l.old /\ m.child = l.child /\ (m.copied <=> l.copied)

(* A task calls get_free_page. *)
LEMMA NeedFacts ==
    ASSUME NEW t \in Task, NEW why \in Callers, NEW STATE l, l \in Locals, Types, Need(t, why, l)
    PROVE  /\ cpu' = t /\ pc' = [pc EXCEPT ![t] = "get"] /\ loc' \in [Task -> Locals] /\ Still(t)
           /\ pc'[t] = "get" /\ pc' \in [Task -> Positions]
           /\ loc'[t].why = why /\ Same(l, loc'[t])
           /\ Job(t)' = why
<1>1. [l EXCEPT !.why = why] \in Locals /\ [l EXCEPT !.why = why].why = why /\ Same(l, [l EXCEPT !.why = why])
  BY DEF Locals, Same
<1>2. loc' = [loc EXCEPT ![t] = [l EXCEPT !.why = why]] /\ cpu' = t /\ pc' = [pc EXCEPT ![t] = "get"]
  BY DEF Need, Goto
<1>3. loc'[t] = [l EXCEPT !.why = why] /\ loc' \in [Task -> Locals] /\ pc'[t] = "get" /\ pc' \in [Task -> Positions]
  BY <1>1, <1>2 DEF Types, Positions, InKernel
<1> QED
  BY <1>1, <1>2, <1>3 DEF Still, Job, Types

(* A task that uses a page holds no frame. *)
LEMMA UsingFacts ==
    ASSUME MemInv, NEW t \in Task, NEW v \in Page, NEW a \in Accs, Using(t, v, a)
    PROVE  /\ cpu = NULL /\ pc[t] \in {"user", "try"} /\ Job(t) = pc[t]
           /\ loc[t].page = 0 /\ loc[t].victim = 0 /\ loc[t].arg = 0 /\ loc[t].child = NULL
           /\ loc[t].copied => loc[t].v = v /\ loc[t].acc = a
BY Standing, IdleType DEF Using, Resume, Place, Job, Callers, Reads, Rests, InKernel

(* do_no_page finds out what it needs. *)
LEMMA DoNoPageInv ==
    ASSUME MemInv, NEW t \in Task, NEW v \in Page, NEW a \in Accs, DoNoPage(t, v, a)
    PROVE  MemInv'
<1> DEFINE l == LocalsOf(t, v, a)
<1>1. /\ Types /\ Place(t) /\ TablesOf(t) /\ loc[t] \in Locals /\ ~Present(t, v)
      /\ UNCHANGED <<dir, pte, mem_map, data, bitmap, sdata, expect, halted>>
  BY Standing DEF DoNoPage
<1>2. /\ cpu = NULL /\ pc[t] \in {"user", "try"} /\ Job(t) = pc[t]
      /\ loc[t].page = 0 /\ loc[t].victim = 0 /\ loc[t].arg = 0 /\ loc[t].child = NULL /\ ~loc[t].copied
  BY <1>1, UsingFacts DEF DoNoPage, TablesOf, Present
<1>3. /\ l \in Locals /\ l.v = v /\ l.acc = a /\ l.why = "none" /\ l.page = 0 /\ l.victim = 0
      /\ l.arg = 0 /\ l.old = None /\ l.child = NULL /\ ~l.copied
  BY <1>1, <1>2, LocalsOfType
<1>4. pte[t][v] \in Entry /\ (pte[t][v].in = "none" => pte[t][v] = None) /\ pte[t][v].in \in {"none", "mem", "swap"}
  BY <1>1, EntryKinds DEF Types
<1>5. CASE dir[t][v] # 0 /\ pte[t][v].in # "swap" /\ v = 1
  <2>1. cpu' = t /\ pc' = [pc EXCEPT ![t] = "share"] /\ loc' = [loc EXCEPT ![t] = l]
    BY <1>5 DEF DoNoPage, Goto
  <2> HIDE DEF l
  <2>2. Types' /\ Still(t) /\ loc'[t] = l /\ pc'[t] = "share" /\ Job(t)' = "share"
    BY <1>1, <1>3, <2>1 DEF Types, Still, Positions, InKernel, Job
  <2>3. Place(t)'
    BY <1>3, <2>1, <2>2 DEF Place, Callers, Reads, Rests, InKernel
  <2>4. TablesOf(t)'
    BY <1>1, <1>3, <1>4, <1>5, <2>1, <2>2 DEF TablesOf, Present
  <2>5. OnTheWay(t)'
    BY <1>3, <2>2 DEF OnTheWay
  <2> QED
    BY <1>1, <1>2, <1>3, <2>1, <2>2, <2>3, <2>4, <2>5, QuietStep
<1>6. ASSUME NEW w \in {"table", "swapin", "anon"}, Need(t, w, l),
             w = "table" => dir[t][v] = 0,
             w = "swapin" => dir[t][v] # 0 /\ pte[t][v].in = "swap",
             w = "anon" => v = 2 /\ dir[t][v] # 0 /\ pte[t][v] = None
      PROVE  MemInv'
  <2> HIDE DEF l
  <2>1. /\ cpu' = t /\ pc' = [pc EXCEPT ![t] = "get"] /\ loc' \in [Task -> Locals] /\ Still(t)
        /\ pc'[t] = "get" /\ pc' \in [Task -> Positions] /\ loc'[t].why = w /\ Same(l, loc'[t])
        /\ Job(t)' = w
    BY <1>1, <1>3, <1>6, NeedFacts DEF Callers
  <2>2. Types'
    BY <1>1, <2>1 DEF Types
  <2>3. Place(t)'
    BY <1>3, <2>1 DEF Place, Callers, Reads, Rests, InKernel, Same
  <2>4. TablesOf(t)'
    BY <1>1, <1>3, <1>6, <2>1 DEF TablesOf, Same
  <2>5. OnTheWay(t)'
    BY <1>3, <2>1 DEF OnTheWay, Same
  <2> QED
    BY <1>1, <1>2, <1>3, <2>1, <2>2, <2>3, <2>4, <2>5, QuietStep DEF Same
<1>7. \/ dir[t][v] = 0 /\ Need(t, "table", l)
      \/ dir[t][v] # 0 /\ pte[t][v].in = "swap" /\ Need(t, "swapin", l)
      \/ dir[t][v] # 0 /\ pte[t][v].in # "swap" /\ v = 1
      \/ dir[t][v] # 0 /\ pte[t][v].in # "swap" /\ v # 1 /\ Need(t, "anon", l)
  BY DEF DoNoPage
<1> HIDE DEF l
<1> QED
  BY <1>1, <1>4, <1>5, <1>6, <1>7 DEF Present, Page

(* share_page finds no page to share. *)
LEMMA NotSharedInv ==
    ASSUME MemInv, NEW t \in Task, NotShared(t)
    PROVE  MemInv'
<1>1. /\ Types /\ Place(t) /\ TablesOf(t) /\ loc[t] \in Locals /\ pc[t] = "share" /\ cpu = t
      /\ UNCHANGED <<dir, pte, mem_map, data, bitmap, sdata, expect, halted>>
  BY Standing DEF NotShared
<1>2. /\ cpu' = t /\ pc' = [pc EXCEPT ![t] = "get"] /\ loc' \in [Task -> Locals] /\ Still(t)
      /\ pc'[t] = "get" /\ pc' \in [Task -> Positions] /\ loc'[t].why = "image" /\ Same(loc[t], loc'[t])
      /\ Job(t)' = "image"
  BY <1>1, NeedFacts DEF NotShared, Callers
<1>3. Types'
  BY <1>1, <1>2 DEF Types
<1>4. /\ loc[t].page = 0 /\ loc[t].victim = 0 /\ loc[t].arg = 0 /\ loc[t].child = NULL /\ ~loc[t].copied
      /\ Job(t) = "share"
  BY <1>1 DEF Place, Job, Callers, Reads, Rests, InKernel
<1>5. Place(t)'
  BY <1>1, <1>2, <1>4 DEF Place, Callers, Reads, Rests, InKernel, Same
<1>6. TablesOf(t)' /\ OnTheWay(t)'
  BY <1>1, <1>2, <1>4 DEF TablesOf, OnTheWay, Same
<1> QED
  BY <1>1, <1>2, <1>3, <1>4, <1>5, <1>6, QuietStep DEF Same

(* A task that makes a system call holds nothing and has its code. *)
LEMMA CallsFacts ==
    ASSUME MemInv, NEW t \in Task, Calls(t)
    PROVE  /\ cpu = NULL /\ pc[t] = "user" /\ Job(t) = "user" /\ loc[t] = Idle /\ dir[t][1] # 0 /\ pte[t][1].in = "mem"
<1>1. 1 \in Page
  BY DEF Page
<1> QED
  BY <1>1, Standing, Entries DEF Calls, Resume, Place, Job, Rests, Present, TablesOf

(* execve begins. *)
LEMMA ExecveInv ==
    ASSUME MemInv, NEW t \in Task, Execve(t)
    PROVE  MemInv'
<1>1. /\ Types /\ Place(t) /\ TablesOf(t)
      /\ UNCHANGED <<dir, pte, mem_map, data, bitmap, sdata, expect, halted>>
  BY Standing DEF Execve
<1>2. cpu = NULL /\ pc[t] = "user" /\ Job(t) = "user" /\ loc[t] = Idle /\ dir[t][1] # 0
  BY CallsFacts DEF Execve
<1>3. /\ cpu' = t /\ pc' = [pc EXCEPT ![t] = "get"] /\ loc' \in [Task -> Locals] /\ Still(t)
      /\ pc'[t] = "get" /\ pc' \in [Task -> Positions] /\ loc'[t].why = "copystrings" /\ Same(Idle, loc'[t])
      /\ Job(t)' = "copystrings"
  BY <1>1, NeedFacts, IdleType DEF Execve, Callers
<1>4. Types'
  BY <1>1, <1>3 DEF Types
<1>5. Place(t)'
  BY <1>3, IdleType DEF Place, Callers, Reads, Rests, InKernel, Same, Page
<1>6. TablesOf(t)' /\ OnTheWay(t)'
  BY <1>1, <1>2, <1>3, IdleType DEF TablesOf, OnTheWay, Same
<1> QED
  BY <1>1, <1>2, <1>3, <1>4, <1>5, <1>6, QuietStep, IdleType DEF Same

(* swapon begins: nobody else is at it. *)
LEMMA SwapOnInv ==
    ASSUME MemInv, NEW t \in Task, SwapOn(t)
    PROVE  MemInv'
<1>1. /\ Types /\ Place(t) /\ TablesOf(t) /\ bitmap.at = 0
      /\ UNCHANGED <<dir, pte, mem_map, data, bitmap, sdata, expect, halted>>
  BY Standing DEF SwapOn
<1>2. cpu = NULL /\ pc[t] = "user" /\ Job(t) = "user" /\ loc[t] = Idle /\ dir[t][1] # 0
  BY CallsFacts DEF SwapOn
<1>3. /\ cpu' = t /\ pc' = [pc EXCEPT ![t] = "get"] /\ loc' \in [Task -> Locals] /\ Still(t)
      /\ pc'[t] = "get" /\ pc' \in [Task -> Positions] /\ loc'[t].why = "bitmap" /\ Same(Idle, loc'[t])
      /\ Job(t)' = "bitmap"
  BY <1>1, NeedFacts, IdleType DEF SwapOn, Callers
<1>4. Types'
  BY <1>1, <1>3 DEF Types
<1>5. Place(t)'
  BY <1>3, IdleType DEF Place, Callers, Reads, Rests, InKernel, Same, Page
<1>6. TablesOf(t)' /\ OnTheWay(t)'
  BY <1>1, <1>2, <1>3, IdleType DEF TablesOf, OnTheWay, Same
<1>7. \A u \in Task : Job(u) # "bitmap"
  BY DEF SwapOn, Job, MemInv, Place, Callers
<1> QED
  BY <1>1, <1>2, <1>3, <1>4, <1>5, <1>6, <1>7, QuietStep, IdleType DEF Same

(* The task goes to user mode with nothing in its hands. *)
LEMMA ExecFailInv ==
    ASSUME MemInv, NEW t \in Task, ExecFail(t)
    PROVE  MemInv'
<1>1. /\ Types /\ Place(t) /\ TablesOf(t) /\ pc[t] = "copystrings" /\ cpu = t /\ loc[t].page = 0
      /\ UNCHANGED <<dir, pte, mem_map, data, bitmap, sdata, expect, halted>>
  BY Standing DEF ExecFail
<1>2. /\ Job(t) = "copystrings" /\ loc[t].victim = 0 /\ loc[t].arg = 0 /\ loc[t].child = NULL /\ ~loc[t].copied
  BY <1>1 DEF Place, Job
<1>3. cpu' = NULL /\ pc' = [pc EXCEPT ![t] = "user"] /\ loc' = [loc EXCEPT ![t] = Idle]
  BY DEF ExecFail, Sleep
<1>4. Types' /\ Still(t) /\ loc'[t] = Idle /\ pc'[t] = "user" /\ Job(t)' = "user"
  BY <1>1, <1>3, IdleType DEF Types, Still, Positions, Rests, Job
<1>5. Place(t)'
  BY <1>4, IdleType DEF Place, Callers, Reads, Rests, InKernel, Page
<1>6. TablesOf(t)' /\ OnTheWay(t)'
  BY <1>1, <1>4, IdleType DEF TablesOf, OnTheWay
<1> QED
  BY <1>1, <1>2, <1>3, <1>4, <1>5, <1>6, QuietStep, IdleType

-----------------------------------------------------------------------------
(* The last free frame, the first free page of the swap device *)
LEMMA LeastNat ==
    ASSUME NEW T, T \subseteq Nat, T # {} PROVE \E x \in T : \A y \in T : x <= y
<1> DEFINE R == OpToRel(<, Nat)
<1>1. IsWellFoundedOn(R, Nat)
  BY NatLessThanWellFounded, Zenon
<1>2. PICK x \in T : \A y \in T : ~(<<y, x>> \in R)
  <2> HIDE DEF R
  <2> QED
    BY <1>1, WFMin
<1>3. \A y \in T : ~(y < x)
  BY <1>2 DEF OpToRel
<1> QED
  BY <1>3

(* The least of a set of numbers is in it ... *)
LEMMA MinIn ==
    ASSUME NEW T, T \subseteq Nat, T # {} PROVE Min(T) \in T /\ \A y \in T : Min(T) <= y
<1>1. \E x \in T : \A y \in T : x <= y
  BY LeastNat
<1> QED
  BY <1>1 DEF Min

(* ... and the greatest of a set of frames. *)
LEMMA MaxIn ==
    ASSUME NEW T, T \subseteq Frame, T # {} PROVE Max(T) \in T
<1> DEFINE D == {NFrame - x : x \in T}
<1>1. \A x \in T : x \in Int /\ NFrame - x \in Nat
  BY MemAssumption DEF Frame
<1>2. D \subseteq Nat /\ D # {}
  BY <1>1
<1>3. PICK d \in D : \A e \in D : d <= e
  <2> HIDE DEF D
  <2> QED
    BY <1>2, LeastNat
<1>4. PICK x \in T : d = NFrame - x
  OBVIOUS
<1>5. \A y \in T : x >= y
  <2> SUFFICES ASSUME NEW y \in T PROVE x >= y
    OBVIOUS
  <2>1. NFrame - y \in D
    OBVIOUS
  <2>2. NFrame - x <= NFrame - y
    BY <1>3, <1>4, <2>1
  <2> QED
    BY <1>1, <2>2, MemAssumption
<1>6. \E z \in T : \A y \in T : z >= y
  BY <1>5
<1> QED
  BY <1>6 DEF Max

-----------------------------------------------------------------------------
(* get_free_page and swap_out *)
LEMMA GetFreePageInv ==
    ASSUME MemInv, NEW t \in Task, GetFreePage(t)
    PROVE  MemInv'
<1> DEFINE f == Max(Free)
<1>0. f \in Frame /\ mem_map[f] = 0 /\ f # 0
  <2>1. Free \subseteq Frame /\ Free # {}
    BY DEF GetFreePage, Free
  <2>2. f \in Free
    BY <2>1, MaxIn
  <2> QED
    BY <2>2 DEF Free, Frame
<1>1. /\ Types /\ Place(t) /\ TablesOf(t) /\ loc[t] \in Locals /\ pc[t] = "get" /\ cpu = t
      /\ UNCHANGED <<dir, pte, bitmap, sdata, expect, halted>>
      /\ mem_map' = [mem_map EXCEPT ![f] = 1] /\ data' = [data EXCEPT ![f] = <<"zero">>]
      /\ loc' = [loc EXCEPT ![t].page = f] /\ pc' = [pc EXCEPT ![t] = loc[t].why] /\ cpu' = t
  BY Standing DEF GetFreePage, Goto
<1> HIDE DEF f
<1>2. loc[t].why \in Callers /\ loc[t].page = 0 /\ loc[t].victim = 0 /\ ~loc[t].copied
  BY <1>1 DEF Place, Callers, Reads, Rests, InKernel
<1>3. [loc[t] EXCEPT !.page = f] \in Locals
  BY <1>0, <1>1 DEF Locals, Frame
<1>4. /\ loc' \in [Task -> Locals] /\ loc'[t] = [loc[t] EXCEPT !.page = f] /\ pc'[t] = loc[t].why
      /\ pc' \in [Task -> Positions] /\ Still(t)
  BY <1>1, <1>2, <1>3 DEF Types, Still, Positions, InKernel
<1>5. /\ loc'[t].page = f /\ loc'[t].why = loc[t].why /\ loc'[t].v = loc[t].v /\ loc'[t].acc = loc[t].acc
      /\ loc'[t].victim = loc[t].victim /\ loc'[t].arg = loc[t].arg /\ loc'[t].old = loc[t].old
      /\ loc'[t].child = loc[t].child /\ loc'[t].copied = loc[t].copied
  BY <1>1, <1>4 DEF Locals
<1>6. Types'
  <2>1. <<"zero">> \in Value
    BY DEF Value
  <2> QED
    BY <1>0, <1>1, <1>4, <2>1 DEF Types
<1>7. Job(t) = loc[t].why /\ Job(t)' = loc[t].why
  BY <1>1, <1>2, <1>4, <1>5 DEF Job, Callers
<1>8. Place(t)'
  BY <1>0, <1>1, <1>2, <1>4, <1>5, <1>7 DEF Place, Callers, Reads, Rests, InKernel
<1>9. TablesOf(t)'
  BY <1>1, <1>2, <1>4, <1>5, <1>7 DEF TablesOf, Callers
<1>10. /\ \A u \in Task, v \in Page : dir[u][v] # f /\ ~Maps(u, v, f)
       /\ \A u \in Task : loc[u].page # f /\ loc[u].victim # f /\ loc[u].arg # f
       /\ bitmap.at # f
  BY <1>0, <1>1, Unheld DEF MemInv
<1>11. mem_map'[f] = 1 /\ (\A g \in Frame : g # f => mem_map'[g] = mem_map[g])
  BY <1>0, <1>1 DEF Types
<1>12. Counted'
  <2>1. \A u \in Task, w \in Page : FrameOf(pte'[u][w]) = FrameOf(pte[u][w]) /\ dir'[u][w] = dir[u][w]
    BY <1>1
  <2>2. \A u \in Task : u # t => /\ loc'[u].page = loc[u].page /\ loc'[u].victim = loc[u].victim /\ loc'[u].arg = loc[u].arg
    BY <1>4 DEF Still
  <2>3. \A x, g : Hit(x, g) - Hit(x, g) = 0
    BY DEF Hit
  <2>4. \A g \in Frame : mem_map'[g] = mem_map[g] + (Hit(loc'[t].page, g) - Hit(loc[t].page, g))
    BY <1>0, <1>1, <1>2, <1>5, <1>11 DEF Hit, Frame, Types
  <2>5. 1 \in Page
    BY DEF Page
  <2>6. \A g \in Frame : mem_map[g] \in Nat /\ Hit(loc'[t].page, g) \in Nat /\ Hit(loc[t].page, g) \in Nat
    BY <1>1 DEF Types, Hit
  <2>7. \A g \in Frame : mem_map'[g] = mem_map[g]
                  + (Hit(dir'[t][1], g) - Hit(dir[t][1], g))
                  + (Hit(FrameOf(pte'[t][1]), g) - Hit(FrameOf(pte[t][1]), g))
                  + (Hit(loc'[t].page, g) - Hit(loc[t].page, g))
                  + (Hit(loc'[t].victim, g) - Hit(loc[t].victim, g))
                  + (Hit(loc'[t].arg, g) - Hit(loc[t].arg, g))
                  + (Hit(bitmap'.at, g) - Hit(bitmap.at, g))
    BY <1>1, <1>5, <2>3, <2>4, <2>6
  <2> QED
    BY <1>1, <1>6, <2>1, <2>2, <2>5, <2>7, StillCounted DEF MemInv
<1>13. Sole'
  BY <1>1, <1>4, <1>5, <1>10, <1>11, InFrames DEF Sole, MemInv, Still, Maps
<1>14. Swaps'
  BY <1>1 DEF Swaps, MemInv
<1>15. \A g \in Frame : g # f => data'[g] = data[g]
  BY <1>1 DEF Types
<1>16. data'[f] = <<"zero">>
  BY <1>0, <1>1 DEF Types
<1>17. OnTheWay(t)'
  <2>1. OnTheWay(t) /\ (loc[t].arg # 0 => loc[t].arg \in Frame)
    BY <1>1, Standing, MemAssumption DEF Locals, Frame
  <2> QED
    BY <1>2, <1>4, <1>5, <1>10, <1>15, <1>16, <2>1 DEF OnTheWay, Callers
<1>18. \A w \in Page : pte[t][w].in = "mem" => pte[t][w].f \in Frame /\ pte[t][w].f # f
  BY <1>10, EntryKinds, Standing DEF Maps
<1>19. \A w \in Page : Contents(t, w)' = expect'[t][w]
  BY <1>1, <1>15, <1>18 DEF Contents, MemInv, Intact
<1>20. \A w \in Page : pte'[t][w].in = "mem" /\ ~pte'[t][w].d /\ ~(loc'[t].copied /\ loc'[t].v = w)
                             => data'[pte'[t][w].f] = FileOf(w)
  BY <1>1, <1>5, <1>15, <1>18 DEF MemInv, Clean
<1>21. Private(t, f)
  BY <1>10 DEF Private
<1>22. Job(t)' = "argtable" => expect'[t] = [w \in Page |-> FileOf(w)]
  BY <1>1, <1>7 DEF MemInv, Intact
<1>23. pc[t] \notin {"dead", "born"} /\ pc'[t] \notin {"dead", "born"}
  BY <1>1, <1>2, <1>4 DEF Callers
<1> QED
  BY <1>0, <1>1, <1>4, <1>5, <1>6, <1>7, <1>8, <1>9, <1>12, <1>13, <1>14, <1>15, <1>17, <1>19, <1>20, <1>21,
     <1>22, <1>23, OwnStep

(* The task goes on, or sleeps, with its locals changed. *)
LEMMA Moves ==
    ASSUME Types, NEW t \in Task, NEW STATE p, p \in Positions, NEW STATE l, l \in Locals,
           pc' = [pc EXCEPT ![t] = p], loc' = [loc EXCEPT ![t] = l]
    PROVE  /\ pc'[t] = p /\ loc'[t] = l /\ Still(t) /\ pc' \in [Task -> Positions] /\ loc' \in [Task -> Locals]
BY DEF Types, Still

(* A task gives up or takes a frame in its locals; the tables are as they  *)
(* were.                                                                   *)
LEMMA LocalsCounted ==
    ASSUME Types, Types', Counted, NEW t \in Task, Still(t), bitmap'.at = bitmap.at,
           \A u \in Task, w \in Page : FrameOf(pte'[u][w]) = FrameOf(pte[u][w]) /\ dir'[u][w] = dir[u][w],
           \A g \in Frame : mem_map'[g] = mem_map[g]
                  + (Hit(loc'[t].page, g) - Hit(loc[t].page, g))
                  + (Hit(loc'[t].victim, g) - Hit(loc[t].victim, g))
                  + (Hit(loc'[t].arg, g) - Hit(loc[t].arg, g))
    PROVE  Counted'
<1>1. 1 \in Page
  BY DEF Page
<1>2. \A x, g : Hit(x, g) - Hit(x, g) = 0 /\ Hit(x, g) \in Nat
  BY DEF Hit
<1>3. \A u \in Task : u # t => /\ loc'[u].page = loc[u].page /\ loc'[u].victim = loc[u].victim
                               /\ loc'[u].arg = loc[u].arg
  BY DEF Still
<1>4. \A g \in Frame : mem_map'[g] = mem_map[g]
                  + (Hit(dir'[t][1], g) - Hit(dir[t][1], g))
                  + (Hit(FrameOf(pte'[t][1]), g) - Hit(FrameOf(pte[t][1]), g))
                  + (Hit(loc'[t].page, g) - Hit(loc[t].page, g))
                  + (Hit(loc'[t].victim, g) - Hit(loc[t].victim, g))
                  + (Hit(loc'[t].arg, g) - Hit(loc[t].arg, g))
                  + (Hit(bitmap'.at, g) - Hit(bitmap.at, g))
  BY <1>1, <1>2 DEF Types
<1> QED
  BY <1>1, <1>3, <1>4, StillCounted

(* The write has ended: the frame swapped out is given up. *)
LEMMA SwapWrittenInv ==
    ASSUME MemInv, NEW t \in Task, SwapWritten(t)
    PROVE  MemInv'
<1> DEFINE f == loc[t].victim
           l == [loc[t] EXCEPT !.victim = 0]
<1>1. /\ Types /\ Place(t) /\ TablesOf(t) /\ OnTheWay(t) /\ loc[t] \in Locals /\ pc[t] = "swapwrite" /\ cpu = NULL
      /\ UNCHANGED <<dir, pte, data, bitmap, sdata, expect, halted>>
      /\ mem_map' = free_page(mem_map, f) /\ loc' = [loc EXCEPT ![t] = l]
      /\ pc' = [pc EXCEPT ![t] = "get"] /\ cpu' = t
  BY Standing DEF SwapWritten, Resume, Goto
<1>2. l \in Locals /\ l.victim = 0 /\ l.page = loc[t].page /\ l.why = loc[t].why /\ l.v = loc[t].v /\ l.acc = loc[t].acc
      /\ l.arg = loc[t].arg /\ l.old = loc[t].old /\ l.child = loc[t].child /\ (l.copied <=> loc[t].copied)
  BY <1>1, MemAssumption DEF Locals
<1> HIDE DEF l
<1>3. /\ f \in Frame /\ f # 0 /\ loc[t].page = 0 /\ ~loc[t].copied /\ loc[t].why \in Callers /\ mem_map[f] = 1
  BY <1>1, InFrames DEF Place, Callers, Reads, MemInv, Sole
<1>4. /\ pc'[t] = "get" /\ loc'[t] = l /\ Still(t) /\ pc' \in [Task -> Positions] /\ loc' \in [Task -> Locals]
  BY <1>1, <1>2, Moves DEF Positions, InKernel
<1>5. mem_map'[f] = 0 /\ (\A g \in Frame : g # f => mem_map'[g] = mem_map[g]) /\ mem_map' \in [Frame -> Nat]
  BY <1>1, <1>3 DEF free_page, Types
<1>6. Types'
  BY <1>1, <1>4, <1>5 DEF Types
<1>7. Job(t) = loc[t].why /\ Job(t)' = loc[t].why
  BY <1>1, <1>2, <1>4 DEF Job
<1>8. Place(t)'
  BY <1>1, <1>2, <1>3, <1>4, <1>7 DEF Place, Callers, Reads, Rests, InKernel
<1>9. TablesOf(t)'
  BY <1>1, <1>2, <1>3, <1>4, <1>7 DEF TablesOf
<1>10. Counted'
  <2>1. \A g \in Frame : mem_map'[g] = mem_map[g]
                  + (Hit(loc'[t].page, g) - Hit(loc[t].page, g))
                  + (Hit(loc'[t].victim, g) - Hit(loc[t].victim, g))
                  + (Hit(loc'[t].arg, g) - Hit(loc[t].arg, g))
    BY <1>1, <1>2, <1>3, <1>4, <1>5, InFrames DEF Hit, Types
  <2> QED
    BY <1>1, <1>4, <1>6, <2>1, LocalsCounted DEF MemInv
<1>11. /\ \A u \in Task, v \in Page : dir[u][v] # f /\ ~Maps(u, v, f)
       /\ \A u \in Task : loc[u].page # f /\ loc[u].arg # f /\ (u # t => loc[u].victim # f)
       /\ bitmap.at # f
  BY <1>1, <1>3, HeldOnce DEF MemInv
<1>12. Sole'
  BY <1>1, <1>2, <1>3, <1>4, <1>5, <1>11, InFrames DEF Sole, MemInv, Still, Maps
<1>13. Swaps'
  BY <1>1 DEF Swaps, MemInv
<1>14. OnTheWay(t)'
  BY <1>1, <1>2, <1>4 DEF OnTheWay
<1>15. \A w \in Page : Contents(t, w)' = expect'[t][w]
  BY <1>1 DEF Contents, MemInv, Intact
<1>16. \A w \in Page : pte'[t][w].in = "mem" /\ ~pte'[t][w].d /\ ~(loc'[t].copied /\ loc'[t].v = w)
                             => data'[pte'[t][w].f] = FileOf(w)
  BY <1>1, <1>2, <1>4 DEF MemInv, Clean
<1>17. Private(t, f)
  BY <1>11 DEF Private
<1>18. Free' # {}
  BY <1>3, <1>5 DEF Free
<1>19. Job(t)' = "argtable" => expect'[t] = [w \in Page |-> FileOf(w)]
  BY <1>1, <1>7 DEF MemInv, Intact
<1> HIDE DEF f
<1> QED
  BY <1>1, <1>2, <1>4, <1>6, <1>7, <1>8, <1>9, <1>10, <1>12, <1>13, <1>14, <1>15, <1>16, <1>17, <1>18, <1>19, OwnStep

(* try_to_swap_out drops a clean page. *)
LEMMA SwapOutCleanInv ==
    ASSUME MemInv, StopAtRaces, NEW t \in Task, NEW u \in Task, NEW v \in Page, SwapOutClean(t, u, v), ~halted'
    PROVE  MemInv'
<1> DEFINE f == pte[u][v].f
<1>1. /\ Types /\ Place(t) /\ TablesOf(t) /\ pc[t] = "get" /\ cpu = t
      /\ UNCHANGED <<cpu, pc, loc, dir, data, bitmap, sdata, expect>>
      /\ pte' = [pte EXCEPT ![u][v] = None] /\ mem_map' = free_page(mem_map, f)
      /\ ~(loc[u].copied /\ loc[u].v = v) /\ halted' = FALSE
  BY Standing DEF SwapOutClean
<1>2. /\ pte[u][v].in = "mem" /\ ~pte[u][v].d /\ Maps(u, v, f)
  BY DEF SwapOutClean, Candidates, Maps
<1>3. f \in Frame /\ f # 0 /\ mem_map[f] >= 1
  BY <1>1, <1>2, InFrames, HolderCounts DEF MemInv
<1> HIDE DEF f
<1>4. mem_map'[f] = mem_map[f] - 1 /\ (\A g \in Frame : g # f => mem_map'[g] = mem_map[g]) /\ mem_map' \in [Frame -> Nat]
  BY <1>1, <1>3 DEF free_page, Types
<1>5. /\ pte'[u][v] = None /\ (\A x \in Task, w \in Page : x # u \/ w # v => pte'[x][w] = pte[x][w])
      /\ pte' \in [Task -> [Page -> Entry]]
  BY <1>1, Entries DEF Types
<1>6. Types'
  BY <1>1, <1>4, <1>5 DEF Types
<1>7. Still(t) /\ \A x \in Task : Job(x)' = Job(x) /\ (Place(x) => Place(x)')
  BY <1>1 DEF Still, Job, Place
<1>8. \A x \in Task, w \in Page : Alike(x, w)
  BY <1>1, <1>2, <1>5 DEF Alike, MemInv, TablesOf
<1>9. \A x \in Task : TablesOf(x)'
  BY <1>1, <1>6, <1>7, <1>8, TablesStay
<1>10. Counted'
  <2>1. /\ \A x \in Task, w \in Page : x # u \/ w # v => FrameOf(pte'[x][w]) = FrameOf(pte[x][w])
        /\ FrameOf(pte'[u][v]) = 0 /\ FrameOf(pte[u][v]) = f
    BY <1>2, <1>5, Entries DEF FrameOf, Maps
  <2>2. \A x, g : Hit(x, g) - Hit(x, g) = 0 /\ Hit(x, g) \in Nat
    BY DEF Hit
  <2>3. \A g \in Frame : mem_map'[g] = mem_map[g]
                  + (Hit(dir'[t][v], g) - Hit(dir[t][v], g))
                  + (Hit(FrameOf(pte'[u][v]), g) - Hit(FrameOf(pte[u][v]), g))
                  + (Hit(loc'[t].page, g) - Hit(loc[t].page, g))
                  + (Hit(loc'[t].victim, g) - Hit(loc[t].victim, g))
                  + (Hit(loc'[t].arg, g) - Hit(loc[t].arg, g))
                  + (Hit(bitmap'.at, g) - Hit(bitmap.at, g))
    <3>1. \A g \in Frame : mem_map'[g] = mem_map[g] + (Hit(0, g) - Hit(f, g)) /\ mem_map[g] \in Nat
      BY <1>1, <1>3, <1>4, InFrames DEF Hit, Types
    <3> QED
      BY <1>1, <2>1, <2>2, <3>1
  <2> QED
    BY <1>1, <1>6, <2>1, <2>3, StillCounted DEF MemInv
<1>11. Sole'
  <2>1. mem_map[f] = 1 =>
             /\ \A x \in Task, w \in Page : dir[x][w] # f /\ (x # u \/ w # v => ~Maps(x, w, f))
             /\ \A x \in Task : loc[x].page # f /\ loc[x].victim # f /\ loc[x].arg # f
             /\ bitmap.at # f
    BY <1>1, <1>2, <1>3, HeldOnce DEF MemInv
  <2> QED
    BY <1>1, <1>3, <1>4, <1>5, <2>1, InFrames, Entries, SMTT(30) DEF Sole, MemInv, Maps
<1>12. Swaps'
  <2>1. \A x \in Task, w \in Page : pte'[x][w].in = "swap" <=> pte[x][w].in = "swap"
    BY <1>2, <1>5, Entries
  <2>2. \A x \in Task, w \in Page : pte[x][w].in = "swap" => pte'[x][w] = pte[x][w]
    BY <1>2, <1>5
  <2> QED
    BY <1>1, <2>1, <2>2, SwapsStay DEF MemInv
<1>13. Clean'
  BY <1>1, <1>5, Entries DEF Clean, MemInv
<1>14. \A x \in Task : OnTheWay(x)'
  <2> SUFFICES ASSUME NEW x \in Task PROVE OnTheWay(x)'
    OBVIOUS
  <2>1. OnTheWay(x) /\ Place(x) /\ TablesOf(x) /\ loc[x].v \in Page
    BY Standing
  <2>2. pc[x] \in {"swapread", "copyread"} => pte'[x][loc[x].v] = pte[x][loc[x].v]
    BY <1>2, <1>5, <2>1 DEF TablesOf, Job
  <2> QED
    BY <1>1, <2>1, <2>2 DEF OnTheWay
<1>15. \A x \in Task, w \in Page : Contents(x, w)' = Contents(x, w)
  <2>1. Contents(u, v)' = FileOf(v)
    BY <1>5, Entries DEF Contents
  <2>2. Contents(u, v) = FileOf(v)
    BY <1>1, <1>2 DEF Contents, Clean, MemInv
  <2>3. \A x \in Task, w \in Page : x # u \/ w # v => Contents(x, w)' = Contents(x, w)
    BY <1>1, <1>5 DEF Contents
  <2> QED
    BY <2>1, <2>2, <2>3
<1>16. \A w \in Page : Contents(t, w)' = expect'[t][w]
  BY <1>1, <1>15 DEF MemInv, Intact
<1>17. Job(t)' = "argtable" => expect'[t] = [w \in Page |-> FileOf(w)]
  BY <1>1, <1>7 DEF MemInv, Intact
<1>18. Job(t)' # "argtable" \/ loc[t].page # 0
  BY <1>1, <1>7 DEF MemInv, ArgRoom, SwapOutClean
<1> QED
  BY <1>1, <1>6, <1>7, <1>8, <1>9, <1>10, <1>11, <1>12, <1>13, <1>14, <1>15, <1>16, <1>17, <1>18, Step

(* try_to_swap_out moves a dirty page to the swap device. *)
LEMMA SwapOutDirtyInv ==
    ASSUME MemInv, NEW t \in Task, NEW u \in Task, NEW v \in Page, SwapOutDirty(t, u, v)
    PROVE  MemInv'
<1> DEFINE f == pte[u][v].f
           nr == Min(bitmap.free)
           l == [loc[t] EXCEPT !.victim = f]
<1>1. /\ Types /\ Place(t) /\ TablesOf(t) /\ loc[t] \in Locals /\ pc[t] = "get" /\ cpu = t
      /\ UNCHANGED <<dir, mem_map, data, expect, halted>>
      /\ bitmap' = [bitmap EXCEPT !.free = @ \ {nr}]
      /\ pte' = [pte EXCEPT ![u][v] = Swapped(nr)]
      /\ sdata' = [sdata EXCEPT ![nr] = data[f]]
      /\ loc' = [loc EXCEPT ![t] = l]
      /\ pc' = [pc EXCEPT ![t] = "swapwrite"] /\ cpu' = NULL
  BY Standing DEF SwapOutDirty, Sleep
<1>2. /\ pte[u][v].in = "mem" /\ pte[u][v].d /\ Maps(u, v, f) /\ mem_map[f] = 1 /\ bitmap.at # 0 /\ bitmap.free # {}
  BY DEF SwapOutDirty, Candidates, Maps
<1>3. f \in Frame /\ f # 0
  BY <1>1, <1>2, InFrames
<1>4. nr \in Slot /\ nr \in bitmap.free /\ bitmap \in [at : 0..NFrame, free : SUBSET Slot]
  <2>1. bitmap.free \subseteq Slot /\ bitmap.free \subseteq Nat
    BY <1>1 DEF Types, Slot
  <2> QED
    BY <1>1, <1>2, <2>1, MinIn DEF Types
<1>5. /\ l \in Locals /\ l.victim = f /\ l.page = loc[t].page /\ l.why = loc[t].why /\ l.v = loc[t].v /\ l.acc = loc[t].acc
      /\ l.arg = loc[t].arg /\ l.old = loc[t].old /\ l.child = loc[t].child /\ (l.copied <=> loc[t].copied)
  BY <1>1, <1>3 DEF Locals, Frame
<1> HIDE DEF f, nr, l
<1>6. /\ pc'[t] = "swapwrite" /\ loc'[t] = l /\ Still(t) /\ pc' \in [Task -> Positions] /\ loc' \in [Task -> Locals]
  BY <1>1, <1>5, Moves DEF Positions
<1>7. /\ pte'[u][v] = Swapped(nr) /\ (\A x \in Task, w \in Page : x # u \/ w # v => pte'[x][w] = pte[x][w])
      /\ pte' \in [Task -> [Page -> Entry]]
  BY <1>1, <1>4, Entries DEF Types
<1>8. bitmap'.at = bitmap.at /\ bitmap'.free = bitmap.free \ {nr} /\ bitmap' \in [at : 0..NFrame, free : SUBSET Slot]
  BY <1>1, <1>4
<1>9. sdata'[nr] = data[f] /\ (\A s \in Slot : s # nr => sdata'[s] = sdata[s]) /\ sdata' \in [Slot -> Value]
  BY <1>1, <1>3, <1>4 DEF Types
<1>10. Types'
  BY <1>1, <1>6, <1>7, <1>8, <1>9 DEF Types
<1>11. /\ loc[t].page = 0 /\ loc[t].victim = 0 /\ ~loc[t].copied /\ loc[t].why \in Callers
       /\ Job(t) = loc[t].why /\ Job(t)' = loc[t].why
  BY <1>1, <1>5, <1>6 DEF Place, Callers, Reads, Job
<1>12. Place(t)'
  BY <1>1, <1>3, <1>5, <1>6, <1>11 DEF Place, Callers, Reads, Rests, InKernel
<1>13. \A x \in Task, w \in Page : Alike(x, w)
  BY <1>1, <1>2, <1>7 DEF Alike, MemInv, TablesOf
<1>14. TablesOf(t)'
  BY <1>1, <1>5, <1>6, <1>10, <1>11, <1>13, TablesStay
<1>15. Counted'
  <2>1. /\ \A x \in Task, w \in Page : x # u \/ w # v => FrameOf(pte'[x][w]) = FrameOf(pte[x][w])
        /\ FrameOf(pte'[u][v]) = 0 /\ FrameOf(pte[u][v]) = f
    BY <1>2, <1>4, <1>7, Entries DEF FrameOf, Maps
  <2>2. \A x, g : Hit(x, g) - Hit(x, g) = 0 /\ Hit(x, g) \in Nat
    BY DEF Hit
  <2>3. \A g \in Frame : mem_map'[g] = mem_map[g]
                  + (Hit(dir'[t][v], g) - Hit(dir[t][v], g))
                  + (Hit(FrameOf(pte'[u][v]), g) - Hit(FrameOf(pte[u][v]), g))
                  + (Hit(loc'[t].page, g) - Hit(loc[t].page, g))
                  + (Hit(loc'[t].victim, g) - Hit(loc[t].victim, g))
                  + (Hit(loc'[t].arg, g) - Hit(loc[t].arg, g))
                  + (Hit(bitmap'.at, g) - Hit(bitmap.at, g))
    <3>1. \A g \in Frame : mem_map'[g] = mem_map[g] /\ mem_map[g] \in Nat
      BY <1>1 DEF Types
    <3>2. \A g \in Frame : (Hit(0, g) - Hit(f, g)) + (Hit(f, g) - Hit(0, g)) = 0
      BY <2>2
    <3> QED
      BY <1>1, <1>5, <1>6, <1>8, <1>11, <2>1, <2>2, <3>1, <3>2
  <2>4. \A x \in Task : x # t => /\ loc'[x].page = loc[x].page /\ loc'[x].victim = loc[x].victim
                                 /\ loc'[x].arg = loc[x].arg
    BY <1>6 DEF Still
  <2> QED
    BY <1>1, <1>10, <2>1, <2>3, <2>4, StillCounted DEF MemInv
<1>16. Sole'
  BY <1>1, <1>2, <1>4, <1>5, <1>6, <1>7, <1>8, Entries DEF Sole, MemInv, Still
<1>17. \A x \in Task, w \in Page, s \in Slot : pte[x][w] = Swapped(s) => s # nr /\ (x # u \/ w # v)
  BY <1>2, <1>4, Entries DEF Swaps, MemInv
<1>18. \A x \in Task, w \in Page : pte[x][w] \in Entry /\ pte'[x][w] \in Entry
  BY <1>1, <1>7 DEF Types
<1>19. Swaps'
  <2>1. \A s \in Slot : /\ s \in bitmap'.free => \A x \in Task, w \in Page : pte'[x][w] # Swapped(s)
                        /\ s \notin bitmap'.free => \E x \in Task, w \in Page : pte'[x][w] = Swapped(s)
    <3> SUFFICES ASSUME NEW s \in Slot
                 PROVE  /\ s \in bitmap'.free => \A x \in Task, w \in Page : pte'[x][w] # Swapped(s)
                        /\ s \notin bitmap'.free => \E x \in Task, w \in Page : pte'[x][w] = Swapped(s)
      OBVIOUS
    <3>1. s = nr => s \notin bitmap'.free /\ \E x \in Task, w \in Page : pte'[x][w] = Swapped(s)
      BY <1>7, <1>8
    <3>2. s # nr => \A x \in Task, w \in Page : pte'[x][w] = Swapped(s) <=> pte[x][w] = Swapped(s)
      BY <1>4, <1>7, <1>17, Entries
    <3> QED
      BY <1>2, <1>8, <3>1, <3>2 DEF Swaps, MemInv
  <2>2. \A x, y \in Task, w, z \in Page :
           pte'[x][w].in = "swap" /\ pte'[y][z] = pte'[x][w] => x = y /\ w = z
    <3> SUFFICES ASSUME NEW x \in Task, NEW y \in Task, NEW w \in Page, NEW z \in Page,
                        pte'[x][w].in = "swap", pte'[y][z] = pte'[x][w]
                 PROVE  x = y /\ w = z
      OBVIOUS
    <3>1. pte'[x][w].s \in Slot /\ pte'[x][w] = Swapped(pte'[x][w].s)
      BY <1>18, EntryKinds
    <3> QED
      BY <1>7, <1>17, <3>1, <1>4 DEF Swaps, MemInv
  <2> QED
    BY <1>2, <1>8, <2>1, <2>2 DEF Swaps
<1>20. Clean'
  BY <1>1, <1>4, <1>5, <1>6, <1>7, <1>11, Entries DEF Clean, MemInv, Still
<1>21. \A x \in Task, w \in Page : pte[x][w].in = "swap" => pte'[x][w] = pte[x][w] /\ sdata'[pte[x][w].s] = sdata[pte[x][w].s]
  BY <1>2, <1>7, <1>9, <1>17, <1>18, EntryKinds
<1>22. \A x \in Task : OnTheWay(x)'
  <2> SUFFICES ASSUME NEW x \in Task PROVE OnTheWay(x)'
    OBVIOUS
  <2>1. OnTheWay(x) /\ Place(x) /\ TablesOf(x) /\ loc[x].v \in Page
    BY Standing
  <2>2. pc[x] \in {"swapread", "copyread"} => pte[x][loc[x].v].in = "swap"
    BY <2>1 DEF TablesOf, Job
  <2> QED
    BY <1>1, <1>5, <1>6, <1>21, <2>1, <2>2 DEF OnTheWay, Still
<1>23. \A x \in Task, w \in Page : Contents(x, w)' = Contents(x, w)
  <2>1. Contents(u, v)' = Contents(u, v)
    BY <1>2, <1>4, <1>7, <1>9, Entries DEF Contents, Maps
  <2>2. \A x \in Task, w \in Page : x # u \/ w # v => Contents(x, w)' = Contents(x, w)
    BY <1>1, <1>7, <1>21 DEF Contents
  <2> QED
    BY <2>1, <2>2
<1>24. \A w \in Page : Contents(t, w)' = expect'[t][w]
  BY <1>1, <1>23 DEF MemInv, Intact
<1>25. Job(t)' # "argtable"
  BY <1>1, <1>11 DEF MemInv, ArgRoom, SwapOutDirty
<1> QED
  BY <1>1, <1>5, <1>6, <1>8, <1>10, <1>11, <1>12, <1>13, <1>14, <1>15, <1>16, <1>19, <1>20, <1>22, <1>23, <1>24,
     <1>25, Step

-----------------------------------------------------------------------------
(* un_wp_page of a page that counts 1 *)
LEMMA UnprotectInv ==
    ASSUME MemInv, NEW t \in Task, NEW v \in Page, NEW STATE l, l \in Locals,
           cpu = NULL, pc[t] \in {"user", "try"}, ~loc[t].copied, Job(t) = pc[t], loc[t].child = NULL,
           loc[t].page = 0, loc[t].victim = 0, loc[t].arg = 0,
           l.v = v, l.why = "none", l.page = 0, l.victim = 0, l.arg = 0, l.child = NULL, ~l.copied,
           Protected(t, v), mem_map[pte[t][v].f] = 1, loc' = [loc EXCEPT ![t] = l], Unprotect(t, v),
           UNCHANGED <<dir, mem_map, data, bitmap, sdata, expect, halted>>
    PROVE  MemInv'
<1> DEFINE f == pte[t][v].f
           e == Mem(f, TRUE, pte[t][v].d)
<1>1. /\ Types /\ Place(t) /\ TablesOf(t) /\ pte[t][v].in = "mem" /\ Maps(t, v, f) /\ pte[t][v] \in Entry
      /\ f \in Frame /\ f # 0 /\ pte[t][v].d \in BOOLEAN
      /\ pc' = [pc EXCEPT ![t] = "try"] /\ cpu' = NULL
  BY Standing, InFrames, EntryKinds DEF Protected, Unprotect, Sleep, Maps
<1>2. pte' = [pte EXCEPT ![t][v] = e]
  BY <1>1, EntryChange DEF Unprotect
<1>3. e \in Entry /\ e.in = "mem" /\ e.f = f /\ e.d = pte[t][v].d
  BY <1>1, Entries, ZenonT(40)
<1> HIDE DEF f, e
<1>4. /\ pte'[t][v] = e /\ (\A x \in Task, w \in Page : x # t \/ w # v => pte'[x][w] = pte[x][w])
      /\ pte' \in [Task -> [Page -> Entry]] /\ (\A x \in Task : x # t => pte'[x] = pte[x])
  <2>1. Types /\ e \in Entry
    BY <1>1, <1>3
  <2> QED
    BY <1>2, <2>1 DEF Types
<1>5. /\ pc'[t] = "try" /\ loc'[t] = l /\ Still(t) /\ pc' \in [Task -> Positions] /\ loc' \in [Task -> Locals]
  BY <1>1, Moves DEF Positions
<1>6. Types'
  BY <1>1, <1>4, <1>5 DEF Types
<1>7. Job(t)' = "try"
  BY <1>5 DEF Job
<1>8. Place(t)'
  BY <1>1, <1>5, <1>7 DEF Place, Callers, Reads, Rests, InKernel
<1>9. TablesOf(t)'
  BY <1>1, <1>3, <1>4, <1>5, <1>7, Entries DEF TablesOf
<1>10. Counted'
  <2>1. \A x \in Task, w \in Page : FrameOf(pte'[x][w]) = FrameOf(pte[x][w]) /\ dir'[x][w] = dir[x][w]
    BY <1>1, <1>3, <1>4 DEF FrameOf, Maps
  <2>2. \A g \in Frame : mem_map'[g] = mem_map[g]
                  + (Hit(loc'[t].page, g) - Hit(loc[t].page, g))
                  + (Hit(loc'[t].victim, g) - Hit(loc[t].victim, g))
                  + (Hit(loc'[t].arg, g) - Hit(loc[t].arg, g))
    BY <1>1, <1>5 DEF Hit, Types
  <2> QED
    BY <1>1, <1>5, <1>6, <2>1, <2>2, LocalsCounted DEF MemInv
<1>11. Sole'
  BY <1>1, <1>3, <1>4, <1>5 DEF Sole, MemInv, Still, Maps
<1>12. Swaps'
  <2>1. \A x \in Task, w \in Page : pte'[x][w].in = "swap" <=> pte[x][w].in = "swap"
    BY <1>1, <1>3, <1>4, Entries
  <2>2. \A x \in Task, w \in Page : pte[x][w].in = "swap" => pte'[x][w] = pte[x][w]
    BY <1>1, <1>4
  <2> QED
    BY <2>1, <2>2, SwapsStay DEF MemInv
<1>13. OnTheWay(t)'
  BY <1>5 DEF OnTheWay
<1>14. \A w \in Page : Contents(t, w)' = expect'[t][w]
  BY <1>1, <1>3, <1>4 DEF Contents, MemInv, Intact, Maps
<1>15. \A w \in Page : pte'[t][w].in = "mem" /\ ~pte'[t][w].d => data'[pte'[t][w].f] = FileOf(w)
  BY <1>1, <1>3, <1>4 DEF MemInv, Clean, Maps
<1>16. Private(t, f)
  BY <1>1, HeldOnce DEF Private, MemInv, f
<1> QED
  BY <1>1, <1>4, <1>5, <1>6, <1>7, <1>8, <1>9, <1>10, <1>11, <1>12, <1>13, <1>14, <1>15, <1>16, OwnStep

(* un_wp_page of a shared page gets memory for the copy. *)
LEMMA CowInv ==
    ASSUME MemInv, NEW t \in Task, NEW v \in Page, NEW STATE l, l \in Locals,
           cpu = NULL, pc[t] \in {"user", "try"}, ~loc[t].copied, Job(t) = pc[t], loc[t].child = NULL,
           loc[t].page = 0, loc[t].victim = 0, loc[t].arg = 0,
           l.v = v, l.acc # "read", l.page = 0, l.victim = 0, l.arg = 0, l.child = NULL, ~l.copied,
           pte[t][v].in = "mem", Need(t, "cow", [l EXCEPT !.old = pte[t][v]]),
           UNCHANGED <<dir, pte, mem_map, data, bitmap, sdata, expect, halted>>
    PROVE  MemInv'
<1> DEFINE m == [l EXCEPT !.old = pte[t][v]]
<1>1. Types /\ Place(t) /\ TablesOf(t) /\ pte[t][v] \in Entry
  BY Standing
<1>2. /\ m \in Locals /\ m.v = v /\ m.acc # "read" /\ m.page = 0 /\ m.victim = 0 /\ m.arg = 0 /\ m.child = NULL
      /\ ~m.copied /\ m.old = pte[t][v]
  BY <1>1 DEF Locals
<1> HIDE DEF m
<1>3. /\ cpu' = t /\ pc' = [pc EXCEPT ![t] = "get"] /\ loc' \in [Task -> Locals] /\ Still(t)
      /\ pc'[t] = "get" /\ pc' \in [Task -> Positions] /\ loc'[t].why = "cow" /\ Same(m, loc'[t])
      /\ Job(t)' = "cow"
  BY <1>1, <1>2, NeedFacts DEF Callers, m
<1>4. Types'
  BY <1>1, <1>3 DEF Types
<1>5. Place(t)'
  BY <1>2, <1>3 DEF Place, Callers, Reads, Rests, InKernel, Same
<1>6. dir[t][v] # 0
  BY <1>1, Entries DEF TablesOf
<1>7. TablesOf(t)' /\ OnTheWay(t)'
  BY <1>1, <1>2, <1>3, <1>6 DEF TablesOf, OnTheWay, Same
<1> QED
  BY <1>1, <1>2, <1>3, <1>4, <1>5, <1>7, QuietStep DEF Same

(* do_wp_page makes the page writable or needs a copy. *)
LEMMA DoWpPageInv ==
    ASSUME MemInv, NEW t \in Task, NEW v \in Page, DoWpPage(t, v)
    PROVE  MemInv'
<1> DEFINE l == LocalsOf(t, v, "write")
<1>1. /\ loc[t] \in Locals /\ TablesOf(t) /\ Protected(t, v) /\ "write" \in Accs
      /\ UNCHANGED <<dir, mem_map, data, bitmap, sdata, expect, halted>>
  BY Standing DEF DoWpPage, Accs
<1>2. /\ cpu = NULL /\ pc[t] \in {"user", "try"} /\ Job(t) = pc[t]
      /\ loc[t].page = 0 /\ loc[t].victim = 0 /\ loc[t].arg = 0 /\ loc[t].child = NULL /\ ~loc[t].copied
  BY <1>1, UsingFacts DEF DoWpPage, TablesOf, Protected
<1>3. /\ l \in Locals /\ l.v = v /\ l.acc = "write" /\ l.why = "none" /\ l.page = 0 /\ l.victim = 0
      /\ l.arg = 0 /\ l.old = None /\ l.child = NULL /\ ~l.copied
  BY <1>1, <1>2, LocalsOfType
<1>4. \/ mem_map[pte[t][v].f] = 1 /\ loc' = [loc EXCEPT ![t] = l] /\ Unprotect(t, v)
      \/ Need(t, "cow", [l EXCEPT !.old = pte[t][v]]) /\ UNCHANGED pte
  BY DEF DoWpPage
<1> HIDE DEF l
<1>5. CASE mem_map[pte[t][v].f] = 1 /\ loc' = [loc EXCEPT ![t] = l] /\ Unprotect(t, v)
  BY <1>1, <1>2, <1>3, <1>5, UnprotectInv
<1>6. CASE Need(t, "cow", [l EXCEPT !.old = pte[t][v]]) /\ UNCHANGED pte
  BY <1>1, <1>2, <1>3, <1>6, CowInv DEF Protected
<1> QED
  BY <1>4, <1>5, <1>6

(* write_verify, before the kernel writes to the page. *)
LEMMA VerifyInv ==
    ASSUME MemInv, NEW t \in Task, NEW v \in Page, Verify(t, v)
    PROVE  MemInv'
<1> DEFINE l == [Idle EXCEPT !.v = v, !.acc = "kwrite"]
<1>1. /\ Types /\ Place(t) /\ TablesOf(t)
      /\ UNCHANGED <<dir, mem_map, data, bitmap, sdata, expect, halted>>
  BY Standing DEF Verify
<1>2. cpu = NULL /\ pc[t] = "user" /\ Job(t) = pc[t] /\ loc[t] = Idle
  BY CallsFacts DEF Verify
<1>3. /\ loc[t].page = 0 /\ loc[t].victim = 0 /\ loc[t].arg = 0 /\ loc[t].child = NULL /\ ~loc[t].copied
  BY <1>2, IdleType
<1>4. /\ l \in Locals /\ l.v = v /\ l.acc = "kwrite" /\ l.why = "none" /\ l.page = 0 /\ l.victim = 0
      /\ l.arg = 0 /\ l.old = None /\ l.child = NULL /\ ~l.copied
  <2>1. v \in 1..3 /\ 0 \in 0..NFrame /\ None \in Entry
    BY MemAssumption, Entries DEF Page
  <2> QED
    BY <2>1 DEF Idle, Locals
<1>5. \/ loc' = [loc EXCEPT ![t] = l] /\ Sleep(t, "try") /\ UNCHANGED pte
      \/ Protected(t, v) /\ mem_map[pte[t][v].f] = 1 /\ loc' = [loc EXCEPT ![t] = l] /\ Unprotect(t, v)
      \/ Protected(t, v) /\ Need(t, "cow", [l EXCEPT !.old = pte[t][v]]) /\ UNCHANGED pte
  BY DEF Verify
<1> HIDE DEF l
<1>6. CASE loc' = [loc EXCEPT ![t] = l] /\ Sleep(t, "try") /\ UNCHANGED pte
  <2>1. cpu' = NULL /\ pc' = [pc EXCEPT ![t] = "try"]
    BY <1>6 DEF Sleep
  <2>2. /\ pc'[t] = "try" /\ loc'[t] = l /\ Still(t) /\ pc' \in [Task -> Positions] /\ loc' \in [Task -> Locals]
    BY <1>1, <1>4, <1>6, <2>1, Moves DEF Positions
  <2>3. Types' /\ Job(t)' = "try"
    BY <1>1, <1>6, <2>1, <2>2 DEF Types, Job
  <2>4. Place(t)'
    BY <1>4, <2>1, <2>2, <2>3 DEF Place, Callers, Reads, Rests, InKernel
  <2>5. TablesOf(t)' /\ OnTheWay(t)'
    BY <1>1, <1>4, <1>6, <2>2, <2>3 DEF TablesOf, OnTheWay
  <2> QED
    BY <1>1, <1>2, <1>3, <1>4, <1>6, <2>2, <2>3, <2>4, <2>5, QuietStep
<1>7. CASE Protected(t, v) /\ mem_map[pte[t][v].f] = 1 /\ loc' = [loc EXCEPT ![t] = l] /\ Unprotect(t, v)
  BY <1>1, <1>2, <1>3, <1>4, <1>7, UnprotectInv
<1>8. CASE Protected(t, v) /\ Need(t, "cow", [l EXCEPT !.old = pte[t][v]]) /\ UNCHANGED pte
  BY <1>1, <1>2, <1>3, <1>4, <1>8, CowInv DEF Protected
<1> QED
  BY <1>5, <1>6, <1>7, <1>8

(* The task is back in user mode. *)
LEMMA Returned ==
    ASSUME MemInv, NEW t \in Task, pc' = [pc EXCEPT ![t] = "user"], cpu' = NULL, loc' = [loc EXCEPT ![t] = Idle]
    PROVE  /\ pc'[t] = "user" /\ loc'[t] = Idle /\ Still(t) /\ pc' \in [Task -> Positions] /\ loc' \in [Task -> Locals]
           /\ Job(t)' = "user" /\ Place(t)' /\ OnTheWay(t)'
<1>1. /\ pc'[t] = "user" /\ loc'[t] = Idle /\ Still(t) /\ pc' \in [Task -> Positions] /\ loc' \in [Task -> Locals]
  BY Moves, IdleType DEF Positions, Rests, MemInv
<1>2. Job(t)' = "user"
  BY <1>1 DEF Job
<1> QED
  BY <1>1, <1>2, IdleType DEF Place, OnTheWay, Callers, Reads, Rests, InKernel, Page

(* A program, or the kernel for it, uses a page. *)
LEMMA AccessInv ==
    ASSUME MemInv, StopAtRaces, NEW t \in Task, NEW v \in Page, NEW a \in Accs, Access(t, v, a), ~halted'
    PROVE  MemInv'
<1> DEFINE f == pte[t][v].f
           e == Mem(f, pte[t][v].w, TRUE)
<1>1. /\ Types /\ Place(t) /\ TablesOf(t) /\ pte[t][v] \in Entry /\ UNCHANGED <<dir, mem_map, bitmap, sdata>>
      /\ pte[t][v].in = "mem" /\ (a = "write" => pte[t][v].w)
      /\ halted' = FALSE /\ (a = "kwrite" => mem_map[f] = 1)
  BY Standing DEF Access, Present
<1>2. /\ cpu = NULL /\ pc[t] \in {"user", "try"} /\ Job(t) = pc[t]
      /\ loc[t].page = 0 /\ loc[t].victim = 0 /\ loc[t].arg = 0 /\ loc[t].child = NULL
      /\ loc[t].copied => loc[t].v = v /\ loc[t].acc = a
  BY UsingFacts DEF Access
<1>3. cpu' = NULL /\ pc' = [pc EXCEPT ![t] = "user"] /\ loc' = [loc EXCEPT ![t] = Idle]
  BY DEF Access, Sleep
<1>4. /\ pc'[t] = "user" /\ loc'[t] = Idle /\ Still(t) /\ pc' \in [Task -> Positions] /\ loc' \in [Task -> Locals]
      /\ Job(t)' = "user" /\ Place(t)' /\ OnTheWay(t)'
  BY <1>3, Returned
<1>5. CASE a = "read"
  <2>1. UNCHANGED <<pte, data, expect>> /\ ~loc[t].copied
    BY <1>1, <1>2, <1>5 DEF Access, TablesOf
  <2>2. Types'
    BY <1>1, <1>3, <1>4, <2>1 DEF Types
  <2>3. TablesOf(t)'
    BY <1>1, <1>4, <2>1, IdleType DEF TablesOf
  <2> QED
    BY <1>1, <1>2, <1>4, <2>1, <2>2, <2>3, IdleType, QuietStep
<1>6. CASE a # "read"
  <2>1. /\ pte' = [pte EXCEPT ![t][v] = e] /\ data' = [data EXCEPT ![f] = <<t, v>>]
        /\ expect' = [expect EXCEPT ![t][v] = <<t, v>>]
    BY <1>1, <1>6, EntryChange DEF Access
  <2>2. Maps(t, v, f) /\ f \in Frame /\ f # 0 /\ mem_map[f] = 1
    BY <1>1, <1>6, InFrames DEF Maps, MemInv, Sole, Accs
  <2>3. e \in Entry /\ e.in = "mem" /\ e.f = f /\ e.d
    <3>1. pte[t][v].w \in BOOLEAN
      BY <1>1, EntryKinds
    <3>2. e \in Entry /\ e.in = "mem" /\ e.f = f
      BY <2>2, <3>1, Entries
    <3> QED
      BY <3>2 DEF Mem
  <2>4. <<t, v>> \in Value
    BY DEF Value
  <2> HIDE DEF f, e
  <2>5. /\ pte'[t][v] = e /\ (\A x \in Task, w \in Page : x # t \/ w # v => pte'[x][w] = pte[x][w])
        /\ pte' \in [Task -> [Page -> Entry]] /\ (\A x \in Task : x # t => pte'[x] = pte[x])
    BY <1>1, <2>1, <2>3 DEF Types
  <2>6. /\ expect'[t][v] = <<t, v>> /\ (\A w \in Page : w # v => expect'[t][w] = expect[t][w])
        /\ expect' \in [Task -> [Page -> Value]] /\ (\A x \in Task : x # t => expect'[x] = expect[x])
    BY <1>1, <2>1, <2>4 DEF Types
  <2>7. data'[f] = <<t, v>> /\ (\A g \in Frame : g # f => data'[g] = data[g]) /\ data' \in [Frame -> Value]
    BY <1>1, <2>1, <2>2, <2>4 DEF Types
  <2>8. Types'
    BY <1>1, <1>3, <1>4, <2>5, <2>6, <2>7 DEF Types
  <2>9. TablesOf(t)'
    BY <1>1, <1>4, <2>3, <2>5, IdleType, Entries, SMTT(30) DEF TablesOf
  <2>10. Counted'
    <3>1. \A x \in Task, w \in Page : FrameOf(pte'[x][w]) = FrameOf(pte[x][w]) /\ dir'[x][w] = dir[x][w]
      BY <1>1, <2>2, <2>3, <2>5 DEF FrameOf, Maps
    <3>2. \A g \in Frame : mem_map'[g] = mem_map[g]
                  + (Hit(loc'[t].page, g) - Hit(loc[t].page, g))
                  + (Hit(loc'[t].victim, g) - Hit(loc[t].victim, g))
                  + (Hit(loc'[t].arg, g) - Hit(loc[t].arg, g))
      BY <1>1, <1>2, <1>4, IdleType DEF Hit, Types
    <3> QED
      BY <1>1, <1>4, <2>8, <3>1, <3>2, LocalsCounted DEF MemInv
  <2>11. Sole'
    <3>1. /\ \A x \in Task : x # t => loc'[x] = loc[x]
          /\ loc'[t].page = 0 /\ loc'[t].victim = 0 /\ loc'[t].arg = 0
      BY <1>4, IdleType DEF Still
    <3>2. \A x \in Task, w \in Page : pte'[x][w].in = "mem" /\ pte'[x][w].w => mem_map[pte'[x][w].f] = 1
      BY <2>2, <2>3, <2>5 DEF Sole, MemInv
    <3> QED
      BY <1>1, <3>1, <3>2 DEF Sole, MemInv
  <2>12. Swaps'
    <3>1. \A x \in Task, w \in Page : pte'[x][w].in = "swap" <=> pte[x][w].in = "swap"
      BY <1>1, <2>3, <2>5
    <3>2. \A x \in Task, w \in Page : pte[x][w].in = "swap" => pte'[x][w] = pte[x][w]
      BY <1>1, <2>5
    <3> QED
      BY <1>1, <3>1, <3>2, SwapsStay DEF MemInv
  <2>13. \A w \in Page : w # v => ~Maps(t, w, f) /\ (pte[t][w].in = "mem" => pte[t][w].f \in Frame)
    BY <1>1, <2>2, HeldOnce, InFrames DEF MemInv
  <2>14. \A w \in Page : Contents(t, w)' = expect'[t][w]
    <3>1. Contents(t, v)' = expect'[t][v]
      BY <2>3, <2>5, <2>6, <2>7 DEF Contents
    <3>2. ASSUME NEW w \in Page, w # v PROVE Contents(t, w)' = expect'[t][w]
      <4>1. Contents(t, w) = expect[t][w]
        BY <1>2 DEF MemInv, Intact
      <4>2. pte[t][w].in = "mem" => data'[pte[t][w].f] = data[pte[t][w].f]
        BY <2>7, <2>13, <3>2 DEF Maps
      <4> QED
        BY <1>1, <2>5, <2>6, <3>2, <4>1, <4>2 DEF Contents
    <3> QED
      BY <3>1, <3>2
  <2>15. \A w \in Page : pte'[t][w].in = "mem" /\ ~pte'[t][w].d => data'[pte'[t][w].f] = FileOf(w)
    BY <1>2, <2>3, <2>5, <2>7, <2>13 DEF MemInv, Clean, Maps
  <2>16. Private(t, f)
    BY <1>1, <2>2, HeldOnce DEF Private, MemInv
  <2> QED
    BY <1>1, <1>2, <1>4, <2>5, <2>6, <2>7, <2>8, <2>9, <2>10, <2>11, <2>12, <2>14, <2>15, <2>16, IdleType, OwnStep, SMTT(30)
<1> QED
  BY <1>5, <1>6

(* un_wp_page gives up its reference to the old page for the copy. *)
LEMMA CopyPageInv ==
    ASSUME MemInv, StopAtRaces, NEW t \in Task, CopyPage(t), ~halted'
    PROVE  MemInv'
<1>0. PICK v \in Page : loc[t].v = v
  BY Standing
<1> DEFINE f == loc[t].old.f
           p == loc[t].page
           e == Mem(p, TRUE, FALSE)
           l == [loc[t] EXCEPT !.page = 0, !.old = None, !.copied = TRUE]
<1>1. /\ Types /\ Place(t) /\ TablesOf(t) /\ loc[t] \in Locals /\ pc[t] = "cow" /\ cpu = t /\ Job(t) = "cow"
      /\ p # 0 /\ v \in Page /\ loc[t].v = v
      /\ UNCHANGED <<dir, bitmap, sdata, expect>> /\ pte[t][v] = loc[t].old /\ halted' = FALSE
  BY <1>0, Standing DEF CopyPage, Job
<1>2. /\ pte' = [pte EXCEPT ![t][v] = e] /\ data' = [data EXCEPT ![p] = data[f]]
      /\ mem_map' = [mem_map EXCEPT ![f] = (@ - 1) % 256]
      /\ loc' = [loc EXCEPT ![t] = l] /\ pc' = [pc EXCEPT ![t] = "try"] /\ cpu' = NULL
  BY <1>0 DEF CopyPage, Sleep
<1>3. /\ pte[t][v].in = "mem" /\ pte[t][v].f = f /\ Maps(t, v, f) /\ f \in Frame /\ p \in Frame /\ f # 0 /\ dir[t][v] # 0
  BY <1>1, InFrames DEF Maps, Place, TablesOf
<1>4. mem_map[p] = 1 /\ mem_map[f] \in 1..128
  BY <1>1, <1>3, CountsFit, HolderCounts DEF MemInv, Sole
<1>5. /\ \A x \in Task, w \in Page : dir[x][w] # p /\ ~Maps(x, w, p)
      /\ \A x \in Task : (x # t => loc[x].page # p) /\ loc[x].arg # p /\ loc[x].victim # p
      /\ bitmap.at # p
  BY <1>1, <1>3, <1>4, HeldOnce DEF MemInv
<1> HIDE DEF f, p
<1>6. p # f
  BY <1>1, <1>3, <1>5
<1>7. e \in Entry /\ e.in = "mem" /\ e.f = p /\ e.w /\ ~e.d
  <2>1. e \in Entry /\ e.in = "mem" /\ e.f = p
    BY <1>3, Entries
  <2> QED
    BY <2>1 DEF Mem
<1>8. /\ l \in Locals /\ l.page = 0 /\ l.copied /\ l.v = v /\ l.acc = loc[t].acc /\ l.why = loc[t].why
      /\ l.victim = loc[t].victim /\ l.arg = loc[t].arg /\ l.child = loc[t].child
  <2>1. 0 \in 0..NFrame /\ None \in Entry
    BY Entries, MemAssumption
  <2> QED
    BY <1>1, <2>1 DEF Locals
<1> HIDE DEF e, l
<1>9. /\ pte'[t][v] = e /\ (\A x \in Task, w \in Page : x # t \/ w # v => pte'[x][w] = pte[x][w])
      /\ pte' \in [Task -> [Page -> Entry]] /\ (\A x \in Task : x # t => pte'[x] = pte[x])
  BY <1>1, <1>2, <1>7 DEF Types
<1>10. data'[p] = data[f] /\ (\A g \in Frame : g # p => data'[g] = data[g]) /\ data' \in [Frame -> Value]
  BY <1>1, <1>2, <1>3 DEF Types
<1>11. /\ mem_map'[f] = mem_map[f] - 1 /\ (\A g \in Frame : g # f => mem_map'[g] = mem_map[g])
       /\ mem_map' \in [Frame -> Nat]
  <2>1. (mem_map[f] - 1) % 256 = mem_map[f] - 1 /\ mem_map[f] - 1 \in Nat
    BY <1>4
  <2>2. mem_map' = [mem_map EXCEPT ![f] = mem_map[f] - 1]
    BY <1>2, <2>1
  <2> QED
    BY <1>1, <1>3, <2>1, <2>2 DEF Types
<1>12. /\ pc'[t] = "try" /\ loc'[t] = l /\ Still(t) /\ pc' \in [Task -> Positions] /\ loc' \in [Task -> Locals]
  BY <1>1, <1>2, <1>8, Moves DEF Positions
<1>13. Types'
  BY <1>1, <1>2, <1>9, <1>10, <1>11, <1>12 DEF Types
<1>14. Job(t)' = "try"
  BY <1>12 DEF Job
<1>15. loc[t].victim = 0 /\ loc[t].arg = 0 /\ loc[t].child = NULL /\ loc[t].acc # "read" /\ loc[t].why = "cow" /\ ~loc[t].copied
  BY <1>1 DEF Place, Callers
<1>16. Place(t)'
  BY <1>1, <1>2, <1>8, <1>12, <1>14, <1>15 DEF Place, Callers, Reads, Rests, InKernel
<1>17. TablesOf(t)'
  BY <1>1, <1>3, <1>7, <1>8, <1>9, <1>12, <1>14, <1>15 DEF TablesOf
<1>18. Counted'
  <2>1. /\ \A x \in Task, w \in Page : x # t \/ w # v => FrameOf(pte'[x][w]) = FrameOf(pte[x][w])
        /\ FrameOf(pte'[t][v]) = p /\ FrameOf(pte[t][v]) = f
    BY <1>3, <1>7, <1>9 DEF FrameOf
  <2>2. \A x, g : Hit(x, g) - Hit(x, g) = 0 /\ Hit(x, g) \in Nat
    BY DEF Hit
  <2>3. \A g \in Frame : mem_map'[g] = mem_map[g]
                  + (Hit(dir'[t][v], g) - Hit(dir[t][v], g))
                  + (Hit(FrameOf(pte'[t][v]), g) - Hit(FrameOf(pte[t][v]), g))
                  + (Hit(loc'[t].page, g) - Hit(loc[t].page, g))
                  + (Hit(loc'[t].victim, g) - Hit(loc[t].victim, g))
                  + (Hit(loc'[t].arg, g) - Hit(loc[t].arg, g))
                  + (Hit(bitmap'.at, g) - Hit(bitmap.at, g))
    <3>1. \A g \in Frame : mem_map'[g] = mem_map[g] + (Hit(p, g) - Hit(f, g)) + (Hit(0, g) - Hit(p, g)) /\ mem_map[g] \in Nat
      BY <1>1, <1>3, <1>11, InFrames DEF Hit, Types
    <3> QED
      BY <1>1, <1>8, <1>12, <1>15, <2>1, <2>2, <3>1 DEF p
  <2>4. \A x \in Task : x # t => /\ loc'[x].page = loc[x].page /\ loc'[x].victim = loc[x].victim
                                 /\ loc'[x].arg = loc[x].arg
    BY <1>12 DEF Still
  <2> QED
    BY <1>1, <1>13, <2>1, <2>3, <2>4, StillCounted DEF MemInv
<1>19. Sole'
  <2>1. mem_map[f] = 1 =>
             /\ \A x \in Task, w \in Page : dir[x][w] # f /\ (x # t \/ w # v => ~Maps(x, w, f))
             /\ \A x \in Task : loc[x].page # f /\ loc[x].victim # f /\ loc[x].arg # f
             /\ bitmap.at # f
    BY <1>1, <1>3, HeldOnce DEF MemInv
  <2>2. /\ \A x \in Task : x # t => loc'[x] = loc[x]
        /\ loc'[t].page = 0 /\ loc'[t].victim = 0 /\ loc'[t].arg = 0
    BY <1>8, <1>12, <1>15 DEF Still
  <2>3. \A g \in Frame : mem_map[g] = 1 /\ g # f => mem_map'[g] = 1
    BY <1>11
  <2>4. \A x \in Task, w \in Page : pte'[x][w].in = "mem" /\ pte'[x][w].w => mem_map'[pte'[x][w].f] = 1
    <3>1. mem_map'[pte'[t][v].f] = 1
      BY <1>3, <1>4, <1>6, <1>7, <1>9, <1>11
    <3>2. \A x \in Task, w \in Page : (x # t \/ w # v) /\ pte[x][w].in = "mem" /\ pte[x][w].w => mem_map'[pte[x][w].f] = 1
      BY <1>1, <2>1, <2>3, InFrames DEF Sole, MemInv, Maps
    <3> QED
      BY <1>9, <3>1, <3>2
  <2> QED
    BY <1>1, <2>1, <2>2, <2>3, <2>4, InFrames DEF Sole, MemInv
<1>20. Swaps'
  <2>1. \A x \in Task, w \in Page : pte'[x][w].in = "swap" <=> pte[x][w].in = "swap"
    BY <1>3, <1>7, <1>9
  <2>2. \A x \in Task, w \in Page : pte[x][w].in = "swap" => pte'[x][w] = pte[x][w]
    BY <1>3, <1>9
  <2> QED
    BY <1>1, <2>1, <2>2, SwapsStay DEF MemInv
<1>21. OnTheWay(t)'
  BY <1>8, <1>12, <1>15 DEF OnTheWay
<1>22. \A w \in Page : w # v /\ pte[t][w].in = "mem" => data'[pte[t][w].f] = data[pte[t][w].f]
  BY <1>1, <1>5, <1>10, InFrames DEF Maps
<1>23. \A w \in Page : Contents(t, w)' = expect'[t][w]
  <2>1. Contents(t, v)' = expect'[t][v]
    <3>1. Contents(t, v) = data[f] /\ Contents(t, v)' = data'[p]
      BY <1>3, <1>7, <1>9 DEF Contents
    <3>2. Contents(t, v) = expect[t][v]
      BY <1>1 DEF MemInv, Intact
    <3> QED
      BY <1>1, <1>10, <3>1, <3>2
  <2>2. ASSUME NEW w \in Page, w # v PROVE Contents(t, w)' = expect'[t][w]
    <3>1. Contents(t, w) = expect[t][w]
      BY <1>1 DEF MemInv, Intact
    <3> QED
      BY <1>1, <1>9, <1>22, <2>2, <3>1 DEF Contents
  <2> QED
    BY <1>1, <2>1, <2>2
<1>24. \A w \in Page : pte'[t][w].in = "mem" /\ ~pte'[t][w].d /\ ~(loc'[t].copied /\ loc'[t].v = w)
                             => data'[pte'[t][w].f] = FileOf(w)
  BY <1>8, <1>9, <1>12, <1>15, <1>22 DEF MemInv, Clean
<1>25. Private(t, p)
  BY <1>5 DEF Private
<1>26. \A u \in Task : u # t => dir'[u] = dir[u] /\ pte'[u] = pte[u] /\ expect'[u] = expect[u]
  BY <1>1, <1>9
<1>27. loc'[t].child = loc[t].child /\ loc[t].child = NULL
  BY <1>8, <1>12, <1>15
<1> QED
  BY <1>1, <1>10, <1>12, <1>13, <1>14, <1>16, <1>17, <1>18, <1>19, <1>20, <1>21, <1>23, <1>24, <1>25, <1>26,
     <1>27, OwnStep

(* A frame a task has in its hands is in nobody else's. *)
LEMMA InHand ==
    ASSUME MemInv, NEW t \in Task, loc[t].page # 0
    PROVE  /\ loc[t].page \in Frame /\ mem_map[loc[t].page] = 1
           /\ \A x \in Task, w \in Page : dir[x][w] # loc[t].page /\ ~Maps(x, w, loc[t].page)
           /\ \A x \in Task : /\ x # t => loc[x].page # loc[t].page
                              /\ loc[x].arg # loc[t].page /\ loc[x].victim # loc[t].page
           /\ bitmap.at # loc[t].page
           /\ Private(t, loc[t].page)
<1> DEFINE p == loc[t].page
<1>1. p \in Frame /\ mem_map[p] = 1 /\ Types /\ Counted
  BY Standing, InFrames DEF MemInv, Sole
<1>2. /\ \A x \in Task, w \in Page : dir[x][w] # p /\ ~Maps(x, w, p)
      /\ \A x \in Task : (x # t => loc[x].page # p) /\ loc[x].arg # p /\ loc[x].victim # p
      /\ bitmap.at # p
  BY <1>1, HeldOnce
<1>3. Private(t, p)
  BY <1>2 DEF Private
<1> QED
  BY <1>1, <1>2, <1>3

(* do_no_page enters a new table. *)
LEMMA NewTableInv ==
    ASSUME MemInv, NEW t \in Task, NewTable(t)
    PROVE  MemInv'
<1>0. PICK v \in Page : loc[t].v = v
  BY Standing
<1> DEFINE p == loc[t].page
           m == [loc[t] EXCEPT !.page = 0]
           l == IF v = 1 THEN m ELSE [m EXCEPT !.why = "anon"]
           q == IF v = 1 THEN "share" ELSE "get"
<1>1. /\ Types /\ Place(t) /\ TablesOf(t) /\ loc[t] \in Locals /\ pc[t] = "table" /\ cpu = t /\ Job(t) = "table" /\ p # 0
      /\ UNCHANGED <<pte, mem_map, data, bitmap, sdata, expect, halted>>
      /\ dir' = [dir EXCEPT ![t][v] = p]
  BY <1>0, Standing DEF NewTable, Job
<1>2. loc' = [loc EXCEPT ![t] = l] /\ pc' = [pc EXCEPT ![t] = q] /\ cpu' = t
  BY <1>0 DEF NewTable, Need, Goto
<1>3. /\ m \in Locals /\ m.page = 0 /\ m.v = v /\ m.acc = loc[t].acc /\ m.why = loc[t].why /\ m.old = loc[t].old
      /\ m.victim = loc[t].victim /\ m.arg = loc[t].arg /\ m.child = loc[t].child /\ (m.copied <=> loc[t].copied)
  BY <1>0, <1>1, MemAssumption DEF Locals
<1> HIDE DEF m
<1>4. /\ l \in Locals /\ l.page = 0 /\ l.v = v /\ l.acc = loc[t].acc /\ l.why = (IF v = 1 THEN loc[t].why ELSE "anon")
      /\ l.old = loc[t].old
      /\ l.victim = loc[t].victim /\ l.arg = loc[t].arg /\ l.child = loc[t].child /\ (l.copied <=> loc[t].copied)
  BY <1>3 DEF Locals, Callers
<1>5. q \in Positions
  BY DEF Positions, InKernel
<1>6. /\ p \in Frame /\ mem_map[p] = 1 /\ Private(t, p)
      /\ \A x \in Task, w \in Page : dir[x][w] # p /\ ~Maps(x, w, p)
  BY <1>1, InHand
<1> HIDE DEF p, l, q
<1>7. /\ pc'[t] = q /\ loc'[t] = l /\ Still(t) /\ pc' \in [Task -> Positions] /\ loc' \in [Task -> Locals]
  BY <1>1, <1>2, <1>4, <1>5, Moves
<1>8. /\ dir'[t][v] = p /\ (\A x \in Task, w \in Page : x # t \/ w # v => dir'[x][w] = dir[x][w])
      /\ dir' \in [Task -> [Page -> 0..NFrame]] /\ (\A x \in Task : x # t => dir'[x] = dir[x])
  BY <1>1, <1>6 DEF Types, Frame
<1>9. Types'
  BY <1>1, <1>2, <1>7, <1>8 DEF Types
<1>10. Job(t)' = (IF v = 1 THEN "share" ELSE "anon")
  BY <1>4, <1>7 DEF Job, q
<1>11. loc[t].victim = 0 /\ loc[t].arg = 0 /\ loc[t].child = NULL /\ loc[t].why = "table" /\ ~loc[t].copied
  BY <1>1 DEF Place, Callers
<1>12. Place(t)'
  BY <1>1, <1>2, <1>4, <1>7, <1>10, <1>11 DEF Place, Callers, Reads, Rests, InKernel, q
<1>13. pte[t][v] = None /\ p # 0 /\ (v = 1 \/ v = 2)
  BY <1>0, <1>1 DEF TablesOf, Page
<1>14. TablesOf(t)'
  BY <1>1, <1>4, <1>7, <1>8, <1>10, <1>11, <1>13 DEF TablesOf, q
<1>15. Counted'
  <2>1. \A x \in Task, w \in Page : FrameOf(pte'[x][w]) = FrameOf(pte[x][w])
    BY <1>1
  <2>2. \A x, g : Hit(x, g) - Hit(x, g) = 0 /\ Hit(x, g) \in Nat
    BY DEF Hit
  <2>3. \A g \in Frame : mem_map'[g] = mem_map[g]
                  + (Hit(dir'[t][v], g) - Hit(dir[t][v], g))
                  + (Hit(FrameOf(pte'[t][v]), g) - Hit(FrameOf(pte[t][v]), g))
                  + (Hit(loc'[t].page, g) - Hit(loc[t].page, g))
                  + (Hit(loc'[t].victim, g) - Hit(loc[t].victim, g))
                  + (Hit(loc'[t].arg, g) - Hit(loc[t].arg, g))
                  + (Hit(bitmap'.at, g) - Hit(bitmap.at, g))
    <3>1. \A g \in Frame : mem_map'[g] = mem_map[g] + (Hit(p, g) - Hit(0, g)) + (Hit(0, g) - Hit(p, g)) /\ mem_map[g] \in Nat
      BY <1>1, <2>2 DEF Types
    <3>2. dir[t][v] = 0
      BY <1>0, <1>1 DEF TablesOf
    <3> QED
      BY <1>1, <1>4, <1>7, <1>8, <1>11, <2>1, <2>2, <3>1, <3>2 DEF p
  <2>4. \A x \in Task : x # t => /\ loc'[x].page = loc[x].page /\ loc'[x].victim = loc[x].victim
                                 /\ loc'[x].arg = loc[x].arg
    BY <1>7 DEF Still
  <2> QED
    BY <1>1, <1>8, <1>9, <2>1, <2>3, <2>4, StillCounted DEF MemInv
<1>16. Sole'
  <2>1. /\ \A x \in Task : x # t => loc'[x] = loc[x]
        /\ loc'[t].page = 0 /\ loc'[t].victim = 0 /\ loc'[t].arg = 0
    BY <1>4, <1>7, <1>11 DEF Still
  <2>2. \A x \in Task, w \in Page : dir'[x][w] # 0 => mem_map[dir'[x][w]] = 1
    BY <1>6, <1>8 DEF Sole, MemInv
  <2> QED
    BY <1>1, <2>1, <2>2 DEF Sole, MemInv
<1>17. Swaps'
  BY <1>1 DEF Swaps, MemInv
<1>18. OnTheWay(t)'
  BY <1>4, <1>7, <1>11 DEF OnTheWay, q
<1>19. \A w \in Page : Contents(t, w)' = expect'[t][w]
  BY <1>1 DEF Contents, MemInv, Intact
<1>20. \A w \in Page : pte'[t][w].in = "mem" /\ ~pte'[t][w].d => data'[pte'[t][w].f] = FileOf(w)
  BY <1>1, <1>11 DEF MemInv, Clean
<1>21. loc'[t].child = loc[t].child /\ loc[t].child = NULL /\ pc'[t] \notin {"dead", "born"}
  BY <1>4, <1>7, <1>11 DEF q
<1>22. \A u \in Task : u # t => dir'[u] = dir[u] /\ pte'[u] = pte[u] /\ expect'[u] = expect[u]
  BY <1>1, <1>8
<1> QED
  BY <1>1, <1>6, <1>7, <1>9, <1>10, <1>12, <1>14, <1>15, <1>16, <1>17, <1>18, <1>19, <1>20, <1>21, <1>22, OwnStep

(* The task sleeps with nothing in its hands. *)
Emptied(t) ==
    /\ pc'[t] = "try" /\ Still(t) /\ pc' \in [Task -> Positions] /\ loc' \in [Task -> Locals]
    /\ loc'[t].page = 0 /\ loc'[t].v = loc[t].v /\ loc'[t].acc = loc[t].acc /\ loc'[t].why = loc[t].why
    /\ loc'[t].victim = loc[t].victim /\ loc'[t].arg = loc[t].arg /\ loc'[t].child = loc[t].child
    /\ loc'[t].copied <=> loc[t].copied

(* put_page of a page with the right contents *)
LEMMA PutPageInv ==
    ASSUME MemInv, NEW t \in Task, NEW v \in Page, cpu \in {t, NULL},
           pc[t] \in {"anon", "imageread", "swapread"}, loc[t].v = v, loc[t].page # 0,
           pte[t][v].in # "mem", dir[t][v] # 0,
           pte'[t][v] \in Entry, pte'[t][v].in = "mem", pte'[t][v].f = loc[t].page,
           \A x \in Task, w \in Page : x # t \/ w # v => pte'[x][w] = pte[x][w],
           pte' \in [Task -> [Page -> Entry]], \A x \in Task : x # t => pte'[x] = pte[x],
           Emptied(t), cpu' = NULL,
           UNCHANGED <<dir, mem_map, data, sdata, expect, halted>>, bitmap'.at = bitmap.at,
           bitmap' \in [at : 0..NFrame, free : SUBSET Slot], Swaps',
           data[loc[t].page] = expect[t][v], ~pte'[t][v].d => data[loc[t].page] = FileOf(v)
    PROVE  MemInv'
<1> DEFINE p == loc[t].page
<1>1. /\ Types /\ Place(t) /\ TablesOf(t) /\ loc[t] \in Locals /\ Job(t) = pc[t]
  BY Standing DEF Job
<1>2. /\ p \in Frame /\ mem_map[p] = 1 /\ Private(t, p)
      /\ \A x \in Task, w \in Page : dir[x][w] # p /\ ~Maps(x, w, p)
  BY InHand
<1> HIDE DEF p
<1>3. /\ pc'[t] = "try" /\ Still(t) /\ pc' \in [Task -> Positions] /\ loc' \in [Task -> Locals]
      /\ loc'[t].page = 0 /\ loc'[t].v = v /\ loc'[t].acc = loc[t].acc /\ loc'[t].why = loc[t].why
      /\ loc'[t].victim = loc[t].victim /\ loc'[t].arg = loc[t].arg /\ loc'[t].child = loc[t].child
      /\ loc'[t].copied <=> loc[t].copied
  BY DEF Emptied
<1>7. Types'
  BY <1>1, <1>3 DEF Types
<1>8. Job(t)' = "try"
  BY <1>3 DEF Job
<1>9. /\ loc[t].victim = 0 /\ loc[t].arg = 0 /\ loc[t].child = NULL /\ loc[t].why # "bitmap" /\ ~loc[t].copied
  BY <1>1 DEF Place, Callers
<1>10. Place(t)'
  BY <1>1, <1>3, <1>8, <1>9 DEF Place, Callers, Reads, Rests, InKernel
<1>11. TablesOf(t)'
  BY <1>1, <1>3, <1>8, <1>9 DEF TablesOf
<1>12. Counted'
  <2>1. /\ \A x \in Task, w \in Page : x # t \/ w # v => FrameOf(pte'[x][w]) = FrameOf(pte[x][w])
        /\ FrameOf(pte'[t][v]) = p /\ FrameOf(pte[t][v]) = 0
    BY DEF FrameOf, p
  <2>2. \A x, g : Hit(x, g) - Hit(x, g) = 0 /\ Hit(x, g) \in Nat
    BY DEF Hit
  <2>3. \A g \in Frame : mem_map'[g] = mem_map[g]
                  + (Hit(dir'[t][v], g) - Hit(dir[t][v], g))
                  + (Hit(FrameOf(pte'[t][v]), g) - Hit(FrameOf(pte[t][v]), g))
                  + (Hit(loc'[t].page, g) - Hit(loc[t].page, g))
                  + (Hit(loc'[t].victim, g) - Hit(loc[t].victim, g))
                  + (Hit(loc'[t].arg, g) - Hit(loc[t].arg, g))
                  + (Hit(bitmap'.at, g) - Hit(bitmap.at, g))
    <3>1. \A g \in Frame : mem_map'[g] = mem_map[g] + (Hit(p, g) - Hit(0, g)) + (Hit(0, g) - Hit(p, g)) /\ mem_map[g] \in Nat
      BY <1>1, <2>2 DEF Types
    <3> QED
      BY <1>3, <1>9, <2>1, <2>2, <3>1 DEF p
  <2>4. \A x \in Task : x # t => /\ loc'[x].page = loc[x].page /\ loc'[x].victim = loc[x].victim
                                 /\ loc'[x].arg = loc[x].arg
    BY <1>3 DEF Still
  <2> QED
    BY <1>1, <1>7, <2>1, <2>3, <2>4, StillCounted, SMTT(30) DEF MemInv
<1>13. Sole'
  <2>1. /\ \A x \in Task : x # t => loc'[x] = loc[x]
        /\ loc'[t].page = 0 /\ loc'[t].victim = 0 /\ loc'[t].arg = 0
    BY <1>3, <1>9 DEF Still
  <2>2. \A x \in Task, w \in Page : pte'[x][w].in = "mem" /\ pte'[x][w].w => mem_map[pte'[x][w].f] = 1
    BY <1>2 DEF Sole, MemInv, p
  <2> QED
    BY <2>1, <2>2 DEF Sole, MemInv
<1>14. OnTheWay(t)'
  BY <1>3, <1>9 DEF OnTheWay
<1>15. \A w \in Page : Contents(t, w)' = expect'[t][w]
  <2>1. Contents(t, v)' = expect'[t][v]
    BY DEF Contents
  <2>2. \A w \in Page : w # v => Contents(t, w)' = expect'[t][w]
    BY DEF Contents, MemInv, Intact
  <2> QED
    BY <2>1, <2>2
<1>16. \A w \in Page : pte'[t][w].in = "mem" /\ ~pte'[t][w].d => data'[pte'[t][w].f] = FileOf(w)
  BY <1>9 DEF MemInv, Clean, p
<1>17. loc'[t].child = loc[t].child /\ loc[t].child = NULL
  BY <1>3, <1>9
<1>18. \A u \in Task : u # t => dir'[u] = dir[u] /\ pte'[u] = pte[u] /\ expect'[u] = expect[u]
  OBVIOUS
<1> QED
  BY <1>1, <1>2, <1>3, <1>7, <1>8, <1>10, <1>11, <1>12, <1>13, <1>14, <1>15, <1>16, <1>17, <1>18, OwnStep

(* What put_page changes *)
LEMMA PutFacts ==
    ASSUME MemInv, NEW t \in Task, NEW v \in Page, NEW dirty \in BOOLEAN, loc[t].v = v, loc[t].page # 0, PutPage(t, dirty)
    PROVE  /\ pte'[t][v] \in Entry /\ pte'[t][v].in = "mem" /\ pte'[t][v].f = loc[t].page /\ (pte'[t][v].d <=> dirty)
           /\ \A x \in Task, w \in Page : x # t \/ w # v => pte'[x][w] = pte[x][w]
           /\ pte' \in [Task -> [Page -> Entry]] /\ (\A x \in Task : x # t => pte'[x] = pte[x])
           /\ Emptied(t) /\ cpu' = NULL
<1> DEFINE p == loc[t].page
           e == Mem(p, TRUE, dirty)
<1>1. Types /\ p \in Frame
  BY InHand DEF MemInv
<1>2. pte' = [pte EXCEPT ![t][v] = e] /\ loc' = [loc EXCEPT ![t].page = 0] /\ pc' = [pc EXCEPT ![t] = "try"] /\ cpu' = NULL
  BY DEF PutPage, Sleep
<1> HIDE DEF p
<1>3. e \in Entry /\ e.in = "mem" /\ e.f = p
  <2>1. \A g \in Frame : Mem(g, TRUE, dirty) \in Entry
    <3>1. \A g \in Frame : Mem(g, TRUE, TRUE) \in Entry /\ Mem(g, TRUE, FALSE) \in Entry
      BY Entries
    <3>2. dirty = TRUE \/ dirty = FALSE
      OBVIOUS
    <3> QED
      BY <3>1, <3>2, Zenon
  <2>2. Mem(p, TRUE, dirty).in = "mem" /\ Mem(p, TRUE, dirty).f = p
    BY DEF Mem
  <2> QED
    BY <1>1, <2>1, <2>2
<1>4. e.d <=> dirty
  BY DEF Mem
<1> HIDE DEF e
<1>5. pte'[t][v] = e /\ (\A x \in Task, w \in Page : x # t \/ w # v => pte'[x][w] = pte[x][w])
  BY <1>1, <1>2, <1>3 DEF Types
<1>6. pte' \in [Task -> [Page -> Entry]] /\ (\A x \in Task : x # t => pte'[x] = pte[x])
  BY <1>1, <1>2, <1>3 DEF Types
<1>7. Emptied(t)
  <2>1. loc[t] \in Locals /\ 0 \in 0..NFrame
    BY Standing, MemAssumption
  <2>2. [loc[t] EXCEPT !.page = 0] \in Locals
    BY <2>1 DEF Locals
  <2>3. loc' = [loc EXCEPT ![t] = [loc[t] EXCEPT !.page = 0]]
    BY <1>2
  <2>4. /\ pc'[t] = "try" /\ Still(t) /\ pc' \in [Task -> Positions] /\ loc' \in [Task -> Locals]
        /\ loc'[t] = [loc[t] EXCEPT !.page = 0]
    BY <1>1, <1>2, <2>2, <2>3 DEF Positions, Still, Types
  <2> QED
    BY <2>1, <2>4 DEF Emptied, Locals
<1> QED
  BY <1>2, <1>3, <1>4, <1>5, <1>6, <1>7 DEF p

(* get_empty_page enters a page of zeros. *)
LEMMA GetEmptyPageInv ==
    ASSUME MemInv, NEW t \in Task, GetEmptyPage(t)
    PROVE  MemInv'
<1>0. PICK v \in Page : loc[t].v = v
  BY Standing
<1>1. /\ Types /\ Place(t) /\ TablesOf(t) /\ OnTheWay(t) /\ cpu = t /\ pc[t] = "anon" /\ Job(t) = "anon"
      /\ loc[t].page # 0 /\ PutPage(t, FALSE)
      /\ UNCHANGED <<dir, mem_map, data, bitmap, sdata, expect, halted>>
  BY Standing DEF GetEmptyPage, Job
<1>2. v = 2 /\ dir[t][v] # 0 /\ pte[t][v] = None
  BY <1>0, <1>1 DEF TablesOf
<1>3. data[loc[t].page] = FileOf(v)
  BY <1>1, <1>2 DEF OnTheWay, FileOf
<1>4. expect[t][v] = FileOf(v)
  BY <1>1, <1>2, Entries DEF MemInv, Intact, Contents
<1>5. /\ pte'[t][v] \in Entry /\ pte'[t][v].in = "mem" /\ pte'[t][v].f = loc[t].page
      /\ \A x \in Task, w \in Page : x # t \/ w # v => pte'[x][w] = pte[x][w]
      /\ pte' \in [Task -> [Page -> Entry]] /\ (\A x \in Task : x # t => pte'[x] = pte[x])
      /\ Emptied(t) /\ cpu' = NULL
  BY <1>0, <1>1, <1>2, PutFacts
<1>6. pte[t][v].in = "none"
  BY <1>2, Entries
<1>7. Swaps' /\ bitmap' \in [at : 0..NFrame, free : SUBSET Slot]
  <2>1. /\ \A x \in Task, w \in Page : pte'[x][w].in = "swap" <=> pte[x][w].in = "swap"
        /\ \A x \in Task, w \in Page : pte[x][w].in = "swap" => pte'[x][w] = pte[x][w]
    BY <1>5, <1>6
  <2> QED
    BY <1>1, <2>1, SwapsStay DEF MemInv, Types
<1> QED
  BY <1>0, <1>1, <1>2, <1>3, <1>4, <1>5, <1>6, <1>7, PutPageInv

(* do_no_page enters the page it has read. *)
LEMMA ImageReadInv ==
    ASSUME MemInv, NEW t \in Task, ImageRead(t)
    PROVE  MemInv'
<1>0. PICK v \in Page : loc[t].v = v
  BY Standing
<1>1. /\ Types /\ Place(t) /\ TablesOf(t) /\ OnTheWay(t) /\ cpu = NULL /\ pc[t] = "imageread" /\ Job(t) = "imageread"
      /\ PutPage(t, FALSE)
      /\ UNCHANGED <<dir, mem_map, data, bitmap, sdata, expect, halted>>
  BY Standing DEF ImageRead, Job, Resume
<1>2. v = 1 /\ dir[t][v] # 0 /\ pte[t][v] = None /\ loc[t].page # 0
  BY <1>0, <1>1 DEF TablesOf, Place, Reads
<1>3. data[loc[t].page] = FileOf(v)
  BY <1>1, <1>2 DEF OnTheWay, FileOf
<1>4. expect[t][v] = FileOf(v)
  BY <1>1, <1>2, Entries DEF MemInv, Intact, Contents
<1>5. /\ pte'[t][v] \in Entry /\ pte'[t][v].in = "mem" /\ pte'[t][v].f = loc[t].page
      /\ \A x \in Task, w \in Page : x # t \/ w # v => pte'[x][w] = pte[x][w]
      /\ pte' \in [Task -> [Page -> Entry]] /\ (\A x \in Task : x # t => pte'[x] = pte[x])
      /\ Emptied(t) /\ cpu' = NULL
  BY <1>0, <1>1, <1>2, PutFacts
<1>6. pte[t][v].in = "none"
  BY <1>2, Entries
<1>7. Swaps' /\ bitmap' \in [at : 0..NFrame, free : SUBSET Slot]
  <2>1. /\ \A x \in Task, w \in Page : pte'[x][w].in = "swap" <=> pte[x][w].in = "swap"
        /\ \A x \in Task, w \in Page : pte[x][w].in = "swap" => pte'[x][w] = pte[x][w]
    BY <1>5, <1>6
  <2> QED
    BY <1>1, <2>1, SwapsStay DEF MemInv, Types
<1> QED
  BY <1>0, <1>1, <1>2, <1>3, <1>4, <1>5, <1>6, <1>7, PutPageInv

(* The end of swap_in: the only entry of the swap page goes. *)
LEMMA SwapReadInv ==
    ASSUME MemInv, NEW t \in Task, SwapRead(t)
    PROVE  MemInv'
<1>0. PICK v \in Page : loc[t].v = v
  BY Standing
<1> DEFINE s == pte[t][v].s
<1>1. /\ Types /\ Place(t) /\ TablesOf(t) /\ OnTheWay(t) /\ cpu = NULL /\ pc[t] = "swapread" /\ Job(t) = "swapread"
      /\ PutPage(t, TRUE) /\ bitmap' = [bitmap EXCEPT !.free = @ \cup {s}]
      /\ UNCHANGED <<dir, mem_map, data, sdata, expect, halted>>
  BY <1>0, Standing DEF SwapRead, Job, Resume
<1>2. pte[t][v].in = "swap" /\ loc[t].page # 0
  BY <1>0, <1>1 DEF TablesOf, Place, Reads
<1>3. s \in Slot /\ pte[t][v] = Swapped(s) /\ dir[t][v] # 0
  BY <1>1, <1>2, EntryKinds, Standing, Entries DEF TablesOf
<1>4. data[loc[t].page] = expect[t][v]
  <2>1. data[loc[t].page] = sdata[s]
    BY <1>0, <1>1 DEF OnTheWay
  <2>2. Contents(t, v) = expect[t][v]
    BY <1>1 DEF MemInv, Intact
  <2> QED
    BY <1>2, <2>1, <2>2 DEF Contents
<1>5. /\ pte'[t][v] \in Entry /\ pte'[t][v].in = "mem" /\ pte'[t][v].f = loc[t].page /\ pte'[t][v].d
      /\ \A x \in Task, w \in Page : x # t \/ w # v => pte'[x][w] = pte[x][w]
      /\ pte' \in [Task -> [Page -> Entry]] /\ (\A x \in Task : x # t => pte'[x] = pte[x])
      /\ Emptied(t) /\ cpu' = NULL
  BY <1>0, <1>1, <1>2, PutFacts
<1> HIDE DEF s
<1>6. bitmap'.at = bitmap.at /\ bitmap'.free = bitmap.free \cup {s} /\ bitmap' \in [at : 0..NFrame, free : SUBSET Slot]
  BY <1>1, <1>3 DEF Types
<1>7. Swaps'
  <2>1. bitmap.at # 0
    BY <1>2 DEF Swaps, MemInv
  <2>2. \A x \in Task, w \in Page : pte[x][w] = Swapped(s) => x = t /\ w = v
    BY <1>2, <1>3 DEF Swaps, MemInv
  <2>3. \A x \in Task, w \in Page : pte'[x][w].in = "swap" => pte'[x][w] = pte[x][w] /\ (x # t \/ w # v)
    BY <1>5
  <2>4. \A x \in Task, w \in Page : pte'[x][w] # Swapped(s)
    BY <1>3, <2>2, <2>3, Entries
  <2>5. \A r \in Slot : /\ r \in bitmap'.free => \A x \in Task, w \in Page : pte'[x][w] # Swapped(r)
                        /\ r \notin bitmap'.free => \E x \in Task, w \in Page : pte'[x][w] = Swapped(r)
    <3> SUFFICES ASSUME NEW r \in Slot
                 PROVE  /\ r \in bitmap'.free => \A x \in Task, w \in Page : pte'[x][w] # Swapped(r)
                        /\ r \notin bitmap'.free => \E x \in Task, w \in Page : pte'[x][w] = Swapped(r)
      OBVIOUS
    <3>1. r # s => \A x \in Task, w \in Page : pte'[x][w] = Swapped(r) <=> pte[x][w] = Swapped(r)
      BY <1>3, <1>5, <2>3, Entries
    <3> QED
      BY <1>6, <2>1, <2>4, <3>1 DEF Swaps, MemInv
  <2> QED
    BY <1>6, <2>1, <2>3, <2>5 DEF Swaps, MemInv
<1> QED
  BY <1>0, <1>1, <1>2, <1>3, <1>4, <1>5, <1>6, <1>7, PutPageInv

-----------------------------------------------------------------------------
(* A transfer fills the page a task has in its hands. *)
LEMMA ReadInv ==
    ASSUME MemInv, NEW t \in Task, NEW STATE q, cpu = t, loc[t].page # 0, loc' = loc, cpu' = NULL,
           <<pc[t], q>> \in {<<"image", "imageread">>, <<"swapin", "swapread">>, <<"copyswap", "copyread">>},
           pc' = [pc EXCEPT ![t] = q],
           NEW STATE x, x \in Value, data' = [data EXCEPT ![loc[t].page] = x],
           q = "imageread" => x = <<"image">>,
           q # "imageread" => x = sdata[pte[t][loc[t].v].s],
           UNCHANGED <<dir, pte, mem_map, bitmap, sdata, expect, halted>>
    PROVE  MemInv'
<1> DEFINE p == loc[t].page
<1>1. Types /\ Place(t) /\ TablesOf(t) /\ loc[t] \in Locals /\ Job(t) = pc[t]
  BY Standing DEF Job
<1>2. /\ p \in Frame /\ Private(t, p)
      /\ \A u \in Task, w \in Page : ~Maps(u, w, p)
  BY InHand
<1>3. data'[p] = x /\ (\A g \in Frame : g # p => data'[g] = data[g]) /\ data' \in [Frame -> Value]
  BY <1>1, <1>2 DEF Types
<1> HIDE DEF p
<1>4. pc'[t] = q /\ Still(t) /\ pc' \in [Task -> Positions]
  BY <1>1 DEF Types, Still, Positions, Reads
<1>5. Types'
  BY <1>1, <1>3, <1>4 DEF Types
<1>6. Job(t)' = q
  BY <1>4 DEF Job
<1>7. Place(t)'
  BY <1>1, <1>4, <1>6 DEF Place, Callers, Reads, Rests, InKernel
<1>8. TablesOf(t)'
  BY <1>1, <1>4, <1>6 DEF TablesOf
<1>9. Counted'
  <2>1. \A g \in Frame : mem_map'[g] = mem_map[g]
                  + (Hit(loc'[t].page, g) - Hit(loc[t].page, g))
                  + (Hit(loc'[t].victim, g) - Hit(loc[t].victim, g))
                  + (Hit(loc'[t].arg, g) - Hit(loc[t].arg, g))
    BY <1>1 DEF Hit, Types
  <2> QED
    BY <1>1, <1>4, <1>5, <2>1, LocalsCounted DEF MemInv
<1>10. Sole'
  BY DEF Sole, MemInv
<1>11. Swaps'
  BY DEF Swaps, MemInv
<1>12. loc[t].arg = 0
  BY <1>1 DEF Place
<1>13. OnTheWay(t)'
  BY <1>3, <1>4, <1>12 DEF OnTheWay, p
<1>14. \A w \in Page : pte[t][w].in = "mem" => data'[pte[t][w].f] = data[pte[t][w].f]
  BY <1>1, <1>2, <1>3, InFrames DEF Maps
<1>15. \A w \in Page : Contents(t, w)' = expect'[t][w]
  BY <1>14 DEF Contents, MemInv, Intact
<1>16. \A w \in Page : pte'[t][w].in = "mem" /\ ~pte'[t][w].d /\ ~(loc'[t].copied /\ loc'[t].v = w)
                             => data'[pte'[t][w].f] = FileOf(w)
  BY <1>14 DEF MemInv, Clean
<1>17. pc[t] \notin {"dead", "born"} /\ pc'[t] \notin {"dead", "born"} /\ Job(t)' \notin {"bitmap", "argtable"}
  BY <1>4, <1>6
<1> QED
  BY <1>2, <1>3, <1>4, <1>5, <1>7, <1>8, <1>9, <1>10, <1>11, <1>13, <1>15, <1>16, <1>17, OwnStep

(* bread_page reads a page of the executable. *)
LEMMA BreadPageInv ==
    ASSUME MemInv, NEW t \in Task, BreadPage(t)
    PROVE  MemInv'
<1>1. <<"image">> \in Value
  BY DEF Value
<1> QED
  BY <1>1, ReadInv DEF BreadPage, Sleep

(* swap_in, or the copy of a table, reads a page back. *)
LEMMA SwapInInv ==
    ASSUME MemInv, NEW t \in Task, SwapIn(t) \/ ReadSwapped(t)
    PROVE  MemInv'
<1>1. Types /\ TablesOf(t) /\ pte[t][loc[t].v] \in Entry /\ pc[t] \in {"swapin", "copyswap"}
  BY Standing DEF SwapIn, ReadSwapped
<1>2. pte[t][loc[t].v].in = "swap"
  BY <1>1 DEF TablesOf, Job
<1>3. sdata[pte[t][loc[t].v].s] \in Value
  BY <1>1, <1>2, EntryKinds DEF Types
<1>4. CASE SwapIn(t)
  <2> DEFINE q == "swapread"
             x == sdata[pte[t][loc[t].v].s]
  <2>1. /\ cpu = t /\ loc[t].page # 0 /\ loc' = loc /\ cpu' = NULL
        /\ pc' = [pc EXCEPT ![t] = q]
        /\ data' = [data EXCEPT ![loc[t].page] = x]
        /\ UNCHANGED <<dir, pte, mem_map, bitmap, sdata, expect, halted>>
    BY <1>4 DEF SwapIn, Sleep
  <2>2. <<pc[t], q>> \in {<<"image", "imageread">>, <<"swapin", "swapread">>, <<"copyswap", "copyread">>}
    BY <1>4 DEF SwapIn
  <2>3. x \in Value /\ (q = "imageread" => x = <<"image">>) /\ (q # "imageread" => x = sdata[pte[t][loc[t].v].s])
    BY <1>3
  <2> HIDE DEF q, x
  <2> QED
    BY <2>1, <2>2, <2>3, ReadInv
<1>5. CASE ReadSwapped(t)
  <2> DEFINE q == "copyread"
             x == sdata[pte[t][loc[t].v].s]
  <2>1. /\ cpu = t /\ loc[t].page # 0 /\ loc' = loc /\ cpu' = NULL
        /\ pc' = [pc EXCEPT ![t] = q]
        /\ data' = [data EXCEPT ![loc[t].page] = x]
        /\ UNCHANGED <<dir, pte, mem_map, bitmap, sdata, expect, halted>>
    BY <1>5 DEF ReadSwapped, Sleep
  <2>2. <<pc[t], q>> \in {<<"image", "imageread">>, <<"swapin", "swapread">>, <<"copyswap", "copyread">>}
    BY <1>5 DEF ReadSwapped
  <2>3. x \in Value /\ (q = "imageread" => x = <<"image">>) /\ (q # "imageread" => x = sdata[pte[t][loc[t].v].s])
    BY <1>3
  <2> HIDE DEF q, x
  <2> QED
    BY <2>1, <2>2, <2>3, ReadInv
<1> QED
  BY <1>4, <1>5

(* share_page *)
LEMMA SharePageInv ==
    ASSUME MemInv, StopAtRaces, NEW t \in Task, NEW p \in Task, SharePage(t, p), ~halted'
    PROVE  MemInv'
<1> DEFINE f == pte[p][1].f
           e == Mem(f, FALSE, FALSE)
           x == Mem(f, FALSE, pte[p][1].d)
<1>0. 1 \in Page
  BY DEF Page
<1>1. /\ Types /\ Place(t) /\ TablesOf(t) /\ loc[t] \in Locals /\ pc[t] = "share" /\ cpu = t /\ Job(t) = "share"
      /\ UNCHANGED <<loc, dir, data, bitmap, sdata, expect>>
      /\ mem_map' = [mem_map EXCEPT ![f] = @ + 1]
      /\ ~(loc[p].copied /\ loc[p].v = 1) /\ halted' = FALSE
      /\ pc' = [pc EXCEPT ![t] = "try"] /\ cpu' = NULL
  BY Standing DEF SharePage, Job, Sleep
<1>2. p # t /\ pte[p][1].in = "mem" /\ ~pte[p][1].d /\ Maps(p, 1, f) /\ pte[p][1] \in Entry
  BY <1>0, Standing DEF SharePage, Sharers, Present, Maps
<1>3. f \in Frame /\ mem_map[f] \in Nat /\ mem_map[f] >= 1
  BY <1>0, <1>1, <1>2, InFrames, HolderCounts DEF MemInv, Types
<1>4. x \in Entry /\ x.in = "mem" /\ x.f = f /\ ~x.w /\ ~x.d /\ e \in Entry /\ e.in = "mem" /\ e.f = f /\ ~e.w /\ ~e.d
  <2>1. x = e
    BY <1>2, EntryKinds
  <2>2. e \in Entry /\ e.in = "mem" /\ e.f = f
    BY <1>3, Entries
  <2> QED
    BY <2>1, <2>2 DEF Mem
<1>5. pte' = [pte EXCEPT ![p][1] = x, ![t][1] = e]
  BY <1>2, EntryChange DEF SharePage
<1> HIDE DEF f, e, x
<1>6. /\ pte'[t][1] = e /\ pte'[p][1] = x /\ pte' \in [Task -> [Page -> Entry]]
      /\ \A u \in Task, w \in Page : (u # t \/ w # 1) /\ (u # p \/ w # 1) => pte'[u][w] = pte[u][w]
  BY <1>0, <1>1, <1>2, <1>4, <1>5 DEF Types
<1>7. mem_map'[f] = mem_map[f] + 1 /\ (\A g \in Frame : g # f => mem_map'[g] = mem_map[g]) /\ mem_map' \in [Frame -> Nat]
  BY <1>1, <1>3 DEF Types
<1>8. pc'[t] = "try" /\ Still(t) /\ pc' \in [Task -> Positions]
  BY <1>1 DEF Types, Still, Positions
<1>9. Types'
  BY <1>1, <1>6, <1>7, <1>8 DEF Types
<1>10. Job(t)' = "try"
  BY <1>8 DEF Job
<1>11. /\ loc[t].page = 0 /\ loc[t].victim = 0 /\ loc[t].arg = 0 /\ loc[t].child = NULL /\ loc[t].why # "bitmap"
       /\ ~loc[t].copied
  BY <1>1 DEF Place, Callers, Reads
<1>12. Place(t)'
  BY <1>1, <1>8, <1>10, <1>11 DEF Place, Callers, Reads, Rests, InKernel
<1>13. loc[t].v = 1 /\ dir[t][1] # 0 /\ pte[t][1] = None /\ pte[t][1].in = "none"
  BY <1>1, Entries DEF TablesOf
<1>14. TablesOf(t)'
  BY <1>1, <1>4, <1>6, <1>8, <1>10, <1>11, <1>13, <1>2 DEF TablesOf
<1>15. \A u \in Task, w \in Page : u # t => Alike(u, w)
  BY <1>1, <1>2, <1>4, <1>6 DEF Alike, MemInv, TablesOf
<1>16. Counted'
  <2>1. /\ \A u \in Task, w \in Page : u # t \/ w # 1 => FrameOf(pte'[u][w]) = FrameOf(pte[u][w])
        /\ FrameOf(pte'[t][1]) = f /\ FrameOf(pte[t][1]) = 0
    BY <1>2, <1>4, <1>6, <1>13 DEF FrameOf, Maps
  <2>2. \A y, g : Hit(y, g) - Hit(y, g) = 0 /\ Hit(y, g) \in Nat
    BY DEF Hit
  <2>3. \A g \in Frame : mem_map'[g] = mem_map[g]
                  + (Hit(dir'[t][1], g) - Hit(dir[t][1], g))
                  + (Hit(FrameOf(pte'[t][1]), g) - Hit(FrameOf(pte[t][1]), g))
                  + (Hit(loc'[t].page, g) - Hit(loc[t].page, g))
                  + (Hit(loc'[t].victim, g) - Hit(loc[t].victim, g))
                  + (Hit(loc'[t].arg, g) - Hit(loc[t].arg, g))
                  + (Hit(bitmap'.at, g) - Hit(bitmap.at, g))
    <3>1. \A g \in Frame : mem_map'[g] = mem_map[g] + (Hit(f, g) - Hit(0, g)) /\ mem_map[g] \in Nat
      BY <1>1, <1>7, InFrames DEF Hit, Types
    <3> QED
      BY <1>1, <2>1, <2>2, <3>1
  <2> QED
    BY <1>0, <1>1, <1>9, <2>1, <2>3, StillCounted DEF MemInv
<1>17. Sole'
  <2>1. mem_map[f] = 1 =>
             /\ \A u \in Task, w \in Page : dir[u][w] # f /\ (u # p \/ w # 1 => ~Maps(u, w, f))
             /\ \A u \in Task : loc[u].page # f /\ loc[u].victim # f /\ loc[u].arg # f
             /\ bitmap.at # f
    BY <1>0, <1>1, <1>2, <1>3, HeldOnce DEF MemInv
  <2>2. \A u \in Task, w \in Page : pte'[u][w].in = "mem" /\ pte'[u][w].w => mem_map'[pte'[u][w].f] = 1
    <3>1. \A u \in Task, w \in Page : pte'[u][w].w => pte'[u][w] = pte[u][w] /\ (u # p \/ w # 1)
      BY <1>4, <1>6
    <3> QED
      BY <1>1, <1>7, <2>1, <3>1, InFrames DEF Sole, MemInv, Maps
  <2> QED
    BY <1>1, <1>7, <2>1, <2>2, InFrames DEF Sole, MemInv
<1>18. \A u \in Task, w \in Page : /\ pte'[u][w].in = "swap" <=> pte[u][w].in = "swap"
                                   /\ pte[u][w].in = "swap" => pte'[u][w] = pte[u][w]
  BY <1>2, <1>4, <1>6, <1>13
<1>19. Swaps'
  BY <1>1, <1>18, SwapsStay DEF MemInv
<1>20. data[f] = FileOf(1)
  BY <1>0, <1>1, <1>2 DEF Clean, MemInv, Maps
<1>21. Clean'
  BY <1>1, <1>2, <1>4, <1>6, <1>20 DEF Clean, MemInv
<1>22. \A u \in Task : OnTheWay(u)'
  <2> SUFFICES ASSUME NEW u \in Task PROVE OnTheWay(u)'
    OBVIOUS
  <2>1. OnTheWay(u) /\ TablesOf(u) /\ loc[u].v \in Page
    BY Standing
  <2>2. pc[u] \in {"swapread", "copyread"} => pte[u][loc[u].v].in = "swap"
    BY <2>1 DEF TablesOf, Job
  <2> QED
    BY <1>1, <1>8, <1>18, <2>1, <2>2 DEF OnTheWay, Still
<1>23. \A u \in Task, w \in Page : Contents(u, w)' = Contents(u, w)
  <2>1. Contents(t, 1)' = Contents(t, 1)
    BY <1>1, <1>4, <1>6, <1>13, <1>20 DEF Contents
  <2>2. Contents(p, 1)' = Contents(p, 1)
    BY <1>1, <1>2, <1>4, <1>6 DEF Contents, Maps
  <2>3. \A u \in Task, w \in Page : (u # t \/ w # 1) /\ (u # p \/ w # 1) => Contents(u, w)' = Contents(u, w)
    BY <1>1, <1>6 DEF Contents
  <2> QED
    BY <2>1, <2>2, <2>3
<1>24. \A w \in Page : Contents(t, w)' = expect'[t][w]
  BY <1>1, <1>23 DEF MemInv, Intact
<1> QED
  BY <1>1, <1>8, <1>9, <1>10, <1>11, <1>12, <1>14, <1>15, <1>16, <1>17, <1>19, <1>21, <1>22, <1>23, <1>24, Step

-----------------------------------------------------------------------------
(* sys_swapon has its page for the bitmap. *)
LEMMA SwapOnDoneInv ==
    ASSUME MemInv, NEW t \in Task, SwapOnDone(t)
    PROVE  MemInv'
<1> DEFINE p == loc[t].page
<1>1. /\ Types /\ Place(t) /\ TablesOf(t) /\ loc[t] \in Locals /\ pc[t] = "bitmap" /\ cpu = t /\ Job(t) = "bitmap"
      /\ UNCHANGED <<dir, pte, mem_map, data, sdata, expect, halted>>
      /\ bitmap' = IF p = 0 THEN bitmap ELSE [at |-> p, free |-> Slot]
      /\ cpu' = NULL /\ pc' = [pc EXCEPT ![t] = "user"] /\ loc' = [loc EXCEPT ![t] = Idle]
  BY Standing DEF SwapOnDone, Job, Sleep
<1>2. /\ pc'[t] = "user" /\ loc'[t] = Idle /\ Still(t) /\ pc' \in [Task -> Positions] /\ loc' \in [Task -> Locals]
      /\ Job(t)' = "user" /\ Place(t)' /\ OnTheWay(t)'
  BY <1>1, Returned
<1>3. loc[t].victim = 0 /\ loc[t].arg = 0 /\ loc[t].child = NULL /\ ~loc[t].copied
  BY <1>1 DEF Place
<1>4. TablesOf(t)'
  BY <1>1, <1>2, IdleType DEF TablesOf
<1>5. CASE p = 0
  <2>1. bitmap' = bitmap
    BY <1>1, <1>5
  <2>2. Types'
    BY <1>1, <1>2, <2>1 DEF Types
  <2> QED
    BY <1>1, <1>2, <1>3, <1>4, <1>5, <2>1, <2>2, IdleType, QuietStep
<1>6. CASE p # 0
  <2>1. p \in Frame /\ mem_map[p] = 1 /\ Private(t, p)
    BY <1>6, InHand
  <2>2. bitmap'.at = p /\ bitmap'.free = Slot /\ bitmap' \in [at : 0..NFrame, free : SUBSET Slot]
    BY <1>1, <1>6, <2>1 DEF Frame
  <2>3. bitmap.at = 0
    BY <1>1 DEF MemInv, Pairs
  <2> HIDE DEF p
  <2>4. Types'
    BY <1>1, <1>2, <2>2 DEF Types
  <2>5. Counted'
    <3>0. 1 \in Page
      BY DEF Page
    <3>1. \A x \in Task, w \in Page : FrameOf(pte'[x][w]) = FrameOf(pte[x][w]) /\ dir'[x][w] = dir[x][w]
      BY <1>1
    <3>2. \A x, g : Hit(x, g) - Hit(x, g) = 0 /\ Hit(x, g) \in Nat
      BY DEF Hit
    <3>3. \A g \in Frame : mem_map'[g] = mem_map[g]
                  + (Hit(dir'[t][1], g) - Hit(dir[t][1], g))
                  + (Hit(FrameOf(pte'[t][1]), g) - Hit(FrameOf(pte[t][1]), g))
                  + (Hit(loc'[t].page, g) - Hit(loc[t].page, g))
                  + (Hit(loc'[t].victim, g) - Hit(loc[t].victim, g))
                  + (Hit(loc'[t].arg, g) - Hit(loc[t].arg, g))
                  + (Hit(bitmap'.at, g) - Hit(bitmap.at, g))
      <4>1. \A g \in Frame : mem_map'[g] = mem_map[g] + (Hit(0, g) - Hit(p, g)) + (Hit(p, g) - Hit(0, g)) /\ mem_map[g] \in Nat
        BY <1>1, <3>2 DEF Types
      <4> QED
        BY <1>2, <1>3, <2>2, <2>3, <3>0, <3>1, <3>2, <4>1, IdleType DEF p
    <3>4. \A x \in Task : x # t => /\ loc'[x].page = loc[x].page /\ loc'[x].victim = loc[x].victim
                                   /\ loc'[x].arg = loc[x].arg
      BY <1>2 DEF Still
    <3> QED
      BY <1>1, <2>4, <3>0, <3>1, <3>3, <3>4, StillCounted DEF MemInv
  <2>6. Sole'
    <3>1. /\ \A x \in Task : x # t => loc'[x] = loc[x]
          /\ loc'[t].page = 0 /\ loc'[t].victim = 0 /\ loc'[t].arg = 0
      BY <1>2, IdleType DEF Still
    <3> QED
      BY <1>1, <2>1, <2>2, <3>1 DEF Sole, MemInv
  <2>7. Swaps'
    <3>1. \A x \in Task, w \in Page : pte'[x][w].in # "swap"
      BY <1>1, <2>3 DEF Swaps, MemInv
    <3> QED
      BY <2>2, <3>1, Entries DEF Swaps
  <2>8. \A w \in Page : Contents(t, w)' = expect'[t][w]
    BY <1>1 DEF Contents, MemInv, Intact
  <2>9. \A w \in Page : pte'[t][w].in = "mem" /\ ~pte'[t][w].d => data'[pte'[t][w].f] = FileOf(w)
    BY <1>1, <1>3 DEF MemInv, Clean
  <2> QED
    BY <1>1, <1>2, <1>3, <1>4, <2>1, <2>4, <2>5, <2>6, <2>7, <2>8, <2>9, IdleType, OwnStep
<1> QED
  BY <1>5, <1>6

-----------------------------------------------------------------------------
(* put_dirty_page *)
LEMMA PutDirtyPageInv ==
    ASSUME MemInv, NEW t \in Task, PutDirtyPage(t)
    PROVE  MemInv'
<1> DEFINE p == loc[t].page
           a == loc[t].arg
           e == Mem(a, TRUE, TRUE)
<1>0. 2 \in Page /\ 1 \in Page
  BY DEF Page
<1>1. /\ Types /\ Place(t) /\ TablesOf(t) /\ OnTheWay(t) /\ loc[t] \in Locals /\ pc[t] = "argtable" /\ cpu = t
      /\ Job(t) = "argtable" /\ p # 0
      /\ UNCHANGED <<mem_map, data, bitmap, sdata, halted>>
      /\ dir' = [dir EXCEPT ![t][2] = p] /\ pte' = [pte EXCEPT ![t][2] = e]
      /\ expect' = [expect EXCEPT ![t][2] = <<t, 2>>]
      /\ cpu' = NULL /\ pc' = [pc EXCEPT ![t] = "user"] /\ loc' = [loc EXCEPT ![t] = Idle]
  BY Standing DEF PutDirtyPage, Job, Sleep
<1>2. /\ pc'[t] = "user" /\ loc'[t] = Idle /\ Still(t) /\ pc' \in [Task -> Positions] /\ loc' \in [Task -> Locals]
      /\ Job(t)' = "user" /\ Place(t)' /\ OnTheWay(t)'
  BY <1>1, Returned
<1>3. loc[t].victim = 0 /\ a # 0 /\ loc[t].child = NULL /\ ~loc[t].copied
  BY <1>1 DEF Place
<1>4. p \in Frame /\ mem_map[p] = 1 /\ Private(t, p)
  BY <1>1, InHand
<1>5. a \in Frame /\ mem_map[a] = 1 /\ data[a] = <<t, 2>>
  BY <1>1, <1>3, InFrames DEF MemInv, Sole, OnTheWay
<1>6. dir[t] = [w \in Page |-> 0] /\ (\A w \in Page : dir[t][w] = 0 /\ pte[t][w] = None /\ pte[t][w].in = "none")
  BY <1>1, Entries DEF TablesOf
<1> HIDE DEF p, a
<1>7. e \in Entry /\ e.in = "mem" /\ e.f = a /\ e.d
  <2>1. e \in Entry /\ e.in = "mem" /\ e.f = a
    BY <1>5, Entries
  <2> QED
    BY <2>1 DEF Mem
<1> HIDE DEF e
<1>8. /\ dir'[t][2] = p /\ (\A x \in Task, w \in Page : x # t \/ w # 2 => dir'[x][w] = dir[x][w])
      /\ dir' \in [Task -> [Page -> 0..NFrame]] /\ (\A x \in Task : x # t => dir'[x] = dir[x])
  BY <1>0, <1>1, <1>4 DEF Types, Frame
<1>9. /\ pte'[t][2] = e /\ (\A x \in Task, w \in Page : x # t \/ w # 2 => pte'[x][w] = pte[x][w])
      /\ pte' \in [Task -> [Page -> Entry]] /\ (\A x \in Task : x # t => pte'[x] = pte[x])
  BY <1>0, <1>1, <1>7 DEF Types
<1>10. /\ expect'[t][2] = <<t, 2>> /\ (\A w \in Page : w # 2 => expect'[t][w] = expect[t][w])
       /\ expect' \in [Task -> [Page -> Value]] /\ (\A x \in Task : x # t => expect'[x] = expect[x])
  <2>1. <<t, 2>> \in Value
    BY <1>0 DEF Value
  <2> QED
    BY <1>0, <1>1, <2>1 DEF Types
<1>11. Types'
  BY <1>1, <1>2, <1>8, <1>9, <1>10 DEF Types
<1>12. TablesOf(t)'
  BY <1>1, <1>2, <1>6, <1>8, <1>9, IdleType DEF TablesOf
<1>13. Counted'
  <2>1. /\ \A x \in Task, w \in Page : x # t \/ w # 2 => FrameOf(pte'[x][w]) = FrameOf(pte[x][w])
        /\ FrameOf(pte'[t][2]) = a /\ FrameOf(pte[t][2]) = 0 /\ dir'[t][2] = p /\ dir[t][2] = 0
    BY <1>0, <1>6, <1>7, <1>8, <1>9 DEF FrameOf
  <2>2. \A x, g : Hit(x, g) - Hit(x, g) = 0 /\ Hit(x, g) \in Nat
    BY DEF Hit
  <2>3. \A g \in Frame : mem_map'[g] = mem_map[g]
                  + (Hit(dir'[t][2], g) - Hit(dir[t][2], g))
                  + (Hit(FrameOf(pte'[t][2]), g) - Hit(FrameOf(pte[t][2]), g))
                  + (Hit(loc'[t].page, g) - Hit(loc[t].page, g))
                  + (Hit(loc'[t].victim, g) - Hit(loc[t].victim, g))
                  + (Hit(loc'[t].arg, g) - Hit(loc[t].arg, g))
                  + (Hit(bitmap'.at, g) - Hit(bitmap.at, g))
    <3>1. \A g \in Frame : /\ mem_map'[g] = mem_map[g] + (Hit(p, g) - Hit(0, g)) + (Hit(a, g) - Hit(0, g))
                                  + (Hit(0, g) - Hit(p, g)) + (Hit(0, g) - Hit(a, g))
                           /\ mem_map[g] \in Nat
      BY <1>1, <2>2 DEF Types
    <3> QED
      BY <1>1, <1>2, <1>3, <2>1, <2>2, <3>1, IdleType DEF p, a
  <2>4. \A x \in Task : x # t => /\ loc'[x].page = loc[x].page /\ loc'[x].victim = loc[x].victim
                                 /\ loc'[x].arg = loc[x].arg
    BY <1>2 DEF Still
  <2>5. Types /\ Counted
    BY DEF MemInv
  <2>6. \A x \in Task, w \in Page : x # t \/ w # 2 => dir'[x][w] = dir[x][w]
    BY <1>8
  <2> QED
    BY <1>0, <1>11, <2>1, <2>3, <2>4, <2>5, <2>6, StillCounted
<1>14. Sole'
  <2>1. /\ \A x \in Task : x # t => loc'[x] = loc[x]
        /\ loc'[t].page = 0 /\ loc'[t].victim = 0 /\ loc'[t].arg = 0
    BY <1>2, IdleType DEF Still
  <2>2. \A x \in Task, w \in Page : pte'[x][w].in = "mem" /\ pte'[x][w].w => mem_map[pte'[x][w].f] = 1
    BY <1>5, <1>7, <1>9 DEF Sole, MemInv
  <2>3. \A x \in Task, w \in Page : dir'[x][w] # 0 => mem_map[dir'[x][w]] = 1
    BY <1>4, <1>8 DEF Sole, MemInv
  <2> QED
    BY <1>1, <2>1, <2>2, <2>3 DEF Sole, MemInv
<1>15. Swaps'
  <2>1. \A u \in Task, w \in Page : /\ pte'[u][w].in = "swap" <=> pte[u][w].in = "swap"
                                    /\ pte[u][w].in = "swap" => pte'[u][w] = pte[u][w]
    BY <1>6, <1>7, <1>9
  <2> QED
    BY <1>1, <2>1, SwapsStay DEF MemInv
<1>16. \A w \in Page : Contents(t, w)' = expect'[t][w]
  <2>1. Contents(t, 2)' = expect'[t][2]
    BY <1>1, <1>5, <1>7, <1>9, <1>10 DEF Contents
  <2>2. \A w \in Page : w # 2 => Contents(t, w)' = expect'[t][w]
    BY <1>1, <1>9, <1>10 DEF Contents, MemInv, Intact
  <2> QED
    BY <2>1, <2>2
<1>17. \A w \in Page : pte'[t][w].in = "mem" /\ ~pte'[t][w].d => data'[pte'[t][w].f] = FileOf(w)
  BY <1>6, <1>7, <1>9
<1>18. \A u \in Task : u # t => dir'[u] = dir[u] /\ pte'[u] = pte[u] /\ expect'[u] = expect[u]
  BY <1>8, <1>9, <1>10
<1> QED
  BY <1>1, <1>2, <1>3, <1>4, <1>11, <1>12, <1>13, <1>14, <1>15, <1>16, <1>17, <1>18, IdleType, OwnStep

-----------------------------------------------------------------------------
(* free_page_tables: what the tables of a task count *)
LEMMA PageCount ==
    ASSUME NEW h, NEW g
    PROVE  Cardinality({w \in Page : h[w] = g}) = Hit(h[1], g) + Hit(h[2], g)
<1> DEFINE S == {w \in Page : h[w] = g}
<1>1. Page = {1, 2}
  BY DEF Page
<1>2. CASE h[1] = g /\ h[2] = g
  <2>1. S = Page
    BY <1>1, <1>2
  <2>2. Cardinality(S) = 2
    BY <2>1, Finite
  <2> QED
    BY <1>2, <2>2 DEF Hit
<1>3. CASE h[1] = g /\ h[2] # g
  <2>1. S = {1}
    BY <1>1, <1>3
  <2>2. Cardinality(S) = 1
    BY <2>1, FS_Singleton
  <2> QED
    BY <1>3, <2>2 DEF Hit
<1>4. CASE h[1] # g /\ h[2] = g
  <2>1. S = {2}
    BY <1>1, <1>4
  <2>2. Cardinality(S) = 1
    BY <2>1, FS_Singleton
  <2> QED
    BY <1>4, <2>2 DEF Hit
<1>5. CASE h[1] # g /\ h[2] # g
  <2>1. S = {}
    BY <1>1, <1>5
  <2>2. Cardinality(S) = 0
    BY <2>1, FS_EmptySet
  <2> QED
    BY <1>5, <2>2 DEF Hit
<1> QED
  BY <1>2, <1>3, <1>4, <1>5

(* What InTables counts, entry by entry *)
LEMMA TablesCount ==
    ASSUME Types, NEW c \in Task, NEW g \in Frame
    PROVE  InTables(g, c) = Hit(dir[c][1], g) + Hit(dir[c][2], g)
                            + Hit(FrameOf(pte[c][1]), g) + Hit(FrameOf(pte[c][2]), g)
<1> DEFINE h == dir[c]
           k == [w \in Page |-> FrameOf(pte[c][w])]
<1>0. 1 \in Page /\ 2 \in Page /\ g # 0
  BY DEF Page, Frame
<1>1. Cardinality({w \in Page : h[w] = g}) = Hit(h[1], g) + Hit(h[2], g)
  BY PageCount
<1>2. {w \in Page : Present(c, w) /\ pte[c][w].f = g} = {w \in Page : k[w] = g}
  BY <1>0 DEF Present, FrameOf
<1>3. Cardinality({w \in Page : Present(c, w) /\ pte[c][w].f = g}) = Cardinality({w \in Page : k[w] = g})
  BY <1>2, Zenon
<1>4. k[1] = FrameOf(pte[c][1]) /\ k[2] = FrameOf(pte[c][2])
  BY <1>0
<1> HIDE DEF h, k
<1>5. Cardinality({w \in Page : k[w] = g}) = Hit(k[1], g) + Hit(k[2], g)
  BY PageCount
<1>6. Cardinality({w \in Page : dir[c][w] = g}) = Hit(dir[c][1], g) + Hit(dir[c][2], g)
  BY <1>1 DEF h
<1>7. InTables(g, c) = Cardinality({w \in Page : dir[c][w] = g})
                       + Cardinality({w \in Page : Present(c, w) /\ pte[c][w].f = g})
  BY DEF InTables
<1>8. \A x, y : Hit(x, y) \in Nat
  BY DEF Hit
<1> QED
  BY <1>3, <1>4, <1>5, <1>6, <1>7, <1>8

(* A task's table of frames is emptied. *)
LEMMA Emptying ==
    ASSUME NEW g, NEW h, NEW c \in Task, NEW f \in Frame, g \in [Task -> [Page -> 0..NFrame]],
           \A u \in Task, w \in Page : h[u][w] = IF u = c THEN 0 ELSE g[u][w]
    PROVE  Count(h, f) = Count(g, f) - Hit(g[c][1], f) - Hit(g[c][2], f)
<1>1. PICK i \in Page : i = 1
  BY DEF Page
<1>2. PICK j \in Page : j = 2
  BY DEF Page
<1> DEFINE m == [g EXCEPT ![c][i] = 0]
<1>3. f # 0 /\ i # j /\ \A w \in Page : w = i \/ w = j
  BY <1>1, <1>2 DEF Page, Frame
<1>4. But(g, m, c, i) /\ m[c][i] = 0
  BY <1>3 DEF But
<1>5. But(m, h, c, j)
  BY <1>3 DEF But
<1>6. h[c][j] = 0 /\ m[c][j] = g[c][j]
  BY <1>3
<1> HIDE DEF m
<1>7. Count(m, f) = Count(g, f) - Hit(g[c][i], f) + Hit(m[c][i], f)
  BY ONLY <1>4, CountChange, c \in Task, i \in Page
<1>8. Count(h, f) = Count(m, f) - Hit(m[c][j], f) + Hit(h[c][j], f)
  BY ONLY <1>5, CountChange, c \in Task, j \in Page
<1>9. Hit(0, f) = 0 /\ \A x : Hit(x, f) \in Nat
  BY <1>3 DEF Hit
<1> QED
  BY <1>1, <1>2, <1>4, <1>7, <1>8, <1>9, <1>6, CountNat

(* The tables of c go; a task may take a frame from one hand to the other. *)
LEMMA FreedCounts ==
    ASSUME Types, Types', Counted, NEW c \in Task, NEW t \in Task,
           \A u \in Task, w \in Page : dir'[u][w] = IF u = c THEN 0 ELSE dir[u][w],
           \A u \in Task, w \in Page : pte'[u][w] = IF u = c THEN None ELSE pte[u][w],
           \A u \in Task : u # t => /\ loc'[u].page = loc[u].page /\ loc'[u].victim = loc[u].victim
                                    /\ loc'[u].arg = loc[u].arg,
           \A g \in Frame : Hit(loc'[t].page, g) + Hit(loc'[t].victim, g) + Hit(loc'[t].arg, g)
                            = Hit(loc[t].page, g) + Hit(loc[t].victim, g) + Hit(loc[t].arg, g),
           bitmap'.at = bitmap.at,
           \A g \in Frame : mem_map'[g] = IF mem_map[g] < InTables(g, c) THEN 0 ELSE mem_map[g] - InTables(g, c)
    PROVE  Counted' /\ \A g \in Frame : mem_map'[g] = mem_map[g] - InTables(g, c)
<1> SUFFICES ASSUME NEW f \in Frame
             PROVE  mem_map'[f] = References(f)' /\ mem_map'[f] = mem_map[f] - InTables(f, c)
  BY DEF Counted
<1> DEFINE D == Count(dir, f)
           D1 == Count(dir', f)
           E == Count(FramesIn(pte), f)
           E1 == Count(FramesIn(pte'), f)
           P == Held(PagesIn(loc), f)
           P1 == Held(PagesIn(loc'), f)
           X == Held(VictimsIn(loc), f)
           X1 == Held(VictimsIn(loc'), f)
           A == Held(ArgsIn(loc), f)
           A1 == Held(ArgsIn(loc'), f)
           B == Hit(bitmap.at, f)
<1>0. 1 \in Page /\ 2 \in Page
  BY DEF Page
<1>1. D1 = D - Hit(dir[c][1], f) - Hit(dir[c][2], f)
  <2> DEFINE g == dir
             h == dir'
  <2>1. g \in [Task -> [Page -> 0..NFrame]] /\ \A u \in Task, w \in Page : h[u][w] = IF u = c THEN 0 ELSE g[u][w]
    BY DEF Types
  <2> HIDE DEF g, h, D, D1, E, E1, P, P1, X, X1, A, A1, B
  <2>2. Count(h, f) = Count(g, f) - Hit(g[c][1], f) - Hit(g[c][2], f)
    BY ONLY <2>1, Emptying, c \in Task, f \in Frame
  <2> QED
    BY <2>2 DEF g, h, D, D1
<1>2. E1 = E - Hit(FrameOf(pte[c][1]), f) - Hit(FrameOf(pte[c][2]), f)
  <2> DEFINE g == FramesIn(pte)
             h == FramesIn(pte')
  <2>1. /\ \A u \in Task, w \in Page : h[u][w] = IF u = c THEN 0 ELSE g[u][w]
        /\ g[c][1] = FrameOf(pte[c][1]) /\ g[c][2] = FrameOf(pte[c][2])
    BY <1>0, Entries DEF FramesIn, FrameOf
  <2>2. g \in [Task -> [Page -> 0..NFrame]]
    BY EntryKinds DEF FramesIn, Types
  <2> HIDE DEF g, h
  <2>3. Count(h, f) = Count(g, f) - Hit(g[c][1], f) - Hit(g[c][2], f)
    BY <2>1, <2>2, Emptying
  <2> QED
    BY <2>1, <2>3 DEF g, h
<1>3. /\ P1 = P - Hit(loc[t].page, f) + Hit(loc'[t].page, f)
      /\ X1 = X - Hit(loc[t].victim, f) + Hit(loc'[t].victim, f)
      /\ A1 = A - Hit(loc[t].arg, f) + Hit(loc'[t].arg, f)
  <2>1. /\ ButOf(PagesIn(loc), PagesIn(loc'), t) /\ ButOf(VictimsIn(loc), VictimsIn(loc'), t)
        /\ ButOf(ArgsIn(loc), ArgsIn(loc'), t)
    BY DEF ButOf, PagesIn, VictimsIn, ArgsIn
  <2>2. /\ PagesIn(loc)[t] = loc[t].page /\ PagesIn(loc')[t] = loc'[t].page
        /\ VictimsIn(loc)[t] = loc[t].victim /\ VictimsIn(loc')[t] = loc'[t].victim
        /\ ArgsIn(loc)[t] = loc[t].arg /\ ArgsIn(loc')[t] = loc'[t].arg
    BY DEF PagesIn, VictimsIn, ArgsIn
  <2>3. Held(PagesIn(loc'), f) = Held(PagesIn(loc), f) - Hit(PagesIn(loc)[t], f) + Hit(PagesIn(loc')[t], f)
    BY <2>1, HeldChange
  <2>4. Held(VictimsIn(loc'), f) = Held(VictimsIn(loc), f) - Hit(VictimsIn(loc)[t], f) + Hit(VictimsIn(loc')[t], f)
    BY <2>1, HeldChange
  <2>5. Held(ArgsIn(loc'), f) = Held(ArgsIn(loc), f) - Hit(ArgsIn(loc)[t], f) + Hit(ArgsIn(loc')[t], f)
    BY <2>1, HeldChange
  <2> QED
    BY <2>2, <2>3, <2>4, <2>5
<1>4. /\ D \in Nat /\ D1 \in Nat /\ E \in Nat /\ E1 \in Nat /\ P \in Nat /\ P1 \in Nat /\ X \in Nat /\ X1 \in Nat
      /\ A \in Nat /\ A1 \in Nat /\ B \in Nat
  BY CountNat, HeldNat DEF Hit
<1>5. mem_map[f] = D + E + P + X + A + B
  BY References0 DEF Counted, Refs
<1>6. References(f)' = D1 + E1 + P1 + X1 + A1 + B
  BY References1 DEF Refs
<1>7. InTables(f, c) = Hit(dir[c][1], f) + Hit(dir[c][2], f) + Hit(FrameOf(pte[c][1]), f) + Hit(FrameOf(pte[c][2]), f)
  BY TablesCount
<1>8. \A x : Hit(x, f) \in Nat
  BY DEF Hit
<1> HIDE DEF D, D1, E, E1, P, P1, X, X1, A, A1, B
<1>9. InTables(f, c) \in Nat /\ InTables(f, c) = (D - D1) + (E - E1)
  BY <1>1, <1>2, <1>4, <1>7, <1>8
<1>10. P1 + X1 + A1 = P + X + A
  <2>1. Hit(loc'[t].page, f) + Hit(loc'[t].victim, f) + Hit(loc'[t].arg, f)
        = Hit(loc[t].page, f) + Hit(loc[t].victim, f) + Hit(loc[t].arg, f)
    OBVIOUS
  <2> QED
    BY <1>3, <1>4, <1>8, <2>1
<1> QED
  BY <1>4, <1>5, <1>6, <1>9, <1>10

(* What free_page_tables changes *)
Freed(c) ==
    /\ dir' \in [Task -> [Page -> 0..NFrame]] /\ pte' \in [Task -> [Page -> Entry]] /\ mem_map' \in [Frame -> Nat]
    /\ bitmap' \in [at : 0..NFrame, free : SUBSET Slot]
    /\ dir'[c] = [w \in Page |-> 0] /\ (\A u \in Task : u # c => dir'[u] = dir[u] /\ pte'[u] = pte[u])
    /\ \A u \in Task, w \in Page : dir'[u][w] = IF u = c THEN 0 ELSE dir[u][w]
    /\ \A u \in Task, w \in Page : pte'[u][w] = IF u = c THEN None ELSE pte[u][w]
    /\ bitmap'.at = bitmap.at /\ bitmap'.free = bitmap.free \cup SwapsOf(c)
    /\ \A g \in Frame : mem_map'[g] = IF mem_map[g] < InTables(g, c) THEN 0 ELSE mem_map[g] - InTables(g, c)

(* free_page_tables does that. *)
LEMMA FreeFacts ==
    ASSUME Types, NEW c \in Task, free_page_tables(c)
    PROVE  Freed(c)
<1>1. /\ dir' = [dir EXCEPT ![c] = [v \in Page |-> 0]] /\ pte' = [pte EXCEPT ![c] = [v \in Page |-> None]]
      /\ bitmap' = [bitmap EXCEPT !.free = @ \cup SwapsOf(c)]
      /\ mem_map' = [f \in Frame |-> IF mem_map[f] < InTables(f, c) THEN 0 ELSE mem_map[f] - InTables(f, c)]
  BY DEF free_page_tables
<1>2. 0 \in 0..NFrame /\ None \in Entry
  BY MemAssumption, Entries
<1>3. /\ dir' \in [Task -> [Page -> 0..NFrame]] /\ dir'[c] = [w \in Page |-> 0] /\ (\A u \in Task : u # c => dir'[u] = dir[u])
      /\ \A u \in Task, w \in Page : dir'[u][w] = IF u = c THEN 0 ELSE dir[u][w]
  BY <1>1, <1>2 DEF Types
<1>4. /\ pte' \in [Task -> [Page -> Entry]] /\ (\A u \in Task : u # c => pte'[u] = pte[u])
      /\ \A u \in Task, w \in Page : pte'[u][w] = IF u = c THEN None ELSE pte[u][w]
  BY <1>1, <1>2 DEF Types
<1>5. SwapsOf(c) \subseteq Slot
  BY DEF SwapsOf
<1>6. /\ bitmap'.at = bitmap.at /\ bitmap'.free = bitmap.free \cup SwapsOf(c)
      /\ bitmap' \in [at : 0..NFrame, free : SUBSET Slot]
  BY <1>1, <1>5 DEF Types
<1>7. \A g \in Frame : InTables(g, c) \in Nat /\ mem_map[g] \in Nat
  <2>1. \A x, g : Hit(x, g) \in Nat
    BY DEF Hit
  <2> QED
    BY <2>1, TablesCount DEF Types
<1>8. /\ mem_map' \in [Frame -> Nat]
      /\ \A g \in Frame : mem_map'[g] = IF mem_map[g] < InTables(g, c) THEN 0 ELSE mem_map[g] - InTables(g, c)
  BY <1>1, <1>7
<1> QED
  BY <1>3, <1>4, <1>6, <1>8 DEF Freed

(* The swap pages of the tables that go are free, and only those. *)
LEMMA FreedSwaps ==
    ASSUME MemInv, NEW c \in Task, Freed(c)
    PROVE  Swaps'
<1>1. /\ \A u \in Task, w \in Page : pte[u][w] \in Entry
      /\ \A u \in Task, w \in Page : pte'[u][w] = IF u = c THEN None ELSE pte[u][w]
      /\ bitmap'.at = bitmap.at /\ bitmap'.free = bitmap.free \cup SwapsOf(c)
  BY DEF MemInv, Types, Freed
<1>2. \A u \in Task, w \in Page : pte'[u][w].in = "swap" => u # c /\ pte'[u][w] = pte[u][w]
  BY <1>1, Entries
<1>3. \A s \in Slot, u \in Task, w \in Page : pte'[u][w] = Swapped(s) <=> u # c /\ pte[u][w] = Swapped(s)
  BY <1>1, <1>2, Entries
<1>4. ASSUME bitmap.at # 0, NEW s \in Slot
      PROVE  /\ s \in bitmap'.free => \A u \in Task, w \in Page : pte'[u][w] # Swapped(s)
             /\ s \notin bitmap'.free => \E u \in Task, w \in Page : pte'[u][w] = Swapped(s)
  <2>1. ASSUME s \in SwapsOf(c), NEW u \in Task, NEW w \in Page, pte'[u][w] = Swapped(s) PROVE FALSE
    <3>1. PICK z \in Page : pte[c][z] = Swapped(s)
      BY <2>1 DEF SwapsOf
    <3>2. u # c /\ pte[u][w] = pte[c][z] /\ pte[c][z].in = "swap"
      BY <1>3, <2>1, <3>1, Entries
    <3> QED
      BY <3>2 DEF Swaps, MemInv
  <2>2. s \in bitmap.free => \A u \in Task, w \in Page : pte'[u][w] # Swapped(s)
    BY <1>3, <1>4 DEF Swaps, MemInv
  <2>3. ASSUME s \notin bitmap'.free PROVE \E u \in Task, w \in Page : pte'[u][w] = Swapped(s)
    <3>1. s \notin bitmap.free /\ s \notin SwapsOf(c)
      BY <1>1, <2>3
    <3>2. PICK u \in Task, w \in Page : pte[u][w] = Swapped(s)
      BY <1>4, <3>1 DEF Swaps, MemInv
    <3>3. u # c
      BY <3>1, <3>2 DEF SwapsOf
    <3> QED
      BY <1>3, <3>2, <3>3
  <2> QED
    BY <1>1, <2>1, <2>2, <2>3
<1> QED
  BY <1>1, <1>2, <1>4 DEF Swaps, MemInv

(* A frame that is held alone elsewhere keeps its count. *)
LEMMA FreedSole ==
    ASSUME MemInv, NEW c \in Task, Freed(c), NEW g \in Frame, mem_map[g] = 1,
           \/ \E u \in Task, w \in Page : u # c /\ (dir[u][w] = g \/ Maps(u, w, g))
           \/ \E u \in Task : g \in {loc[u].page, loc[u].victim, loc[u].arg}
           \/ bitmap.at = g
    PROVE  mem_map'[g] = 1
<1>0. 1 \in Page /\ 2 \in Page /\ Types /\ Counted /\ g # 0
  BY DEF Page, MemInv, Frame
<1>1. \A w \in Page : dir[c][w] # g /\ ~Maps(c, w, g)
  BY <1>0, HeldOnce
<1>2. InTables(g, c) = 0
  BY <1>0, <1>1, TablesCount DEF Hit, FrameOf, Maps
<1> QED
  BY <1>2 DEF Freed

(* The tables of the task that runs go. *)
LEMMA OwnTablesGone ==
    ASSUME MemInv, NEW t \in Task, Freed(t), Types', Still(t), loc[t].victim = 0, loc'[t].victim = 0,
           \/ loc'[t].page = 0 /\ loc'[t].arg = 0 /\ loc[t].page = 0 /\ loc[t].arg = 0
           \/ loc'[t].page = 0 /\ loc[t].arg = 0 /\ loc'[t].arg = loc[t].page
    PROVE  Counted' /\ Sole' /\ \A w \in Page : pte'[t][w] = None /\ pte'[t][w].in = "none"
<1>1. /\ Types /\ Counted
      /\ \A u \in Task : u # t => /\ loc'[u].page = loc[u].page /\ loc'[u].victim = loc[u].victim
                                  /\ loc'[u].arg = loc[u].arg
  BY DEF MemInv, Still
<1>2. \A g \in Frame : Hit(loc'[t].page, g) + Hit(loc'[t].victim, g) + Hit(loc'[t].arg, g)
                            = Hit(loc[t].page, g) + Hit(loc[t].victim, g) + Hit(loc[t].arg, g)
  <2>1. \A x, g : Hit(x, g) \in Nat
    BY DEF Hit
  <2> QED
    BY <2>1
<1>3. Counted'
  BY <1>1, <1>2, FreedCounts DEF Freed
<1>4. /\ \A u \in Task, w \in Page : dir'[u][w] = IF u = t THEN 0 ELSE dir[u][w]
      /\ \A u \in Task, w \in Page : pte'[u][w] = IF u = t THEN None ELSE pte[u][w]
      /\ bitmap'.at = bitmap.at
  BY DEF Freed
<1>5. /\ \A u \in Task, w \in Page : dir'[u][w] # 0 => u # t /\ mem_map'[dir'[u][w]] = 1
      /\ bitmap'.at # 0 => mem_map'[bitmap'.at] = 1
  BY <1>1, <1>4, FreedSole, InFrames DEF MemInv, Sole
<1>6. \A u \in Task, w \in Page : pte'[u][w].in = "mem" /\ pte'[u][w].w => mem_map'[pte'[u][w].f] = 1
  BY <1>1, <1>4, FreedSole, InFrames, Entries DEF MemInv, Sole, Maps
<1>7. \A u \in Task : /\ loc[u].page # 0 => mem_map'[loc[u].page] = 1
                      /\ loc[u].victim # 0 => mem_map'[loc[u].victim] = 1
                      /\ loc[u].arg # 0 => mem_map'[loc[u].arg] = 1
  BY <1>1, FreedSole, InFrames DEF MemInv, Sole
<1>8. Sole'
  BY <1>1, <1>5, <1>6, <1>7 DEF Sole
<1> QED
  BY <1>3, <1>4, <1>8, Entries

(* A task dies. *)
LEMMA DieInv ==
    ASSUME MemInv, NEW t \in Task, cpu \in {t, NULL}, Die(t), loc[t].page = 0, loc[t].victim = 0, loc[t].arg = 0,
           loc[t].child = NULL, pc[t] \notin {"dead", "born"}
    PROVE  MemInv'
<1>1. /\ Types /\ free_page_tables(t) /\ loc' = [loc EXCEPT ![t] = Idle] /\ UNCHANGED <<data, sdata, halted>>
      /\ expect' = [expect EXCEPT ![t] = [v \in Page |-> FileOf(v)]]
      /\ pc' = [pc EXCEPT ![t] = "dead"] /\ cpu' = NULL
  BY DEF Die, MemInv
<1>2. Freed(t)
  BY <1>1, FreeFacts
<1>3. /\ pc'[t] = "dead" /\ loc'[t] = Idle /\ Still(t) /\ pc' \in [Task -> Positions] /\ loc' \in [Task -> Locals]
  BY <1>1, IdleType, Moves DEF Positions, Rests
<1>4. [v \in Page |-> FileOf(v)] \in [Page -> Value] /\ \A v \in Page : [w \in Page |-> FileOf(w)][v] = FileOf(v)
  BY DEF FileOf, Value
<1>5. /\ expect' \in [Task -> [Page -> Value]] /\ expect'[t] = [v \in Page |-> FileOf(v)]
      /\ \A u \in Task : u # t => expect'[u] = expect[u]
  BY <1>1, <1>4 DEF Types
<1>6. Types'
  BY <1>1, <1>2, <1>3, <1>5 DEF Types, Freed
<1>7. Job(t)' = "dead"
  BY <1>3 DEF Job
<1>8. Place(t)' /\ OnTheWay(t)'
  BY <1>3, <1>7, IdleType DEF Place, OnTheWay, Callers, Reads, Rests, InKernel, Page
<1>9. Counted' /\ Sole' /\ \A w \in Page : pte'[t][w] = None /\ pte'[t][w].in = "none"
  BY <1>2, <1>3, <1>6, IdleType, OwnTablesGone
<1>10. TablesOf(t)'
  BY <1>2, <1>3, <1>7, <1>9, IdleType DEF TablesOf, Freed
<1>11. Swaps'
  BY <1>2, FreedSwaps
<1>12. \A w \in Page : Contents(t, w)' = expect'[t][w]
  BY <1>4, <1>5, <1>9 DEF Contents
<1>13. Private(t, NFrame + 1)
  <2>1. NFrame + 1 \notin Frame /\ NFrame + 1 # 0
    BY MemAssumption DEF Frame
  <2> QED
    BY <1>1, <2>1, InFrames DEF Private, Maps
<1>14. \A u \in Task : u # t => dir'[u] = dir[u] /\ pte'[u] = pte[u] /\ expect'[u] = expect[u]
  BY <1>2, <1>5 DEF Freed
<1>15. bitmap'.at = bitmap.at
  BY <1>2 DEF Freed
<1> QED
  BY <1>1, <1>3, <1>5, <1>6, <1>7, <1>8, <1>9, <1>10, <1>11, <1>12, <1>13, <1>14, <1>15, IdleType, OwnStep

(* do_exit and oom *)
LEMMA ExitInv ==
    ASSUME MemInv, NEW t \in Task, Exit(t) \/ Oom(t)
    PROVE  MemInv'
<1>1. CASE Exit(t)
  BY <1>1, CallsFacts, IdleType, DieInv DEF Exit
<1>2. CASE Oom(t)
  <2>1. Place(t) /\ Job(t) = pc[t] /\ pc[t] \in {"table", "anon", "image", "swapin", "cow"} /\ loc[t].page = 0 /\ cpu = t /\ Die(t)
    BY <1>2, Standing DEF Oom, Job
  <2>2. loc[t].victim = 0 /\ loc[t].arg = 0 /\ loc[t].child = NULL /\ pc[t] \notin {"dead", "born"}
    BY <2>1 DEF Place
  <2> QED
    BY <2>1, <2>2, DieInv
<1> QED
  BY <1>1, <1>2

(* execve gives up the old memory; the page of the arguments stays. *)
LEMMA ExecTablesInv ==
    ASSUME MemInv, NEW t \in Task, ExecTables(t)
    PROVE  MemInv'
<1> DEFINE a == loc[t].page
           l == [Idle EXCEPT !.arg = a]
<1>0. 1 \in Page /\ 2 \in Page
  BY DEF Page
<1>1. /\ Types /\ Place(t) /\ TablesOf(t) /\ loc[t] \in Locals /\ cpu = t /\ pc[t] = "copystrings" /\ Job(t) = "copystrings"
      /\ a # 0 /\ free_page_tables(t) /\ UNCHANGED <<sdata, halted>>
      /\ data' = [data EXCEPT ![a] = <<t, 2>>]
      /\ expect' = [expect EXCEPT ![t] = [v \in Page |-> FileOf(v)]] /\ Need(t, "argtable", l)
  BY Standing DEF ExecTables, Job
<1>2. Freed(t)
  BY <1>1, FreeFacts
<1>3. loc[t].victim = 0 /\ loc[t].arg = 0 /\ loc[t].child = NULL /\ ~loc[t].copied /\ dir[t][1] # 0
  BY <1>1 DEF Place, TablesOf
<1>4. a \in Frame /\ mem_map[a] = 1 /\ Private(t, a)
  BY <1>1, InHand
<1>5. /\ l \in Locals /\ l.v = 1 /\ l.acc = "read" /\ l.page = 0 /\ l.victim = 0
      /\ l.arg = a /\ l.old = None /\ l.child = NULL /\ ~l.copied
  <2>1. a \in 0..NFrame
    BY <1>4, MemAssumption DEF Frame
  <2> HIDE DEF a
  <2> QED
    BY <2>1, IdleType DEF Locals
<1> HIDE DEF a, l
<1>6. /\ cpu' = t /\ loc' \in [Task -> Locals] /\ Still(t)
      /\ pc'[t] = "get" /\ pc' \in [Task -> Positions] /\ loc'[t].why = "argtable" /\ Same(l, loc'[t])
      /\ Job(t)' = "argtable"
  BY <1>1, <1>5, NeedFacts DEF Callers
<1>7. /\ loc'[t].v = 1 /\ loc'[t].page = 0 /\ loc'[t].victim = 0 /\ loc'[t].arg = a /\ loc'[t].child = NULL /\ ~loc'[t].copied
  BY <1>5, <1>6 DEF Same
<1>8. [v \in Page |-> FileOf(v)] \in [Page -> Value] /\ \A v \in Page : [w \in Page |-> FileOf(w)][v] = FileOf(v)
  BY DEF FileOf, Value
<1>9. /\ expect' \in [Task -> [Page -> Value]] /\ expect'[t] = [v \in Page |-> FileOf(v)]
      /\ \A u \in Task : u # t => expect'[u] = expect[u]
  BY <1>1, <1>8 DEF Types
<1>10. data'[a] = <<t, 2>> /\ (\A g \in Frame : g # a => data'[g] = data[g]) /\ data' \in [Frame -> Value]
  <2>1. <<t, 2>> \in Value
    BY <1>0 DEF Value
  <2> QED
    BY <1>1, <1>4, <2>1 DEF Types
<1>11. Types'
  BY <1>1, <1>2, <1>6, <1>9, <1>10 DEF Types, Freed
<1>12. Place(t)'
  BY <1>0, <1>1, <1>6, <1>7 DEF Place, Callers, Reads, Rests, InKernel
<1>13. Counted' /\ Sole' /\ \A w \in Page : pte'[t][w] = None /\ pte'[t][w].in = "none"
  BY <1>2, <1>3, <1>6, <1>7, <1>11, OwnTablesGone DEF a
<1>14. TablesOf(t)'
  BY <1>2, <1>6, <1>7, <1>13 DEF TablesOf, Freed
<1>15. Swaps'
  BY <1>2, FreedSwaps
<1>16. OnTheWay(t)'
  BY <1>6, <1>7, <1>10 DEF OnTheWay
<1>17. \A w \in Page : Contents(t, w)' = expect'[t][w]
  BY <1>8, <1>9, <1>13 DEF Contents
<1>18. Free' # {}
  <2> DEFINE g == dir[t][1]
  <2>1. g \in Frame /\ mem_map[g] = 1 /\ Types /\ Counted
    BY <1>0, <1>1, <1>3, InFrames DEF MemInv, Sole
  <2>2. InTables(g, t) >= 1 /\ InTables(g, t) \in Nat
    <3>1. \A x, y : Hit(x, y) \in Nat
      BY DEF Hit
    <3>2. Hit(g, g) = 1
      BY DEF Hit
    <3> QED
      BY <2>1, <3>1, <3>2, TablesCount
  <2>3. mem_map'[g] = 0
    BY <1>2, <2>1, <2>2 DEF Freed
  <2> QED
    BY <2>1, <2>3 DEF Free
<1>19. \A u \in Task : u # t => dir'[u] = dir[u] /\ pte'[u] = pte[u] /\ expect'[u] = expect[u]
  BY <1>2, <1>9 DEF Freed
<1>20. bitmap'.at = bitmap.at
  BY <1>2 DEF Freed
<1> QED
  BY <1>1, <1>3, <1>4, <1>6, <1>7, <1>9, <1>10, <1>11, <1>12, <1>13, <1>14, <1>15, <1>16, <1>17, <1>18, <1>19, <1>20, OwnStep, SMTT(30)

-----------------------------------------------------------------------------
(* A step of a fork: t is the parent, c the child; the rest is as it was. *)
Away(t, c) ==
    \A u \in Task : u \notin {t, c} => /\ pc'[u] = pc[u] /\ loc'[u] = loc[u] /\ expect'[u] = expect[u]
                                       /\ dir'[u] = dir[u] /\ pte'[u] = pte[u]

(* Such a step keeps the invariant if parent and child are right. *)
LEMMA FamilyStep ==
    ASSUME MemInv, NEW t \in Task, NEW c \in Task, c # t, cpu \in {t, NULL}, Types', Away(t, c),
           pc[t] \notin {"dead", "born"}, pc'[t] \notin {"dead", "born"}, loc'[c] = Idle,
           loc[t].child = c \/ (loc[t].child = NULL /\ pc[c] = "dead"),
           \/ loc'[t].child = c /\ pc'[c] = "born"
           \/ loc'[t].child = NULL /\ pc'[c] \in {"dead", "user"},
           data' = data, sdata' = sdata, bitmap'.at = bitmap.at, Job(t)' \notin {"bitmap", "argtable"},
           Place(t)', TablesOf(t)', TablesOf(c)', Counted', Sole', Swaps', OnTheWay(t)',
           \A x \in {t, c}, w \in Page :
               pte'[x][w].in = "mem" /\ ~pte'[x][w].d => data[pte'[x][w].f] = FileOf(w),
           \A w \in Page : Contents(t, w)' = expect'[t][w],
           pc'[c] # "born" => \A w \in Page : Contents(c, w)' = expect'[c][w],
           pc'[c] # "user" => expect'[c] = [w \in Page |-> FileOf(w)],
           loc'[t].child = c => \A w \in Page : w < loc'[t].v => Contents(c, w)' = expect'[t][w]
    PROVE  MemInv'
<1>1. ASSUME NEW u \in Task, u \notin {t, c}
      PROVE  /\ Place(u) /\ TablesOf(u) /\ OnTheWay(u) /\ Job(u)' = Job(u) /\ pc[u] \notin InKernel
             /\ loc'[u] = loc[u] /\ pc'[u] = pc[u] /\ expect'[u] = expect[u]
             /\ dir'[u] = dir[u] /\ pte'[u] = pte[u]
             /\ loc[u].child \in Task \cup {NULL} /\ loc[u].child \notin {t, c}
  <2>1. /\ Place(u) /\ TablesOf(u) /\ OnTheWay(u) /\ loc'[u] = loc[u] /\ pc'[u] = pc[u] /\ expect'[u] = expect[u]
        /\ dir'[u] = dir[u] /\ pte'[u] = pte[u]
    BY <1>1 DEF MemInv, Away
  <2>2. pc[u] \notin InKernel
    BY <1>1, <2>1, TaskAssumption DEF Place
  <2>3. loc[u].child \in Task \cup {NULL} /\ loc[u].child \notin {t, c}
    BY <1>1, TaskAssumption DEF MemInv, Types, Locals, Pairs
  <2> QED
    BY <2>1, <2>2, <2>3 DEF Job
<1>2. /\ loc'[c].child = NULL /\ loc'[c].page = 0 /\ loc'[c].arg = 0 /\ ~loc'[c].copied /\ Job(c)' = pc'[c]
      /\ pc'[c] \in Rests
  BY IdleType DEF Job, Rests
<1>3. Place(c)' /\ OnTheWay(c)'
  BY <1>2, IdleType DEF Place, OnTheWay, Callers, Reads, Rests, InKernel, Page
<1>4. \A u \in Task : Place(u)'
  <2>1. ASSUME NEW u \in Task, u \notin {t, c} PROVE Place(u)'
    BY <1>1, <2>1 DEF Place
  <2> QED
    BY <1>3, <2>1
<1>5. \A u \in Task : TablesOf(u)'
  <2>1. ASSUME NEW u \in Task, u \notin {t, c} PROVE TablesOf(u)'
    <3>1. \A x \in Task, w \in Page : x \in {u, loc[u].child} => dir'[x] = dir[x] /\ pte'[x] = pte[x] /\ TablesOf(x)
      BY <1>1, <2>1 DEF MemInv
    <3>2. \A x \in Task, w \in Page : x \in {u, loc[u].child} => dir'[x][w] = dir[x][w] /\ Alike(x, w)
      BY <3>1 DEF Alike, TablesOf
    <3>3. /\ pc'[u] = pc[u] /\ loc'[u] = loc[u] /\ Job(u)' = Job(u)
      BY <1>1, <2>1
    <3> QED
      BY <3>2, <3>3, TablesStay
  <2> QED
    BY <2>1
<1>6. Pairs'
  <2>1. ASSUME NEW u \in Task, loc'[u].child # NULL
        PROVE  /\ loc'[u].child \in Task /\ loc'[u].child # u /\ pc'[loc'[u].child] = "born"
               /\ (loc'[u].child = c <=> u = t) /\ (u # t => loc'[u].child = loc[u].child)
    <3>1. CASE u = t
      BY <2>1, <3>1
    <3>2. CASE u \notin {t, c}
      <4>1. loc[u].child # NULL /\ loc[u].child \in Task \ {t, c} /\ loc'[u] = loc[u]
        BY <1>1, <2>1, <3>2
      <4>2. pc'[loc[u].child] = pc[loc[u].child]
        BY <1>1, <4>1
      <4> QED
        BY <3>2, <4>1, <4>2 DEF Pairs, MemInv
    <3> QED
      BY <1>2, <2>1, <3>1, <3>2
  <2>2. \A x, u \in Task : loc'[x].child # NULL /\ loc'[x].child = loc'[u].child => x = u
    BY <2>1 DEF Pairs, MemInv
  <2>3. \A u \in Task : Job(u)' = "bitmap" => u \notin {t, c} /\ Job(u) = "bitmap"
    BY <1>1, <1>2 DEF Rests
  <2> QED
    BY <2>1, <2>2, <2>3 DEF Pairs, MemInv
<1>7. Clean'
  <2>1. ASSUME NEW u \in Task, NEW w \in Page, u \notin {t, c}, pte'[u][w].in = "mem", ~pte'[u][w].d,
               ~(loc'[u].copied /\ loc'[u].v = w)
        PROVE  data'[pte'[u][w].f] = FileOf(w)
    BY <1>1, <2>1 DEF Clean, MemInv
  <2> QED
    BY <2>1 DEF Clean
<1>8. \A u \in Task : OnTheWay(u)'
  <2>1. ASSUME NEW u \in Task, u \notin {t, c} PROVE OnTheWay(u)'
    <3>1. OnTheWay(u) /\ pc'[u] = pc[u] /\ loc'[u] = loc[u] /\ pte'[u] = pte[u] /\ data' = data /\ sdata' = sdata
      BY <1>1, <2>1
    <3> QED
      BY ONLY <3>1 DEF OnTheWay
  <2> QED
    BY <1>3, <2>1
<1>9. \A u \in Task, w \in Page : u \notin {t, c} => Contents(u, w)' = Contents(u, w)
  BY <1>1 DEF Contents
<1>10. Intact'
  <2>1. \A u \in Task, w \in Page : pc'[u] # "born" => Contents(u, w)' = expect'[u][w]
    BY <1>1, <1>9 DEF Intact, MemInv
  <2>2. \A u \in Task : pc'[u] \in {"dead", "born"} \/ Job(u)' = "argtable" => expect'[u] = [w \in Page |-> FileOf(w)]
    BY <1>1, <1>2 DEF Intact, MemInv, Rests
  <2>3. ASSUME NEW u \in Task, NEW w \in Page, u \notin {t, c}, loc'[u].child # NULL, w < loc'[u].v
        PROVE  Contents(loc[u].child, w)' = expect'[u][w] /\ loc'[u].child = loc[u].child
    <3>1. /\ loc[u].child \in Task \ {t, c} /\ loc'[u] = loc[u] /\ expect'[u] = expect[u]
      BY <1>1, <2>3
    <3>2. Contents(loc[u].child, w) = expect[u][w]
      BY <2>3, <3>1 DEF Intact, MemInv
    <3> QED
      BY <1>9, <3>1, <3>2
  <2>4. ASSUME NEW u \in Task, NEW w \in Page, loc'[u].child # NULL, w < loc'[u].v
        PROVE  \/ Contents(loc[u].child, w)' = expect'[u][w] /\ loc'[u].child = loc[u].child
               \/ (u = t /\ loc'[u].child = c /\ Contents(c, w)' = expect'[t][w])
    BY <1>2, <2>3, <2>4
  <2> QED
    BY <2>1, <2>2, <2>4 DEF Intact, Contents
<1>11. ArgRoom'
  <2>1. ASSUME NEW u \in Task, Job(u)' = "argtable", loc'[u].page = 0 PROVE FALSE
    <3>1. u \notin {t, c} /\ Job(u) = "argtable" /\ loc[u].page = 0 /\ pc[u] \notin InKernel
      BY <1>1, <1>2, <2>1 DEF Rests
    <3> QED
      BY <3>1 DEF ArgRoom, MemInv, InKernel
  <2> QED
    BY <2>1 DEF ArgRoom
<1> QED
  BY <1>4, <1>5, <1>6, <1>7, <1>8, <1>10, <1>11 DEF MemInv

(* Where CopyNext leaves the parent: all pages from n on are without a     *)
(* table, or it needs a page for the table of the next one that has one.   *)
Copies(t, c, n) ==
    /\ pc' \in [Task -> Positions] /\ loc' \in [Task -> Locals] /\ expect' \in [Task -> [Page -> Value]]
    /\ cpu' \in Task \cup {NULL}
    /\ \A u \in Task : u \notin {t, c} => pc'[u] = pc[u] /\ loc'[u] = loc[u] /\ expect'[u] = expect[u]
    /\ loc'[c] = loc[c] /\ expect'[t] = expect[t]
    /\ loc'[t].page = 0 /\ loc'[t].victim = 0 /\ loc'[t].arg = 0 /\ ~loc'[t].copied
    /\ \/ /\ \A w \in Page : w >= n => dir[t][w] = 0
          /\ pc'[t] = "user" /\ pc'[c] = "user" /\ cpu' = NULL /\ loc'[t] = Idle /\ expect'[c] = expect[t]
       \/ /\ loc'[t].v \in Page /\ loc'[t].v >= n /\ dir[t][loc'[t].v] # 0
          /\ \A w \in Page : w >= n /\ w < loc'[t].v => dir[t][w] = 0
          /\ pc'[t] = "get" /\ pc'[c] = "born" /\ cpu' = t /\ expect'[c] = expect[c]
          /\ loc'[t].why = "copytable" /\ loc'[t].child = c

(* CopyNext leaves the parent there. *)
LEMMA NextFacts ==
    ASSUME Types, NEW t \in Task, NEW c \in Task, c # t, NEW l \in Locals, CopyNext(t, l),
           l.child = c, l.victim = 0, l.arg = 0, l.copied = FALSE
    PROVE  Copies(t, c, l.v)
<1> DEFINE later == {v \in Page : v >= l.v /\ dir[t][v] # 0}
<1>1. l.v \in 1..3 /\ Types
  BY DEF Locals
<1>2. CASE later = {}
  <2>1. /\ pc' = [pc EXCEPT ![t] = "user", ![c] = "user"] /\ cpu' = NULL
        /\ loc' = [loc EXCEPT ![t] = Idle] /\ expect' = [expect EXCEPT ![c] = expect[t]]
    BY <1>2 DEF CopyNext
  <2>2. \A w \in Page : w >= l.v => dir[t][w] = 0
    BY <1>2
  <2>3. /\ pc' \in [Task -> Positions] /\ pc'[t] = "user" /\ pc'[c] = "user"
        /\ \A u \in Task : u \notin {t, c} => pc'[u] = pc[u]
    BY <2>1 DEF Types, Positions, Rests
  <2>4. /\ loc' \in [Task -> Locals] /\ loc'[t] = Idle /\ loc'[c] = loc[c]
        /\ \A u \in Task : u \notin {t, c} => loc'[u] = loc[u]
    BY <2>1, IdleType DEF Types
  <2>5. /\ expect' \in [Task -> [Page -> Value]] /\ expect'[t] = expect[t] /\ expect'[c] = expect[t]
        /\ \A u \in Task : u \notin {t, c} => expect'[u] = expect[u]
    BY <2>1 DEF Types
  <2> QED
    BY <2>1, <2>2, <2>3, <2>4, <2>5, IdleType DEF Copies
<1>3. CASE later # {}
  <2> DEFINE n == Min(later)
             m == [l EXCEPT !.v = n, !.why = "copytable", !.page = 0]
  <2>1. /\ pc' = [pc EXCEPT ![t] = "get", ![c] = "born"] /\ cpu' = t
        /\ loc' = [loc EXCEPT ![t] = m] /\ expect' = expect
    BY <1>3 DEF CopyNext
  <2>2. n \in later /\ \A w \in later : n <= w
    <3>1. later \in SUBSET Nat
      BY DEF Page
    <3> HIDE DEF later
    <3> QED
      BY <1>3, <3>1, MinIn
  <2>3. n \in Page /\ n >= l.v /\ dir[t][n] # 0 /\ \A w \in Page : w >= l.v /\ w < n => dir[t][w] = 0
    BY <1>1, <2>2 DEF Page
  <2>4. m \in Locals /\ m.v = n /\ m.why = "copytable" /\ m.page = 0 /\ m.victim = 0 /\ m.arg = 0 /\ m.child = c
    <3>1. n \in 1..3 /\ 0 \in 0..NFrame
      BY <2>3, MemAssumption DEF Page
    <3> HIDE DEF n
    <3> QED
      BY <3>1 DEF Locals, Callers
  <2>5. ~m.copied
    <3> HIDE DEF n
    <3> QED
      BY DEF Locals
  <2> HIDE DEF m, n, later
  <2>6. /\ pc' \in [Task -> Positions] /\ pc'[t] = "get" /\ pc'[c] = "born"
        /\ \A u \in Task : u \notin {t, c} => pc'[u] = pc[u]
    BY <2>1 DEF Types, Positions, Rests, InKernel
  <2>7. /\ loc' \in [Task -> Locals] /\ loc'[t] = m /\ loc'[c] = loc[c]
        /\ \A u \in Task : u \notin {t, c} => loc'[u] = loc[u]
    BY <2>1, <2>4 DEF Types
  <2> QED
    BY <2>1, <2>3, <2>4, <2>5, <2>6, <2>7 DEF Copies, Types
<1> QED
  BY <1>2, <1>3

(* What has been copied is as in the parent, the rest is empty. *)
LEMMA CopyStep ==
    ASSUME MemInv, NEW t \in Task, NEW c \in Task, c # t, cpu \in {t, NULL}, Types', NEW n \in 1..3, Copies(t, c, n),
           pc[t] \notin {"dead", "born"}, loc[t].child = c \/ (loc[t].child = NULL /\ pc[c] = "dead"),
           \A u \in Task : u \notin {t, c} => dir'[u] = dir[u] /\ pte'[u] = pte[u],
           data' = data, sdata' = sdata, bitmap' = bitmap,
           dir'[t] = dir[t], \A x \in {t, c}, w \in Page : dir'[x][w] = 0 => pte'[x][w] = None,
           \A w \in Page : w >= n \/ dir[t][w] = 0 => dir'[c][w] = 0,
           \A w \in Page : Contents(t, w)' = expect[t][w],
           \A w \in Page : w < n => Contents(c, w)' = expect[t][w],
           \A x \in {t, c}, w \in Page :
               pte'[x][w].in = "mem" /\ ~pte'[x][w].d => data[pte'[x][w].f] = FileOf(w),
           Counted', Sole', Swaps'
    PROVE  MemInv'
<1>1. pc[c] \in {"dead", "born"} /\ Place(c) /\ loc[c] = Idle /\ expect[c] = [w \in Page |-> FileOf(w)]
  <2>1. pc[c] \in {"dead", "born"}
    BY TaskAssumption DEF MemInv, Pairs
  <2> QED
    BY <2>1 DEF MemInv, Place, Rests, Intact
<1>2. /\ loc'[c] = Idle /\ expect'[t] = expect[t] /\ Away(t, c)
      /\ loc'[t].page = 0 /\ loc'[t].victim = 0 /\ loc'[t].arg = 0 /\ ~loc'[t].copied
  BY <1>1 DEF Copies, Away
<1>3. \A w \in Page : w >= n \/ dir[t][w] = 0 => Contents(c, w)' = FileOf(w)
  BY Entries DEF Contents
<1>4. \A w \in Page : dir[t][w] = 0 => expect[t][w] = FileOf(w) /\ Contents(c, w)' = expect[t][w]
  <2>1. \A w \in Page : dir[t][w] = 0 => Contents(t, w)' = FileOf(w)
    BY Entries DEF Contents
  <2> QED
    BY <1>3, <2>1
<1>5. \A w \in Page : w \in 1..2 /\ w \in Int
  BY DEF Page
<1>6. TablesOf(c)'
  <2>1. loc'[c] = Idle /\ pc'[c] \in {"user", "born"} /\ Job(c)' = pc'[c] /\ ~Idle.copied
    BY <1>2, IdleType DEF Copies, Job
  <2> QED
    BY <2>1 DEF TablesOf
<1>7. CASE /\ \A w \in Page : w >= n => dir[t][w] = 0
           /\ pc'[t] = "user" /\ pc'[c] = "user" /\ cpu' = NULL /\ loc'[t] = Idle /\ expect'[c] = expect[t]
  <2>1. Job(t)' = "user" /\ Idle.child = NULL
    BY <1>7, IdleType DEF Job
  <2>2. Place(t)' /\ OnTheWay(t)'
    BY <1>7, <2>1, IdleType DEF Place, OnTheWay, Callers, Reads, Rests, InKernel, Page
  <2>3. TablesOf(t)'
    BY <1>2, <1>7, <2>1 DEF TablesOf
  <2>4. \A w \in Page : Contents(c, w)' = expect'[c][w]
    BY <1>4, <1>5, <1>7
  <2>5. loc'[t].child = NULL
    BY <1>7, <2>1
  <2> QED
    BY <1>2, <1>6, <1>7, <2>1, <2>2, <2>3, <2>4, <2>5, TaskAssumption, FamilyStep
<1>8. CASE /\ loc'[t].v \in Page /\ loc'[t].v >= n /\ dir[t][loc'[t].v] # 0
           /\ \A w \in Page : w >= n /\ w < loc'[t].v => dir[t][w] = 0
           /\ pc'[t] = "get" /\ pc'[c] = "born" /\ cpu' = t /\ expect'[c] = expect[c]
           /\ loc'[t].why = "copytable" /\ loc'[t].child = c
  <2>1. Job(t)' = "copytable" /\ c # NULL
    BY <1>8, TaskAssumption DEF Job
  <2>2. Place(t)'
    BY <1>2, <1>8, <2>1 DEF Place, Callers, Reads, Rests, InKernel
  <2>3. OnTheWay(t)'
    BY <1>2, <1>8, <2>1 DEF OnTheWay
  <2>4. \A w \in Page : (w >= loc'[t].v => dir'[c][w] = 0) /\ (w < loc'[t].v /\ dir'[t][w] = 0 => dir'[c][w] = 0)
    BY <1>5, <1>8
  <2>5. TablesOf(t)'
    BY <1>2, <1>8, <2>1, <2>4 DEF TablesOf
  <2>6. \A w \in Page : w < loc'[t].v => Contents(c, w)' = expect'[t][w]
    BY <1>2, <1>4, <1>5, <1>8
  <2> QED
    BY <1>1, <1>2, <1>6, <1>8, <2>1, <2>2, <2>3, <2>5, <2>6, FamilyStep
<1> QED
  BY <1>7, <1>8 DEF Copies

(* fork begins. *)
LEMMA ForkInv ==
    ASSUME MemInv, NEW t \in Task, NEW c \in Task, Fork(t, c)
    PROVE  MemInv'
<1> DEFINE l == [Idle EXCEPT !.child = c]
<1>1. /\ Types /\ Place(t) /\ Calls(t) /\ pc[c] = "dead" /\ CopyNext(t, l)
      /\ UNCHANGED <<dir, pte, mem_map, data, bitmap, sdata, halted>>
  BY Standing DEF Fork
<1>2. pc[t] = "user" /\ cpu = NULL /\ loc[t] = Idle /\ c # t
  BY <1>1 DEF Calls, Resume, Place, Rests
<1>3. l \in Locals /\ l.v = 1 /\ l.child = c /\ l.victim = 0 /\ l.arg = 0 /\ l.copied = FALSE
  BY IdleType DEF Locals
<1> HIDE DEF l
<1>4. Copies(t, c, 1)
  BY <1>1, <1>2, <1>3, NextFacts
<1>5. TablesOf(t) /\ TablesOf(c) /\ dir[c] = [w \in Page |-> 0] /\ \A x \in {t, c}, w \in Page : dir[x][w] = 0 => pte[x][w] = None
  BY <1>1 DEF MemInv, TablesOf
<1>6. \A w \in Page : dir[c][w] = 0 /\ pte[c][w].in = "none" /\ ~(w < 1)
  BY <1>5, Entries DEF Page
<1>7. Types'
  BY <1>1, <1>4 DEF Types, Copies
<1>8. loc[c] = Idle /\ \A u \in Task : /\ loc'[u].page = loc[u].page /\ loc'[u].victim = loc[u].victim
                                       /\ loc'[u].arg = loc[u].arg
  <2>1. loc[c] = Idle
    BY <1>1 DEF MemInv, Place, Rests
  <2>2. \A u \in Task : u # t => loc'[u] = loc[u]
    BY <1>4 DEF Copies
  <2>3. loc'[t].page = 0 /\ loc'[t].victim = 0 /\ loc'[t].arg = 0
    BY <1>4 DEF Copies
  <2> QED
    BY <1>2, <2>1, <2>2, <2>3, IdleType
<1>9. Counted'
  <2>1. \A f \in Frame : mem_map'[f] = mem_map[f] /\ mem_map[f] \in Nat
    BY <1>1 DEF Types
  <2>2. \A u \in Task, w \in Page : FrameOf(pte'[u][w]) = FrameOf(pte[u][w]) /\ dir'[u][w] = dir[u][w]
    BY <1>1
  <2>3. 1 \in Page
    BY DEF Page
  <2>4. \A x, f : Hit(x, f) - Hit(x, f) = 0
    BY DEF Hit
  <2> QED
    BY <1>1, <1>7, <1>8, <2>1, <2>2, <2>3, <2>4, StillCounted DEF MemInv
<1>10. Sole' /\ Swaps'
  BY <1>1, <1>8 DEF Sole, Swaps, MemInv
<1>11. \A w \in Page : Contents(t, w)' = expect[t][w]
  BY <1>1, <1>2 DEF Contents, MemInv, Intact
<1>12. \A x \in {t, c}, w \in Page : pte'[x][w].in = "mem" /\ ~pte'[x][w].d => data[pte'[x][w].f] = FileOf(w)
  BY <1>1, <1>2, <1>6, IdleType DEF Clean, MemInv
<1>13. 1 \in 1..3 /\ loc[t].child = NULL /\ bitmap' = bitmap
  BY <1>1, <1>2, IdleType
<1> QED
  BY <1>1, <1>2, <1>4, <1>5, <1>6, <1>7, <1>9, <1>10, <1>11, <1>12, <1>13, CopyStep

(* What a parent knows of its child *)
LEMMA ForkFacts ==
    ASSUME MemInv, NEW t \in Task, loc[t].child # NULL
    PROVE  /\ loc[t].child \in Task /\ loc[t].child # t /\ (loc[t].victim = 0 \/ pc[t] = "swapwrite")
           /\ pc[loc[t].child] = "born" /\ loc[loc[t].child] = Idle
           /\ expect[loc[t].child] = [w \in Page |-> FileOf(w)]
           /\ Job(t) \in {"copytable", "copyswap", "copyread"} /\ loc[t].arg = 0 /\ ~loc[t].copied
           /\ pc[t] \notin {"dead", "born"} /\ TablesOf(loc[t].child)
<1>1. Types /\ Place(t) /\ loc[t].child \in Task /\ loc[t].child # t /\ pc[loc[t].child] = "born"
  BY DEF MemInv, Types, Locals, Pairs
<1>2. Place(loc[t].child) /\ TablesOf(loc[t].child)
  BY <1>1 DEF MemInv
<1>3. Job(t) \in {"copytable", "copyswap", "copyread"} /\ loc[t].arg = 0 /\ ~loc[t].copied
  BY <1>1 DEF Place, Job
<1> QED
  BY <1>1, <1>2, <1>3 DEF Place, Rests, Intact, MemInv, Job

(* The fork gets no memory: the child goes. *)
LEMMA ForkFailInv ==
    ASSUME MemInv, NEW t \in Task, ForkFail(t)
    PROVE  MemInv'
<1>1. /\ Types /\ Place(t) /\ TablesOf(t) /\ cpu = t /\ pc[t] \in {"copytable", "copyswap"} /\ Job(t) = pc[t]
      /\ loc[t].page = 0 /\ loc[t].child # NULL
  BY Standing DEF ForkFail, Job, Place
<1>2. PICK c \in Task : c = loc[t].child
  BY <1>1, ForkFacts
<1>3. /\ c # t /\ loc[t].victim = 0 /\ loc[t].arg = 0 /\ ~loc[t].copied /\ pc[c] = "born" /\ loc[c] = Idle
      /\ expect[c] = [w \in Page |-> FileOf(w)]
  BY <1>1, <1>2, ForkFacts
<1>4. /\ free_page_tables(c) /\ pc' = [pc EXCEPT ![t] = "user", ![c] = "dead"] /\ cpu' = NULL
      /\ loc' = [loc EXCEPT ![t] = Idle] /\ UNCHANGED <<data, sdata, expect, halted>>
  BY <1>2 DEF ForkFail
<1>5. Freed(c)
  BY <1>1, <1>4, FreeFacts
<1>6. /\ pc' \in [Task -> Positions] /\ pc'[t] = "user" /\ pc'[c] = "dead" /\ loc' \in [Task -> Locals]
      /\ loc'[t] = Idle /\ \A u \in Task : (u \notin {t, c} => pc'[u] = pc[u]) /\ (u # t => loc'[u] = loc[u])
  BY <1>1, <1>3, <1>4, IdleType DEF Types, Positions, Rests
<1>7. Types'
  BY <1>1, <1>4, <1>5, <1>6 DEF Types, Freed
<1>8. Job(t)' = "user" /\ Job(c)' = "dead" /\ loc'[c] = Idle
  BY <1>3, <1>6 DEF Job
<1>9. Place(t)' /\ OnTheWay(t)'
  BY <1>6, <1>8, IdleType DEF Place, OnTheWay, Callers, Reads, Rests, InKernel, Page
<1>10. /\ \A u \in Task, w \in Page : dir'[u][w] = IF u = c THEN 0 ELSE dir[u][w]
       /\ \A u \in Task, w \in Page : pte'[u][w] = IF u = c THEN None ELSE pte[u][w]
       /\ bitmap'.at = bitmap.at /\ dir'[c] = [w \in Page |-> 0]
       /\ \A u \in Task : u # c => dir'[u] = dir[u] /\ pte'[u] = pte[u]
  BY <1>5 DEF Freed
<1>11. TablesOf(t)' /\ TablesOf(c)'
  BY <1>1, <1>3, <1>6, <1>8, <1>10, IdleType DEF TablesOf
<1>12. /\ \A u \in Task : /\ loc'[u].page = loc[u].page /\ loc'[u].victim = loc[u].victim
                          /\ loc'[u].arg = loc[u].arg
  BY <1>1, <1>3, <1>6, IdleType
<1>13. Counted'
  BY <1>1, <1>5, <1>7, <1>10, <1>12, FreedCounts DEF Freed, MemInv
<1>14. Sole'
  <2>1. /\ \A u \in Task, w \in Page : dir'[u][w] # 0 => u # c /\ mem_map'[dir'[u][w]] = 1
        /\ bitmap'.at # 0 => mem_map'[bitmap'.at] = 1
    BY <1>1, <1>5, <1>10, FreedSole, InFrames DEF MemInv, Sole
  <2>2. \A u \in Task, w \in Page : pte'[u][w].in = "mem" /\ pte'[u][w].w => mem_map'[pte'[u][w].f] = 1
    BY <1>1, <1>5, <1>10, FreedSole, InFrames, Entries DEF MemInv, Sole, Maps
  <2>3. \A u \in Task : /\ loc[u].page # 0 => mem_map'[loc[u].page] = 1
                        /\ loc[u].victim # 0 => mem_map'[loc[u].victim] = 1
                        /\ loc[u].arg # 0 => mem_map'[loc[u].arg] = 1
    BY <1>1, <1>5, FreedSole, InFrames DEF MemInv, Sole
  <2> QED
    BY <1>12, <2>1, <2>2, <2>3 DEF Sole
<1>15. Swaps'
  BY <1>5, FreedSwaps
<1>16. \A x \in {t, c}, w \in Page : pte'[x][w].in = "mem" /\ ~pte'[x][w].d => data[pte'[x][w].f] = FileOf(w)
  BY <1>3, <1>10, Entries DEF Clean, MemInv
<1>17. \A w \in Page : Contents(t, w)' = expect'[t][w]
  BY <1>1, <1>3, <1>4, <1>10 DEF Contents, MemInv, Intact
<1>18. \A w \in Page : Contents(c, w)' = expect'[c][w]
  BY <1>3, <1>4, <1>10, Entries DEF Contents
<1>19. Away(t, c)
  BY <1>4, <1>6, <1>10 DEF Away
<1>20. loc'[t].child = NULL /\ c # NULL
  BY <1>6, IdleType, TaskAssumption
<1> QED
  BY <1>1, <1>2, <1>3, <1>4, <1>6, <1>7, <1>8, <1>9, <1>10, <1>11, <1>13, <1>14, <1>15, <1>16, <1>17, <1>18, <1>19, <1>20, FamilyStep

(* A table of the child for a page that is swapped out: its own page is    *)
(* read next.                                                              *)
LEMMA CopySwappedInv ==
    ASSUME MemInv, NEW t \in Task, CopySwapped(t)
    PROVE  MemInv'
<1>1. /\ Types /\ Place(t) /\ TablesOf(t) /\ OnTheWay(t) /\ loc[t] \in Locals /\ cpu = t /\ pc[t] = "copytable" /\ Job(t) = "copytable"
      /\ loc[t].page # 0 /\ loc[t].child # NULL
  BY Standing DEF CopySwapped, Job, Place
<1>2. PICK c \in Task : c = loc[t].child
  BY <1>1, ForkFacts
<1>3. PICK v \in Page : v = loc[t].v
  BY <1>1 DEF Place
<1>4. /\ c # t /\ loc[t].victim = 0 /\ loc[t].arg = 0 /\ ~loc[t].copied /\ pc[c] = "born" /\ loc[c] = Idle
      /\ expect[c] = [w \in Page |-> FileOf(w)] /\ TablesOf(c)
  BY <1>1, <1>2, ForkFacts
<1> DEFINE p == loc[t].page
           l == [loc[t] EXCEPT !.page = 0]
<1>5. /\ dir' = [dir EXCEPT ![c][v] = p] /\ Need(t, "copyswap", l) /\ pte[t][v].in = "swap"
      /\ UNCHANGED <<pte, mem_map, data, bitmap, sdata, expect, halted>>
  BY <1>2, <1>3 DEF CopySwapped
<1>6. l \in Locals /\ l.v = v /\ l.page = 0 /\ l.victim = 0 /\ l.arg = 0 /\ l.child = c /\ l.copied = loc[t].copied
  BY <1>1, <1>2, <1>3, <1>4, MemAssumption DEF Locals
<1> HIDE DEF l
<1>7. /\ cpu' = t /\ loc' \in [Task -> Locals] /\ Still(t)
      /\ pc'[t] = "get" /\ pc' \in [Task -> Positions] /\ loc'[t].why = "copyswap" /\ Same(l, loc'[t])
      /\ Job(t)' = "copyswap"
  BY <1>1, <1>5, <1>6, NeedFacts DEF Callers
<1>8. /\ loc'[t].v = v /\ loc'[t].page = 0 /\ loc'[t].victim = 0 /\ loc'[t].arg = 0 /\ loc'[t].child = c /\ ~loc'[t].copied
  BY <1>4, <1>6, <1>7 DEF Same
<1>9. /\ p \in Frame /\ mem_map[p] = 1
      /\ \A x \in Task, w \in Page : dir[x][w] # p /\ ~Maps(x, w, p)
      /\ \A x \in Task : (x # t => loc[x].page # p) /\ loc[x].arg # p /\ loc[x].victim # p
      /\ bitmap.at # p /\ p # 0
  BY <1>1, InHand
<1> HIDE DEF p
<1>10. /\ dir' \in [Task -> [Page -> 0..NFrame]] /\ dir'[c][v] = p /\ (\A u \in Task : u # c => dir'[u] = dir[u])
       /\ \A u \in Task, w \in Page : u # c \/ w # v => dir'[u][w] = dir[u][w]
  <2>1. p \in 0..NFrame
    BY <1>9, MemAssumption DEF Frame
  <2> QED
    BY <1>1, <1>5, <2>1 DEF Types
<1>11. Types'
  BY <1>1, <1>5, <1>7, <1>10 DEF Types
<1>12. \A w \in Page : w >= v => dir[c][w] = 0
  BY <1>1, <1>2, <1>3 DEF TablesOf
<1>13. pte[c][v] = None /\ \A w \in Page : w \in Int /\ v \in Int
  BY <1>4, <1>12 DEF TablesOf, Page
<1>14. Counted'
  <2>1. \A f \in Frame : mem_map'[f] = mem_map[f] + (Hit(p, f) - Hit(0, f)) + (Hit(0, f) - Hit(p, f))
    BY <1>1, <1>5 DEF Hit, Types
  <2>2. \A x, f : Hit(x, f) - Hit(x, f) = 0 /\ Hit(x, f) \in Nat
    BY DEF Hit
  <2>3. dir[c][v] = 0 /\ loc[t].page = p
    BY <1>12, <1>13 DEF p
  <2>4. \A f \in Frame : mem_map'[f] = mem_map[f]
                  + (Hit(dir'[c][v], f) - Hit(dir[c][v], f))
                  + (Hit(FrameOf(pte'[c][v]), f) - Hit(FrameOf(pte[c][v]), f))
                  + (Hit(loc'[t].page, f) - Hit(loc[t].page, f))
                  + (Hit(loc'[t].victim, f) - Hit(loc[t].victim, f))
                  + (Hit(loc'[t].arg, f) - Hit(loc[t].arg, f))
                  + (Hit(bitmap'.at, f) - Hit(bitmap.at, f))
    <3>1. \A f \in Frame : mem_map[f] \in Nat
      BY <1>1 DEF Types
    <3> QED
      BY <1>4, <1>5, <1>8, <1>10, <2>1, <2>2, <2>3, <3>1
  <2>5. /\ Types /\ Types' /\ Counted /\ \A u \in Task, w \in Page : u # c \/ w # v => dir'[u][w] = dir[u][w]
        /\ \A u \in Task, w \in Page : FrameOf(pte'[u][w]) = FrameOf(pte[u][w])
        /\ \A u \in Task : u # t => /\ loc'[u].page = loc[u].page /\ loc'[u].victim = loc[u].victim
                                    /\ loc'[u].arg = loc[u].arg
    BY <1>1, <1>5, <1>7, <1>10, <1>11 DEF MemInv, Still
  <2> QED
    BY ONLY <2>4, <2>5, StillCounted, c \in Task, v \in Page, t \in Task
<1>15. Sole'
  BY <1>5, <1>7, <1>8, <1>9, <1>10 DEF Sole, MemInv, Still
<1>16. Swaps'
  BY <1>5 DEF Swaps, MemInv
<1>17. Place(t)'
  BY <1>7, <1>8, TaskAssumption DEF Place, Callers, Reads, Rests, InKernel
<1>18. TablesOf(t)'
  <2>1. dir'[t] = dir[t] /\ pte'[t] = pte[t] /\ pte'[c] = pte[c]
    BY <1>4, <1>5, <1>10
  <2>2. \A w \in Page : w > v => dir'[c][w] = 0
    BY <1>10, <1>12, <1>13
  <2>3. \A w \in Page : w < v /\ dir[t][w] = 0 => dir'[c][w] = 0
    BY <1>1, <1>2, <1>3, <1>10, <1>13 DEF TablesOf
  <2>4. \A w \in Page : dir[t][w] = 0 => pte[t][w] = None
    BY <1>1 DEF TablesOf
  <2> QED
    BY <1>5, <1>7, <1>8, <1>9, <1>10, <1>13, <2>1, <2>2, <2>3, <2>4 DEF TablesOf
<1>19. OnTheWay(t)'
  BY <1>7, <1>8 DEF OnTheWay
<1>20. pc'[c] = "born" /\ loc'[c] = Idle
  BY <1>4, <1>7 DEF Still
<1>21. TablesOf(c)'
  <2>1. Job(c)' = "born" /\ ~Idle.copied
    BY <1>20, IdleType DEF Job
  <2>2. \A w \in Page : dir'[c][w] = 0 => pte'[c][w] = None
    BY <1>4, <1>5, <1>9, <1>10 DEF TablesOf
  <2> QED
    BY <1>20, <2>1, <2>2 DEF TablesOf
<1>22. \A x \in {t, c}, w \in Page : pte'[x][w].in = "mem" /\ ~pte'[x][w].d => data[pte'[x][w].f] = FileOf(w)
  BY <1>4, <1>5, IdleType DEF Clean, MemInv
<1>23. \A x \in {t, c}, w \in Page : Contents(x, w)' = Contents(x, w)
  BY <1>5 DEF Contents
<1>24. \A w \in Page : Contents(t, w)' = expect'[t][w] /\ (w < v => Contents(c, w)' = expect'[t][w])
  BY <1>1, <1>2, <1>3, <1>5, <1>23 DEF MemInv, Intact
<1>25. Away(t, c)
  BY <1>5, <1>7, <1>10 DEF Away, Still
<1>26. data' = data /\ sdata' = sdata /\ bitmap'.at = bitmap.at /\ expect'[c] = [w \in Page |-> FileOf(w)]
  BY <1>4, <1>5
<1> QED
  BY <1>1, <1>2, <1>4, <1>7, <1>8, <1>11, <1>14, <1>15, <1>16, <1>17, <1>18, <1>19, <1>20, <1>21, <1>22, <1>24, <1>25, <1>26, FamilyStep

(* A table of the child: the page it maps is shared, or there is none. *)
LEMMA CopyTableInv ==
    ASSUME MemInv, NEW t \in Task, CopyTable(t)
    PROVE  MemInv'
<1>1. /\ Types /\ Place(t) /\ TablesOf(t) /\ loc[t] \in Locals /\ cpu = t /\ pc[t] = "copytable" /\ Job(t) = "copytable"
      /\ loc[t].page # 0 /\ loc[t].child # NULL
  BY Standing DEF CopyTable, Job, Place
<1>2. PICK c \in Task : c = loc[t].child
  BY <1>1, ForkFacts
<1>3. PICK v \in Page : v = loc[t].v
  BY <1>1 DEF Place
<1>4. /\ c # t /\ loc[t].victim = 0 /\ loc[t].arg = 0 /\ ~loc[t].copied /\ pc[c] = "born" /\ loc[c] = Idle /\ TablesOf(c)
  BY <1>1, <1>2, ForkFacts
<1> DEFINE p == loc[t].page
           e == pte[t][v]
           l == [loc[t] EXCEPT !.v = v + 1]
<1>5. /\ dir' = [dir EXCEPT ![c][v] = p] /\ CopyNext(t, l) /\ e.in # "swap"
      /\ IF e.in = "none" THEN UNCHANGED <<pte, mem_map>>
           ELSE /\ pte' = [pte EXCEPT ![t][v].w = FALSE, ![c][v] = Mem(e.f, FALSE, e.d)]
                /\ mem_map' = [mem_map EXCEPT ![e.f] = @ + 1]
      /\ UNCHANGED <<data, bitmap, sdata, halted>>
  BY <1>2, <1>3 DEF CopyTable
<1>6. l \in Locals /\ l.v = v + 1 /\ l.victim = 0 /\ l.arg = 0 /\ l.child = c /\ l.copied = FALSE
  <2>1. v + 1 \in 1..3
    BY DEF Page
  <2>2. l \in Locals /\ l.v = v + 1 /\ l.victim = 0 /\ l.arg = 0 /\ l.child = c /\ l.copied = loc[t].copied
    BY <1>1, <1>2, <1>3, <1>4, <2>1 DEF Locals
  <2>3. loc[t].copied \in BOOLEAN
    BY <1>1 DEF Locals
  <2> QED
    BY <1>4, <2>2, <2>3
<1> HIDE DEF l
<1>7. Copies(t, c, v + 1)
  <2>1. Types /\ c # t /\ CopyNext(t, l)
    BY <1>1, <1>4, <1>5
  <2>2. Copies(t, c, l.v)
    BY ONLY <1>6, <2>1, NextFacts, t \in Task, c \in Task
  <2> QED
    BY <1>6, <2>2
<1>8. /\ p \in Frame /\ mem_map[p] = 1 /\ p # 0
      /\ \A x \in Task, w \in Page : dir[x][w] # p /\ ~Maps(x, w, p)
      /\ \A x \in Task : (x # t => loc[x].page # p) /\ loc[x].arg # p /\ loc[x].victim # p
      /\ bitmap.at # p
  BY <1>1, InHand
<1>9. e \in Entry /\ (e.in = "none" \/ e.in = "mem") /\ (e.in = "none" => e = None)
  BY <1>1, <1>5, EntryKinds, Standing
<1> DEFINE x == IF e.in = "mem" THEN Mem(e.f, FALSE, e.d) ELSE None
<1>10. /\ x \in Entry /\ x.in = e.in /\ (e.in = "mem" => x.f = e.f /\ ~x.w /\ (x.d <=> e.d)) /\ FrameOf(x) = FrameOf(e)
       /\ (e.in # "mem" => x = None /\ e = None)
  <2>1. CASE e.in = "none"
    BY <1>9, <2>1, Entries
  <2>2. CASE e.in = "mem"
    <3>1. e.f \in Frame /\ e.d \in BOOLEAN
      BY <1>9, <2>2, EntryKinds
    <3>2. x \in Entry /\ x.in = "mem" /\ x.f = e.f
      BY <2>2, <3>1, Entries
    <3>3. x.w = FALSE /\ x.d = e.d
      BY <2>2 DEF Mem
    <3> QED
      BY <2>2, <3>1, <3>2, <3>3 DEF FrameOf
  <2> QED
    BY <1>9, <2>1, <2>2
<1>11. dir[t][v] # 0 /\ dir[c][v] = 0 /\ pte[c][v] = None /\ v \in Int
  <2>1. v \in Int
    BY DEF Page
  <2>2. dir[t][v] # 0 /\ dir[c][v] = 0
    BY <1>1, <1>2, <1>3, <2>1 DEF TablesOf
  <2> QED
    BY <1>4, <2>1, <2>2 DEF TablesOf
<1>12. /\ pte'[t][v] = x /\ pte'[c][v] = x /\ pte' \in [Task -> [Page -> Entry]]
       /\ \A u \in Task, w \in Page : w # v \/ u \notin {t, c} => pte'[u][w] = pte[u][w]
       /\ \A u \in Task : u \notin {t, c} => pte'[u] = pte[u]
  <2>1. CASE e.in = "none"
    BY <1>1, <1>5, <1>9, <1>10, <1>11, <2>1 DEF Types
  <2>2. CASE e.in = "mem"
    <3>1. pte' = [pte EXCEPT ![t][v] = x, ![c][v] = x]
      BY <1>5, <1>9, <2>2, EntryChange
    <3> HIDE DEF x, e
    <3> QED
      BY <1>1, <1>4, <1>10, <3>1 DEF Types
  <2> QED
    BY <1>9, <2>1, <2>2
<1>13. e.in = "mem" => e.f \in Frame /\ mem_map[e.f] \in Nat /\ mem_map[e.f] >= 1 /\ Maps(t, v, e.f) /\ e.f # p
  <2>1. ASSUME e.in = "mem" PROVE e.f \in Frame /\ mem_map[e.f] \in Nat /\ Maps(t, v, e.f)
    BY <1>1, <1>9, <2>1, EntryKinds DEF Types, Maps
  <2> QED
    BY <1>1, <1>8, <2>1, HolderCounts DEF MemInv
<1>14. /\ mem_map' \in [Frame -> Nat]
       /\ \A g \in Frame : mem_map'[g] = IF e.in = "mem" /\ g = e.f THEN mem_map[g] + 1 ELSE mem_map[g]
  <2>1. CASE e.in = "none"
    BY <1>1, <1>5, <2>1 DEF Types
  <2>2. CASE e.in = "mem"
    <3>1. mem_map' = [mem_map EXCEPT ![e.f] = @ + 1]
      BY <1>5, <2>2
    <3> QED
      BY <1>1, <1>13, <2>2, <3>1 DEF Types
  <2> QED
    BY <1>9, <2>1, <2>2
<1> HIDE DEF p, e, x
<1>15. /\ dir' \in [Task -> [Page -> 0..NFrame]] /\ dir'[c][v] = p /\ (\A u \in Task : u # c => dir'[u] = dir[u])
       /\ \A u \in Task, w \in Page : u # c \/ w # v => dir'[u][w] = dir[u][w]
  <2>1. p \in 0..NFrame
    BY <1>8, MemAssumption DEF Frame
  <2> QED
    BY <1>1, <1>5, <2>1 DEF Types
<1>16. UNCHANGED <<data, bitmap, sdata, halted>>
  BY <1>5
<1>17. Types'
  BY <1>1, <1>7, <1>12, <1>14, <1>15, <1>16 DEF Types, Copies
<1>18. /\ \A u \in Task : u # t => loc'[u] = loc[u]
       /\ loc'[t].page = 0 /\ loc'[t].victim = 0 /\ loc'[t].arg = 0
  BY <1>7 DEF Copies
<1>19. Counted'
  <2>1. /\ Types /\ Types' /\ Counted /\ \A u \in Task, w \in Page : u # c \/ w # v => dir'[u][w] = dir[u][w]
        /\ \A u \in Task : u # t => /\ loc'[u].page = loc[u].page /\ loc'[u].victim = loc[u].victim
                                    /\ loc'[u].arg = loc[u].arg
    BY <1>1, <1>15, <1>17, <1>18 DEF MemInv
  <2>2. \A u \in Task, w \in Page : u # c \/ w # v => FrameOf(pte'[u][w]) = FrameOf(pte[u][w])
    BY <1>10, <1>12 DEF e
  <2>3. /\ FrameOf(pte[c][v]) = 0 /\ FrameOf(pte'[c][v]) = FrameOf(e) /\ loc[t].page = p
        /\ FrameOf(e) = IF e.in = "mem" THEN e.f ELSE 0
    BY <1>10, <1>11, <1>12, Entries DEF FrameOf, p
  <2>4. \A y, f : Hit(y, f) - Hit(y, f) = 0 /\ Hit(y, f) \in Nat
    BY DEF Hit
  <2>5. \A f \in Frame : mem_map'[f] = mem_map[f] + (Hit(FrameOf(e), f) - Hit(0, f)) /\ Hit(0, f) = 0 /\ mem_map[f] \in Nat
    BY <1>1, <1>14, <2>3, InFrames DEF Hit, Types
  <2>6. \A f \in Frame : mem_map'[f] = mem_map[f]
                  + (Hit(dir'[c][v], f) - Hit(dir[c][v], f))
                  + (Hit(FrameOf(pte'[c][v]), f) - Hit(FrameOf(pte[c][v]), f))
                  + (Hit(loc'[t].page, f) - Hit(loc[t].page, f))
                  + (Hit(loc'[t].victim, f) - Hit(loc[t].victim, f))
                  + (Hit(loc'[t].arg, f) - Hit(loc[t].arg, f))
                  + (Hit(bitmap'.at, f) - Hit(bitmap.at, f))
    <3> SUFFICES ASSUME NEW f \in Frame
                 PROVE  mem_map'[f] = mem_map[f]
                  + (Hit(dir'[c][v], f) - Hit(dir[c][v], f))
                  + (Hit(FrameOf(pte'[c][v]), f) - Hit(FrameOf(pte[c][v]), f))
                  + (Hit(loc'[t].page, f) - Hit(loc[t].page, f))
                  + (Hit(loc'[t].victim, f) - Hit(loc[t].victim, f))
                  + (Hit(loc'[t].arg, f) - Hit(loc[t].arg, f))
                  + (Hit(bitmap'.at, f) - Hit(bitmap.at, f))
      OBVIOUS
    <3>1. Hit(dir'[c][v], f) - Hit(dir[c][v], f) = Hit(p, f) - Hit(0, f)
      BY <1>11, <1>15
    <3>2. Hit(FrameOf(pte'[c][v]), f) - Hit(FrameOf(pte[c][v]), f) = Hit(FrameOf(e), f) - Hit(0, f)
      BY <2>3
    <3>3. Hit(loc'[t].page, f) - Hit(loc[t].page, f) = Hit(0, f) - Hit(p, f)
      BY <1>18, <2>3
    <3>4. /\ Hit(loc'[t].victim, f) - Hit(loc[t].victim, f) = 0 /\ Hit(loc'[t].arg, f) - Hit(loc[t].arg, f) = 0
          /\ Hit(bitmap'.at, f) - Hit(bitmap.at, f) = 0
      BY <1>4, <1>16, <1>18, <2>4
    <3>5. /\ Hit(p, f) \in Nat /\ Hit(0, f) = 0 /\ Hit(FrameOf(e), f) \in Nat
          /\ mem_map[f] \in Nat /\ mem_map'[f] = mem_map[f] + (Hit(FrameOf(e), f) - Hit(0, f))
      BY <2>4, <2>5
    <3> QED
      BY ONLY <3>1, <3>2, <3>3, <3>4, <3>5
  <2> QED
    BY ONLY <2>1, <2>2, <2>6, StillCounted, c \in Task, v \in Page, t \in Task
<1>20. Sole'
  <2>1. e.in = "mem" /\ mem_map[e.f] = 1 =>
             /\ \A u \in Task, w \in Page : dir[u][w] # e.f /\ (u # t \/ w # v => ~Maps(u, w, e.f))
             /\ \A u \in Task : loc[u].page # e.f /\ loc[u].victim # e.f /\ loc[u].arg # e.f
             /\ bitmap.at # e.f
    BY <1>1, <1>13, HeldOnce DEF MemInv
  <2>2. \A u \in Task, w \in Page : pte'[u][w].in = "mem" /\ pte'[u][w].w => mem_map'[pte'[u][w].f] = 1
    <3>1. \A u \in Task, w \in Page : pte'[u][w].in = "mem" /\ pte'[u][w].w => pte'[u][w] = pte[u][w] /\ (u # t \/ w # v)
      BY <1>10, <1>12
    <3> QED
      BY <1>1, <1>14, <2>1, <3>1, InFrames DEF Sole, MemInv, Maps
  <2>3. \A u \in Task, w \in Page : dir'[u][w] # 0 => mem_map'[dir'[u][w]] = 1
    <3>1. mem_map'[p] = 1
      BY <1>8, <1>13, <1>14
    <3>2. \A u \in Task, w \in Page : dir[u][w] # 0 => mem_map'[dir[u][w]] = 1
      BY <1>1, <1>14, <2>1, InFrames DEF Sole, MemInv
    <3> QED
      BY <1>15, <3>1, <3>2
  <2>4. \A u \in Task : /\ loc'[u].page # 0 => mem_map'[loc'[u].page] = 1
                        /\ loc'[u].victim # 0 => mem_map'[loc'[u].victim] = 1
                        /\ loc'[u].arg # 0 => mem_map'[loc'[u].arg] = 1
    BY <1>1, <1>14, <1>18, <2>1, InFrames DEF Sole, MemInv
  <2>5. bitmap'.at # 0 => mem_map'[bitmap'.at] = 1
    BY <1>1, <1>14, <1>16, <2>1, InFrames DEF Sole, MemInv
  <2> QED
    BY <2>2, <2>3, <2>4, <2>5 DEF Sole
<1>21. Swaps'
  <2>1. \A u \in Task, w \in Page : /\ pte'[u][w].in = "swap" <=> pte[u][w].in = "swap"
                                    /\ pte[u][w].in = "swap" => pte'[u][w] = pte[u][w]
    <3>1. x.in # "swap" /\ pte[t][v].in # "swap" /\ pte[c][v].in # "swap"
      BY <1>9, <1>10, <1>11, Entries DEF e
    <3> QED
      BY <1>12, <3>1
  <2> QED
    BY <1>16, <2>1, SwapsStay DEF MemInv
<1>22. \A u \in Task, w \in Page : dir[u][w] = 0 => pte[u][w] = None
  BY DEF MemInv, TablesOf
<1>23. \A y \in {t, c}, w \in Page : dir'[y][w] = 0 => pte'[y][w] = None
  BY <1>4, <1>8, <1>11, <1>12, <1>15, <1>22
<1>24. \A w \in Page : w >= v + 1 \/ dir[t][w] = 0 => dir'[c][w] = 0
  <2>1. \A w \in Page : w \in Int /\ (w >= v => dir[c][w] = 0) /\ (w < v /\ dir[t][w] = 0 => dir[c][w] = 0)
    BY <1>1, <1>2, <1>3 DEF TablesOf, Page
  <2> QED
    BY <1>11, <1>15, <2>1
<1>25. \A w \in Page : Contents(t, w)' = Contents(t, w) /\ Contents(t, w) = expect[t][w]
  <2>1. \A w \in Page : w # v => Contents(t, w)' = Contents(t, w)
    BY <1>12, <1>16 DEF Contents
  <2>2. Contents(t, v)' = Contents(t, v)
    BY <1>9, <1>10, <1>12, <1>16 DEF Contents, e
  <2> QED
    BY <1>1, <2>1, <2>2 DEF MemInv, Intact
<1>26. \A w \in Page : w < v + 1 => Contents(c, w)' = expect[t][w]
  <2>1. \A w \in Page : w < v => Contents(c, w)' = expect[t][w]
    <3>1. \A w \in Page : w < v => Contents(c, w) = expect[t][w]
      BY <1>1, <1>2, <1>3 DEF MemInv, Intact
    <3>2. \A w \in Page : w < v => Contents(c, w)' = Contents(c, w)
      BY <1>11, <1>12, <1>16 DEF Contents, Page
    <3> QED
      BY <3>1, <3>2
  <2>2. Contents(c, v)' = Contents(t, v)'
    BY <1>12 DEF Contents
  <2>3. \A w \in Page : w < v + 1 => w < v \/ w = v
    BY DEF Page
  <2> QED
    BY <1>25, <2>1, <2>2, <2>3
<1>27. \A y \in {t, c}, w \in Page : pte'[y][w].in = "mem" /\ ~pte'[y][w].d => data[pte'[y][w].f] = FileOf(w)
  <2>1. \A y \in {t, c}, w \in Page : pte[y][w].in = "mem" /\ ~pte[y][w].d => data[pte[y][w].f] = FileOf(w)
    BY <1>4, IdleType DEF Clean, MemInv
  <2>2. e.in = "mem" /\ ~e.d => data[e.f] = FileOf(v)
    BY <2>1 DEF e
  <2> QED
    BY <1>10, <1>12, <2>1, <2>2
<1>28. v + 1 \in 1..3 /\ dir'[t] = dir[t] /\ \A u \in Task : u \notin {t, c} => dir'[u] = dir[u] /\ pte'[u] = pte[u]
  BY <1>4, <1>12, <1>15 DEF Page
<1>29. \A w \in Page : Contents(t, w)' = expect[t][w]
  BY <1>25
<1> QED
  BY <1>1, <1>2, <1>4, <1>7, <1>16, <1>17, <1>19, <1>20, <1>21, <1>23, <1>24, <1>26, <1>27, <1>28, <1>29, CopyStep

(* The page has been read back for the parent; the child gets the page of  *)
(* the swap device.                                                        *)
LEMMA CopyReadInv ==
    ASSUME MemInv, NEW t \in Task, CopyRead(t)
    PROVE  MemInv'
<1>1. /\ Types /\ Place(t) /\ TablesOf(t) /\ OnTheWay(t) /\ loc[t] \in Locals
      /\ cpu = NULL /\ pc[t] = "copyread" /\ Job(t) = "copyread" /\ loc[t].page # 0 /\ loc[t].child # NULL
  BY Standing DEF CopyRead, Resume, Job, Place, Reads
<1>2. PICK c \in Task : c = loc[t].child
  BY <1>1, ForkFacts
<1>3. PICK v \in Page : v = loc[t].v
  BY <1>1 DEF Place
<1>4. /\ c # t /\ loc[t].victim = 0 /\ loc[t].arg = 0 /\ ~loc[t].copied /\ pc[c] = "born" /\ loc[c] = Idle /\ TablesOf(c)
  BY <1>1, <1>2, ForkFacts
<1> DEFINE p == loc[t].page
           e == pte[t][v]
           x == Mem(p, TRUE, TRUE)
           l == [loc[t] EXCEPT !.v = @ + 1]
<1>5. /\ pte' = [pte EXCEPT ![c][v] = e, ![t][v] = x] /\ CopyNext(t, l)
      /\ UNCHANGED <<dir, mem_map, data, bitmap, sdata, halted>>
  BY <1>2, <1>3 DEF CopyRead
<1>6. l \in Locals /\ l.v = v + 1 /\ l.victim = 0 /\ l.arg = 0 /\ l.child = c /\ l.copied = FALSE
  <2>1. v + 1 \in 1..3
    BY DEF Page
  <2>2. l \in Locals /\ l.v = v + 1 /\ l.victim = 0 /\ l.arg = 0 /\ l.child = c /\ l.copied = loc[t].copied
    BY <1>1, <1>2, <1>3, <1>4, <2>1 DEF Locals
  <2>3. loc[t].copied \in BOOLEAN
    BY <1>1 DEF Locals
  <2> QED
    BY <1>4, <2>2, <2>3
<1> HIDE DEF l
<1>7. Copies(t, c, v + 1)
  BY <1>1, <1>4, <1>5, <1>6, NextFacts
<1>8. /\ p \in Frame /\ mem_map[p] = 1 /\ p # 0
      /\ \A y \in Task, w \in Page : dir[y][w] # p /\ ~Maps(y, w, p)
      /\ \A y \in Task : (y # t => loc[y].page # p) /\ loc[y].arg # p /\ loc[y].victim # p
      /\ bitmap.at # p
  BY <1>1, InHand
<1>9. e \in Entry /\ e.in = "swap" /\ data[p] = sdata[e.s]
  BY <1>1, <1>3, Standing DEF TablesOf, OnTheWay
<1>10. x \in Entry /\ x.in = "mem" /\ x.f = p /\ x.w /\ x.d
  <2>1. x \in Entry /\ x.in = "mem" /\ x.f = p
    BY <1>8, Entries
  <2> QED
    BY <2>1 DEF Mem
<1>11. /\ dir[c][v] # 0 /\ pte[c][v] = None /\ pte[c][v].in = "none" /\ dir[t][v] # 0
  <2>1. dir[c][v] # 0 /\ pte[c][v] = None /\ pte[t][v].in = "swap"
    BY <1>1, <1>2, <1>3 DEF TablesOf
  <2>2. None.in = "none"
    BY Entries
  <2> QED
    BY <1>1, <2>1, <2>2 DEF TablesOf
<1> HIDE DEF p, e, x
<1>12. /\ pte'[t][v] = x /\ pte'[c][v] = e /\ pte' \in [Task -> [Page -> Entry]]
       /\ \A u \in Task, w \in Page : w # v \/ u \notin {t, c} => pte'[u][w] = pte[u][w]
       /\ \A u \in Task : u \notin {t, c} => pte'[u] = pte[u]
  BY <1>1, <1>4, <1>5, <1>9, <1>10 DEF Types
<1>13. UNCHANGED <<dir, mem_map, data, bitmap, sdata, halted>>
  BY <1>5
<1>14. Types'
  BY <1>1, <1>7, <1>12, <1>13 DEF Types, Copies
<1>15. /\ \A u \in Task : u # t => loc'[u] = loc[u]
       /\ loc'[t].page = 0 /\ loc'[t].victim = 0 /\ loc'[t].arg = 0
  BY <1>7 DEF Copies
<1>16. Counted'
  <2>1. /\ Types /\ Types' /\ Counted /\ \A u \in Task, w \in Page : dir'[u][w] = dir[u][w]
        /\ \A u \in Task : u # t => /\ loc'[u].page = loc[u].page /\ loc'[u].victim = loc[u].victim
                                    /\ loc'[u].arg = loc[u].arg
    BY <1>1, <1>13, <1>14, <1>15 DEF MemInv
  <2>2. \A u \in Task, w \in Page : u # t \/ w # v => FrameOf(pte'[u][w]) = FrameOf(pte[u][w])
    BY <1>9, <1>11, <1>12 DEF FrameOf
  <2>3. FrameOf(pte[t][v]) = 0 /\ FrameOf(pte'[t][v]) = p /\ loc[t].page = p
    BY <1>9, <1>10, <1>12 DEF FrameOf, p, e
  <2>4. \A y, f : Hit(y, f) - Hit(y, f) = 0 /\ Hit(y, f) \in Nat
    BY DEF Hit
  <2>5. \A f \in Frame : mem_map'[f] = mem_map[f] + (Hit(p, f) - Hit(0, f)) + (Hit(0, f) - Hit(p, f)) /\ mem_map[f] \in Nat
    BY <1>1, <1>13 DEF Hit, Types
  <2>6. \A f \in Frame : mem_map'[f] = mem_map[f]
                  + (Hit(dir'[t][v], f) - Hit(dir[t][v], f))
                  + (Hit(FrameOf(pte'[t][v]), f) - Hit(FrameOf(pte[t][v]), f))
                  + (Hit(loc'[t].page, f) - Hit(loc[t].page, f))
                  + (Hit(loc'[t].victim, f) - Hit(loc[t].victim, f))
                  + (Hit(loc'[t].arg, f) - Hit(loc[t].arg, f))
                  + (Hit(bitmap'.at, f) - Hit(bitmap.at, f))
    BY <1>4, <1>13, <1>15, <2>3, <2>4, <2>5
  <2> QED
    BY ONLY <2>1, <2>2, <2>6, StillCounted, v \in Page, t \in Task
<1>17. Sole'
  <2>1. \A u \in Task, w \in Page : pte'[u][w].in = "mem" /\ pte'[u][w].w => mem_map'[pte'[u][w].f] = 1
    BY <1>8, <1>9, <1>10, <1>12, <1>13 DEF Sole, MemInv
  <2> QED
    BY <1>13, <1>15, <2>1 DEF Sole, MemInv
<1>18. Swaps'
  <2>0. e = pte[t][v]
    BY DEF e
  <2>1. Swaps /\ bitmap' = bitmap /\ e.in = "swap" /\ x.in = "mem" /\ pte[c][v].in = "none"
    BY <1>9, <1>10, <1>11, <1>13 DEF MemInv
  <2>2. bitmap.at # 0
    BY <2>0, <2>1 DEF Swaps
  <2>3. \A s \in Slot : (e = Swapped(s) => e.in = "swap") /\ x # Swapped(s) /\ pte[c][v] # Swapped(s)
    BY <2>1, Entries
  <2>4. ASSUME NEW s \in Slot
        PROVE  /\ s \in bitmap'.free => \A u \in Task, w \in Page : pte'[u][w] # Swapped(s)
               /\ s \notin bitmap'.free => \E u \in Task, w \in Page : pte'[u][w] = Swapped(s)
    <3>1. ASSUME s \in bitmap'.free, NEW u \in Task, NEW w \in Page PROVE pte'[u][w] # Swapped(s)
      BY <1>12, <2>0, <2>1, <2>2, <2>3, <3>1 DEF Swaps
    <3>2. ASSUME s \notin bitmap'.free PROVE \E u \in Task, w \in Page : pte'[u][w] = Swapped(s)
      <4>1. PICK u \in Task, w \in Page : pte[u][w] = Swapped(s)
        BY <2>1, <2>2, <3>2 DEF Swaps
      <4>2. CASE u = t /\ w = v
        BY <1>12, <2>0, <4>1, <4>2
      <4>3. CASE ~(u = t /\ w = v)
        BY <1>12, <2>3, <4>1, <4>3
      <4> QED
        BY <4>2, <4>3
    <3> QED
      BY <3>1, <3>2
  <2>5. ASSUME NEW y \in Task, NEW u \in Task, NEW w \in Page, NEW z \in Page,
               pte'[y][w].in = "swap", pte'[u][z] = pte'[y][w]
        PROVE  y = u /\ w = z
    <3>1. \A a \in Task, i \in Page : a # t /\ i = v /\ a # c => pte'[a][i] = pte[a][i]
      BY <1>12
    <3>2. \A a \in Task, i \in Page : pte'[a][i].in = "swap" =>
              \/ a = c /\ i = v /\ pte'[a][i] = pte[t][v]
              \/ pte'[a][i] = pte[a][i] /\ ~(a = t /\ i = v)
      BY <1>12, <2>0, <2>1
    <3> QED
      BY <2>1, <2>5, <3>2 DEF Swaps
  <2> QED
    BY <2>1, <2>2, <2>4, <2>5 DEF Swaps
<1>19. \A u \in Task, w \in Page : dir[u][w] = 0 => pte[u][w] = None
  BY DEF MemInv, TablesOf
<1>20. \A y \in {t, c}, w \in Page : dir'[y][w] = 0 => pte'[y][w] = None
  BY <1>11, <1>12, <1>13, <1>19
<1>21. \A w \in Page : w >= v + 1 \/ dir[t][w] = 0 => dir'[c][w] = 0
  <2>1. \A w \in Page : w \in Int /\ (w > v => dir[c][w] = 0) /\ (w < v /\ dir[t][w] = 0 => dir[c][w] = 0)
    BY <1>1, <1>2, <1>3 DEF TablesOf, Page
  <2>2. v \in Int
    BY DEF Page
  <2>3. \A w \in Page : w >= v + 1 \/ dir[t][w] = 0 => w > v \/ (w < v /\ dir[t][w] = 0)
    <3>1. \A w \in Page : dir[t][w] = 0 => w # v
      BY <1>11
    <3> QED
      BY <3>1 DEF Page
  <2> QED
    BY <1>13, <2>1, <2>3
<1>22. \A w \in Page : Contents(t, w)' = expect[t][w]
  <2>1. \A w \in Page : w # v => Contents(t, w)' = Contents(t, w)
    BY <1>12, <1>13 DEF Contents
  <2>2. Contents(t, v) = sdata[e.s]
    BY <1>9 DEF Contents, e
  <2>3. Contents(t, v)' = data[p]
    BY <1>10, <1>12, <1>13 DEF Contents
  <2> QED
    BY <1>1, <1>9, <2>1, <2>2, <2>3 DEF MemInv, Intact
<1>23. \A w \in Page : w < v + 1 => Contents(c, w)' = expect[t][w]
  <2>1. \A w \in Page : w < v => Contents(c, w)' = expect[t][w]
    <3>1. \A w \in Page : w < v => Contents(c, w) = expect[t][w]
      BY <1>1, <1>2, <1>3 DEF MemInv, Intact
    <3>2. \A w \in Page : w < v => Contents(c, w)' = Contents(c, w)
      BY <1>12, <1>13 DEF Contents, Page
    <3> QED
      BY <3>1, <3>2
  <2>2. Contents(c, v)' = sdata[e.s] /\ Contents(t, v)' = data[p]
    BY <1>9, <1>10, <1>12, <1>13 DEF Contents
  <2>3. \A w \in Page : w < v + 1 => w < v \/ w = v
    BY DEF Page
  <2> QED
    BY <1>9, <1>22, <2>1, <2>2, <2>3
<1>24. \A y \in {t, c}, w \in Page : pte'[y][w].in = "mem" /\ ~pte'[y][w].d => data[pte'[y][w].f] = FileOf(w)
  <2>1. \A y \in {t, c}, w \in Page : pte[y][w].in = "mem" /\ ~pte[y][w].d => data[pte[y][w].f] = FileOf(w)
    BY <1>4, IdleType DEF Clean, MemInv
  <2> QED
    BY <1>9, <1>10, <1>12, <2>1
<1>25. v + 1 \in 1..3 /\ dir'[t] = dir[t] /\ \A u \in Task : u \notin {t, c} => dir'[u] = dir[u] /\ pte'[u] = pte[u]
  BY <1>12, <1>13 DEF Page
<1> QED
  BY <1>1, <1>2, <1>4, <1>7, <1>13, <1>14, <1>16, <1>17, <1>18, <1>20, <1>21, <1>22, <1>23, <1>24, <1>25, CopyStep

-----------------------------------------------------------------------------
(* The invariant holds at first, and every step that does not end in a     *)
(* race keeps it.                                                          *)
LEMMA InitHolds == Init => MemInv
<1> SUFFICES ASSUME Init PROVE MemInv
  OBVIOUS
<1>1. /\ cpu = NULL /\ halted = FALSE /\ bitmap = [at |-> 0, free |-> {}]
      /\ \A t \in Task : pc[t] \in {"user", "dead"} /\ loc[t] = Idle /\ Job(t) = pc[t]
      /\ \A t \in Task : dir[t] = [v \in Page |-> 0] /\ expect[t] = [v \in Page |-> FileOf(v)]
      /\ \A t \in Task, v \in Page : dir[t][v] = 0 /\ pte[t][v] = None /\ pte[t][v].in = "none" /\ expect[t][v] = FileOf(v)
      /\ \A f \in Frame : mem_map[f] = 0
  BY Entries DEF Init, Job
<1>2. Types
  <2>1. 0 \in 0..NFrame /\ None \in Entry /\ <<"zero">> \in Value /\ \A v \in Page : FileOf(v) \in Value
    BY Entries, MemAssumption DEF Value, FileOf
  <2>2. pc \in [Task -> Positions] /\ loc \in [Task -> Locals]
    BY IdleType DEF Init, Positions, Rests
  <2>3. /\ dir \in [Task -> [Page -> 0..NFrame]] /\ pte \in [Task -> [Page -> Entry]]
        /\ expect \in [Task -> [Page -> Value]]
    BY <2>1 DEF Init
  <2>4. /\ mem_map \in [Frame -> Nat] /\ data \in [Frame -> Value] /\ sdata \in [Slot -> Value]
    BY <2>1 DEF Init
  <2>5. bitmap \in [at : 0..NFrame, free : SUBSET Slot]
    BY <1>1, <2>1
  <2> QED
    BY <1>1, <2>2, <2>3, <2>4, <2>5 DEF Types
<1>3. \A t \in Task : Place(t) /\ OnTheWay(t)
  BY <1>1, IdleType, TaskAssumption DEF Place, OnTheWay, Callers, Reads, Rests, InKernel, Page
<1>4. \A t \in Task : TablesOf(t)
  BY <1>1, IdleType DEF TablesOf
<1>5. Pairs /\ ArgRoom
  BY <1>1, IdleType DEF Pairs, ArgRoom
<1>6. Counted
  <2> SUFFICES ASSUME NEW f \in Frame PROVE mem_map[f] = References(f)
    BY DEF Counted
  <2>1. f # 0
    BY DEF Frame
  <2>2. Count(dir, f) = 0
    BY <1>1, <2>1, CountNone
  <2>3. Count(FramesIn(pte), f) = 0
    <3>1. \A t \in Task, v \in Page : FramesIn(pte)[t][v] # f
      BY <1>1, <2>1 DEF FramesIn, FrameOf
    <3> QED
      BY <3>1, CountNone
  <2>4. Held(PagesIn(loc), f) = 0 /\ Held(VictimsIn(loc), f) = 0 /\ Held(ArgsIn(loc), f) = 0
    <3>1. \A t \in Task : PagesIn(loc)[t] # f /\ VictimsIn(loc)[t] # f /\ ArgsIn(loc)[t] # f
      BY <1>1, <2>1, IdleType DEF PagesIn, VictimsIn, ArgsIn
    <3> QED
      BY <3>1, HeldNone
  <2>5. Hit(bitmap.at, f) = 0
    BY <1>1, <2>1 DEF Hit
  <2> QED
    BY <1>1, <1>2, <2>2, <2>3, <2>4, <2>5, References0 DEF Refs
<1>7. Sole
  BY <1>1, IdleType DEF Sole
<1>8. Swaps
  BY <1>1 DEF Swaps
<1>9. Clean
  BY <1>1 DEF Clean
<1>10. Intact
  BY <1>1, IdleType DEF Intact, Contents
<1> QED
  BY <1>2, <1>3, <1>4, <1>5, <1>6, <1>7, <1>8, <1>9, <1>10 DEF MemInv

(* Every action keeps the invariant. *)
LEMMA NextKeeps ==
    ASSUME StopAtRaces, MemInv, Next, ~halted' PROVE MemInv'
<1>1. PICK t \in Task :
         \/ GetFreePage(t) \/ NoMemory(t) \/ SwapWritten(t)
         \/ \E u \in Task, v \in Page : SwapOutClean(t, u, v) \/ SwapOutDirty(t, u, v)
         \/ Exit(t) \/ Oom(t)
         \/ \E v \in Page, a \in {"read", "write", "kwrite"} : Access(t, v, a) \/ DoNoPage(t, v, a)
         \/ \E v \in Page : Verify(t, v) \/ DoWpPage(t, v)
         \/ CopyPage(t) \/ NewTable(t) \/ GetEmptyPage(t) \/ NotShared(t)
         \/ \E p \in Task : SharePage(t, p) \/ Fork(t, p)
         \/ BreadPage(t) \/ ImageRead(t) \/ SwapIn(t) \/ SwapRead(t)
         \/ CopyTable(t) \/ CopySwapped(t) \/ ReadSwapped(t) \/ CopyRead(t) \/ ForkFail(t)
         \/ Execve(t) \/ ExecFail(t) \/ ExecTables(t) \/ PutDirtyPage(t)
         \/ SwapOn(t) \/ SwapOnDone(t)
  BY DEF Next
<1>2. CASE GetFreePage(t) \/ NoMemory(t) \/ SwapWritten(t)
  BY <1>2, GetFreePageInv, NoMemoryInv, SwapWrittenInv
<1>3. CASE \E u \in Task, v \in Page : SwapOutClean(t, u, v) \/ SwapOutDirty(t, u, v)
  BY <1>3, SwapOutCleanInv, SwapOutDirtyInv
<1>4. CASE Exit(t) \/ Oom(t)
  BY <1>4, ExitInv
<1>5. CASE \E v \in Page, a \in {"read", "write", "kwrite"} : Access(t, v, a) \/ DoNoPage(t, v, a)
  BY <1>5, AccessInv, DoNoPageInv DEF Accs
<1>6. CASE \E v \in Page : Verify(t, v) \/ DoWpPage(t, v)
  BY <1>6, VerifyInv, DoWpPageInv
<1>7. CASE CopyPage(t) \/ NewTable(t) \/ GetEmptyPage(t) \/ NotShared(t)
  BY <1>7, CopyPageInv, NewTableInv, GetEmptyPageInv, NotSharedInv
<1>8. CASE \E p \in Task : SharePage(t, p) \/ Fork(t, p)
  BY <1>8, SharePageInv, ForkInv
<1>9. CASE BreadPage(t) \/ ImageRead(t) \/ SwapIn(t) \/ SwapRead(t)
  BY <1>9, BreadPageInv, ImageReadInv, SwapInInv, SwapReadInv
<1>10. CASE CopyTable(t) \/ CopySwapped(t) \/ ReadSwapped(t) \/ CopyRead(t) \/ ForkFail(t)
  BY <1>10, CopyTableInv, CopySwappedInv, SwapInInv, CopyReadInv, ForkFailInv
<1>11. CASE Execve(t) \/ ExecFail(t) \/ ExecTables(t) \/ PutDirtyPage(t)
  BY <1>11, ExecveInv, ExecFailInv, ExecTablesInv, PutDirtyPageInv
<1>12. CASE SwapOn(t) \/ SwapOnDone(t)
  BY <1>12, SwapOnInv, SwapOnDoneInv
<1> QED
  BY <1>1, <1>2, <1>3, <1>4, <1>5, <1>6, <1>7, <1>8, <1>9, <1>10, <1>11, <1>12

(* So does a step that changes nothing. *)
LEMMA StutterKeeps == ASSUME MemInv, UNCHANGED vars PROVE MemInv'
<1>1. /\ cpu' = cpu /\ pc' = pc /\ loc' = loc /\ dir' = dir /\ pte' = pte /\ mem_map' = mem_map /\ data' = data
      /\ bitmap' = bitmap /\ sdata' = sdata /\ expect' = expect /\ halted' = halted
  BY DEF vars
<1>2. Types' /\ Pairs' /\ Sole' /\ Swaps' /\ Clean'
  BY <1>1 DEF MemInv, Types, Pairs, Sole, Swaps, Clean, Job
<1>3. \A t \in Task : Place(t)' /\ TablesOf(t)' /\ OnTheWay(t)'
  <2> SUFFICES ASSUME NEW t \in Task PROVE Place(t)' /\ TablesOf(t)' /\ OnTheWay(t)'
    OBVIOUS
  <2>1. Place(t) /\ TablesOf(t) /\ OnTheWay(t)
    BY DEF MemInv
  <2>2. Job(t)' = Job(t)
    BY <1>1 DEF Job
  <2>3. Place(t)'
    BY <1>1, <2>1, <2>2 DEF Place
  <2>4. TablesOf(t)'
    BY <1>1, <2>1, <2>2 DEF TablesOf
  <2>5. OnTheWay(t)'
    BY <1>1, <2>1, <2>2 DEF OnTheWay, Job
  <2> QED
    BY <2>3, <2>4, <2>5
<1>4. Counted'
  <2>1. \A f : References(f)' = References(f)
    BY <1>1 DEF References, Present
  <2> QED
    BY <1>1, <2>1 DEF MemInv, Counted
<1>5. Intact' /\ ArgRoom'
  BY <1>1 DEF MemInv, Intact, ArgRoom, Contents, Job, Free
<1> QED
  BY <1>2, <1>3, <1>4, <1>5 DEF MemInv

-----------------------------------------------------------------------------
(* Memory in all behaviours, up to the races *)
Inv == halted \/ MemInv

(* The references, the tables, the swap pages and the contents of memory   *)
(* fit together in every state that no race has corrupted (mm/memory.c,    *)
(* mm/swap.c).                                                             *)
THEOREM MemoryInvariant ==
    ASSUME StopAtRaces PROVE Spec => []Inv
<1>1. Init => Inv
  BY InitHolds DEF Inv
<1>2. Inv /\ [Next]_vars => Inv'
  <2>1. ASSUME Inv, Next PROVE Inv'
    <3>1. MemInv
      BY <2>1 DEF Inv, Next
    <3> QED
      BY <2>1, <3>1, NextKeeps DEF Inv
  <2>2. ASSUME Inv, UNCHANGED vars PROVE Inv'
    <3>1. halted' = halted
      BY <2>2 DEF vars
    <3> QED
      BY <2>2, <3>1, StutterKeeps DEF Inv
  <2> QED
    BY <2>1, <2>2
<1> QED
  BY <1>1, <1>2, PTL DEF Spec

(* mem_map counts the references to every frame exactly: free_page gives   *)
(* none away that is in use, and none is lost.                             *)
THEOREM CountsAreExact ==
    ASSUME StopAtRaces PROVE Spec => []CountsExact
<1>1. Inv => CountsExact
  BY DEF Inv, MemInv, Counted, CountsExact
<1> QED
  BY <1>1, MemoryInvariant, PTL

(* A page of the swap device is free in swap_bitmap or in exactly one      *)
(* table entry.                                                            *)
THEOREM SwapPagesOwned ==
    ASSUME StopAtRaces PROVE Spec => []SwapOwned
<1>1. ASSUME MemInv, bitmap.at # 0, NEW s \in Slot
      PROVE  Cardinality({x \in Task \X Page : pte[x[1]][x[2]] = Swapped(s)}) = (IF s \in bitmap.free THEN 0 ELSE 1)
  <2> DEFINE S == {x \in Task \X Page : pte[x[1]][x[2]] = Swapped(s)}
  <2>1. CASE s \in bitmap.free
    <3>1. S = {}
      BY <1>1, <2>1 DEF MemInv, Swaps
    <3>2. Cardinality(S) = 0
      BY <3>1, FS_EmptySet
    <3> QED
      BY <2>1, <3>2
  <2>2. CASE s \notin bitmap.free
    <3>1. PICK t \in Task, v \in Page : pte[t][v] = Swapped(s)
      BY <1>1, <2>2 DEF MemInv, Swaps
    <3>2. pte[t][v].in = "swap"
      BY <3>1, Entries
    <3>3. \A x \in S : x = <<t, v>>
      <4>1. \A x \in S : x[1] \in Task /\ x[2] \in Page /\ x = <<x[1], x[2]>> /\ pte[x[1]][x[2]] = pte[t][v]
        BY <3>1
      <4> QED
        BY <1>1, <3>2, <4>1 DEF MemInv, Swaps
    <3>4. S = {<<t, v>>}
      BY <3>1, <3>3
    <3>5. Cardinality(S) = 1
      BY <3>4, FS_Singleton
    <3> QED
      BY <2>2, <3>5
  <2> QED
    BY <2>1, <2>2
<1>2. Inv => SwapOwned
  BY <1>1 DEF Inv, SwapOwned
<1> QED
  BY <1>2, MemoryInvariant, PTL

(* A task finds in its memory what it has written there or inherited:      *)
(* sharing, copy on write and swapping are invisible to it.                *)
THEOREM MemoryIsIntact ==
    ASSUME StopAtRaces PROVE Spec => []DataIntact
<1>1. Inv => DataIntact
  BY DEF Inv, MemInv, Intact, DataIntact
<1> QED
  BY <1>1, MemoryInvariant, PTL

(* The count of a frame, a byte of mem_map, never wraps, whatever NR_TASKS *)
(* tasks share, and every entry is of one of the three kinds.              *)
THEOREM CountsFitInBytes ==
    ASSUME StopAtRaces PROVE Spec => [](halted \/ TypeOK)
<1>1. MemInv => TypeOK
  <2> SUFFICES ASSUME MemInv PROVE TypeOK
    OBVIOUS
  <2>1. Types /\ Counted /\ Sole
    BY DEF MemInv
  <2>2. \A f \in Frame : mem_map[f] \in 0..255
    BY <2>1, CountsFit
  <2> QED
    BY <2>1, <2>2 DEF Types, TypeOK
<1>2. Inv => halted \/ TypeOK
  BY <1>1 DEF Inv
<1> QED
  BY <1>2, MemoryInvariant, PTL

(* put_dirty_page has got memory for the table of the page of arguments,   *)
(* though do_execve does not look at its result: free_page_tables has just *)
(* given some up and nobody else has run.                                  *)
ArgumentsEntered == halted \/ \A t \in Task : pc[t] = "argtable" => loc[t].page # 0

(* do_execve never loses the page of arguments for want of memory. *)
THEOREM ArgumentsAreEntered ==
    ASSUME StopAtRaces PROVE Spec => []ArgumentsEntered
<1>1. Inv => ArgumentsEntered
  BY DEF Inv, MemInv, ArgRoom, ArgumentsEntered, Job
<1> QED
  BY <1>1, MemoryInvariant, PTL
=============================================================================
