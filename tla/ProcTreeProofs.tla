--------------------------- MODULE ProcTreeProofs ---------------------------
(***************************************************************************)
(* Proofs about module ProcTree, for any number of slots, any pids and any *)
(* mix of system calls: the links of the task structures form one tree     *)
(* whatever forks, exits and waits overlap, pids are unique, init always   *)
(* has a child when it adopts one, and no group is left stopped when the   *)
(* exit that orphans it is over.                                           *)
(***************************************************************************)
EXTENDS ProcTree, FiniteSetTheorems, WellFoundedInduction, TLAPS

-----------------------------------------------------------------------------
(***************************************************************************)
(* Trees of tasks, as functions: L are the tasks, pp, cp, ys and os the    *)
(* links to the parent, the youngest child, the next younger and the next  *)
(* elder sibling.  X are the tasks that are giving their children to init: *)
(* do_exit leaves in the first of those that remain a link to the younger  *)
(* sibling that has just gone, now the youngest child of init.             *)
(***************************************************************************)
Links(L, pp, cp, ys, os) ==
    /\ pp \in [L -> L \cup {NULL}] /\ cp \in [L -> L \cup {NULL}]
    /\ ys \in [L -> L \cup {NULL}] /\ os \in [L -> L \cup {NULL}]
    /\ InitTask \in L /\ NULL \notin L
    /\ pp[InitTask] = NULL /\ ys[InitTask] = NULL /\ os[InitTask] = NULL
    /\ \A t \in L \ {InitTask} : pp[t] # NULL

(* The links of siblings and of parents to each other *)
Agree(L, pp, cp, ys, os, X) ==
    \A t \in L :
        /\ os[t] # NULL => pp[os[t]] = pp[t] /\ ys[os[t]] = t
        /\ ys[t] # NULL => \/ pp[ys[t]] = pp[t] /\ os[ys[t]] = t
                           \/ pp[t] \in X /\ cp[pp[t]] = t /\ ys[t] = cp[InitTask]
        /\ cp[t] # NULL => /\ pp[cp[t]] = t
                           /\ ys[cp[t]] = NULL \/ (t \in X /\ ys[cp[t]] = cp[InitTask])

(* From the youngest child of q the links lead to all its children. *)
InList(L, pp, cp, ys, q) ==
    \A S \in SUBSET {t \in L : pp[t] = q} :
        S # {} => \E c \in S : IF ys[c] = NULL THEN cp[q] = c ELSE ys[c] \notin S

(* No set of tasks is cut off from init. *)
Rooted(L, pp) ==
    \A S \in SUBSET (L \ {InitTask}) : S # {} => \E t \in S : pp[t] \notin S

Tree(L, pp, cp, ys, os, X) ==
    /\ Links(L, pp, cp, ys, os)
    /\ Agree(L, pp, cp, ys, os, X)
    /\ \A q \in L : InList(L, pp, cp, ys, q)
    /\ Rooted(L, pp)
    /\ InitTask \notin X

(***************************************************************************)
(* A task without a youngest child has no children.                        *)
(***************************************************************************)
LEMMA Childless ==
    ASSUME NEW L, NEW pp, NEW cp, NEW ys, NEW os, NEW X, Tree(L, pp, cp, ys, os, X),
           NEW q \in L, cp[q] = NULL
    PROVE  \A t \in L : pp[t] # q
<1> SUFFICES ASSUME NEW t \in L, pp[t] = q PROVE FALSE
  OBVIOUS
<1> DEFINE S == {u \in L : pp[u] = q}
<1>1. S \in SUBSET S /\ S # {}
  OBVIOUS
<1>2. PICK c \in S : IF ys[c] = NULL THEN cp[q] = c ELSE ys[c] \notin S
  BY <1>1 DEF Tree, InList
<1>3. ys[c] # NULL /\ ys[c] \in L /\ ys[c] \notin S
  BY <1>2 DEF Tree, Links
<1>4. pp[ys[c]] # pp[c]
  BY <1>3
<1> QED
  BY <1>2, <1>3, <1>4 DEF Tree, Agree, Links

(***************************************************************************)
(* No task is linked with itself.                                          *)
(***************************************************************************)
LEMMA NoLoops ==
    ASSUME NEW L, NEW pp, NEW cp, NEW ys, NEW os, NEW X, Tree(L, pp, cp, ys, os, X),
           NEW t \in L
    PROVE  t \notin {pp[t], cp[t], ys[t], os[t]}
<1>1. pp[t] # t
  <2>1. CASE t = InitTask
    BY <2>1 DEF Tree, Links
  <2>2. CASE t # InitTask
    <3>1. {t} \in SUBSET (L \ {InitTask}) /\ {t} # {}
      BY <2>2
    <3> QED
      BY <3>1 DEF Tree, Rooted
  <2> QED
    BY <2>1, <2>2
<1>2. ys[t] # t
  <2>1. CASE t = InitTask
    BY <2>1 DEF Tree, Links
  <2>2. CASE t # InitTask
    <3>1. pp[t] \in L
      BY <2>2 DEF Tree, Links
    <3>2. {t} \in SUBSET {u \in L : pp[u] = pp[t]} /\ {t} # {}
      OBVIOUS
    <3>3. \E c \in {t} : IF ys[c] = NULL THEN cp[pp[t]] = c ELSE ys[c] \notin {t}
      BY <3>1, <3>2 DEF Tree, InList
    <3> QED
      BY <3>3 DEF Tree, Links
  <2> QED
    BY <2>1, <2>2
<1> QED
  BY <1>1, <1>2 DEF Tree, Agree, Links

(***************************************************************************)
(* init has a child if there is any other task.                            *)
(***************************************************************************)
LEMMA InitHasChild ==
    ASSUME NEW L, NEW pp, NEW cp, NEW ys, NEW os, NEW X, Tree(L, pp, cp, ys, os, X),
           NEW t \in L, t # InitTask
    PROVE  cp[InitTask] # NULL
<1> SUFFICES ASSUME cp[InitTask] = NULL PROVE FALSE
  OBVIOUS
<1>1. InitTask \in L
  BY DEF Tree, Links
<1>2. \A u \in L : pp[u] # InitTask
  BY <1>1, Childless, Zenon
<1> DEFINE S == L \ {InitTask}
<1>3. S \in SUBSET (L \ {InitTask}) /\ S # {}
  OBVIOUS
<1>4. PICK u \in S : pp[u] \notin S
  BY <1>3 DEF Tree, Rooted
<1> QED
  BY <1>2, <1>4 DEF Tree, Links

(***************************************************************************)
(* sys_fork: c becomes the youngest child of p.                            *)
(***************************************************************************)
LEMMA TreeBorn ==
    ASSUME NEW L, NEW pp, NEW cp, NEW ys, NEW os, Tree(L, pp, cp, ys, os, {}),
           NEW c, c \notin L, c # NULL, NEW p \in L,
           NEW pp2, pp2 = [t \in L \cup {c} |-> IF t = c THEN p ELSE pp[t]],
           NEW cp2, cp2 = [t \in L \cup {c} |-> IF t = c THEN NULL ELSE IF t = p THEN c ELSE cp[t]],
           NEW ys2, ys2 = [t \in L \cup {c} |-> IF t = c THEN NULL ELSE IF t = cp[p] THEN c ELSE ys[t]],
           NEW os2, os2 = [t \in L \cup {c} |-> IF t = c THEN cp[p] ELSE os[t]]
    PROVE  Tree(L \cup {c}, pp2, cp2, ys2, os2, {})
<1>0. /\ NULL \notin L
      /\ cp[p] # NULL => pp[cp[p]] = p /\ ys[cp[p]] = NULL
  BY DEF Tree, Links, Agree
<1>1. Links(L \cup {c}, pp2, cp2, ys2, os2)
  BY DEF Tree, Links, Agree
<1>2. Agree(L \cup {c}, pp2, cp2, ys2, os2, {})
  <2> SUFFICES ASSUME NEW t \in L \cup {c}
               PROVE  /\ os2[t] # NULL => pp2[os2[t]] = pp2[t] /\ ys2[os2[t]] = t
                      /\ ys2[t] # NULL => pp2[ys2[t]] = pp2[t] /\ os2[ys2[t]] = t
                      /\ cp2[t] # NULL => pp2[cp2[t]] = t /\ ys2[cp2[t]] = NULL
    BY DEF Agree
  <2>1. os2[t] # NULL => pp2[os2[t]] = pp2[t] /\ ys2[os2[t]] = t
    BY DEF Tree, Links, Agree
  <2>2. ys2[t] # NULL => pp2[ys2[t]] = pp2[t] /\ os2[ys2[t]] = t
    BY DEF Tree, Links, Agree
  <2>3. cp2[t] # NULL => pp2[cp2[t]] = t /\ ys2[cp2[t]] = NULL
    BY DEF Tree, Links, Agree
  <2> QED
    BY <2>1, <2>2, <2>3
<1>3. ASSUME NEW q \in L \cup {c} PROVE InList(L \cup {c}, pp2, cp2, ys2, q)
  <2> SUFFICES ASSUME NEW S \in SUBSET {t \in L \cup {c} : pp2[t] = q}, S # {}
               PROVE  \E d \in S : IF ys2[d] = NULL THEN cp2[q] = d ELSE ys2[d] \notin S
    BY DEF InList
  <2>1. CASE c \in S
    <3>1. pp2[c] = q /\ pp2[c] = p
      BY <2>1
    <3>2. ys2[c] = NULL /\ cp2[p] = c
      BY DEF Tree, Links
    <3> QED
      BY <2>1, <3>1, <3>2
  <2>2. CASE c \notin S
    <3>1. S \in SUBSET {t \in L : pp[t] = q}
      BY <2>2
    <3>2. q \in L
      BY <2>2, <3>1 DEF Tree, Links
    <3>3. PICK d \in S : IF ys[d] = NULL THEN cp[q] = d ELSE ys[d] \notin S
      BY <3>1, <3>2 DEF Tree, InList
    <3>4. d \in L /\ pp[d] = q /\ d # c
      BY <3>1, <2>2
    <3>5. CASE ys[d] = NULL
      <4>1. cp[q] = d /\ (d = cp[p] => q = p)
        BY <3>3, <3>4, <3>5, <1>0
      <4> QED
        BY <2>2, <3>2, <3>4, <3>5, <4>1, <1>0
    <3>6. CASE ys[d] # NULL
      <4>1. d # cp[p]
        BY <3>4, <3>6, <1>0
      <4> QED
        BY <2>2, <3>3, <3>4, <3>6, <4>1
    <3> QED
      BY <3>5, <3>6
  <2> QED
    BY <2>1, <2>2
<1>4. Rooted(L \cup {c}, pp2)
  <2> SUFFICES ASSUME NEW S \in SUBSET ((L \cup {c}) \ {InitTask}), S # {}
               PROVE  \E t \in S : pp2[t] \notin S
    BY DEF Rooted
  <2>1. CASE S = {c}
    BY <2>1
  <2>2. CASE S # {c}
    <3>1. S \ {c} \in SUBSET (L \ {InitTask}) /\ S \ {c} # {}
      BY <2>2
    <3>2. PICK t \in S \ {c} : pp[t] \notin S \ {c}
      BY <3>1 DEF Tree, Rooted
    <3> QED
      BY <3>1, <3>2 DEF Tree, Links
  <2> QED
    BY <2>1, <2>2
<1> QED
  BY <1>1, <1>2, <1>3, <1>4 DEF Tree

(***************************************************************************)
(* do_exit: p gives its youngest child c to init.                          *)
(***************************************************************************)
LEMMA TreeAdopt ==
    ASSUME NEW L, NEW pp, NEW cp, NEW ys, NEW os, NEW p \in L, Tree(L, pp, cp, ys, os, {p}),
           NEW c \in L, cp[p] = c,
           NEW pp2, pp2 = [t \in L |-> IF t = c THEN InitTask ELSE pp[t]],
           NEW cp2, cp2 = [t \in L |-> IF t = InitTask THEN c ELSE IF t = p THEN os[c] ELSE cp[t]],
           NEW ys2, ys2 = [t \in L |-> IF t = c THEN NULL ELSE IF t = cp[InitTask] THEN c ELSE ys[t]],
           NEW os2, os2 = [t \in L |-> IF t = c THEN cp[InitTask] ELSE os[t]]
    PROVE  Tree(L, pp2, cp2, ys2, os2, {p})
<1>0. /\ p # InitTask /\ c # NULL /\ pp[c] = p /\ c # InitTask
      /\ cp[InitTask] # NULL => pp[cp[InitTask]] = InitTask
      /\ ys[c] # NULL => ys[c] = cp[InitTask]
      /\ InitTask \in L /\ c # p
  <2>1. c # NULL /\ InitTask \in L /\ p # InitTask
    BY DEF Tree, Links
  <2>2. pp[c] = p /\ (ys[c] # NULL => ys[c] = cp[InitTask])
    BY <2>1 DEF Tree, Agree
  <2>3. cp[InitTask] # NULL => pp[cp[InitTask]] = InitTask
    BY <2>1 DEF Tree, Agree
  <2>4. c # InitTask
    BY <2>1, <2>2 DEF Tree, Links
  <2>5. pp[c] # c
    BY NoLoops
  <2> QED
    BY <2>1, <2>2, <2>3, <2>4, <2>5
<1>1. Links(L, pp2, cp2, ys2, os2)
  BY <1>0 DEF Tree, Links
<1>2. Agree(L, pp2, cp2, ys2, os2, {p})
  <2> SUFFICES ASSUME NEW t \in L
               PROVE  /\ os2[t] # NULL => pp2[os2[t]] = pp2[t] /\ ys2[os2[t]] = t
                      /\ ys2[t] # NULL => \/ pp2[ys2[t]] = pp2[t] /\ os2[ys2[t]] = t
                                          \/ pp2[t] = p /\ cp2[pp2[t]] = t /\ ys2[t] = cp2[InitTask]
                      /\ cp2[t] # NULL => /\ pp2[cp2[t]] = t
                                          /\ ys2[cp2[t]] = NULL \/ (t = p /\ ys2[cp2[t]] = cp2[InitTask])
    BY DEF Agree
  <2>1. os2[t] # NULL => pp2[os2[t]] = pp2[t] /\ ys2[os2[t]] = t
    BY <1>0 DEF Tree, Links, Agree
  <2>2. ys2[t] # NULL => \/ pp2[ys2[t]] = pp2[t] /\ os2[ys2[t]] = t
                         \/ pp2[t] = p /\ cp2[pp2[t]] = t /\ ys2[t] = cp2[InitTask]
    <3>1. CASE t = c \/ t = cp[InitTask]
      BY <1>0, <3>1 DEF Tree, Links, Agree
    <3>2. CASE t # c /\ t # cp[InitTask]
      <4>1. ys2[t] = ys[t] /\ pp2[t] = pp[t]
        BY <3>2
      <4>2. CASE ys[t] = c
        <5>1. os[c] = t /\ pp[t] = p
          BY <1>0, <4>2 DEF Tree, Links, Agree
        <5>2. cp2[p] = t /\ cp2[InitTask] = c
          BY <5>1, <1>0
        <5> QED
          BY <4>1, <4>2, <5>1, <5>2
      <4>3. CASE ys[t] # c /\ ys[t] # NULL
        <5>1. ys[t] \in L /\ pp2[ys[t]] = pp[ys[t]] /\ os2[ys[t]] = os[ys[t]]
          BY <4>3 DEF Tree, Links
        <5>2. ~(pp[t] = p /\ cp[p] = t)
          BY <3>2
        <5>3. pp[ys[t]] = pp[t] /\ os[ys[t]] = t
          BY <4>3, <5>2 DEF Tree, Agree
        <5> QED
          BY <4>1, <5>1, <5>3
      <4> QED
        BY <4>1, <4>2, <4>3
    <3> QED
      BY <3>1, <3>2
  <2>3. cp2[t] # NULL => /\ pp2[cp2[t]] = t
                         /\ ys2[cp2[t]] = NULL \/ (t = p /\ ys2[cp2[t]] = cp2[InitTask])
    <3>1. CASE t = InitTask
      BY <1>0, <3>1
    <3>2. CASE t = p
      BY <1>0, <3>2 DEF Tree, Links, Agree
    <3>3. CASE t # p /\ t # InitTask
      BY <1>0, <3>3 DEF Tree, Links, Agree
    <3> QED
      BY <3>1, <3>2, <3>3
  <2> QED
    BY <2>1, <2>2, <2>3
<1>3. ASSUME NEW q \in L PROVE InList(L, pp2, cp2, ys2, q)
  <2> SUFFICES ASSUME NEW S \in SUBSET {t \in L : pp2[t] = q}, S # {}
               PROVE  \E d \in S : IF ys2[d] = NULL THEN cp2[q] = d ELSE ys2[d] \notin S
    BY DEF InList
  <2>1. CASE c \in S
    <3>1. q = InitTask /\ ys2[c] = NULL /\ cp2[InitTask] = c
      BY <2>1, <1>0
    <3> QED
      BY <2>1, <3>1
  <2>2. CASE c \notin S
    <3>1. S \in SUBSET {t \in L : pp[t] = q}
      BY <2>2
    <3>3. PICK d \in S : IF ys[d] = NULL THEN cp[q] = d ELSE ys[d] \notin S
      BY <3>1 DEF Tree, InList
    <3>4. d \in L /\ pp[d] = q /\ d # c
      BY <3>1, <2>2
    <3>5. CASE d = cp[InitTask]
      BY <3>5, <3>4, <2>2, <1>0
    <3>6. CASE d # cp[InitTask]
      <4>1. ys2[d] = ys[d]
        BY <3>6, <3>4
      <4>2. CASE ys[d] = NULL
        <5>1. cp[q] = d /\ q # p /\ q # InitTask
          BY <4>2, <3>3, <3>4, <3>6
        <5> QED
          BY <4>1, <4>2, <5>1
      <4>3. CASE ys[d] # NULL
        BY <4>1, <4>3, <3>3
      <4> QED
        BY <4>2, <4>3
    <3> QED
      BY <3>5, <3>6
  <2> QED
    BY <2>1, <2>2
<1>4. Rooted(L, pp2)
  <2> SUFFICES ASSUME NEW S \in SUBSET (L \ {InitTask}), S # {}
               PROVE  \E t \in S : pp2[t] \notin S
    BY DEF Rooted
  <2>1. PICK t \in S : pp[t] \notin S
    BY DEF Tree, Rooted
  <2> QED
    BY <2>1
<1> QED
  BY <1>0, <1>1, <1>2, <1>3, <1>4 DEF Tree

(***************************************************************************)
(* release: the childless task c leaves the list of its parent.            *)
(***************************************************************************)
LEMMA TreeRelease ==
    ASSUME NEW L, NEW pp, NEW cp, NEW ys, NEW os, Tree(L, pp, cp, ys, os, {}),
           NEW c \in L \ {InitTask}, cp[c] = NULL,
           NEW pp2, pp2 = [t \in L \ {c} |-> pp[t]],
           NEW cp2, cp2 = [t \in L \ {c} |-> IF ys[c] = NULL /\ t = pp[c] THEN os[c] ELSE cp[t]],
           NEW ys2, ys2 = [t \in L \ {c} |-> IF t = os[c] THEN ys[c] ELSE ys[t]],
           NEW os2, os2 = [t \in L \ {c} |-> IF t = ys[c] THEN os[c] ELSE os[t]]
    PROVE  Tree(L \ {c}, pp2, cp2, ys2, os2, {})
<1>1. \A t \in L : pp[t] # c
  BY Childless
<1>2. c \notin {ys[c], os[c], pp[c]}
  BY NoLoops
<1>3. /\ \A t \in L : ys[t] = c => os[c] = t
      /\ \A t \in L : os[t] = c => ys[c] = t
  BY DEF Tree, Links, Agree
<1>4. \A t \in L : cp[t] = c => t = pp[c] /\ ys[c] = NULL
  BY DEF Tree, Links, Agree
<1>5. ys[c] = NULL => cp[pp[c]] = c
  <2> SUFFICES ASSUME ys[c] = NULL PROVE cp[pp[c]] = c
    OBVIOUS
  <2>1. pp[c] \in L
    BY DEF Tree, Links
  <2>2. {c} \in SUBSET {t \in L : pp[t] = pp[c]} /\ {c} # {}
    OBVIOUS
  <2>3. PICK d \in {c} : IF ys[d] = NULL THEN cp[pp[c]] = d ELSE ys[d] \notin {c}
    BY <2>1, <2>2 DEF Tree, InList
  <2> QED
    BY <2>3
<1>6. Links(L \ {c}, pp2, cp2, ys2, os2)
  <2>1. \A t \in L \ {c} : pp2[t] \in (L \ {c}) \cup {NULL}
    BY <1>1 DEF Tree, Links
  <2>2. \A t \in L \ {c} : cp2[t] \in (L \ {c}) \cup {NULL}
    BY <1>2, <1>4 DEF Tree, Links
  <2>3. \A t \in L \ {c} : ys2[t] \in (L \ {c}) \cup {NULL}
    BY <1>2, <1>3 DEF Tree, Links
  <2>4. \A t \in L \ {c} : os2[t] \in (L \ {c}) \cup {NULL}
    BY <1>2, <1>3 DEF Tree, Links
  <2>5. InitTask # os[c] /\ InitTask # ys[c]
    BY DEF Tree, Links, Agree
  <2> QED
    BY <2>1, <2>2, <2>3, <2>4, <2>5 DEF Tree, Links
<1>7. Agree(L \ {c}, pp2, cp2, ys2, os2, {})
  <2> SUFFICES ASSUME NEW t \in L \ {c}
               PROVE  /\ os2[t] # NULL => pp2[os2[t]] = pp2[t] /\ ys2[os2[t]] = t
                      /\ ys2[t] # NULL => pp2[ys2[t]] = pp2[t] /\ os2[ys2[t]] = t
                      /\ cp2[t] # NULL => pp2[cp2[t]] = t /\ ys2[cp2[t]] = NULL
    BY DEF Agree
  <2>1. os2[t] # NULL => pp2[os2[t]] = pp2[t] /\ ys2[os2[t]] = t
    BY <1>2, <1>3 DEF Tree, Links, Agree
  <2>2. ys2[t] # NULL => pp2[ys2[t]] = pp2[t] /\ os2[ys2[t]] = t
    BY <1>2, <1>3 DEF Tree, Links, Agree
  <2>3. cp2[t] # NULL => pp2[cp2[t]] = t /\ ys2[cp2[t]] = NULL
    BY <1>2, <1>3, <1>4 DEF Tree, Links, Agree
  <2> QED
    BY <2>1, <2>2, <2>3
<1>8. ASSUME NEW q \in L \ {c} PROVE InList(L \ {c}, pp2, cp2, ys2, q)
  <2> SUFFICES ASSUME NEW S \in SUBSET {t \in L \ {c} : pp2[t] = q}, S # {}
               PROVE  \E d \in S : IF ys2[d] = NULL THEN cp2[q] = d ELSE ys2[d] \notin S
    BY DEF InList
  <2>1. S \in SUBSET {t \in L : pp[t] = q} /\ c \notin S
    OBVIOUS
  <2>2. PICK d \in S : IF ys[d] = NULL THEN cp[q] = d ELSE ys[d] \notin S
    BY <2>1 DEF Tree, InList
  <2>3. d \in L \ {c} /\ pp[d] = q
    BY <2>1
  <2>4. CASE d # os[c]
    <3>1. ys2[d] = ys[d]
      BY <2>3, <2>4
    <3>2. ys[d] = NULL => cp2[q] = d
      BY <1>5, <2>2, <2>3, <2>4
    <3> QED
      BY <2>2, <3>1, <3>2
  <2>5. CASE d = os[c]
    <3>1. ys[d] = c /\ pp[c] = q /\ ys2[d] = ys[c] /\ c # NULL
      BY <2>3, <2>5 DEF Tree, Links, Agree
    <3>2. CASE ys[c] = NULL
      BY <3>1, <3>2, <2>5
    <3>3. CASE ys[c] # NULL
      <4>1. S \cup {c} \in SUBSET {t \in L : pp[t] = q} /\ S \cup {c} # {}
        BY <2>1, <3>1
      <4>2. PICK e \in S \cup {c} : IF ys[e] = NULL THEN cp[q] = e ELSE ys[e] \notin S \cup {c}
        BY <4>1 DEF Tree, InList
      <4>3. CASE e = c
        BY <3>1, <3>3, <4>2, <4>3
      <4>4. CASE e # c
        <5>1. e # os[c] /\ e \in S /\ e \in L \ {c}
          BY <3>1, <4>2, <4>4, <2>5
        <5>2. ys2[e] = ys[e] /\ cp2[q] = cp[q]
          BY <5>1, <3>3
        <5> QED
          BY <4>2, <5>1, <5>2
      <4> QED
        BY <4>3, <4>4
    <3> QED
      BY <3>2, <3>3
  <2> QED
    BY <2>4, <2>5
<1>9. Rooted(L \ {c}, pp2)
  <2> SUFFICES ASSUME NEW S \in SUBSET ((L \ {c}) \ {InitTask}), S # {}
               PROVE  \E t \in S : pp2[t] \notin S
    BY DEF Rooted
  <2>1. PICK t \in S : pp[t] \notin S
    BY DEF Tree, Rooted
  <2> QED
    BY <2>1
<1> QED
  BY <1>6, <1>7, <1>8, <1>9 DEF Tree

(***************************************************************************)
(* The first turn of the loop over the children, and its end.              *)
(***************************************************************************)
LEMMA TreeExit ==
    ASSUME NEW L, NEW pp, NEW cp, NEW ys, NEW os, NEW p \in L \ {InitTask}
    PROVE  /\ Tree(L, pp, cp, ys, os, {}) => Tree(L, pp, cp, ys, os, {p})
           /\ Tree(L, pp, cp, ys, os, {p}) /\ cp[p] = NULL => Tree(L, pp, cp, ys, os, {})
<1>1. Agree(L, pp, cp, ys, os, {}) => Agree(L, pp, cp, ys, os, {p})
  BY DEF Agree
<1>2. Links(L, pp, cp, ys, os) /\ Agree(L, pp, cp, ys, os, {p}) /\ cp[p] = NULL
        => Agree(L, pp, cp, ys, os, {})
  BY DEF Agree, Links
<1> QED
  BY <1>1, <1>2 DEF Tree

-----------------------------------------------------------------------------
(***************************************************************************)
(* The inductive invariant.                                                *)
(***************************************************************************)

(* The local variables of fork and waitpid *)
Locals == [kid : Task \cup {NULL}, pid : Int, options : SUBSET {"WNOHANG", "WUNTRACED"},
           p : Task \cup {NULL}, flag : BOOLEAN]

(* The variables have their types. *)
TypeOK ==
    /\ scene \in Scenes
    /\ task \in [Task -> TaskStruct \cup {NULL}]
    /\ last_pid \in 1..MaxPid
    /\ cpu \in Task \cup {NULL}
    /\ pc \in [Task -> {"user", "copy", "adopt", "dead", "scan", "wait"}]
    /\ loc \in [Task -> Locals]

(* What the place of a task says of it: a zombie is in do_exit for good, a *)
(* task that scans its children or gives them away keeps the processor,    *)
(* and fork's new structure belongs to one task until it is linked.        *)
Places ==
    \A t \in Task :
        /\ task[t] = NULL => pc[t] = "user" /\ loc[t].kid = NULL
        /\ pc[t] = "copy" <=> loc[t].kid # NULL
        /\ pc[t] \in {"scan", "adopt"} => cpu = t
        /\ task[t] # NULL => (task[t].state = "Z" <=> pc[t] \in {"adopt", "dead"})
        /\ pc[t] = "dead" => task[t].p_cptr = NULL
        /\ pc[t] = "scan" /\ loc[t].p # NULL =>
               loc[t].p \in Linked /\ task[loc[t].p].p_pptr = t
        /\ t \in Unborn => /\ task[t] # NULL /\ task[t].state = "U"
                           /\ pc[t] = "user" /\ t # InitTask
        /\ \A s \in Task : loc[s].kid = loc[t].kid /\ loc[s].kid # NULL => s = t

(* Pids are unique, and task[0] is the parent of no member of a group. *)
Numbers ==
    /\ Used \subseteq scene.slots
    /\ \A s, t \in Used : s # t => task[s].pid # task[t].pid
    /\ scene.ops \cap {"setpgid", "setsid"} = {} => \A t \in Used : task[t].pgrp = 0
    /\ \A t \in Used : task[t].p_pptr = NULL => task[t].pgrp = 0

(* init does not exit, and only its children signal it. *)
InitLives ==
    /\ InitTask \in Linked
    /\ task[InitTask].pgrp = 0 /\ task[InitTask].signal \subseteq {SIGCHLD}
    /\ pc[InitTask] \notin {"adopt", "dead"}

PP == [t \in Linked |-> task[t].p_pptr]
CP == [t \in Linked |-> task[t].p_cptr]
YS == [t \in Linked |-> task[t].p_ysptr]
OS == [t \in Linked |-> task[t].p_osptr]
Adopters == {t \in Task : pc[t] = "adopt"}

TreeInv == Tree(Linked, PP, CP, YS, OS, Adopters)

(* In do_exit no group has been left stopped by a turn of the loop. *)
NoneLeftStopped ==
    \A p \in Task : pc[p] = "adopt" =>
        \A g \in guarded : IsOrphanedPgrp(task, g) => ~HasStoppedJobs(task, g)

ProcInv == TypeOK /\ Places /\ Numbers /\ InitLives /\ TreeInv /\ NoneLeftStopped

-----------------------------------------------------------------------------
(***************************************************************************)
(* Signals change no link, no number and make nobody a zombie; T and R are *)
(* values of task before and after.                                        *)
(***************************************************************************)
Values == [Task -> TaskStruct \cup {NULL}]

Kin(T, R) ==
    \A t \in Task :
        /\ R[t] = NULL <=> T[t] = NULL
        /\ T[t] # NULL =>
             /\ R[t].p_pptr = T[t].p_pptr /\ R[t].p_cptr = T[t].p_cptr
             /\ R[t].p_ysptr = T[t].p_ysptr /\ R[t].p_osptr = T[t].p_osptr
             /\ R[t].pid = T[t].pid /\ R[t].pgrp = T[t].pgrp /\ R[t].session = T[t].session
             /\ R[t].state = T[t].state \/ (T[t].state = "T" /\ R[t].state = "R")

LEMMA KinTwice ==
    ASSUME NEW T, NEW R, NEW Q, Kin(T, R), Kin(R, Q) PROVE Kin(T, Q)
  BY DEF Kin

LEMMA StructIs ==
    ASSUME NEW a \in TaskStruct, NEW s \in {"R", "I", "U", "T", "Z"}, NEW e \in Nat,
           NEW m \in SUBSET {SIGHUP, SIGKILL, SIGCHLD, SIGCONT, SIGSTOP}
    PROVE  [a EXCEPT !.state = s, !.exit_code = e, !.signal = m] \in TaskStruct
  BY DEF TaskStruct

(* A signal to the tasks of S *)
LEMMA SendSigIs ==
    ASSUME NEW T \in Values, NEW S \in SUBSET Task, \A t \in S : T[t] # NULL,
           NEW sig \in {SIGHUP, SIGKILL, SIGCHLD, SIGCONT, SIGSTOP},
           NEW R, R = SendSig(T, S, sig)
    PROVE  /\ R \in Values /\ Kin(T, R)
           /\ \A t \in Task \ S : R[t] = T[t]
           /\ \A t \in S : R[t].signal \subseteq T[t].signal \cup {sig}
           /\ sig = SIGCONT => \A t \in S : R[t].state # "T"
<1> USE DEF Values
<1>1. ASSUME NEW t \in Task \ S PROVE R[t] = T[t]
  BY <1>1 DEF SendSig
<1>2. ASSUME NEW t \in S
      PROVE  /\ R[t] \in TaskStruct
             /\ R[t].p_pptr = T[t].p_pptr /\ R[t].p_cptr = T[t].p_cptr
             /\ R[t].p_ysptr = T[t].p_ysptr /\ R[t].p_osptr = T[t].p_osptr
             /\ R[t].pid = T[t].pid /\ R[t].pgrp = T[t].pgrp /\ R[t].session = T[t].session
             /\ R[t].state = T[t].state \/ (T[t].state = "T" /\ R[t].state = "R")
             /\ R[t].signal \subseteq T[t].signal \cup {sig}
             /\ sig = SIGCONT => R[t].state # "T"
  <2> DEFINE a == T[t]
  <2>0. a \in TaskStruct
    BY <1>2
  <2>1. CASE sig \in {SIGKILL, SIGCONT}
    <3>1. R[t] = [a EXCEPT !.state = IF a.state = "T" THEN "R" ELSE a.state, !.exit_code = 0,
                           !.signal = (a.signal \ {SIGSTOP}) \cup {sig}]
      BY <1>2, <2>1 DEF SendSig
    <3> HIDE DEF a
    <3>2. (a.signal \ {SIGSTOP}) \cup {sig} \in SUBSET {SIGHUP, SIGKILL, SIGCHLD, SIGCONT, SIGSTOP}
      BY <2>0 DEF TaskStruct
    <3>3. R[t] \in TaskStruct
      <4> DEFINE m == (a.signal \ {SIGSTOP}) \cup {sig}
                 s == IF a.state = "T" THEN "R" ELSE a.state
      <4>1. R[t] = [a EXCEPT !.state = s, !.exit_code = 0, !.signal = m]
        BY <3>1
      <4>2. s \in {"R", "I", "U", "T", "Z"}
        BY <2>0 DEF TaskStruct
      <4>3. m \in SUBSET {SIGHUP, SIGKILL, SIGCHLD, SIGCONT, SIGSTOP}
        BY <3>2
      <4> HIDE DEF m, s
      <4>4. 0 \in Nat
        OBVIOUS
      <4>5. [a EXCEPT !.state = s, !.exit_code = 0, !.signal = m] \in TaskStruct
        BY <2>0, <4>2, <4>3, <4>4, StructIs
      <4> QED
        BY <4>1, <4>5
    <3>4. /\ R[t].p_pptr = a.p_pptr /\ R[t].p_cptr = a.p_cptr
          /\ R[t].p_ysptr = a.p_ysptr /\ R[t].p_osptr = a.p_osptr
          /\ R[t].pid = a.pid /\ R[t].pgrp = a.pgrp /\ R[t].session = a.session
          /\ R[t].state = IF a.state = "T" THEN "R" ELSE a.state
          /\ R[t].signal = (a.signal \ {SIGSTOP}) \cup {sig}
      BY <2>0, <3>1 DEF TaskStruct
    <3> QED
      BY <3>3, <3>4 DEF a
  <2>2. CASE sig \notin {SIGKILL, SIGCONT}
    <3>1. R[t] = [a EXCEPT !.signal = (IF sig = SIGSTOP THEN a.signal \ {SIGCONT} ELSE a.signal) \cup {sig}]
      BY <1>2, <2>2 DEF SendSig
    <3> HIDE DEF a
    <3>2. (IF sig = SIGSTOP THEN a.signal \ {SIGCONT} ELSE a.signal) \cup {sig}
            \in SUBSET {SIGHUP, SIGKILL, SIGCHLD, SIGCONT, SIGSTOP}
      BY <2>0 DEF TaskStruct
    <3>3. R[t] \in TaskStruct
      BY <2>0, <3>1, <3>2 DEF TaskStruct
    <3>4. /\ R[t].p_pptr = a.p_pptr /\ R[t].p_cptr = a.p_cptr
          /\ R[t].p_ysptr = a.p_ysptr /\ R[t].p_osptr = a.p_osptr
          /\ R[t].pid = a.pid /\ R[t].pgrp = a.pgrp /\ R[t].session = a.session
          /\ R[t].state = a.state
          /\ R[t].signal = (IF sig = SIGSTOP THEN a.signal \ {SIGCONT} ELSE a.signal) \cup {sig}
      BY <2>0, <3>1 DEF TaskStruct
    <3> QED
      BY <2>2, <3>3, <3>4 DEF a
  <2> QED
    BY <2>1, <2>2
<1>3. R \in Values
  BY <1>1, <1>2 DEF SendSig
<1>4. Kin(T, R)
  <2>1. NULL \notin TaskStruct
    BY NullTask
  <2> QED
    BY <1>1, <1>2, <2>1 DEF Kin
<1> QED
  BY <1>1, <1>2, <1>3, <1>4

(* Both signals to a group: no member is stopped any more. *)
LEMMA HangUpIs ==
    ASSUME NEW T \in Values, NEW g, NEW R, R = HangUp(T, g)
    PROVE  /\ R \in Values /\ Kin(T, R)
           /\ \A t \in Task \ Members(T, g) : R[t] = T[t]
           /\ \A t \in Members(T, g) : R[t].state # "T"
<1> DEFINE M == Members(T, g)
           Q == SendSig(T, M, SIGHUP)
<1>1. M \in SUBSET Task /\ \A t \in M : T[t] # NULL
  BY DEF Members
<1>2. R = SendSig(Q, M, SIGCONT)
  BY DEF HangUp
<1>3. /\ SIGHUP \in {SIGHUP, SIGKILL, SIGCHLD, SIGCONT, SIGSTOP}
      /\ SIGCONT \in {SIGHUP, SIGKILL, SIGCHLD, SIGCONT, SIGSTOP}
  OBVIOUS
<1> HIDE DEF M
<1>4. Q \in Values /\ Kin(T, Q) /\ \A t \in Task \ M : Q[t] = T[t]
  BY <1>1, <1>3, SendSigIs
<1>5. \A t \in M : Q[t] # NULL
  BY <1>1, <1>4 DEF Kin
<1> HIDE DEF Q
<1>6. /\ R \in Values /\ Kin(Q, R)
      /\ \A t \in Task \ M : R[t] = Q[t]
      /\ SIGCONT = SIGCONT => \A t \in M : R[t].state # "T"
  BY <1>1, <1>2, <1>3, <1>4, <1>5, SendSigIs
<1>7. Kin(T, R)
  BY <1>4, <1>6, KinTwice
<1> QED
  BY <1>4, <1>6, <1>7 DEF M

(* The tests of do_exit see no difference, where the parent of a group's   *)
(* member has a slot.                                                      *)
LEMMA KinGroups ==
    ASSUME NEW T, NEW R, Kin(T, R), NEW g,
           \A t \in Task : T[t] # NULL /\ T[t].p_pptr = NULL => T[t].pgrp = 0,
           T \in Values
    PROVE  /\ Members(R, g) = Members(T, g)
           /\ IsOrphanedPgrp(R, g) <=> IsOrphanedPgrp(T, g)
           /\ HasStoppedJobs(R, g) => HasStoppedJobs(T, g)
<1>1. Members(R, g) = Members(T, g)
  BY DEF Kin, Members
<1>2. ASSUME NEW t \in Members(T, g)
      PROVE  /\ R[t].state = "Z" <=> T[t].state = "Z"
             /\ R[t].p_pptr = T[t].p_pptr
             /\ R[R[t].p_pptr].pgrp = T[T[t].p_pptr].pgrp
             /\ R[R[t].p_pptr].session = T[T[t].p_pptr].session
             /\ R[t].session = T[t].session
             /\ R[t].state = "T" => T[t].state = "T"
  <2>1. t \in Task /\ T[t] # NULL /\ T[t].pgrp = g /\ g > 0
    BY DEF Members
  <2>2. T[t].p_pptr \in Task
    <3>1. T[t].p_pptr \in Task \cup {NULL}
      BY <2>1 DEF Values, TaskStruct
    <3>2. g # 0
      BY <2>1
    <3> QED
      BY <2>1, <3>1, <3>2
  <2>3. R[T[t].p_pptr].pgrp = T[T[t].p_pptr].pgrp /\ R[T[t].p_pptr].session = T[T[t].p_pptr].session
    BY <2>2 DEF Kin
  <2> QED
    BY <2>1, <2>3 DEF Kin
<1>3. IsOrphanedPgrp(R, g) <=> IsOrphanedPgrp(T, g)
  BY <1>1, <1>2 DEF IsOrphanedPgrp
<1>4. HasStoppedJobs(R, g) => HasStoppedJobs(T, g)
  BY <1>1, <1>2 DEF HasStoppedJobs
<1> QED
  BY <1>1, <1>3, <1>4

(* task[0] is the parent of no member of a group. *)
Grouped(T) == \A t \in Task : T[t] # NULL /\ T[t].p_pptr = NULL => T[t].pgrp = 0

(* The links and the pids of T and R are the same. *)
SameLinks(T, R) ==
    \A t \in Task :
        /\ R[t] = NULL <=> T[t] = NULL
        /\ T[t] # NULL =>
             /\ R[t].p_pptr = T[t].p_pptr /\ R[t].p_cptr = T[t].p_cptr
             /\ R[t].p_ysptr = T[t].p_ysptr /\ R[t].p_osptr = T[t].p_osptr
             /\ R[t].pid = T[t].pid

(* do_exit up to its loop: p is a zombie, and if a group has lost its last *)
(* guardian by that, it is not left stopped.                               *)
LEMMA DieIs ==
    ASSUME NEW T \in Values, Grouped(T), NEW p \in Task, T[p] # NULL,
           T[p].p_pptr \in Task, T[T[p].p_pptr] # NULL, T[p].p_pptr # p,
           NEW code \in Nat, NEW R, R = Die(T, p, code)
    PROVE  /\ R \in Values /\ SameLinks(T, R)
           /\ R[p].state = "Z"
           /\ \A t \in Task : T[t] # NULL => R[t].pgrp = T[t].pgrp
           /\ \A t \in Task : T[t] # NULL /\ t # p =>
                  \/ R[t].state = T[t].state
                  \/ T[t].state = "T" /\ R[t].state = "R"
           /\ \A t \in Task : T[t] # NULL /\ T[t].pgrp = 0 /\ t # p =>
                  R[t].signal \subseteq T[t].signal \cup {SIGCHLD}
           /\ \A g : ~IsOrphanedPgrp(T, g) /\ IsOrphanedPgrp(R, g) => ~HasStoppedJobs(R, g)
<1> DEFINE Z == [T EXCEPT ![p].state = "Z", ![p].exit_code = code]
           up == T[p].p_pptr
           gr == T[p].pgrp
           left == /\ T[up].pgrp # gr
                   /\ T[up].session = T[p].session
                   /\ IsOrphanedPgrp(Z, gr)
                   /\ HasStoppedJobs(Z, gr)
           H == IF left THEN HangUp(Z, gr) ELSE Z
<1>1. /\ \A t \in Task \ {p} : Z[t] = T[t]
      /\ Z[p] = [T[p] EXCEPT !.state = "Z", !.exit_code = code]
      /\ DOMAIN Z = Task
  BY DEF Values
<1>2. R = SendSig(H, {up}, SIGCHLD)
  BY DEF Die
<1> HIDE DEF Z
<1>3. Z[p] \in TaskStruct /\ Z[p].state = "Z" /\ Z[p].p_pptr = T[p].p_pptr
      /\ Z[p].p_cptr = T[p].p_cptr /\ Z[p].p_ysptr = T[p].p_ysptr /\ Z[p].p_osptr = T[p].p_osptr
      /\ Z[p].pid = T[p].pid /\ Z[p].pgrp = T[p].pgrp /\ Z[p].session = T[p].session
  <2> DEFINE a == T[p]
  <2>1. a \in TaskStruct
    BY DEF Values
  <2>2. Z[p] = [a EXCEPT !.state = "Z", !.exit_code = code]
    BY <1>1
  <2> HIDE DEF a
  <2>3. Z[p] \in TaskStruct
    BY <2>1, <2>2 DEF TaskStruct
  <2>4. Z[p].state = "Z" /\ Z[p].p_pptr = a.p_pptr
      /\ Z[p].p_cptr = a.p_cptr /\ Z[p].p_ysptr = a.p_ysptr /\ Z[p].p_osptr = a.p_osptr
      /\ Z[p].pid = a.pid /\ Z[p].pgrp = a.pgrp /\ Z[p].session = a.session
    BY <2>1, <2>2 DEF TaskStruct
  <2> QED
    BY <2>3, <2>4 DEF a
<1>4. Z \in Values
  <2>1. \A t \in Task : Z[t] \in TaskStruct \cup {NULL}
    BY <1>1, <1>3 DEF Values
  <2>2. Z = [t \in Task |-> Z[t]]
    BY DEF Z, Values
  <2> QED
    BY <2>1, <2>2 DEF Values
<1>5. Z[p] # NULL
  BY <1>3, NullTask
<1>6. /\ H \in Values /\ Kin(Z, H)
      /\ \A t \in Task \ Members(Z, gr) : H[t] = Z[t]
      /\ left => \A t \in Members(Z, gr) : H[t].state # "T"
  <2>1. CASE left
    <3>1. H = HangUp(Z, gr)
      BY <2>1
    <3> HIDE DEF H, left
    <3> QED
      BY <1>4, <3>1, HangUpIs
  <2>2. CASE ~left
    <3>1. H = Z
      BY <2>2
    <3>2. Kin(Z, Z)
      BY DEF Kin
    <3> QED
      BY <1>4, <2>2, <3>1, <3>2
  <2> QED
    BY <2>1, <2>2
<1>7. Z[up] = T[up] /\ up \in Task /\ H[up] # NULL
  BY <1>1, <1>6 DEF Kin
<1> HIDE DEF H, left
<1>8. /\ R \in Values /\ Kin(H, R)
      /\ \A t \in Task \ {up} : R[t] = H[t]
      /\ R[up].signal \subseteq H[up].signal \cup {SIGCHLD}
  <2> DEFINE U == {up}
  <2>1. U \in SUBSET Task /\ \A t \in U : H[t] # NULL
    BY <1>7
  <2>2. SIGCHLD \in {SIGHUP, SIGKILL, SIGCHLD, SIGCONT, SIGSTOP}
    OBVIOUS
  <2>3. R = SendSig(H, U, SIGCHLD)
    BY <1>2
  <2> HIDE DEF U
  <2>4. /\ R \in Values /\ Kin(H, R)
        /\ \A t \in Task \ U : R[t] = H[t]
        /\ \A t \in U : R[t].signal \subseteq H[t].signal \cup {SIGCHLD}
    BY <1>6, <2>1, <2>2, <2>3, SendSigIs
  <2> QED
    BY <2>4 DEF U
<1>9. Kin(Z, R)
  BY <1>6, <1>8, KinTwice
<1>10. SameLinks(T, R)
  <2> SUFFICES ASSUME NEW t \in Task
               PROVE  /\ R[t] = NULL <=> T[t] = NULL
                      /\ T[t] # NULL =>
                           /\ R[t].p_pptr = T[t].p_pptr /\ R[t].p_cptr = T[t].p_cptr
                           /\ R[t].p_ysptr = T[t].p_ysptr /\ R[t].p_osptr = T[t].p_osptr
                           /\ R[t].pid = T[t].pid
    BY DEF SameLinks
  <2>1. CASE t = p
    BY <1>3, <1>5, <1>9, <2>1 DEF Kin
  <2>2. CASE t # p
    BY <1>1, <1>9, <2>2 DEF Kin
  <2> QED
    BY <2>1, <2>2
<1>11. /\ R[p].state = "Z"
       /\ \A t \in Task : T[t] # NULL => R[t].pgrp = T[t].pgrp
       /\ \A t \in Task : T[t] # NULL /\ t # p =>
                  \/ R[t].state = T[t].state
                  \/ T[t].state = "T" /\ R[t].state = "R"
  <2>1. R[p].state = "Z" /\ R[p].pgrp = T[p].pgrp
    BY <1>3, <1>5, <1>9 DEF Kin
  <2> QED
    BY <1>1, <1>9, <2>1 DEF Kin
<1>12. ASSUME NEW t \in Task, T[t] # NULL, T[t].pgrp = 0, t # p
       PROVE  R[t].signal \subseteq T[t].signal \cup {SIGCHLD}
  <2>1. Z[t] = T[t]
    BY <1>1, <1>12
  <2>2. t \notin Members(Z, gr)
    BY <2>1, <1>12 DEF Members
  <2>3. H[t] = T[t]
    BY <1>6, <2>1, <2>2
  <2> QED
    BY <1>8, <2>3
<1>13. ASSUME NEW g, ~IsOrphanedPgrp(T, g), IsOrphanedPgrp(R, g)
       PROVE  ~HasStoppedJobs(R, g)
  <2>1. \A t \in Task : Z[t] # NULL /\ Z[t].p_pptr = NULL => Z[t].pgrp = 0
    <3>1. \A t \in Task \ {p} : Z[t] # NULL /\ Z[t].p_pptr = NULL => Z[t].pgrp = 0
      BY <1>1 DEF Grouped
    <3>2. Z[p].p_pptr # NULL
      BY <1>3, TaskNames
    <3> QED
      BY <3>1, <3>2
  <2>2. IsOrphanedPgrp(Z, g)
    BY <1>4, <1>9, <1>13, <2>1, KinGroups, Zenon
  <2>3. PICK t \in Members(T, g) :
              ~ (\/ T[t].state = "Z"
                 \/ T[t].p_pptr = InitTask
                 \/ T[T[t].p_pptr].pgrp = g
                 \/ T[T[t].p_pptr].session # T[t].session)
    BY <1>13 DEF IsOrphanedPgrp
  <2>4. t \in Task /\ T[t] # NULL /\ T[t].pgrp = g /\ g > 0
    BY DEF Members
  <2>5. T[t].p_pptr \in Task
    <3>1. T[t].p_pptr \in Task \cup {NULL}
      BY <2>4 DEF Values, TaskStruct
    <3>2. g # 0
      BY <2>4
    <3> QED
      BY <2>4, <3>1, <3>2 DEF Grouped
  <2>6. t \in Members(Z, g)
    BY <1>1, <1>3, <1>5, <2>4 DEF Members
  <2>7. \/ Z[t].state = "Z"
        \/ Z[t].p_pptr = InitTask
        \/ Z[Z[t].p_pptr].pgrp = g
        \/ Z[Z[t].p_pptr].session # Z[t].session
    BY <2>2, <2>6 DEF IsOrphanedPgrp
  <2>8. Z[T[t].p_pptr].pgrp = T[T[t].p_pptr].pgrp /\ Z[T[t].p_pptr].session = T[T[t].p_pptr].session
    BY <2>5, <1>1, <1>3
  <2>9. t = p
    BY <1>1, <2>3, <2>4, <2>7, <2>8
  <2>10. g = gr /\ T[up].pgrp # gr /\ T[up].session = T[p].session
    BY <2>3, <2>4, <2>9
  <2>11. ~HasStoppedJobs(H, g)
    <3>1. CASE HasStoppedJobs(Z, gr)
      <4>1. left
        BY <2>2, <2>10, <3>1 DEF left
      <4>2. Members(H, g) = Members(Z, gr)
        BY <1>4, <1>6, <2>1, <2>10, KinGroups, Zenon
      <4> QED
        BY <1>6, <4>1, <4>2 DEF HasStoppedJobs
    <3>2. CASE ~HasStoppedJobs(Z, gr)
      BY <1>4, <1>6, <2>1, <2>10, <3>2, KinGroups, Zenon
    <3> QED
      BY <3>1, <3>2
  <2>12. \A u \in Task : H[u] # NULL /\ H[u].p_pptr = NULL => H[u].pgrp = 0
    BY <2>1, <1>6 DEF Kin
  <2> QED
    BY <1>6, <1>8, <2>11, <2>12, KinGroups, Zenon
<1> QED
  BY <1>8, <1>10, <1>11, <1>12, <1>13

-----------------------------------------------------------------------------
(***************************************************************************)
(* Steps that change no link.                                              *)
(***************************************************************************)
LEMMA KeptTree ==
    ASSUME SameLinks(task, task'), \A t \in Task : loc'[t].kid = loc[t].kid
    PROVE  /\ Used' = Used /\ Unborn' = Unborn /\ Linked' = Linked
           /\ PP' = PP /\ CP' = CP /\ YS' = YS /\ OS' = OS
<1>1. Used' = Used
  BY DEF Used, SameLinks
<1>2. Unborn' = Unborn
  BY <1>1 DEF Unborn, Used
<1>3. Linked' = Linked
  BY <1>1, <1>2 DEF Linked
<1>4. \A t \in Linked : t \in Task /\ task[t] # NULL
  BY DEF Linked, Used
<1>5. PP' = PP
  BY <1>3, <1>4 DEF PP, SameLinks
<1>6. CP' = CP
  BY <1>3, <1>4 DEF CP, SameLinks
<1>7. YS' = YS
  BY <1>3, <1>4 DEF YS, SameLinks
<1>8. OS' = OS
  BY <1>3, <1>4 DEF OS, SameLinks
<1> QED
  BY <1>1, <1>2, <1>3, <1>5, <1>6, <1>7, <1>8

(* Whoever owns the processor is the only one to scan or to adopt. *)
LEMMA Alone ==
    ASSUME Places, NEW p \in Task, cpu \in {NULL, p}
    PROVE  \A t \in Task \ {p} : pc[t] \notin {"scan", "adopt"}
  BY TaskNames DEF Places

(* Task p moves between user mode, the scan of its children and the sleep  *)
(* in waitpid; signals, states and groups may change.                      *)
Quiet(p) ==
    /\ scene' = scene /\ cpu \in {NULL, p}
    /\ SameLinks(task, task')
    /\ \A t \in Task : loc'[t].kid = loc[t].kid
    /\ \A t \in Task \ {p} : pc'[t] = pc[t]
    /\ pc[p] \in {"user", "scan", "wait"} /\ pc'[p] \in {"user", "scan", "wait"}
    /\ pc'[p] = "scan" => cpu' = p
    /\ pc'[p] = "scan" /\ loc'[p].p # NULL => loc'[p].p \in Linked /\ task[loc'[p].p].p_pptr = p
    /\ p \in Linked
    /\ \A t \in Used : task'[t].state = "Z" <=> task[t].state = "Z"
    /\ \A t \in Unborn : task'[t].state = task[t].state
    /\ \A t \in Used :
         \/ task'[t].pgrp = task[t].pgrp
         \/ /\ t # InitTask /\ task[t].p_pptr # NULL
            /\ scene.ops \cap {"setpgid", "setsid"} # {}
    /\ task'[InitTask].signal \subseteq {SIGCHLD}

LEMMA QuietStep ==
    ASSUME ProcInv, TypeOK', NEW p \in Task, Quiet(p)
    PROVE  ProcInv'
<1>1. /\ Used' = Used /\ Unborn' = Unborn /\ Linked' = Linked
      /\ PP' = PP /\ CP' = CP /\ YS' = YS /\ OS' = OS
  BY KeptTree DEF Quiet
<1>2. \A t \in Task \ {p} : pc[t] \notin {"scan", "adopt"}
  BY Alone DEF Quiet, ProcInv
<1>3. Adopters' = {} /\ Adopters = {}
  BY <1>2 DEF Quiet, Adopters
<1>4. Places'
  <2> SUFFICES ASSUME NEW t \in Task
               PROVE  /\ task'[t] = NULL => pc'[t] = "user" /\ loc'[t].kid = NULL
                      /\ pc'[t] = "copy" <=> loc'[t].kid # NULL
                      /\ pc'[t] \in {"scan", "adopt"} => cpu' = t
                      /\ task'[t] # NULL => (task'[t].state = "Z" <=> pc'[t] \in {"adopt", "dead"})
                      /\ pc'[t] = "dead" => task'[t].p_cptr = NULL
                      /\ pc'[t] = "scan" /\ loc'[t].p # NULL =>
                             loc'[t].p \in Linked' /\ task'[loc'[t].p].p_pptr = t
                      /\ t \in Unborn' => /\ task'[t] # NULL /\ task'[t].state = "U"
                                          /\ pc'[t] = "user" /\ t # InitTask
                      /\ \A s \in Task : loc'[s].kid = loc'[t].kid /\ loc'[s].kid # NULL => s = t
    BY DEF Places
  <2>0. Places /\ SameLinks(task, task')
    BY DEF ProcInv, Quiet
  <2>1. task'[t] = NULL => pc'[t] = "user" /\ loc'[t].kid = NULL
    BY <2>0 DEF Places, SameLinks, Quiet, Linked, Used
  <2>2. pc'[t] = "copy" <=> loc'[t].kid # NULL
    BY <2>0 DEF Places, Quiet
  <2>3. pc'[t] \in {"scan", "adopt"} => cpu' = t
    BY <1>2 DEF Quiet
  <2>4. task'[t] # NULL => (task'[t].state = "Z" <=> pc'[t] \in {"adopt", "dead"})
    BY <2>0, <1>1 DEF Places, Quiet, Used
  <2>5. pc'[t] = "dead" => task'[t].p_cptr = NULL
    BY <2>0 DEF Places, SameLinks, Quiet
  <2>6. pc'[t] = "scan" /\ loc'[t].p # NULL => loc'[t].p \in Linked' /\ task'[loc'[t].p].p_pptr = t
    BY <2>0, <1>1, <1>2 DEF SameLinks, Quiet, Linked, Used
  <2>7. t \in Unborn' => task'[t] # NULL /\ task'[t].state = "U" /\ pc'[t] = "user" /\ t # InitTask
    BY <2>0, <1>1 DEF Places, SameLinks, Quiet, Linked
  <2>8. \A s \in Task : loc'[s].kid = loc'[t].kid /\ loc'[s].kid # NULL => s = t
    BY <2>0 DEF Places, Quiet
  <2> QED
    BY <2>1, <2>2, <2>3, <2>4, <2>5, <2>6, <2>7, <2>8
<1>5. Numbers'
  <2>1. Numbers /\ SameLinks(task, task')
    BY DEF ProcInv, Quiet
  <2>2. scene'.ops \cap {"setpgid", "setsid"} = {} => \A t \in Used' : task'[t].pgrp = 0
    BY <1>1, <2>1 DEF Numbers, Quiet
  <2>3. \A t \in Used' : task'[t].p_pptr = NULL => task'[t].pgrp = 0
    BY <1>1, <2>1 DEF Numbers, Quiet, SameLinks, Used
  <2>4. \A s, t \in Used' : s # t => task'[s].pid # task'[t].pid
    BY <1>1, <2>1 DEF Numbers, SameLinks, Used
  <2> QED
    BY <1>1, <2>1, <2>2, <2>3, <2>4 DEF Numbers, Quiet
<1>6. InitLives'
  <2>1. InitTask \in Task /\ InitTask \in Used
    BY DEF ProcInv, InitLives, Linked, Used
  <2>2. pc'[InitTask] \notin {"adopt", "dead"}
    BY <2>1 DEF Quiet, ProcInv, InitLives
  <2> QED
    BY <1>1, <2>1, <2>2 DEF InitLives, ProcInv, Quiet
<1>7. TreeInv'
  BY <1>1, <1>3 DEF TreeInv, ProcInv
<1>8. NoneLeftStopped'
  BY <1>3 DEF NoneLeftStopped, Adopters
<1> QED
  BY <1>4, <1>5, <1>6, <1>7, <1>8 DEF ProcInv

-----------------------------------------------------------------------------
(***************************************************************************)
(* find_empty_process.                                                     *)
(***************************************************************************)

(* Every nonempty set of numbers has a least one. *)
LEMMA LeastNat ==
    ASSUME NEW T, T \subseteq Nat, T # {} PROVE \E x \in T : \A y \in T : x <= y
<1> DEFINE R == OpToRel(<, Nat)
<1>1. IsWellFoundedOn(R, Nat)
  BY NatLessThanWellFounded, Zenon
<1>2. PICK x \in T : \A y \in T : ~(<<y, x>> \in R)
  <2> HIDE DEF R
  <2> QED
    BY <1>1, WFMin
<1>3. \A y \in T : ~(y < x)
  BY <1>2 DEF OpToRel
<1> QED
  BY <1>3

(* There are no more pids than tasks, and no more groups. *)
LEMMA FewNumbers ==
    ASSUME NEW f, NEW S, NEW V, NEW n \in Nat, IsFiniteSet(V), S \subseteq V, Cardinality(V) <= n,
           f = [t \in S |-> f[t]]
    PROVE  IsFiniteSet({f[t] : t \in S}) /\ Cardinality({f[t] : t \in S}) <= n
<1> DEFINE I == {f[t] : t \in S}
<1>1. IsFiniteSet(S) /\ Cardinality(S) <= Cardinality(V)
  BY FS_Subset
<1>2. f \in Surjection(S, I)
  BY DEF Surjection
<1> HIDE DEF I
<1>3. IsFiniteSet(I) /\ Cardinality(I) <= Cardinality(S)
  BY <1>1, <1>2, FS_Surjection
<1>4. Cardinality(I) \in Nat /\ Cardinality(S) \in Nat /\ Cardinality(V) \in Nat
  BY <1>1, <1>3, FS_CardinalityType
<1>5. IsFiniteSet(I) /\ Cardinality(I) <= n
  BY <1>1, <1>3, <1>4
<1> QED
  BY <1>5 DEF I

(* A number is always free: the loop of find_empty_process ends, with a    *)
(* pid that no task and no group has.                                      *)
LEMMA NextPidIs == ASSUME TypeOK, Numbers PROVE NextPid \in (1..MaxPid) \ PidsTaken
<1> DEFINE Turns(n) == (n - last_pid - 1) % MaxPid
           Free == (1..MaxPid) \ PidsTaken
           n == Cardinality(scene.slots)
           A == {task[t].pid : t \in Used}
           B == {task[t].pgrp : t \in Used}
<1>1. MaxPid \in Nat /\ scene \in Scenes /\ scene.slots \subseteq Task /\ IsFiniteSet(Task)
  BY PidRoom, SceneParams, TaskNames DEF TypeOK
<1>2. IsFiniteSet(scene.slots) /\ n \in Nat
  BY <1>1, FS_Subset, FS_CardinalityType
<1>3. Used \subseteq scene.slots
  BY DEF Numbers
<1>4. IsFiniteSet(A) /\ Cardinality(A) <= n
  <2> DEFINE f == [t \in Used |-> task[t].pid]
  <2>1. A = {f[t] : t \in Used}
    OBVIOUS
  <2>2. f = [t \in Used |-> f[t]]
    OBVIOUS
  <2>3. Cardinality(scene.slots) <= n
    BY <1>2
  <2> HIDE DEF f, A, n
  <2> QED
    BY <1>2, <1>3, <2>1, <2>2, <2>3, FewNumbers
<1>5. IsFiniteSet(B) /\ Cardinality(B) <= n
  <2> DEFINE f == [t \in Used |-> task[t].pgrp]
  <2>1. B = {f[t] : t \in Used}
    OBVIOUS
  <2>2. f = [t \in Used |-> f[t]]
    OBVIOUS
  <2>3. Cardinality(scene.slots) <= n
    BY <1>2
  <2> HIDE DEF f, B, n
  <2> QED
    BY <1>2, <1>3, <2>1, <2>2, <2>3, FewNumbers
<1>6. IsFiniteSet(1..MaxPid) /\ Cardinality(1..MaxPid) = MaxPid
  <2>1. 1 \in Int /\ MaxPid \in Int
    BY <1>1
  <2>2. IsFiniteSet(1..MaxPid) /\ Cardinality(1..MaxPid) = IF 1 > MaxPid THEN 0 ELSE MaxPid - 1 + 1
    BY <2>1, FS_Interval
  <2> QED
    BY <1>1, <2>2
<1>7. Free # {}
  <2> SUFFICES ASSUME Free = {} PROVE FALSE
    OBVIOUS
  <2>1. 1..MaxPid \subseteq A \cup B
    BY DEF PidsTaken
  <2> DEFINE few == scene.ops \cap {"setpgid", "setsid"} = {}
  <2>2. MaxPid > (IF few THEN 1 ELSE 2) * n
    BY <1>1, PidRoom
  <2>3. CASE few
    <3>1. \A t \in Used : task[t].pgrp = 0
      BY <2>3 DEF Numbers
    <3>2. 1..MaxPid \subseteq A
      <4> SUFFICES ASSUME NEW k \in 1..MaxPid PROVE k \in A
        OBVIOUS
      <4>1. k # 0 /\ k \in A \cup B
        BY <2>1
      <4> QED
        BY <3>1, <4>1
    <3> HIDE DEF A, B, n
    <3>3. Cardinality(1..MaxPid) <= Cardinality(A)
      BY <1>4, <3>2, FS_Subset
    <3>4. Cardinality(A) \in Nat
      BY <1>4, FS_CardinalityType
    <3> QED
      BY <1>1, <1>2, <1>4, <1>6, <2>2, <2>3, <3>3, <3>4
  <2>4. CASE ~few
    <3> HIDE DEF A, B, n
    <3>1. IsFiniteSet(A \cup B) /\ Cardinality(A \cup B) = Cardinality(A) + Cardinality(B) - Cardinality(A \cap B)
      BY <1>4, <1>5, FS_Union
    <3>2. IsFiniteSet(A \cap B)
      BY <1>4, FS_Subset
    <3>3. Cardinality(A) \in Nat /\ Cardinality(B) \in Nat /\ Cardinality(A \cap B) \in Nat
      BY <1>4, <1>5, <3>2, FS_CardinalityType
    <3>4. Cardinality(1..MaxPid) <= Cardinality(A \cup B)
      BY <3>1, <2>1, FS_Subset
    <3> QED
      BY <1>1, <1>2, <1>4, <1>5, <1>6, <2>2, <2>4, <3>1, <3>3, <3>4
  <2> QED
    BY <2>3, <2>4
<1>8. \A k \in Free : Turns(k) \in Nat
  <2> SUFFICES ASSUME NEW k \in 1..MaxPid PROVE Turns(k) \in Nat
    OBVIOUS
  <2>1. last_pid \in Int /\ k \in Int /\ MaxPid > 0
    BY <1>1 DEF TypeOK
  <2>2. k - last_pid - 1 \in Int
    BY <2>1
  <2> QED
    BY <1>1, <2>1, <2>2
<1>9. \E k \in Free : \A m \in Free : Turns(k) <= Turns(m)
  <2> DEFINE V == {Turns(k) : k \in Free}
  <2>1. V \subseteq Nat /\ V # {}
    BY <1>7, <1>8
  <2>2. PICK x \in V : \A y \in V : x <= y
    <3> HIDE DEF V
    <3> QED
      BY <2>1, LeastNat
  <2>3. PICK k \in Free : x = Turns(k)
    BY <2>2
  <2>4. \A m \in Free : Turns(k) <= Turns(m)
    BY <2>2, <2>3
  <2> QED
    BY <2>4
<1>10. NextPid = CHOOSE k \in Free : \A m \in Free : Turns(k) <= Turns(m)
  BY DEF NextPid
<1> HIDE DEF Free, Turns
<1>11. NextPid \in Free
  BY <1>9, <1>10
<1> QED
  BY <1>11 DEF Free

-----------------------------------------------------------------------------
(***************************************************************************)
(* What the invariant says of one task.                                    *)
(***************************************************************************)
LEMMA LinkedIs ==
    ASSUME ProcInv, NEW t \in Linked
    PROVE  /\ t \in Task /\ t \in Used /\ t \notin Unborn /\ task[t] \in TaskStruct /\ task[t] # NULL
           /\ task[t].p_pptr \in Linked \cup {NULL} /\ task[t].p_cptr \in Linked \cup {NULL}
           /\ task[t].p_ysptr \in Linked \cup {NULL} /\ task[t].p_osptr \in Linked \cup {NULL}
           /\ t # InitTask => task[t].p_pptr \in Linked
           /\ t \notin {task[t].p_pptr, task[t].p_cptr, task[t].p_ysptr, task[t].p_osptr}
           /\ task[t].p_cptr # NULL => task[task[t].p_cptr].p_pptr = t
           /\ task[t].p_osptr # NULL => task[task[t].p_osptr].p_pptr = task[t].p_pptr
<1>1. t \in Task /\ t \in Used /\ t \notin Unborn /\ task[t] \in TaskStruct /\ task[t] # NULL
  BY DEF Linked, Used, ProcInv, TypeOK
<1>2. Tree(Linked, PP, CP, YS, OS, Adopters)
  BY DEF ProcInv, TreeInv
<1>3. \A u \in Linked : /\ PP[u] = task[u].p_pptr /\ CP[u] = task[u].p_cptr
                        /\ YS[u] = task[u].p_ysptr /\ OS[u] = task[u].p_osptr
  BY DEF PP, CP, YS, OS
<1>4. t \notin {PP[t], CP[t], YS[t], OS[t]}
  BY <1>2, NoLoops
<1>5. Links(Linked, PP, CP, YS, OS) /\ Agree(Linked, PP, CP, YS, OS, Adopters)
  BY <1>2 DEF Tree
<1> HIDE DEF PP, CP, YS, OS
<1>6. /\ PP[t] \in Linked \cup {NULL} /\ CP[t] \in Linked \cup {NULL}
      /\ YS[t] \in Linked \cup {NULL} /\ OS[t] \in Linked \cup {NULL}
      /\ t # InitTask => PP[t] \in Linked
      /\ CP[t] # NULL => PP[CP[t]] = t
      /\ OS[t] # NULL => PP[OS[t]] = PP[t]
  BY <1>5 DEF Links, Agree
<1> QED
  BY <1>1, <1>3, <1>4, <1>6

(* A task in user mode, or at one of the places in the kernel, is linked. *)
LEMMA PlaceIs ==
    ASSUME ProcInv, NEW p \in Task, User(p) \/ pc[p] # "user"
    PROVE  p \in Linked
<1>1. p \in Used
  BY DEF User, ProcInv, Places, Used
<1>2. p \notin Unborn
  BY DEF User, ProcInv, Places
<1> QED
  BY <1>1, <1>2 DEF Linked

(* A task without a fork under way has no new structure. *)
LEMMA KidNull ==
    ASSUME ProcInv, NEW p \in Task, pc[p] # "copy" PROVE loc[p].kid = NULL
  BY DEF ProcInv, Places

(***************************************************************************)
(* The quiet steps.                                                        *)
(***************************************************************************)
LEMMA ForkNoSlotKeeps == ASSUME ProcInv, NEW p \in Task, ForkNoSlot(p) PROVE ProcInv'
<1>1. p \in Linked
  BY PlaceIs DEF ForkNoSlot
<1>2. NextPid \in 1..MaxPid
  BY NextPidIs DEF ProcInv
<1>3. TypeOK'
  BY <1>2, Zenon DEF ForkNoSlot, ProcInv, TypeOK
<1>4. SameLinks(task, task')
  BY DEF ForkNoSlot, SameLinks
<1>5. Quiet(p)
  <2>1. InitLives
    BY DEF ProcInv
  <2> QED
    BY <1>1, <1>4, <2>1 DEF Quiet, ForkNoSlot, User, InitLives
<1> QED
  BY <1>3, <1>5, QuietStep

LEMMA WaitpidKeeps ==
    ASSUME ProcInv, NEW p \in Task, NEW w \in -MaxPid..MaxPid, NEW o \in scene.options, Waitpid(p, w, o)
    PROVE  ProcInv'
<1>1. p \in Linked
  BY PlaceIs DEF Waitpid
<1>2. TypeOK
  BY DEF ProcInv
<1>3. o \in SUBSET {"WNOHANG", "WUNTRACED"} /\ w \in Int
  BY <1>2, SceneParams, PidRoom DEF TypeOK
<1> DEFINE r == [NoLoc EXCEPT !.pid = w, !.options = o, !.p = task[p].p_cptr]
<1>4. /\ task[p].p_cptr \in Linked \cup {NULL} /\ Linked \subseteq Task
      /\ task[p].p_cptr # NULL => task[task[p].p_cptr].p_pptr = p
  BY <1>1, LinkedIs DEF Linked, Used
<1>5. /\ r \in Locals
      /\ r.kid = NULL /\ r.p = task[p].p_cptr
  BY <1>3, <1>4 DEF NoLoc, Locals
<1>6. loc' = [loc EXCEPT ![p] = r] /\ pc' = [pc EXCEPT ![p] = "scan"] /\ cpu' = p
  BY DEF Waitpid
<1> HIDE DEF r
<1>7. TypeOK'
  <2>1. loc' \in [Task -> Locals]
    BY <1>2, <1>5, <1>6, Zenon DEF TypeOK
  <2>2. pc' \in [Task -> {"user", "copy", "adopt", "dead", "scan", "wait"}]
    BY <1>2, <1>6 DEF TypeOK
  <2> QED
    BY <1>2, <1>6, <2>1, <2>2, Zenon DEF Waitpid, TypeOK
<1>8. Quiet(p)
  <2>1. /\ \A t \in Task \ {p} : loc'[t] = loc[t] /\ pc'[t] = pc[t]
        /\ loc'[p] = r /\ pc'[p] = "scan"
    BY <1>2, <1>6 DEF TypeOK
  <2>2. loc[p].kid = NULL
    BY KidNull DEF Waitpid, User
  <2>3. \A t \in Task : loc'[t].kid = loc[t].kid
    BY <1>5, <2>1, <2>2
  <2>4. InitLives
    BY DEF ProcInv
  <2>5. SameLinks(task, task')
    BY DEF Waitpid, SameLinks
  <2>6. scene' = scene /\ cpu = NULL /\ pc[p] = "user" /\ task' = task
    BY DEF Waitpid, User
  <2>7. loc'[p].p # NULL => loc'[p].p \in Linked /\ task[loc'[p].p].p_pptr = p
    BY <1>4, <1>5, <2>1
  <2> QED
    BY <1>1, <1>6, <2>1, <2>3, <2>4, <2>5, <2>6, <2>7 DEF Quiet, InitLives
<1> QED
  BY <1>7, <1>8, QuietStep

LEMMA WaitNextKeeps ==
    ASSUME ProcInv, NEW p \in Task, NEW c \in Task, WaitNext(p, c) PROVE ProcInv'
<1>0. pc[p] = "scan" /\ c = loc[p].p /\ c # NULL
  BY DEF WaitNext, At
<1>1. p \in Linked /\ c \in Linked /\ task[c].p_pptr = p /\ cpu = p
  BY <1>0, PlaceIs DEF ProcInv, Places
<1>2. TypeOK
  BY DEF ProcInv
<1> DEFINE n == task[c].p_osptr
           b == loc[p].flag \/ (Wanted(p, c) /\ task[c].state # "T")
           r == [loc[p] EXCEPT !.p = n, !.flag = b]
<1>3. n \in Linked \cup {NULL} /\ Linked \subseteq Task /\ (n # NULL => task[n].p_pptr = p)
  BY <1>1, LinkedIs DEF Linked, Used
<1>4. loc' = [loc EXCEPT ![p] = r] /\ UNCHANGED <<task, last_pid, cpu, pc, guarded, scene>>
  BY <1>2 DEF WaitNext, TypeOK
<1>5. b \in BOOLEAN
  BY Zenon
<1> HIDE DEF n, b
<1>6. /\ r \in Locals
      /\ r.kid = loc[p].kid /\ r.p = n
  <2> DEFINE a == loc[p]
  <2>1. a \in Locals
    BY <1>2 DEF TypeOK
  <2>2. r = [a EXCEPT !.p = n, !.flag = b]
    OBVIOUS
  <2> HIDE DEF a, r
  <2>3. n \in Task \cup {NULL}
    BY <1>3
  <2>4. r.kid = a.kid /\ r.p = n
    BY <2>1, <2>2 DEF Locals
  <2> QED
    BY <2>1, <2>2, <2>3, <2>4, <1>5, Zenon DEF a, Locals
<1> HIDE DEF r
<1>7. TypeOK'
  <2>1. loc' \in [Task -> Locals]
    BY <1>2, <1>4, <1>6, Zenon DEF TypeOK
  <2> QED
    BY <1>2, <1>4, <2>1, Zenon DEF TypeOK
<1>8. Quiet(p)
  <2>1. (\A t \in Task \ {p} : loc'[t] = loc[t]) /\ loc'[p] = r
    BY <1>2, <1>4 DEF TypeOK
  <2>2. \A t \in Task : loc'[t].kid = loc[t].kid
    BY <1>6, <2>1
  <2>3. InitLives
    BY DEF ProcInv
  <2>4. SameLinks(task, task')
    BY <1>4 DEF SameLinks
  <2>5. loc'[p].p # NULL => loc'[p].p \in Linked /\ task[loc'[p].p].p_pptr = p
    BY <1>3, <1>6, <2>1
  <2> QED
    BY <1>0, <1>1, <1>4, <2>1, <2>2, <2>3, <2>4, <2>5 DEF Quiet, InitLives
<1> QED
  BY <1>7, <1>8, QuietStep

(* A structure is replaced by one with the same links and pid. *)
Alike(r, s) ==
    /\ r.p_pptr = s.p_pptr /\ r.p_cptr = s.p_cptr /\ r.p_ysptr = s.p_ysptr
    /\ r.p_osptr = s.p_osptr /\ r.pid = s.pid

LEMMA PutIs ==
    ASSUME NEW T, NEW R, NEW c \in Task, R[c] \in TaskStruct, T[c] # NULL, Alike(R[c], T[c]),
           \A t \in Task \ {c} : R[t] = T[t]
    PROVE  SameLinks(T, R)
<1>1. R[c] # NULL
  BY NullTask
<1> QED
  BY <1>1 DEF SameLinks, Alike

LEMMA ReturnIs ==
    ASSUME ProcInv, NEW p \in Task, pc[p] # "copy", Return(p)
    PROVE  /\ pc' \in [Task -> {"user", "copy", "adopt", "dead", "scan", "wait"}]
           /\ loc' \in [Task -> Locals] /\ cpu' = NULL
           /\ \A t \in Task : loc'[t].kid = loc[t].kid
           /\ \A t \in Task \ {p} : pc'[t] = pc[t]
           /\ pc'[p] = "user"
<1>1. NoLoc \in Locals /\ NoLoc.kid = NULL
  BY DEF NoLoc, Locals
<1>2. loc' = [loc EXCEPT ![p] = NoLoc] /\ pc' = [pc EXCEPT ![p] = "user"] /\ cpu' = NULL
  BY DEF Return
<1>3. loc \in [Task -> Locals] /\ pc \in [Task -> {"user", "copy", "adopt", "dead", "scan", "wait"}]
  BY DEF ProcInv, TypeOK
<1>4. loc[p].kid = NULL
  BY KidNull
<1> HIDE DEF NoLoc
<1>5. loc' \in [Task -> Locals]
  BY <1>1, <1>2, <1>3, Zenon
<1>6. \A t \in Task : loc'[t].kid = loc[t].kid
  BY <1>1, <1>2, <1>3, <1>4
<1>7. pc' \in [Task -> {"user", "copy", "adopt", "dead", "scan", "wait"}]
  BY <1>2, <1>3
<1> QED
  BY <1>2, <1>3, <1>5, <1>6, <1>7

LEMMA WaitStoppedKeeps ==
    ASSUME ProcInv, NEW p \in Task, NEW c \in Task, WaitStopped(p, c) PROVE ProcInv'
<1>0. pc[p] = "scan" /\ c = loc[p].p /\ c # NULL
  BY DEF WaitStopped, At
<1>1. p \in Linked /\ c \in Linked /\ task[c].p_pptr = p /\ cpu = p
  BY <1>0, PlaceIs DEF ProcInv, Places
<1>2. task \in Values /\ task[c] \in TaskStruct /\ task[c] # NULL
  BY <1>1, LinkedIs DEF ProcInv, TypeOK, Values
<1> DEFINE r == [task[c] EXCEPT !.exit_code = 0]
<1>3. task' = [task EXCEPT ![c] = r] /\ UNCHANGED <<last_pid, guarded, scene>> /\ Return(p)
  BY <1>2 DEF WaitStopped, Values
<1>4. /\ r \in TaskStruct /\ Alike(r, task[c])
      /\ r.state = task[c].state /\ r.pgrp = task[c].pgrp /\ r.signal = task[c].signal
  BY <1>2 DEF TaskStruct, Alike
<1> HIDE DEF r
<1>5. /\ task' \in Values /\ SameLinks(task, task')
      /\ task'[c] = r /\ \A t \in Task \ {c} : task'[t] = task[t]
  <2>1. task' \in Values /\ task'[c] = r /\ \A t \in Task \ {c} : task'[t] = task[t]
    BY <1>2, <1>3, <1>4 DEF Values
  <2> QED
    BY <1>2, <1>3, <1>4, <2>1, PutIs
<1>6. /\ pc' \in [Task -> {"user", "copy", "adopt", "dead", "scan", "wait"}]
      /\ loc' \in [Task -> Locals] /\ cpu' = NULL
      /\ \A t \in Task : loc'[t].kid = loc[t].kid
      /\ \A t \in Task \ {p} : pc'[t] = pc[t]
      /\ pc'[p] = "user"
  BY <1>0, <1>3, ReturnIs
<1>7. TypeOK'
  BY <1>3, <1>5, <1>6, Zenon DEF ProcInv, TypeOK, Values
<1>8. Quiet(p)
  <2>1. InitLives /\ InitTask \in Task
    BY TaskNames DEF ProcInv
  <2>2. task'[InitTask].signal \subseteq {SIGCHLD}
    BY <1>4, <1>5, <2>1 DEF InitLives
  <2>3. \A t \in Task : task'[t].state = task[t].state /\ task'[t].pgrp = task[t].pgrp
    BY <1>4, <1>5
  <2>4. Used \subseteq Task /\ Unborn \subseteq Task
    BY DEF Used, Unborn, ProcInv, TypeOK, Locals
  <2> QED
    BY <1>0, <1>1, <1>3, <1>5, <1>6, <2>2, <2>3, <2>4 DEF Quiet
<1> QED
  BY <1>7, <1>8, QuietStep

(* The state of the caller of waitpid *)
LEMMA StateIs ==
    ASSUME ProcInv, NEW p \in Linked, NEW s \in {"R", "I"}, task' = [task EXCEPT ![p].state = s],
           task[p].state # "Z"
    PROVE  /\ task' \in Values /\ SameLinks(task, task')
           /\ \A t \in Used : task'[t].state = "Z" <=> task[t].state = "Z"
           /\ \A t \in Unborn : task'[t].state = task[t].state
           /\ \A t \in Used : task'[t].pgrp = task[t].pgrp
           /\ task'[InitTask].signal \subseteq {SIGCHLD}
<1>1. task \in Values /\ task[p] \in TaskStruct /\ task[p] # NULL /\ p \in Task
  BY LinkedIs DEF ProcInv, TypeOK, Values
<1> DEFINE r == [task[p] EXCEPT !.state = s]
<1>2. task' = [task EXCEPT ![p] = r]
  BY <1>1 DEF Values
<1>3. /\ r \in TaskStruct /\ Alike(r, task[p])
      /\ r.state = s /\ r.pgrp = task[p].pgrp /\ r.signal = task[p].signal
  BY <1>1 DEF TaskStruct, Alike
<1> HIDE DEF r
<1>4. /\ task' \in Values /\ SameLinks(task, task')
      /\ task'[p] = r /\ \A t \in Task \ {p} : task'[t] = task[t]
  <2>1. task' \in Values /\ task'[p] = r /\ \A t \in Task \ {p} : task'[t] = task[t]
    BY <1>1, <1>2, <1>3 DEF Values
  <2> QED
    BY <1>1, <1>2, <1>3, <2>1, PutIs
<1>5. InitLives /\ InitTask \in Task /\ p \notin Unborn
  BY TaskNames DEF ProcInv, Linked
<1>6. Used \subseteq Task /\ Unborn \subseteq Task
  BY DEF Used, Unborn, ProcInv, TypeOK, Locals
<1>7. \A t \in Used : task'[t].state = "Z" <=> task[t].state = "Z"
  BY <1>3, <1>4, <1>6
<1>8. \A t \in Unborn : task'[t].state = task[t].state
  BY <1>4, <1>5, <1>6
<1>9. \A t \in Used : task'[t].pgrp = task[t].pgrp
  BY <1>3, <1>4, <1>6
<1>10. task'[InitTask].signal \subseteq {SIGCHLD}
  BY <1>3, <1>4, <1>5 DEF InitLives
<1> QED
  BY <1>4, <1>7, <1>8, <1>9, <1>10

LEMMA WaitEndKeeps == ASSUME ProcInv, NEW p \in Task, WaitEnd(p) PROVE ProcInv'
<1>0. pc[p] = "scan" /\ UNCHANGED <<last_pid, guarded, scene>>
  BY DEF WaitEnd
<1>1. p \in Linked /\ cpu = p
  BY <1>0, PlaceIs DEF ProcInv, Places
<1>2. TypeOK
  BY DEF ProcInv
<1>3. CASE Return(p) /\ UNCHANGED task
  <2>1. /\ pc' \in [Task -> {"user", "copy", "adopt", "dead", "scan", "wait"}]
        /\ loc' \in [Task -> Locals] /\ cpu' = NULL
        /\ \A t \in Task : loc'[t].kid = loc[t].kid
        /\ \A t \in Task \ {p} : pc'[t] = pc[t]
        /\ pc'[p] = "user"
    BY <1>0, <1>3, ReturnIs
  <2>2. TypeOK'
    BY <1>0, <1>2, <1>3, <2>1, Zenon DEF TypeOK
  <2>3. SameLinks(task, task')
    BY <1>3 DEF SameLinks
  <2>4. task'[InitTask].signal \subseteq {SIGCHLD}
    BY <1>3 DEF ProcInv, InitLives
  <2>5. Quiet(p)
    BY <1>0, <1>1, <1>3, <2>1, <2>3, <2>4 DEF Quiet
  <2> QED
    BY <2>2, <2>5, QuietStep
<1>4. CASE /\ task' = [task EXCEPT ![p].state = "I"]
           /\ pc' = [pc EXCEPT ![p] = "wait"] /\ cpu' = NULL /\ UNCHANGED loc
  <2>1. task[p].state # "Z"
    BY <1>0, <1>1, LinkedIs DEF ProcInv, Places
  <2>2. /\ task' \in Values /\ SameLinks(task, task')
        /\ \A t \in Used : task'[t].state = "Z" <=> task[t].state = "Z"
        /\ \A t \in Unborn : task'[t].state = task[t].state
        /\ \A t \in Used : task'[t].pgrp = task[t].pgrp
        /\ task'[InitTask].signal \subseteq {SIGCHLD}
    BY <1>1, <1>4, <2>1, StateIs
  <2>3. /\ pc' \in [Task -> {"user", "copy", "adopt", "dead", "scan", "wait"}]
        /\ pc'[p] = "wait" /\ \A t \in Task \ {p} : pc'[t] = pc[t]
    BY <1>2, <1>4 DEF TypeOK
  <2>4. TypeOK'
    BY <1>0, <1>2, <1>4, <2>2, <2>3, Zenon DEF TypeOK, Values
  <2>5. Quiet(p)
    BY <1>0, <1>1, <1>4, <2>2, <2>3 DEF Quiet
  <2> QED
    BY <2>4, <2>5, QuietStep
<1> QED
  BY <1>3, <1>4 DEF WaitEnd

LEMMA WaitWakeKeeps == ASSUME ProcInv, NEW p \in Task, WaitWake(p) PROVE ProcInv'
<1>0. /\ pc[p] = "wait" /\ cpu = NULL /\ UNCHANGED <<last_pid, guarded, scene>>
      /\ task' = [task EXCEPT ![p].state = "R"]
  BY DEF WaitWake
<1>1. p \in Linked
  BY <1>0, PlaceIs
<1>2. TypeOK
  BY DEF ProcInv
<1>3. task[p].state # "Z"
  BY <1>0, <1>1, LinkedIs DEF ProcInv, Places
<1>4. /\ task' \in Values /\ SameLinks(task, task')
      /\ \A t \in Used : task'[t].state = "Z" <=> task[t].state = "Z"
      /\ \A t \in Unborn : task'[t].state = task[t].state
      /\ \A t \in Used : task'[t].pgrp = task[t].pgrp
      /\ task'[InitTask].signal \subseteq {SIGCHLD}
  BY <1>0, <1>1, <1>3, StateIs
<1>5. CASE Return(p)
  <2>1. /\ pc' \in [Task -> {"user", "copy", "adopt", "dead", "scan", "wait"}]
        /\ loc' \in [Task -> Locals] /\ cpu' = NULL
        /\ \A t \in Task : loc'[t].kid = loc[t].kid
        /\ \A t \in Task \ {p} : pc'[t] = pc[t]
        /\ pc'[p] = "user"
    BY <1>0, <1>5, ReturnIs
  <2>2. TypeOK'
    BY <1>0, <1>2, <1>4, <2>1, Zenon DEF TypeOK, Values
  <2>3. Quiet(p)
    BY <1>0, <1>1, <1>4, <2>1 DEF Quiet
  <2> QED
    BY <2>2, <2>3, QuietStep
<1>6. CASE /\ pc' = [pc EXCEPT ![p] = "scan"] /\ cpu' = p
           /\ loc' = [loc EXCEPT ![p].p = task[p].p_cptr, ![p].flag = FALSE]
  <2> DEFINE r == [loc[p] EXCEPT !.p = task[p].p_cptr, !.flag = FALSE]
             n == task[p].p_cptr
             a == loc[p]
  <2>1. loc' = [loc EXCEPT ![p] = r]
    BY <1>2, <1>6 DEF TypeOK
  <2>2. n \in Linked \cup {NULL} /\ Linked \subseteq Task /\ (n # NULL => task[n].p_pptr = p)
    BY <1>1, LinkedIs DEF Linked, Used
  <2>3. r \in Locals /\ r.kid = loc[p].kid /\ r.p = n
    <3>1. a \in Locals
      BY <1>2 DEF TypeOK
    <3>2. r = [a EXCEPT !.p = n, !.flag = FALSE]
      OBVIOUS
    <3>3. n \in Task \cup {NULL}
      BY <2>2
    <3> HIDE DEF n, r, a
    <3>4. r.kid = a.kid /\ r.p = n
      BY <3>1, <3>2 DEF Locals
    <3>5. r \in Locals
      BY <3>1, <3>2, <3>3 DEF Locals
    <3> QED
      BY <3>4, <3>5 DEF a
  <2> HIDE DEF n, r
  <2>4. /\ pc' \in [Task -> {"user", "copy", "adopt", "dead", "scan", "wait"}]
        /\ pc'[p] = "scan" /\ \A t \in Task \ {p} : pc'[t] = pc[t]
    BY <1>2, <1>6 DEF TypeOK
  <2>5. loc' \in [Task -> Locals]
    BY <1>2, <2>1, <2>3, Zenon DEF TypeOK
  <2>6. TypeOK'
    BY <1>0, <1>2, <1>4, <1>6, <2>4, <2>5, Zenon DEF TypeOK, Values
  <2>7. loc'[p] = r /\ \A t \in Task : loc'[t].kid = loc[t].kid
    BY <1>2, <2>1, <2>3 DEF TypeOK
  <2>8. Quiet(p)
    BY <1>0, <1>1, <1>4, <1>6, <2>2, <2>3, <2>4, <2>7 DEF Quiet
  <2> QED
    BY <2>6, <2>8, QuietStep
<1> QED
  BY <1>5, <1>6 DEF WaitWake

(* Signals and groups, from user mode *)
LEMMA UserQuiet ==
    ASSUME ProcInv, NEW p \in Task, User(p), UNCHANGED <<last_pid, cpu, pc, loc, guarded, scene>>,
           task' \in Values, SameLinks(task, task'),
           \A t \in Used : task'[t].state = "Z" <=> task[t].state = "Z",
           \A t \in Unborn : task'[t].state = task[t].state,
           \A t \in Used :
             \/ task'[t].pgrp = task[t].pgrp
             \/ /\ t # InitTask /\ task[t].p_pptr # NULL
                /\ scene.ops \cap {"setpgid", "setsid"} # {},
           task'[InitTask].signal \subseteq {SIGCHLD}
    PROVE  ProcInv'
<1>1. p \in Linked
  BY PlaceIs
<1>2. TypeOK'
  BY Zenon DEF ProcInv, TypeOK, Values
<1>3. Quiet(p)
  BY <1>1 DEF Quiet, User
<1> QED
  BY <1>2, <1>3, QuietStep

LEMMA TasksIn == ASSUME TypeOK PROVE Used \subseteq Task /\ Unborn \subseteq Task
  BY DEF Used, Unborn, TypeOK, Locals

LEMMA KillKeeps ==
    ASSUME ProcInv, NEW p \in Task, NEW S \in SUBSET Task, NEW sig \in scene.sigs, Kill(p, S, sig)
    PROVE  ProcInv'
<1>1. InitLives /\ TypeOK
  BY DEF ProcInv
<1>2. sig \in {SIGHUP, SIGKILL, SIGCHLD, SIGCONT, SIGSTOP} /\ task \in Values
  BY <1>1, SceneParams DEF TypeOK, Values
<1>3. (\A t \in S : task[t] # NULL) /\ InitTask \notin S
  <2>1. CASE S = Used \ {InitTask, p}
    BY <2>1 DEF Used
  <2>2. CASE S \in {Members(task, task[t].pgrp) : t \in Used}
    <3>1. PICK g : S = Members(task, g)
      BY <2>2
    <3> QED
      BY <1>1, <3>1 DEF Members, InitLives
  <2>3. CASE \E t \in Used \ {InitTask} : S = {t}
    BY <2>3 DEF Used
  <2> QED
    BY <2>1, <2>2, <2>3 DEF Kill
<1>4. task' = SendSig(task, S, sig)
  BY DEF Kill
<1>5. task' \in Values /\ Kin(task, task') /\ \A t \in Task \ S : task'[t] = task[t]
  BY <1>2, <1>3, <1>4, SendSigIs
<1>6. SameLinks(task, task')
  BY <1>5 DEF Kin, SameLinks
<1>7. task'[InitTask].signal \subseteq {SIGCHLD}
  BY <1>1, <1>3, <1>5, TaskNames DEF InitLives
<1>8. /\ \A t \in Used : task'[t].state = "Z" <=> task[t].state = "Z"
      /\ \A t \in Used : task'[t].pgrp = task[t].pgrp
  BY <1>5 DEF Kin, Used
<1>9. \A t \in Unborn : task'[t].state = task[t].state
  BY <1>1, <1>5, TasksIn DEF Kin, ProcInv, Places
<1> QED
  BY <1>5, <1>6, <1>7, <1>8, <1>9, UserQuiet DEF Kill

LEMMA SetpgidKeeps ==
    ASSUME ProcInv, NEW p \in Task, NEW t \in Task, NEW g \in 1..MaxPid, Setpgid(p, t, g)
    PROVE  ProcInv'
<1>1. InitLives /\ TypeOK /\ p \in Linked /\ User(p)
  BY PlaceIs DEF ProcInv, Setpgid
<1>2. task \in Values /\ task[t] \in TaskStruct /\ task[t] # NULL
  BY <1>1 DEF Setpgid, Used, TypeOK, Values
<1> DEFINE r == [task[t] EXCEPT !.pgrp = g]
<1>3. task' = [task EXCEPT ![t] = r]
  BY <1>2 DEF Setpgid, Values
<1>4. /\ r \in TaskStruct /\ Alike(r, task[t])
      /\ r.state = task[t].state /\ r.signal = task[t].signal
  BY <1>2, PidRoom DEF TaskStruct, Alike
<1> HIDE DEF r
<1>5. task' \in Values /\ task'[t] = r /\ \A u \in Task \ {t} : task'[u] = task[u]
  BY <1>2, <1>3, <1>4 DEF Values
<1>6. SameLinks(task, task')
  BY <1>2, <1>4, <1>5, PutIs
<1>7. task'[InitTask].signal \subseteq {SIGCHLD}
  BY <1>1, <1>4, <1>5, TaskNames DEF InitLives
<1>8. Used \subseteq Task /\ Unborn \subseteq Task
  BY <1>1, TasksIn
<1>9. \A u \in Task : task'[u].state = task[u].state
  BY <1>4, <1>5
<1>10. t # InitTask /\ task[t].p_pptr # NULL
  <2>1. p # InitTask /\ (t = p \/ task[t].p_pptr = p)
    BY DEF Setpgid
  <2>2. task[p].p_pptr \in Linked /\ task[InitTask].p_pptr = NULL
    <3>1. Links(Linked, PP, CP, YS, OS)
      BY DEF ProcInv, TreeInv, Tree
    <3> QED
      BY <1>1, <2>1, <3>1, LinkedIs DEF Links, PP, InitLives
  <2>3. NULL \notin Linked /\ p # NULL
    BY TaskNames DEF Linked, Used
  <2> QED
    BY <2>1, <2>2, <2>3
<1>11. scene.ops \cap {"setpgid", "setsid"} # {}
  BY DEF Setpgid
<1> QED
  BY <1>1, <1>5, <1>6, <1>7, <1>8, <1>9, <1>10, <1>11, UserQuiet DEF Setpgid

LEMMA SetsidKeeps == ASSUME ProcInv, NEW p \in Task, Setsid(p) PROVE ProcInv'
<1>1. InitLives /\ TypeOK /\ p \in Linked /\ User(p) /\ p # InitTask
  BY PlaceIs DEF ProcInv, Setsid
<1>2. task \in Values /\ task[p] \in TaskStruct /\ task[p] # NULL
  BY <1>1, LinkedIs DEF TypeOK, Values
<1> DEFINE n == task[p].pid
           a == task[p]
           r == [a EXCEPT !.leader = TRUE, !.session = n, !.pgrp = n]
<1>3. task' = [task EXCEPT ![p] = r]
  BY <1>2 DEF Setsid, Values
<1>4. n \in 0..MaxPid /\ a \in TaskStruct
  BY <1>2, PidRoom DEF TaskStruct
<1>5. /\ r \in TaskStruct /\ Alike(r, task[p])
      /\ r.state = task[p].state /\ r.signal = task[p].signal
  <2> HIDE DEF n, a
  <2>1. r \in TaskStruct
    BY <1>4 DEF TaskStruct
  <2>2. Alike(r, a) /\ r.state = a.state /\ r.signal = a.signal
    BY <1>4 DEF TaskStruct, Alike
  <2> QED
    BY <2>1, <2>2 DEF a
<1> HIDE DEF r
<1>6. task' \in Values /\ task'[p] = r /\ \A u \in Task \ {p} : task'[u] = task[u]
  BY <1>2, <1>3, <1>5 DEF Values
<1>7. SameLinks(task, task')
  BY <1>2, <1>5, <1>6, PutIs
<1>8. task'[InitTask].signal \subseteq {SIGCHLD}
  BY <1>1, <1>5, <1>6, TaskNames DEF InitLives
<1>9. Used \subseteq Task /\ Unborn \subseteq Task
  BY <1>1, TasksIn
<1>10. \A u \in Task : task'[u].state = task[u].state
  BY <1>5, <1>6
<1>11. task[p].p_pptr # NULL
  BY <1>1, LinkedIs, TaskNames DEF Linked, Used
<1>12. scene.ops \cap {"setpgid", "setsid"} # {}
  BY DEF Setsid
<1> QED
  BY <1>1, <1>6, <1>7, <1>8, <1>9, <1>10, <1>11, <1>12, UserQuiet DEF Setsid

-----------------------------------------------------------------------------
(***************************************************************************)
(* do_exit.                                                                *)
(***************************************************************************)

(* Task p becomes a zombie and starts to give its children away. *)
Exits(p) ==
    /\ p \in Linked \ {InitTask} /\ pc[p] = "user" /\ cpu = NULL
    /\ UNCHANGED <<last_pid, loc, scene>> /\ cpu' = p
    /\ pc' = [pc EXCEPT ![p] = "adopt"]
    /\ task' \in Values /\ SameLinks(task, task')
    /\ task'[p].state = "Z"
    /\ \A t \in Used : task'[t].pgrp = task[t].pgrp
    /\ \A t \in Used \ {p} : \/ task'[t].state = task[t].state
                             \/ task[t].state = "T" /\ task'[t].state = "R"
    /\ task'[InitTask].signal \subseteq {SIGCHLD}
    /\ \A g \in guarded' : IsOrphanedPgrp(task', g) => ~HasStoppedJobs(task', g)

LEMMA ExitsKeeps == ASSUME ProcInv, NEW p \in Task, Exits(p) PROVE ProcInv'
<1>0. TypeOK /\ Places /\ Numbers /\ InitLives /\ TreeInv
  BY DEF ProcInv
<1>1. /\ Used' = Used /\ Unborn' = Unborn /\ Linked' = Linked
      /\ PP' = PP /\ CP' = CP /\ YS' = YS /\ OS' = OS
  BY KeptTree DEF Exits
<1>2. /\ pc'[p] = "adopt" /\ \A t \in Task \ {p} : pc'[t] = pc[t]
      /\ pc' \in [Task -> {"user", "copy", "adopt", "dead", "scan", "wait"}]
  BY <1>0 DEF Exits, TypeOK
<1>3. Adopters = {} /\ Adopters' = {p}
  <2>1. \A t \in Task : pc[t] # "adopt"
    BY <1>0, TaskNames DEF Exits, Places
  <2> QED
    BY <1>2, <2>1 DEF Adopters
<1>4. TypeOK'
  <2>1. cpu' \in Task \cup {NULL}
    BY DEF Exits
  <2> QED
    BY <1>0, <1>2, <2>1, Zenon DEF TypeOK, Exits, Values
<1>5. Places'
  <2> SUFFICES ASSUME NEW t \in Task
               PROVE  /\ task'[t] = NULL => pc'[t] = "user" /\ loc'[t].kid = NULL
                      /\ pc'[t] = "copy" <=> loc'[t].kid # NULL
                      /\ pc'[t] \in {"scan", "adopt"} => cpu' = t
                      /\ task'[t] # NULL => (task'[t].state = "Z" <=> pc'[t] \in {"adopt", "dead"})
                      /\ pc'[t] = "dead" => task'[t].p_cptr = NULL
                      /\ pc'[t] = "scan" /\ loc'[t].p # NULL =>
                             loc'[t].p \in Linked' /\ task'[loc'[t].p].p_pptr = t
                      /\ t \in Unborn' => /\ task'[t] # NULL /\ task'[t].state = "U"
                                          /\ pc'[t] = "user" /\ t # InitTask
                      /\ \A s \in Task : loc'[s].kid = loc'[t].kid /\ loc'[s].kid # NULL => s = t
    BY DEF Places
  <2>0. SameLinks(task, task') /\ loc' = loc /\ p \in Used /\ p \notin Unborn /\ cpu = NULL
    BY DEF Exits, Linked
  <2>1. task'[t] = NULL => pc'[t] = "user" /\ loc'[t].kid = NULL
    BY <1>0, <1>2, <2>0 DEF Places, SameLinks, Used
  <2>2. pc'[t] = "copy" <=> loc'[t].kid # NULL
    BY <1>0, <1>2, <2>0 DEF Places, Exits
  <2>3. pc'[t] \in {"scan", "adopt"} => cpu' = t
    BY <1>0, <1>2, <2>0, TaskNames DEF Exits, Places
  <2>4. task'[t] # NULL => (task'[t].state = "Z" <=> pc'[t] \in {"adopt", "dead"})
    <3>1. CASE t = p
      BY <3>1, <1>2 DEF Exits
    <3>2. CASE t # p
      <4> SUFFICES ASSUME task'[t] # NULL PROVE task'[t].state = "Z" <=> pc'[t] \in {"adopt", "dead"}
        OBVIOUS
      <4>1. t \in Used /\ task[t] # NULL
        BY <2>0 DEF SameLinks, Used
      <4>2. task'[t].state = "Z" <=> task[t].state = "Z"
        BY <3>2, <4>1 DEF Exits
      <4> QED
        BY <1>0, <1>2, <3>2, <4>1, <4>2 DEF Places
    <3> QED
      BY <3>1, <3>2
  <2>5. pc'[t] = "dead" => task'[t].p_cptr = NULL
    <3> SUFFICES ASSUME pc'[t] = "dead" PROVE task'[t].p_cptr = NULL
      OBVIOUS
    <3>1. pc[t] = "dead" /\ task[t] # NULL
      BY <1>0, <1>2 DEF Places
    <3> QED
      BY <1>0, <2>0, <3>1 DEF Places, SameLinks
  <2>6. pc'[t] = "scan" /\ loc'[t].p # NULL => loc'[t].p \in Linked' /\ task'[loc'[t].p].p_pptr = t
    BY <1>0, <1>2, <2>0, TaskNames DEF Places
  <2>7. t \in Unborn' => task'[t] # NULL /\ task'[t].state = "U" /\ pc'[t] = "user" /\ t # InitTask
    <3> SUFFICES ASSUME t \in Unborn
                 PROVE  task'[t] # NULL /\ task'[t].state = "U" /\ pc'[t] = "user" /\ t # InitTask
      BY <1>1
    <3>1. task[t] # NULL /\ task[t].state = "U" /\ pc[t] = "user" /\ t # InitTask /\ t \in Used /\ t # p
      BY <1>0, <2>0 DEF Places, Used
    <3> QED
      BY <1>2, <2>0, <3>1 DEF SameLinks, Exits
  <2>8. \A s \in Task : loc'[s].kid = loc'[t].kid /\ loc'[s].kid # NULL => s = t
    BY <1>0, <2>0 DEF Places
  <2> QED
    BY <2>1, <2>2, <2>3, <2>4, <2>5, <2>6, <2>7, <2>8
<1>6. Numbers'
  <2>1. scene' = scene /\ SameLinks(task, task')
    BY DEF Exits
  <2>2. scene'.ops \cap {"setpgid", "setsid"} = {} => \A t \in Used' : task'[t].pgrp = 0
    BY <1>0, <1>1, <2>1 DEF Numbers, Exits
  <2>3. \A t \in Used' : task'[t].p_pptr = NULL => task'[t].pgrp = 0
    BY <1>0, <1>1, <2>1 DEF Numbers, Exits, SameLinks, Used
  <2>4. \A s, t \in Used' : s # t => task'[s].pid # task'[t].pid
    BY <1>0, <1>1, <2>1 DEF Numbers, SameLinks, Used
  <2> QED
    BY <1>0, <1>1, <2>1, <2>2, <2>3, <2>4 DEF Numbers
<1>7. InitLives'
  <2>1. InitTask \in Task /\ InitTask \in Used /\ InitTask # p
    BY <1>0 DEF InitLives, Linked, Used, Exits
  <2> QED
    BY <1>0, <1>1, <1>2, <2>1 DEF InitLives, Exits
<1>8. TreeInv'
  <2>1. p \in Linked \ {InitTask}
    BY DEF Exits
  <2>2. Tree(Linked, PP, CP, YS, OS, {p})
    BY <1>0, <1>3, <2>1, TreeExit DEF TreeInv
  <2> QED
    BY <1>1, <1>3, <2>2 DEF TreeInv
<1>9. NoneLeftStopped'
  BY DEF NoneLeftStopped, Exits
<1> QED
  BY <1>4, <1>5, <1>6, <1>7, <1>8, <1>9 DEF ProcInv

(* The facts that do_exit needs of the task, and of T: task[] after the    *)
(* signal that ends p has been taken                                       *)
LEMMA DoExitIs ==
    ASSUME ProcInv, NEW p \in Task, User(p), p # InitTask, NEW STATE T, NEW CONSTANT code \in Nat,
           T \in Values, SameLinks(task, T),
           \A t \in Used : T[t].pgrp = task[t].pgrp /\ T[t].state = task[t].state,
           T[InitTask].signal \subseteq {SIGCHLD},
           DoExit(p, T, code)
    PROVE  Exits(p)
<1>0. TypeOK /\ Places /\ Numbers /\ InitLives
  BY DEF ProcInv
<1>1. p \in Linked /\ p \in Used /\ pc[p] = "user" /\ cpu = NULL
  BY PlaceIs DEF User
<1>2. task[p].p_pptr \in Linked /\ task[p].p_pptr # p /\ Linked \subseteq Task
  BY <1>1, LinkedIs DEF Linked, Used
<1>3. /\ T[p] # NULL /\ T[p].p_pptr \in Task /\ T[p].p_pptr # p
      /\ T[T[p].p_pptr] # NULL
  BY <1>1, <1>2 DEF SameLinks, Linked, Used
<1>4. Grouped(T)
  BY <1>0 DEF Grouped, SameLinks, Numbers, Used
<1>5. task' = Die(T, p, code)
  BY DEF DoExit
<1>6. /\ task' \in Values /\ SameLinks(T, task')
      /\ task'[p].state = "Z"
      /\ \A t \in Task : T[t] # NULL => task'[t].pgrp = T[t].pgrp
      /\ \A t \in Task : T[t] # NULL /\ t # p =>
             \/ task'[t].state = T[t].state
             \/ T[t].state = "T" /\ task'[t].state = "R"
      /\ \A t \in Task : T[t] # NULL /\ T[t].pgrp = 0 /\ t # p =>
             task'[t].signal \subseteq T[t].signal \cup {SIGCHLD}
      /\ \A g : ~IsOrphanedPgrp(T, g) /\ IsOrphanedPgrp(task', g) => ~HasStoppedJobs(task', g)
  BY <1>3, <1>4, <1>5, DieIs
<1>7. SameLinks(task, task')
  BY <1>6 DEF SameLinks
<1>8. \A t \in Used : t \in Task /\ T[t] # NULL
  BY DEF Used, SameLinks
<1>9. /\ \A t \in Used : task'[t].pgrp = task[t].pgrp
      /\ \A t \in Used \ {p} : \/ task'[t].state = task[t].state
                               \/ task[t].state = "T" /\ task'[t].state = "R"
  BY <1>6, <1>8
<1>10. task'[InitTask].signal \subseteq {SIGCHLD}
  <2>1. InitTask \in Used /\ T[InitTask].pgrp = 0
    BY <1>0 DEF InitLives, Linked
  <2> QED
    BY <1>6, <1>8, <2>1
<1>11. \A g \in guarded' : IsOrphanedPgrp(task', g) => ~HasStoppedJobs(task', g)
  <2>1. \A g \in guarded' : ~IsOrphanedPgrp(T, g)
    BY DEF DoExit
  <2> QED
    BY <1>6, <2>1
<1> QED
  BY <1>1, <1>6, <1>7, <1>9, <1>10, <1>11 DEF Exits, DoExit

LEMMA ExitKeeps == ASSUME ProcInv, NEW p \in Task, Exit(p) PROVE ProcInv'
<1>1. User(p) /\ p # InitTask /\ DoExit(p, task, 256)
  BY DEF Exit
<1>2. task \in Values /\ SameLinks(task, task) /\ task[InitTask].signal \subseteq {SIGCHLD}
  BY DEF ProcInv, TypeOK, Values, SameLinks, InitLives
<1>3. 256 \in Nat
  OBVIOUS
<1>4. Exits(p)
  BY <1>1, <1>2, <1>3, DoExitIs
<1> QED
  BY <1>4, ExitsKeeps

LEMMA DeliverKeeps ==
    ASSUME ProcInv, NEW p \in Task, NEW caught \in BOOLEAN, Deliver(p, caught) PROVE ProcInv'
<1>0. TypeOK /\ InitLives /\ User(p) /\ task[p].signal # {}
  BY DEF ProcInv, Deliver
<1>1. /\ p \in Linked /\ p \in Used /\ p \notin Unborn /\ task \in Values
      /\ task[p] \in TaskStruct /\ task[p] # NULL
  BY <1>0, PlaceIs, LinkedIs DEF TypeOK, Values
<1> DEFINE a == task[p]
           s == Min(a.signal)
           r == [a EXCEPT !.signal = a.signal \ {s}]
           T == [task EXCEPT ![p].signal = @ \ {s}]
<1>2. s \in a.signal
  <2> DEFINE Sg == a.signal
  <2>1. Sg \subseteq Nat /\ Sg # {}
    BY <1>0, <1>1 DEF TaskStruct, SIGHUP, SIGKILL, SIGCHLD, SIGCONT, SIGSTOP
  <2> HIDE DEF Sg
  <2>2. \E x \in Sg : \A y \in Sg : x <= y
    BY <2>1, LeastNat
  <2>3. Min(Sg) \in Sg
    BY <2>2 DEF Min
  <2> QED
    BY <2>3 DEF Sg
<1>3. p = InitTask => s = SIGCHLD
  BY <1>0, <1>2 DEF InitLives
<1> HIDE DEF s
<1>4. /\ r \in TaskStruct /\ Alike(r, task[p]) /\ r.signal = a.signal \ {s}
      /\ r.state = task[p].state /\ r.pgrp = task[p].pgrp
  <2>1. a \in TaskStruct
    BY <1>1
  <2> HIDE DEF a
  <2>2. a.signal \ {s} \in SUBSET {SIGHUP, SIGKILL, SIGCHLD, SIGCONT, SIGSTOP}
    BY <2>1 DEF TaskStruct
  <2>3. r \in TaskStruct
    BY <2>1, <2>2 DEF TaskStruct
  <2>4. Alike(r, a) /\ r.signal = a.signal \ {s} /\ r.state = a.state /\ r.pgrp = a.pgrp
    BY <2>1 DEF TaskStruct, Alike
  <2> QED
    BY <2>3, <2>4 DEF a
<1> HIDE DEF r
<1>5. T \in Values /\ T[p] = r /\ \A u \in Task \ {p} : T[u] = task[u]
  BY <1>1, <1>4 DEF Values, r
<1>6. SameLinks(task, T)
  <2> HIDE DEF T
  <2> QED
    BY <1>1, <1>4, <1>5, PutIs
<1>7. T[InitTask].signal \subseteq {SIGCHLD}
  <2> HIDE DEF T
  <2> QED
    BY <1>0, <1>4, <1>5, TaskNames DEF InitLives
<1>8. Used \subseteq Task /\ Unborn \subseteq Task
  BY <1>0, TasksIn
<1>9. \A t \in Task : T[t].pgrp = task[t].pgrp /\ T[t].state = task[t].state
  <2> HIDE DEF T
  <2> QED
    BY <1>4, <1>5
<1>10. CASE task' = T /\ UNCHANGED <<last_pid, cpu, pc, loc, guarded, scene>>
  <2>1. task' \in Values /\ SameLinks(task, task') /\ task'[InitTask].signal \subseteq {SIGCHLD}
    BY <1>5, <1>6, <1>7, <1>10
  <2>2. \A t \in Task : task'[t].pgrp = task[t].pgrp /\ task'[t].state = task[t].state
    BY <1>9, <1>10
  <2> QED
    BY <1>0, <1>8, <1>10, <2>1, <2>2, UserQuiet
<1>11. CASE /\ s = SIGSTOP
            /\ task' = SendSig([T EXCEPT ![p].state = "T", ![p].exit_code = s],
                               {T[p].p_pptr}, SIGCHLD)
            /\ UNCHANGED <<last_pid, cpu, pc, loc, guarded, scene>>
  <2> DEFINE Q == [T EXCEPT ![p].state = "T", ![p].exit_code = s]
             b == T[p]
             q == [b EXCEPT !.state = "T", !.exit_code = s]
             up == T[p].p_pptr
             U == {up}
  <2>1. p # InitTask /\ s \in Nat
    BY <1>3, <1>11 DEF SIGSTOP, SIGCHLD
  <2>2. up \in Linked /\ up \in Task /\ task[up] # NULL /\ up # p
    <3>1. up = task[p].p_pptr
      BY <1>4, <1>5 DEF Alike
    <3> HIDE DEF up
    <3> QED
      BY <1>1, <2>1, <3>1, LinkedIs DEF Linked, Used
  <2>3. b \in TaskStruct /\ b = r
    BY <1>4, <1>5
  <2>4. q \in TaskStruct /\ Alike(q, b) /\ q.state = "T" /\ q.signal = b.signal /\ q.pgrp = b.pgrp
    <3> HIDE DEF b
    <3>1. q \in TaskStruct
      BY <2>1, <2>3 DEF TaskStruct
    <3>2. Alike(q, b) /\ q.state = "T" /\ q.signal = b.signal /\ q.pgrp = b.pgrp
      BY <2>3 DEF TaskStruct, Alike
    <3> QED
      BY <3>1, <3>2
  <2>5. Q[p] = q /\ (\A u \in Task \ {p} : Q[u] = T[u]) /\ Q = [u \in Task |-> Q[u]]
    <3> HIDE DEF T
    <3> QED
      BY <1>5 DEF Values
  <2> HIDE DEF q
  <2>6. Q \in Values
    <3> HIDE DEF Q, T
    <3> QED
      BY <1>5, <2>4, <2>5 DEF Values
  <2>7. task' = SendSig(Q, U, SIGCHLD)
    BY <1>11
  <2> HIDE DEF Q, T, b, up
  <2>8. U \in SUBSET Task /\ \A t \in U : Q[t] # NULL
    BY <1>5, <2>2, <2>5
  <2> HIDE DEF U
  <2>9. SIGCHLD \in {SIGHUP, SIGKILL, SIGCHLD, SIGCONT, SIGSTOP}
    OBVIOUS
  <2>10. /\ task' \in Values /\ Kin(Q, task')
         /\ \A t \in Task \ U : task'[t] = Q[t]
         /\ \A t \in U : task'[t].signal \subseteq Q[t].signal \cup {SIGCHLD}
    BY <2>6, <2>7, <2>8, <2>9, SendSigIs
  <2>11. Q[p] # NULL
    BY <2>4, <2>5, NullTask
  <2>12. Alike(q, task[p])
    BY <1>4, <2>3, <2>4 DEF Alike
  <2>13. SameLinks(task, Q)
    BY <1>1, <1>5, <2>4, <2>5, <2>12, PutIs
  <2>14. SameLinks(task, task')
    BY <2>10, <2>13 DEF SameLinks, Kin
  <2>15. task'[InitTask].signal \subseteq {SIGCHLD}
    BY <1>7, <2>1, <2>5, <2>10, TaskNames
  <2>16. \A t \in Used \ {p} : Q[t] = task[t] /\ task[t] # NULL
    BY <1>5, <1>8, <2>5 DEF Used
  <2>17. task[p].state = "R"
    BY <1>0 DEF User
  <2>18. \A t \in Used : task'[t].state = "Z" <=> task[t].state = "Z"
    BY <1>8, <2>4, <2>5, <2>10, <2>11, <2>16, <2>17 DEF Kin
  <2>19. \A t \in Used : task'[t].pgrp = task[t].pgrp
    BY <1>4, <1>8, <2>3, <2>4, <2>5, <2>10, <2>11, <2>16 DEF Kin
  <2>20. \A t \in Unborn : task'[t].state = task[t].state
    <3> SUFFICES ASSUME NEW t \in Unborn PROVE task'[t].state = task[t].state
      OBVIOUS
    <3>1. t \in Task /\ task[t] # NULL /\ task[t].state = "U" /\ t # p
      BY <1>1, <1>8 DEF ProcInv, Places
    <3> QED
      BY <1>5, <2>5, <2>10, <3>1 DEF Kin
  <2> QED
    BY <1>0, <1>11, <2>10, <2>14, <2>15, <2>18, <2>19, <2>20, UserQuiet
<1>12. CASE s \in {SIGKILL, SIGHUP} /\ DoExit(p, T, s)
  <2>1. p # InitTask /\ s \in Nat
    BY <1>3, <1>12 DEF SIGKILL, SIGHUP, SIGCHLD
  <2> HIDE DEF T
  <2>2. \A t \in Used : T[t].pgrp = task[t].pgrp /\ T[t].state = task[t].state
    BY <1>8, <1>9
  <2>3. PICK code \in Nat : code = s
    BY <2>1
  <2>4. DoExit(p, T, code)
    BY <1>12, <2>3
  <2>5. Exits(p)
    BY <1>0, <1>5, <1>6, <1>7, <2>1, <2>2, <2>4, DoExitIs
  <2> QED
    BY <2>5, ExitsKeeps
<1> QED
  BY <1>10, <1>11, <1>12 DEF Deliver, s

LEMMA ExitDoneKeeps == ASSUME ProcInv, NEW p \in Task, ExitDone(p) PROVE ProcInv'
<1>0. TypeOK /\ Places /\ Numbers /\ InitLives /\ TreeInv
  BY DEF ProcInv
<1>1. /\ pc[p] = "adopt" /\ task[p].p_cptr = NULL /\ cpu = p
      /\ UNCHANGED <<task, last_pid, loc, scene>> /\ cpu' = NULL
  BY <1>0 DEF ExitDone, Places
<1>2. /\ pc'[p] = "dead" /\ \A t \in Task \ {p} : pc'[t] = pc[t]
      /\ pc' \in [Task -> {"user", "copy", "adopt", "dead", "scan", "wait"}]
  BY <1>0 DEF ExitDone, TypeOK
<1>3. /\ Used' = Used /\ Unborn' = Unborn /\ Linked' = Linked
      /\ PP' = PP /\ CP' = CP /\ YS' = YS /\ OS' = OS
  BY <1>1 DEF Used, Unborn, Linked, PP, CP, YS, OS
<1>4. \A t \in Task \ {p} : pc[t] \notin {"scan", "adopt"}
  BY <1>0, <1>1 DEF Places
<1>5. Adopters = {p} /\ Adopters' = {}
  BY <1>1, <1>2, <1>4 DEF Adopters
<1>6. p \in Linked \ {InitTask}
  BY <1>0, <1>1, PlaceIs DEF InitLives
<1>7. TypeOK'
  BY <1>0, <1>1, <1>2, Zenon DEF TypeOK
<1>8. Places'
  BY <1>0, <1>1, <1>2, <1>3, <1>4 DEF Places
<1>9. Numbers'
  BY <1>0, <1>1, <1>3 DEF Numbers
<1>10. InitLives'
  BY <1>0, <1>1, <1>2, <1>3, <1>6, TaskNames DEF InitLives
<1>11. TreeInv'
  <2>1. CP[p] = NULL
    BY <1>1, <1>6 DEF CP
  <2>2. Tree(Linked, PP, CP, YS, OS, {p})
    BY <1>0, <1>5 DEF TreeInv
  <2>3. Tree(Linked, PP, CP, YS, OS, {})
    BY <1>6, <2>1, <2>2, TreeExit
  <2> QED
    BY <1>3, <1>5, <2>3 DEF TreeInv
<1>12. NoneLeftStopped'
  BY <1>5 DEF NoneLeftStopped, Adopters
<1> QED
  BY <1>7, <1>8, <1>9, <1>10, <1>11, <1>12 DEF ProcInv

-----------------------------------------------------------------------------
(***************************************************************************)
(* The assignments to the links in fork, exit and release, field by field. *)
(***************************************************************************)
(* What is not a link *)
Rest(r, s) ==
    /\ r.state = s.state /\ r.pid = s.pid /\ r.pgrp = s.pgrp /\ r.session = s.session
    /\ r.signal = s.signal

(* R is T after an assignment to p_ysptr of q, if there is one. *)
IsYsSet(T, R, q, v) ==
    \A t \in Task :
        /\ R[t] = NULL <=> T[t] = NULL
        /\ R[t].p_pptr = T[t].p_pptr /\ R[t].p_cptr = T[t].p_cptr /\ R[t].p_osptr = T[t].p_osptr
        /\ R[t].p_ysptr = IF t = q THEN v ELSE T[t].p_ysptr
        /\ Rest(R[t], T[t])

(* R is T after fork has linked c as the youngest child of p. *)
IsBorn(T, R, p, c, elder) ==
    \A t \in Task :
        /\ R[t] = NULL <=> T[t] = NULL
        /\ R[t].p_pptr = IF t = c THEN p ELSE T[t].p_pptr
        /\ R[t].p_cptr = IF t = c THEN NULL ELSE IF t = p THEN c ELSE T[t].p_cptr
        /\ R[t].p_ysptr = IF t = c THEN NULL ELSE IF t = elder THEN c ELSE T[t].p_ysptr
        /\ R[t].p_osptr = IF t = c THEN elder ELSE T[t].p_osptr
        /\ R[t].state = IF t = c THEN "R" ELSE T[t].state
        /\ R[t].pid = T[t].pid /\ R[t].pgrp = T[t].pgrp /\ R[t].signal = T[t].signal

(* R is T after do_exit has moved c from p to init. *)
IsAdopted(T, R, p, c, first) ==
    /\ \A t \in Task :
         /\ R[t] = NULL <=> T[t] = NULL
         /\ R[t].p_pptr = IF t = c THEN InitTask ELSE T[t].p_pptr
         /\ R[t].p_cptr = IF t = InitTask THEN c ELSE IF t = p THEN T[c].p_osptr ELSE T[t].p_cptr
         /\ R[t].p_ysptr = IF t = c THEN NULL ELSE IF t = first THEN c ELSE T[t].p_ysptr
         /\ R[t].p_osptr = IF t = c THEN first ELSE T[t].p_osptr
         /\ R[t].state = T[t].state /\ R[t].pid = T[t].pid
         /\ R[t].pgrp = T[t].pgrp /\ R[t].session = T[t].session
    /\ R[InitTask].signal \subseteq T[InitTask].signal \cup {SIGCHLD}

(* R is T after release has freed c. *)
IsReleased(T, R, c, up, old, young) ==
    /\ R[c] = NULL
    /\ \A t \in Task \ {c} :
         /\ R[t] = NULL <=> T[t] = NULL
         /\ R[t].p_pptr = T[t].p_pptr
         /\ R[t].p_cptr = IF young = NULL /\ t = up THEN old ELSE T[t].p_cptr
         /\ R[t].p_ysptr = IF t = old THEN young ELSE T[t].p_ysptr
         /\ R[t].p_osptr = IF t = young THEN old ELSE T[t].p_osptr
         /\ Rest(R[t], T[t])

LEMMA SetYsIs ==
    ASSUME NEW T \in Values, NEW q \in Task \cup {NULL}, q # NULL => T[q] # NULL,
           NEW v \in Task \cup {NULL}, NEW R, R = SetYs(T, q, v)
    PROVE  R \in Values /\ IsYsSet(T, R, q, v)
<1>1. CASE q = NULL
  <2>1. R = T /\ NULL \notin Task
    BY <1>1, TaskNames DEF SetYs
  <2> QED
    BY <1>1, <2>1 DEF Rest, IsYsSet
<1>2. CASE q # NULL
  <2> DEFINE a == T[q]
             r == [a EXCEPT !.p_ysptr = v]
  <2>1. q \in Task /\ a \in TaskStruct
    BY <1>2 DEF Values
  <2>2. R[q] = r /\ (\A t \in Task \ {q} : R[t] = T[t]) /\ R = [t \in Task |-> R[t]]
    BY <1>2, <2>1 DEF SetYs, Values
  <2> HIDE DEF a
  <2>3. /\ r \in TaskStruct /\ r.p_ysptr = v /\ r.p_pptr = a.p_pptr /\ r.p_cptr = a.p_cptr
        /\ r.p_osptr = a.p_osptr /\ Rest(r, a)
    BY <2>1 DEF TaskStruct, Rest
  <2>4. r # NULL
    BY <2>3, NullTask
  <2> HIDE DEF r
  <2>5. \A t \in Task \ {q} : R[t] \in TaskStruct \cup {NULL} /\ Rest(R[t], T[t])
    BY <2>2 DEF Rest, Values
  <2>6. \A t \in Task : R[t] \in TaskStruct \cup {NULL}
    BY <2>2, <2>3, <2>5
  <2>7. R \in Values
    BY <2>2, <2>6 DEF Values
  <2> QED
    BY <1>2, <2>1, <2>2, <2>3, <2>4, <2>5, <2>7 DEF a, IsYsSet
<1> QED
  BY <1>1, <1>2

(* Fork: c becomes the youngest child of p. *)
LEMMA BornIs ==
    ASSUME task \in Values, NEW p \in Task, NEW c \in Task, p # c, task[p] # NULL, task[c] # NULL,
           NEW STATE elder, elder = task[p].p_cptr, elder \in Task \cup {NULL}, elder # NULL => task[elder] # NULL,
           elder # c, elder # p,
           NEW STATE R, R = Born(p, c)
    PROVE  R \in Values /\ IsBorn(task, R, p, c, elder)
<1> DEFINE T0 == SetYs(task, elder, c)
           a == task[c]
           e == [task[elder] EXCEPT !.p_ysptr = c]
           q == [task[p] EXCEPT !.p_cptr = c]
           r == [a EXCEPT !.p_pptr = p, !.p_cptr = NULL, !.p_ysptr = NULL, !.p_osptr = elder, !.state = "R"]
<1>1. /\ T0[c] = task[c] /\ T0[p] = task[p]
      /\ \A t \in Task \ {elder} : T0[t] = task[t]
      /\ elder # NULL => T0[elder] = e
      /\ T0 = [t \in Task |-> T0[t]]
  BY TaskNames DEF SetYs, Values
<1>2. R = [T0 EXCEPT ![c].p_pptr = p, ![c].p_cptr = NULL, ![c].p_ysptr = NULL, ![c].p_osptr = elder,
        ![p].p_cptr = c, ![c].state = "R"]
  BY DEF Born
<1> HIDE DEF T0
<1>3. R[c] = [T0[c] EXCEPT !.p_pptr = p, !.p_cptr = NULL, !.p_ysptr = NULL, !.p_osptr = elder, !.state = "R"]
  BY <1>1, <1>2
<1>4. R[p] = [T0[p] EXCEPT !.p_cptr = c]
  BY <1>1, <1>2
<1>5. \A t \in Task \ {c, p} : R[t] = T0[t]
  BY <1>1, <1>2
<1>6. R = [t \in Task |-> R[t]]
  BY <1>1, <1>2
<1>7. a \in TaskStruct /\ task[p] \in TaskStruct /\ (elder # NULL => task[elder] \in TaskStruct)
  BY DEF Values
<1>8. r \in TaskStruct /\ r.p_pptr = p /\ r.p_cptr = NULL /\ r.p_ysptr = NULL /\ r.p_osptr = elder
      /\ r.state = "R" /\ r.pid = a.pid /\ r.pgrp = a.pgrp /\ r.signal = a.signal
  <2> HIDE DEF a
  <2>1. r \in TaskStruct
    BY <1>7 DEF TaskStruct
  <2> QED
    BY <1>7, <2>1 DEF TaskStruct
<1>9. /\ q \in TaskStruct /\ q.p_cptr = c /\ q.p_pptr = task[p].p_pptr /\ q.p_ysptr = task[p].p_ysptr
      /\ q.p_osptr = task[p].p_osptr /\ q.state = task[p].state /\ q.pid = task[p].pid
      /\ q.pgrp = task[p].pgrp /\ q.signal = task[p].signal
  BY <1>7 DEF TaskStruct
<1>10. elder # NULL =>
         /\ e \in TaskStruct /\ e.p_ysptr = c /\ e.p_pptr = task[elder].p_pptr /\ e.p_cptr = task[elder].p_cptr
         /\ e.p_osptr = task[elder].p_osptr /\ e.state = task[elder].state /\ e.pid = task[elder].pid
         /\ e.pgrp = task[elder].pgrp /\ e.signal = task[elder].signal
  BY <1>7 DEF TaskStruct
<1>11. R[c] = r /\ R[p] = q /\ (elder # NULL => R[elder] = e)
       /\ \A t \in Task \ {c, p, elder} : R[t] = task[t]
  BY <1>1, <1>3, <1>4, <1>5
<1> HIDE DEF r, q, e, a
<1>12. \A t \in Task : /\ R[t] \in TaskStruct \cup {NULL}
                       /\ R[t] = NULL <=> task[t] = NULL
  <2> SUFFICES ASSUME NEW t \in Task
               PROVE  R[t] \in TaskStruct \cup {NULL} /\ (R[t] = NULL <=> task[t] = NULL)
    OBVIOUS
  <2>1. CASE t \in {c, p}
    BY <1>8, <1>9, <1>11, <2>1, NullTask
  <2>2. CASE t = elder /\ t \notin {c, p}
    BY <1>10, <1>11, <2>2, NullTask, TaskNames
  <2>3. CASE t \notin {c, p, elder}
    BY <1>11, <2>3 DEF Values
  <2> QED
    BY <2>1, <2>2, <2>3
<1>13. R \in Values
  BY <1>6, <1>12 DEF Values
<1>14. NULL \notin Task
  BY TaskNames
<1> QED
  BY <1>8, <1>9, <1>10, <1>11, <1>12, <1>13, <1>14 DEF a, IsBorn

(* Exit: c, the youngest child of p, becomes the youngest child of init. *)
LEMMA AdoptedIs ==
    ASSUME task \in Values, NEW p \in Task, NEW c \in Task, NEW STATE first,
           first = task[InitTask].p_cptr, first \in Task, p # c, InitTask \notin {p, c, first}, first # c,
           task[p] # NULL, task[c] # NULL, task[first] # NULL, task[InitTask] # NULL,
           NEW STATE R, R = Adopted(p, c)
    PROVE  R \in Values /\ IsAdopted(task, R, p, c, first)
<1>0. InitTask \in Task
  BY TaskNames
<1> DEFINE T == SetYs(task, first, c)
           os == task[c].p_osptr
           sg == IF task[c].state = "Z" THEN T[InitTask].signal \cup {SIGCHLD} ELSE T[InitTask].signal
           C == T[c]
           P == T[p]
           I == T[InitTask]
           r == [C EXCEPT !.p_ysptr = NULL, !.p_pptr = InitTask, !.p_osptr = first]
           q == [P EXCEPT !.p_cptr = os]
           i == [I EXCEPT !.p_cptr = c, !.signal = sg]
<1>1. /\ T \in Values /\ T = [t \in Task |-> T[t]]
      /\ \A t \in Task : /\ T[t] = NULL <=> task[t] = NULL
                        /\ T[t].p_pptr = task[t].p_pptr /\ T[t].p_cptr = task[t].p_cptr
                        /\ T[t].p_osptr = task[t].p_osptr /\ Rest(T[t], task[t])
      /\ \A t \in Task : T[t].p_ysptr = IF t = first THEN c ELSE task[t].p_ysptr
  <2>1. T = SetYs(task, first, c) /\ first \in Task \cup {NULL} /\ c \in Task \cup {NULL}
    OBVIOUS
  <2> HIDE DEF T
  <2>2. T \in Values /\ IsYsSet(task, T, first, c)
    BY <2>1, SetYsIs
  <2> QED
    BY <2>2 DEF IsYsSet, Values
<1>2. R = [T EXCEPT ![p].p_cptr = os, ![c].p_ysptr = NULL, ![c].p_pptr = InitTask,
                    ![c].p_osptr = first, ![InitTask].p_cptr = c,
                    ![InitTask].signal = IF task[c].state = "Z" THEN @ \cup {SIGCHLD} ELSE @]
  BY DEF Adopted
<1> HIDE DEF T
<1>3. C \in TaskStruct /\ P \in TaskStruct /\ I \in TaskStruct /\ os \in Task \cup {NULL}
  <2>1. task[c] \in TaskStruct
    BY DEF Values
  <2> QED
    BY <1>0, <1>1, <2>1 DEF Values, TaskStruct
<1>4. R[c] = r
  BY <1>0, <1>1, <1>2
<1>5. R[p] = q
  BY <1>0, <1>1, <1>2
<1>6. R[InitTask] = i
  BY <1>0, <1>1, <1>2, <1>3 DEF TaskStruct
<1>7. (\A t \in Task \ {c, p, InitTask} : R[t] = T[t]) /\ R = [t \in Task |-> R[t]]
  BY <1>1, <1>2
<1>8. sg \in SUBSET {SIGHUP, SIGKILL, SIGCHLD, SIGCONT, SIGSTOP} /\ sg \subseteq I.signal \cup {SIGCHLD}
  BY <1>3 DEF TaskStruct
<1>9. /\ r \in TaskStruct /\ r.p_ysptr = NULL /\ r.p_pptr = InitTask /\ r.p_osptr = first
      /\ r.p_cptr = C.p_cptr /\ Rest(r, C)
  <2> HIDE DEF C
  <2> QED
    BY <1>0, <1>3 DEF TaskStruct, Rest
<1>10. /\ q \in TaskStruct /\ q.p_cptr = os /\ q.p_pptr = P.p_pptr /\ q.p_ysptr = P.p_ysptr
       /\ q.p_osptr = P.p_osptr /\ Rest(q, P)
  <2> HIDE DEF P, os
  <2> QED
    BY <1>3 DEF TaskStruct, Rest
<1>11. /\ i \in TaskStruct /\ i.p_cptr = c /\ i.p_pptr = I.p_pptr /\ i.p_ysptr = I.p_ysptr
       /\ i.p_osptr = I.p_osptr /\ i.signal = sg /\ i.state = I.state /\ i.pid = I.pid
       /\ i.pgrp = I.pgrp /\ i.session = I.session
  <2> HIDE DEF I, sg
  <2> QED
    BY <1>3, <1>8 DEF TaskStruct
<1> HIDE DEF r, q, i, C, P, I, os, sg
<1>12. \A t \in Task : /\ R[t] \in TaskStruct \cup {NULL}
                       /\ R[t] = NULL <=> task[t] = NULL
  <2> SUFFICES ASSUME NEW t \in Task
               PROVE  R[t] \in TaskStruct \cup {NULL} /\ (R[t] = NULL <=> task[t] = NULL)
    OBVIOUS
  <2>1. CASE t \in {c, p, InitTask}
    BY <1>4, <1>5, <1>6, <1>9, <1>10, <1>11, <2>1, NullTask
  <2>2. CASE t \notin {c, p, InitTask}
    BY <1>1, <1>7, <2>2 DEF Values
  <2> QED
    BY <2>1, <2>2
<1>13. R \in Values
  BY <1>7, <1>12 DEF Values
<1>14. ASSUME NEW t \in Task
       PROVE  /\ R[t].p_pptr = IF t = c THEN InitTask ELSE task[t].p_pptr
              /\ R[t].p_cptr = IF t = InitTask THEN c ELSE IF t = p THEN task[c].p_osptr
                               ELSE task[t].p_cptr
              /\ R[t].p_ysptr = IF t = c THEN NULL ELSE IF t = first THEN c ELSE task[t].p_ysptr
              /\ R[t].p_osptr = IF t = c THEN first ELSE task[t].p_osptr
              /\ R[t].state = task[t].state /\ R[t].pid = task[t].pid
              /\ R[t].pgrp = task[t].pgrp /\ R[t].session = task[t].session
  <2>1. CASE t = c
    BY <1>1, <1>4, <1>9, <2>1 DEF C, Rest
  <2>2. CASE t = p
    BY <1>1, <1>5, <1>10, <2>2 DEF P, Rest, os
  <2>3. CASE t = InitTask
    BY <1>1, <1>6, <1>11, <2>3 DEF I, Rest
  <2>4. CASE t \notin {c, p, InitTask}
    BY <1>1, <1>7, <2>4 DEF Rest
  <2> QED
    BY <2>1, <2>2, <2>3, <2>4
<1>15. R[InitTask].signal \subseteq task[InitTask].signal \cup {SIGCHLD}
  BY <1>0, <1>1, <1>6, <1>8, <1>11 DEF I, Rest
<1> QED
  BY <1>12, <1>13, <1>14, <1>15 DEF IsAdopted

(* release: c leaves the list of its parent and the table. *)
LEMMA ReleasedIs ==
    ASSUME task \in Values, NEW c \in Task, task[c] # NULL, NEW STATE up, NEW STATE old, NEW STATE young,
           up = task[c].p_pptr, old = task[c].p_osptr, young = task[c].p_ysptr,
           up \in Task, old \in Task \cup {NULL}, young \in Task \cup {NULL}, c \notin {up, old, young},
           task[up] # NULL, old # NULL => task[old] # NULL, young # NULL => task[young] # NULL,
           NEW STATE R, R = Released(c)
    PROVE  R \in Values /\ IsReleased(task, R, c, up, old, young)
<1> DEFINE T == SetYs(task, old, young)
           Y == T[young]
           U == T[up]
           y == [Y EXCEPT !.p_osptr = old]
           u == [U EXCEPT !.p_cptr = old]
<1>1. /\ T \in Values /\ T = [t \in Task |-> T[t]]
      /\ \A t \in Task : /\ T[t] = NULL <=> task[t] = NULL
                        /\ T[t].p_pptr = task[t].p_pptr /\ T[t].p_cptr = task[t].p_cptr
                        /\ T[t].p_osptr = task[t].p_osptr /\ Rest(T[t], task[t])
      /\ \A t \in Task : T[t].p_ysptr = IF t = old THEN young ELSE task[t].p_ysptr
  <2>1. T = SetYs(task, old, young) /\ old \in Task \cup {NULL} /\ young \in Task \cup {NULL}
    OBVIOUS
  <2> HIDE DEF T
  <2>2. T \in Values /\ IsYsSet(task, T, old, young)
    BY <2>1, SetYsIs
  <2> QED
    BY <2>2 DEF IsYsSet, Values
<1>2. R = IF young # NULL THEN [T EXCEPT ![young].p_osptr = old, ![c] = NULL]
                          ELSE [T EXCEPT ![up].p_cptr = old, ![c] = NULL]
  BY DEF Released
<1> HIDE DEF T
<1>3. NULL \notin Task
  BY TaskNames
<1>4. CASE young # NULL
  <2>1. young \in Task /\ Y \in TaskStruct
    BY <1>1, <1>4 DEF Values
  <2>2. /\ R[young] = y /\ R[c] = NULL /\ R = [t \in Task |-> R[t]]
        /\ \A t \in Task \ {c, young} : R[t] = T[t]
    BY <1>1, <1>2, <1>4, <2>1
  <2>3. /\ y \in TaskStruct /\ y.p_osptr = old /\ y.p_pptr = Y.p_pptr /\ y.p_cptr = Y.p_cptr
        /\ y.p_ysptr = Y.p_ysptr /\ Rest(y, Y)
    <3> HIDE DEF Y
    <3> QED
      BY <2>1 DEF TaskStruct, Rest
  <2>4. y # NULL
    BY <2>3, NullTask
  <2> HIDE DEF y
  <2>5. R \in Values
    <3>1. \A t \in Task \ {c, young} : R[t] \in TaskStruct \cup {NULL}
      BY <1>1, <2>2 DEF Values
    <3>2. \A t \in Task : R[t] \in TaskStruct \cup {NULL}
      BY <2>2, <2>3, <3>1
    <3> QED
      BY <2>2, <3>2 DEF Values
  <2>6. ASSUME NEW t \in Task \ {c}
        PROVE  /\ R[t] = NULL <=> task[t] = NULL
               /\ R[t].p_pptr = task[t].p_pptr /\ R[t].p_cptr = task[t].p_cptr
               /\ R[t].p_ysptr = IF t = old THEN young ELSE task[t].p_ysptr
               /\ R[t].p_osptr = IF t = young THEN old ELSE task[t].p_osptr
               /\ Rest(R[t], task[t])
    <3>1. CASE t = young
      BY <1>1, <1>4, <2>1, <2>2, <2>3, <2>4, <3>1 DEF Rest, Y
    <3>2. CASE t # young
      BY <1>1, <2>2, <3>2
    <3> QED
      BY <3>1, <3>2
  <2> QED
    BY <1>4, <2>2, <2>5, <2>6 DEF IsReleased
<1>5. CASE young = NULL
  <2>1. U \in TaskStruct
    BY <1>1 DEF Values
  <2>2. /\ R[up] = u /\ R[c] = NULL /\ R = [t \in Task |-> R[t]]
        /\ \A t \in Task \ {c, up} : R[t] = T[t]
    BY <1>1, <1>2, <1>5
  <2>3. /\ u \in TaskStruct /\ u.p_cptr = old /\ u.p_pptr = U.p_pptr /\ u.p_osptr = U.p_osptr
        /\ u.p_ysptr = U.p_ysptr /\ Rest(u, U)
    <3> HIDE DEF U
    <3> QED
      BY <2>1 DEF TaskStruct, Rest
  <2>4. u # NULL
    BY <2>3, NullTask
  <2> HIDE DEF u
  <2>5. R \in Values
    <3>1. \A t \in Task \ {c, up} : R[t] \in TaskStruct \cup {NULL}
      BY <1>1, <2>2 DEF Values
    <3>2. \A t \in Task : R[t] \in TaskStruct \cup {NULL}
      BY <2>2, <2>3, <3>1
    <3> QED
      BY <2>2, <3>2 DEF Values
  <2>6. ASSUME NEW t \in Task \ {c}
        PROVE  /\ R[t] = NULL <=> task[t] = NULL
               /\ R[t].p_pptr = task[t].p_pptr
               /\ R[t].p_cptr = IF t = up THEN old ELSE task[t].p_cptr
               /\ R[t].p_ysptr = IF t = old THEN young ELSE task[t].p_ysptr
               /\ R[t].p_osptr = task[t].p_osptr
               /\ Rest(R[t], task[t])
    <3>1. CASE t = up
      BY <1>1, <2>1, <2>2, <2>3, <2>4, <3>1 DEF Rest
    <3>2. CASE t # up
      BY <1>1, <2>2, <3>2
    <3> QED
      BY <3>1, <3>2
  <2> QED
    BY <1>3, <1>5, <2>2, <2>5, <2>6 DEF IsReleased
<1> QED
  BY <1>4, <1>5

-----------------------------------------------------------------------------
(***************************************************************************)
(* sys_fork.                                                               *)
(***************************************************************************)
LEMMA ForkCopyKeeps == ASSUME ProcInv, NEW p \in Task, ForkCopy(p) PROVE ProcInv'
<1>0. TypeOK /\ Places /\ Numbers /\ InitLives /\ TreeInv
  BY DEF ProcInv
<1>1. /\ p \in Linked /\ p \in Used /\ p \notin Unborn /\ task[p] \in TaskStruct
      /\ task[p].state = "R" /\ pc[p] = "user" /\ cpu = NULL
  BY PlaceIs, LinkedIs DEF ForkCopy, User
<1> DEFINE c == FreeSlot
           n == NextPid
           a == task[p]
           r == [a EXCEPT !.state = "U", !.pid = n, !.signal = {}, !.leader = FALSE]
           b == loc[p]
           l == [b EXCEPT !.kid = c]
<1>2. c \in scene.slots /\ c \in Task /\ task[c] = NULL
  <2>1. Used \subseteq scene.slots /\ Used # scene.slots /\ scene.slots \subseteq Task
    BY <1>0, SceneParams DEF Numbers, ForkCopy, TypeOK
  <2>2. \E t \in scene.slots : task[t] = NULL
    BY <2>1 DEF Used
  <2> QED
    BY <2>1, <2>2 DEF FreeSlot
<1>3. n \in 1..MaxPid /\ n \notin PidsTaken
  BY <1>0, NextPidIs
<1>4. /\ task' = [task EXCEPT ![c] = r] /\ pc' = [pc EXCEPT ![p] = "copy"]
      /\ loc' = [loc EXCEPT ![p].kid = c] /\ cpu' = IF scene.copySleeps THEN NULL ELSE p
      /\ last_pid' = n /\ scene' = scene /\ guarded' = guarded
  BY DEF ForkCopy
<1> HIDE DEF c, n
<1>5. /\ r \in TaskStruct /\ r.state = "U" /\ r.pid = n /\ r.pgrp = a.pgrp /\ r.p_pptr = a.p_pptr
  <2>1. a \in TaskStruct
    BY <1>1
  <2> HIDE DEF a
  <2>2. r \in TaskStruct
    BY <2>1, <1>3 DEF TaskStruct
  <2> QED
    BY <2>1, <2>2 DEF TaskStruct
<1>6. l \in Locals /\ l.kid = c /\ l.p = b.p
  <2>1. b \in Locals
    BY <1>0 DEF TypeOK
  <2> HIDE DEF b
  <2> QED
    BY <2>1, <1>2 DEF Locals
<1>7. /\ task'[c] = r /\ \A t \in Task \ {c} : task'[t] = task[t]
      /\ pc'[p] = "copy" /\ \A t \in Task \ {p} : pc'[t] = pc[t]
      /\ loc'[p] = l /\ \A t \in Task \ {p} : loc'[t] = loc[t]
  BY <1>0, <1>2, <1>4 DEF TypeOK
<1>8. c # NULL /\ r # NULL /\ c # p /\ c \notin Used /\ pc[c] = "user" /\ loc[c].kid = NULL
      /\ c \notin Unborn /\ c # InitTask /\ loc[p].kid = NULL
  BY <1>0, <1>1, <1>2, <1>5, NullTask, TaskNames DEF Places, Used, InitLives, Linked
<1> HIDE DEF r, l, b
<1>9. TypeOK'
  <2>1. task' \in [Task -> TaskStruct \cup {NULL}]
    BY <1>0, <1>2, <1>4, <1>5 DEF TypeOK
  <2>2. pc' \in [Task -> {"user", "copy", "adopt", "dead", "scan", "wait"}]
    BY <1>0, <1>4 DEF TypeOK
  <2>3. loc' \in [Task -> Locals]
    <3>1. loc' = [t \in Task |-> loc'[t]]
      BY <1>0, <1>4 DEF TypeOK
    <3>2. \A t \in Task : loc'[t] \in Locals
      BY <1>0, <1>6, <1>7 DEF TypeOK
    <3> QED
      BY <3>1, <3>2
  <2>4. cpu' \in Task \cup {NULL}
    BY <1>4
  <2> QED
    BY <1>0, <1>3, <1>4, <2>1, <2>2, <2>3, <2>4, Zenon DEF TypeOK
<1>10. Used' = Used \cup {c}
  BY <1>2, <1>7, <1>8 DEF Used
<1>11. Unborn' = Unborn \cup {c}
  <2>1. Used \subseteq Task
    BY DEF Used
  <2>2. \A q \in Used' : loc'[q].kid = IF q = p THEN c ELSE loc[q].kid
    BY <1>2, <1>6, <1>7, <1>10, <2>1
  <2>3. Unborn' = {loc'[q].kid : q \in Used'} \ {NULL}
    BY DEF Unborn
  <2>4. ASSUME NEW k \in Unborn' PROVE k \in Unborn \cup {c}
    BY <1>8, <1>10, <2>2, <2>3 DEF Unborn
  <2>5. ASSUME NEW k \in Unborn PROVE k \in Unborn'
    BY <1>8, <1>10, <2>2, <2>3 DEF Unborn
  <2>6. c \in Unborn'
    BY <1>1, <1>8, <1>10, <2>2, <2>3
  <2> QED
    BY <2>4, <2>5, <2>6
<1>12. Linked' = Linked /\ c \notin Linked
  BY <1>8, <1>10, <1>11 DEF Linked
<1>13. PP' = PP /\ CP' = CP /\ YS' = YS /\ OS' = OS
  <2>1. \A t \in Linked : task'[t] = task[t]
    BY <1>7, <1>12 DEF Linked, Used
  <2> QED
    BY <1>12, <2>1 DEF PP, CP, YS, OS
<1>14. \A t \in Task : pc[t] \notin {"scan", "adopt"}
  BY <1>0, <1>1, TaskNames DEF Places
<1>15. Adopters = {} /\ Adopters' = {}
  BY <1>7, <1>14 DEF Adopters
<1>16. Places'
  <2> SUFFICES ASSUME NEW t \in Task
               PROVE  /\ task'[t] = NULL => pc'[t] = "user" /\ loc'[t].kid = NULL
                      /\ pc'[t] = "copy" <=> loc'[t].kid # NULL
                      /\ pc'[t] \in {"scan", "adopt"} => cpu' = t
                      /\ task'[t] # NULL => (task'[t].state = "Z" <=> pc'[t] \in {"adopt", "dead"})
                      /\ pc'[t] = "dead" => task'[t].p_cptr = NULL
                      /\ pc'[t] = "scan" /\ loc'[t].p # NULL =>
                             loc'[t].p \in Linked' /\ task'[loc'[t].p].p_pptr = t
                      /\ t \in Unborn' => /\ task'[t] # NULL /\ task'[t].state = "U"
                                          /\ pc'[t] = "user" /\ t # InitTask
                      /\ \A s \in Task : loc'[s].kid = loc'[t].kid /\ loc'[s].kid # NULL => s = t
    BY DEF Places
  <2>1. task'[t] = NULL => pc'[t] = "user" /\ loc'[t].kid = NULL
    BY <1>0, <1>1, <1>7, <1>8 DEF Places, Used
  <2>2. pc'[t] = "copy" <=> loc'[t].kid # NULL
    BY <1>0, <1>6, <1>7, <1>8 DEF Places
  <2>3. pc'[t] \notin {"scan", "adopt"}
    BY <1>7, <1>14
  <2>4. task'[t] # NULL => (task'[t].state = "Z" <=> pc'[t] \in {"adopt", "dead"})
    <3>1. CASE t = c
      BY <1>5, <1>7, <1>8, <3>1
    <3>2. CASE t = p
      BY <1>1, <1>7, <1>8, <3>2
    <3>3. CASE t \notin {c, p}
      BY <1>0, <1>7, <3>3 DEF Places
    <3> QED
      BY <3>1, <3>2, <3>3
  <2>5. pc'[t] = "dead" => task'[t].p_cptr = NULL
    BY <1>0, <1>7, <1>8 DEF Places
  <2>6. t \in Unborn' => task'[t] # NULL /\ task'[t].state = "U" /\ pc'[t] = "user" /\ t # InitTask
    <3>1. CASE t = c
      BY <1>5, <1>7, <1>8, <3>1
    <3>2. CASE t # c
      BY <1>0, <1>1, <1>7, <1>11, <3>2 DEF Places
    <3> QED
      BY <3>1, <3>2
  <2>7. \A s \in Task : loc[s].kid # c
    <3> SUFFICES ASSUME NEW s \in Task, loc[s].kid = c PROVE FALSE
      OBVIOUS
    <3>1. s \in Used
      BY <1>0, <1>8 DEF Places, Used
    <3> QED
      BY <1>8, <3>1 DEF Unborn
  <2>8. \A s \in Task : loc'[s].kid = loc'[t].kid /\ loc'[s].kid # NULL => s = t
    BY <1>0, <1>6, <1>7, <2>7 DEF Places
  <2> QED
    BY <2>1, <2>2, <2>3, <2>4, <2>5, <2>6, <2>8
<1>17. Numbers'
  <2>0. \A t \in Used : task'[t] = task[t] /\ t \in Task
    BY <1>7, <1>8 DEF Used
  <2>1. Used' \subseteq scene'.slots
    BY <1>0, <1>2, <1>4, <1>10 DEF Numbers
  <2>2. \A s, t \in Used' : s # t => task'[s].pid # task'[t].pid
    <3>1. \A t \in Used : task[t].pid # n
      BY <1>3 DEF PidsTaken
    <3> QED
      BY <1>0, <1>5, <1>7, <1>10, <2>0, <3>1 DEF Numbers
  <2>3. scene'.ops \cap {"setpgid", "setsid"} = {} => \A t \in Used' : task'[t].pgrp = 0
    BY <1>0, <1>1, <1>4, <1>5, <1>7, <1>10, <2>0 DEF Numbers
  <2>4. \A t \in Used' : task'[t].p_pptr = NULL => task'[t].pgrp = 0
    BY <1>0, <1>1, <1>5, <1>7, <1>10, <2>0 DEF Numbers
  <2> QED
    BY <2>1, <2>2, <2>3, <2>4 DEF Numbers
<1>18. InitLives'
  BY <1>0, <1>7, <1>8, <1>12, TaskNames DEF InitLives
<1>19. TreeInv'
  BY <1>0, <1>12, <1>13, <1>15 DEF TreeInv
<1>20. NoneLeftStopped'
  BY <1>15 DEF NoneLeftStopped, Adopters
<1> QED
  BY <1>9, <1>16, <1>17, <1>18, <1>19, <1>20 DEF ProcInv

(* The structure that p has copied, and the others *)
LEMMA KidIs ==
    ASSUME ProcInv, NEW p \in Task, pc[p] = "copy", cpu \in {NULL, p}, NEW STATE c, c = loc[p].kid
    PROVE  /\ p \in Linked /\ p \in Used
           /\ c \in Task /\ c \in Unborn /\ c \in Used /\ c \notin Linked /\ task[c] \in TaskStruct
           /\ task[c] # NULL /\ c # NULL
           /\ c \notin {p, InitTask} /\ pc[c] = "user" /\ loc[c].kid = NULL
           /\ \A t \in Task \ {p} : loc[t].kid # c
           /\ \A t \in Task : pc[t] \notin {"scan", "adopt"}
<1>0. TypeOK /\ Places
  BY DEF ProcInv
<1>1. p \in Linked /\ p \in Used
  BY PlaceIs DEF Linked
<1>2. c # NULL /\ c \in Task
  BY <1>0 DEF Places, TypeOK, Locals
<1>3. c \in Unborn
  BY <1>1, <1>2 DEF Unborn
<1>4. task[c] # NULL /\ pc[c] = "user" /\ c # InitTask
  BY <1>0, <1>2, <1>3 DEF Places
<1>5. loc[c].kid = NULL /\ (\A t \in Task \ {p} : loc[t].kid # c)
  BY <1>0, <1>2, <1>4 DEF Places
<1>6. \A t \in Task : pc[t] \notin {"scan", "adopt"}
  BY <1>0, Alone
<1> QED
  BY <1>0, <1>1, <1>2, <1>3, <1>4, <1>5, <1>6 DEF Linked, Used, TypeOK

(* fork ends: the structure is the kid of nobody any more. *)
LEMMA KidGone ==
    ASSUME ProcInv, NEW p \in Task, pc[p] = "copy", cpu \in {NULL, p}, NEW STATE c, c = loc[p].kid,
           Return(p)
    PROVE  /\ pc' \in [Task -> {"user", "copy", "adopt", "dead", "scan", "wait"}]
           /\ loc' \in [Task -> Locals] /\ cpu' = NULL
           /\ loc'[p].kid = NULL /\ \A t \in Task \ {p} : loc'[t] = loc[t] /\ pc'[t] = pc[t]
           /\ pc'[p] = "user"
           /\ \A t \in Task : pc'[t] \notin {"scan", "adopt"}
           /\ Adopters = {} /\ Adopters' = {}
           /\ \A t \in Unborn : loc[p].kid # t => \E q \in Used \ {p, c} : loc[q].kid = t
<1>1. NoLoc \in Locals /\ NoLoc.kid = NULL
  BY DEF NoLoc, Locals
<1>2. loc' = [loc EXCEPT ![p] = NoLoc] /\ pc' = [pc EXCEPT ![p] = "user"] /\ cpu' = NULL
  BY DEF Return
<1>3. loc \in [Task -> Locals] /\ pc \in [Task -> {"user", "copy", "adopt", "dead", "scan", "wait"}]
  BY DEF ProcInv, TypeOK
<1> HIDE DEF NoLoc
<1>4. loc' \in [Task -> Locals]
  BY <1>1, <1>2, <1>3, Zenon
<1>5. pc' \in [Task -> {"user", "copy", "adopt", "dead", "scan", "wait"}]
  BY <1>2, <1>3
<1>6. /\ loc'[p].kid = NULL /\ \A t \in Task \ {p} : loc'[t] = loc[t] /\ pc'[t] = pc[t]
      /\ pc'[p] = "user"
  BY <1>1, <1>2, <1>3
<1>7. \A t \in Task : pc[t] \notin {"scan", "adopt"}
  BY KidIs
<1>8. loc[c].kid = NULL
  BY KidIs
<1>9. Adopters = {} /\ Adopters' = {} /\ \A t \in Task : pc'[t] \notin {"scan", "adopt"}
  BY <1>6, <1>7 DEF Adopters
<1>10. \A t \in Unborn : loc[p].kid # t => \E q \in Used \ {p, c} : loc[q].kid = t
  BY <1>8 DEF Unborn
<1> QED
  BY <1>2, <1>4, <1>5, <1>6, <1>9, <1>10

LEMMA ForkFailKeeps == ASSUME ProcInv, NEW p \in Task, ForkFail(p) PROVE ProcInv'
<1>0. TypeOK /\ Places /\ Numbers /\ InitLives /\ TreeInv
  BY DEF ProcInv
<1> DEFINE c == loc[p].kid
<1>1. /\ pc[p] = "copy" /\ cpu \in {NULL, p} /\ task' = [task EXCEPT ![c] = NULL] /\ Return(p)
      /\ last_pid' = last_pid /\ guarded' = guarded /\ scene' = scene /\ c = loc[p].kid
  BY DEF ForkFail
<1> HIDE DEF c
<1>2. /\ p \in Linked /\ p \in Used
      /\ c \in Task /\ c \in Unborn /\ c \in Used /\ c \notin Linked
      /\ task[c] # NULL /\ c # NULL
      /\ c \notin {p, InitTask} /\ pc[c] = "user" /\ loc[c].kid = NULL
      /\ \A t \in Task \ {p} : loc[t].kid # c
  BY <1>1, KidIs
<1>3. /\ pc' \in [Task -> {"user", "copy", "adopt", "dead", "scan", "wait"}]
      /\ loc' \in [Task -> Locals] /\ cpu' = NULL
      /\ loc'[p].kid = NULL /\ \A t \in Task \ {p} : loc'[t] = loc[t] /\ pc'[t] = pc[t]
      /\ pc'[p] = "user"
      /\ \A t \in Task : pc'[t] \notin {"scan", "adopt"}
      /\ Adopters = {} /\ Adopters' = {}
      /\ \A t \in Unborn : loc[p].kid # t => \E q \in Used \ {p, c} : loc[q].kid = t
  BY <1>1, KidGone
<1>4. task'[c] = NULL /\ \A t \in Task \ {c} : task'[t] = task[t]
  BY <1>0, <1>1, <1>2 DEF TypeOK
<1>5. TypeOK'
  <2>1. task' \in [Task -> TaskStruct \cup {NULL}]
    BY <1>0, <1>1 DEF TypeOK
  <2> QED
    BY <1>0, <1>1, <1>3, <2>1, Zenon DEF TypeOK
<1>6. Used' = Used \ {c}
  BY <1>4 DEF Used
<1>7. Unborn' = Unborn \ {c}
  <2>1. \A q \in Used' : q \in Used /\ q \in Task /\ loc'[q].kid = IF q = p THEN NULL ELSE loc[q].kid
    BY <1>3, <1>6 DEF Used
  <2>2. Unborn' = {loc'[q].kid : q \in Used'} \ {NULL}
    BY DEF Unborn
  <2>3. ASSUME NEW k \in Unborn' PROVE k \in Unborn \ {c}
    BY <1>2, <2>1, <2>2 DEF Unborn
  <2>4. ASSUME NEW k \in Unborn \ {c} PROVE k \in Unborn'
    <3>1. PICK q \in Used \ {p, c} : loc[q].kid = k
      BY <1>1, <1>3
    <3>2. k # NULL
      BY DEF Unborn
    <3> QED
      BY <1>6, <2>1, <2>2, <3>1, <3>2
  <2> QED
    BY <2>3, <2>4
<1>8. Linked' = Linked
  BY <1>2, <1>6, <1>7 DEF Linked
<1>9. PP' = PP /\ CP' = CP /\ YS' = YS /\ OS' = OS
  <2>1. \A t \in Linked : task'[t] = task[t]
    BY <1>2, <1>4 DEF Linked, Used
  <2> QED
    BY <1>8, <2>1 DEF PP, CP, YS, OS
<1>10. Places'
  <2> SUFFICES ASSUME NEW t \in Task
               PROVE  /\ task'[t] = NULL => pc'[t] = "user" /\ loc'[t].kid = NULL
                      /\ pc'[t] = "copy" <=> loc'[t].kid # NULL
                      /\ pc'[t] \in {"scan", "adopt"} => cpu' = t
                      /\ task'[t] # NULL => (task'[t].state = "Z" <=> pc'[t] \in {"adopt", "dead"})
                      /\ pc'[t] = "dead" => task'[t].p_cptr = NULL
                      /\ pc'[t] = "scan" /\ loc'[t].p # NULL =>
                             loc'[t].p \in Linked' /\ task'[loc'[t].p].p_pptr = t
                      /\ t \in Unborn' => /\ task'[t] # NULL /\ task'[t].state = "U"
                                          /\ pc'[t] = "user" /\ t # InitTask
                      /\ \A s \in Task : loc'[s].kid = loc'[t].kid /\ loc'[s].kid # NULL => s = t
    BY DEF Places
  <2>1. task'[t] = NULL => pc'[t] = "user" /\ loc'[t].kid = NULL
    BY <1>0, <1>2, <1>3, <1>4 DEF Places
  <2>2. pc'[t] = "copy" <=> loc'[t].kid # NULL
    BY <1>0, <1>3 DEF Places
  <2>3. pc'[t] \notin {"scan", "adopt"}
    BY <1>3
  <2>4. task'[t] # NULL => (task'[t].state = "Z" <=> pc'[t] \in {"adopt", "dead"})
    <3>1. CASE t = p
      BY <1>0, <1>1, <1>2, <1>3, <1>4, <3>1 DEF Places, Used
    <3>2. CASE t # p
      BY <1>0, <1>3, <1>4, <3>2 DEF Places
    <3> QED
      BY <3>1, <3>2
  <2>5. pc'[t] = "dead" => task'[t].p_cptr = NULL
    BY <1>0, <1>2, <1>3, <1>4 DEF Places
  <2>6. t \in Unborn' => task'[t] # NULL /\ task'[t].state = "U" /\ pc'[t] = "user" /\ t # InitTask
    BY <1>0, <1>2, <1>3, <1>4, <1>7 DEF Places, Linked
  <2>7. \A s \in Task : loc'[s].kid = loc'[t].kid /\ loc'[s].kid # NULL => s = t
    BY <1>0, <1>3 DEF Places
  <2> QED
    BY <2>1, <2>2, <2>3, <2>4, <2>5, <2>6, <2>7
<1>11. Numbers'
  <2>1. \A t \in Used' : task'[t] = task[t] /\ t \in Used
    BY <1>4, <1>6 DEF Used
  <2> QED
    BY <1>0, <1>1, <1>6, <2>1 DEF Numbers
<1>12. InitLives'
  BY <1>0, <1>2, <1>3, <1>4, <1>8, TaskNames DEF InitLives
<1>13. TreeInv'
  BY <1>0, <1>3, <1>8, <1>9 DEF TreeInv
<1>14. NoneLeftStopped'
  BY <1>3 DEF NoneLeftStopped, Adopters
<1> QED
  BY <1>5, <1>10, <1>11, <1>12, <1>13, <1>14 DEF ProcInv

LEMMA ForkDoneKeeps == ASSUME ProcInv, NEW p \in Task, ForkDone(p) PROVE ProcInv'
<1>0. TypeOK /\ Places /\ Numbers /\ InitLives /\ TreeInv /\ task \in Values
  BY DEF ProcInv, TypeOK, Values
<1> DEFINE c == loc[p].kid
           elder == task[p].p_cptr
           R == Born(p, c)
<1>1. /\ pc[p] = "copy" /\ cpu \in {NULL, p} /\ task' = R /\ R = Born(p, c) /\ Return(p)
      /\ last_pid' = last_pid /\ guarded' = guarded /\ scene' = scene /\ c = loc[p].kid
      /\ elder = task[p].p_cptr
  BY DEF ForkDone
<1> HIDE DEF c, elder, R
<1>2. /\ p \in Linked /\ p \in Used
      /\ c \in Task /\ c \in Unborn /\ c \in Used /\ c \notin Linked
      /\ task[c] # NULL /\ c # NULL
      /\ c \notin {p, InitTask} /\ pc[c] = "user" /\ loc[c].kid = NULL
      /\ \A t \in Task \ {p} : loc[t].kid # c
  BY <1>1, KidIs
<1>3. /\ pc' \in [Task -> {"user", "copy", "adopt", "dead", "scan", "wait"}]
      /\ loc' \in [Task -> Locals] /\ cpu' = NULL
      /\ loc'[p].kid = NULL /\ \A t \in Task \ {p} : loc'[t] = loc[t] /\ pc'[t] = pc[t]
      /\ pc'[p] = "user"
      /\ \A t \in Task : pc'[t] \notin {"scan", "adopt"}
      /\ Adopters = {} /\ Adopters' = {}
      /\ \A t \in Unborn : loc[p].kid # t => \E q \in Used \ {p, c} : loc[q].kid = t
  BY <1>1, KidGone
<1>4. /\ elder \in Task \cup {NULL} /\ (elder # NULL => task[elder] # NULL) /\ elder # c /\ elder # p
      /\ task[p] # NULL /\ p # c /\ Linked \subseteq Task
  <2>1. task[p].p_cptr \in Linked \cup {NULL} /\ task[p].p_cptr # p /\ task[p] # NULL
    BY <1>2, LinkedIs
  <2> QED
    BY <1>1, <1>2, <2>1 DEF Linked, Used
<1>5. R \in Values /\ IsBorn(task, R, p, c, elder)
  BY <1>0, <1>1, <1>2, <1>4, BornIs
<1>6. task' \in Values /\ IsBorn(task, task', p, c, elder)
  BY <1>1, <1>5
<1>7. TypeOK'
  BY <1>0, <1>1, <1>3, <1>6, Zenon DEF TypeOK, Values
<1>8. Used' = Used
  BY <1>6 DEF Used, IsBorn
<1>9. Unborn' = Unborn \ {c}
  <2>1. \A q \in Used' : q \in Used /\ q \in Task /\ loc'[q].kid = IF q = p THEN NULL ELSE loc[q].kid
    BY <1>3, <1>8 DEF Used
  <2>2. Unborn' = {loc'[q].kid : q \in Used'} \ {NULL}
    BY DEF Unborn
  <2>3. ASSUME NEW k \in Unborn' PROVE k \in Unborn \ {c}
    BY <1>2, <2>1, <2>2 DEF Unborn
  <2>4. ASSUME NEW k \in Unborn \ {c} PROVE k \in Unborn'
    <3>1. PICK q \in Used \ {p, c} : loc[q].kid = k
      BY <1>1, <1>3
    <3>2. k # NULL
      BY DEF Unborn
    <3> QED
      BY <1>8, <2>1, <2>2, <3>1, <3>2
  <2> QED
    BY <2>3, <2>4
<1>10. Linked' = Linked \cup {c}
  BY <1>2, <1>8, <1>9 DEF Linked
<1>11. Places'
  <2> SUFFICES ASSUME NEW t \in Task
               PROVE  /\ task'[t] = NULL => pc'[t] = "user" /\ loc'[t].kid = NULL
                      /\ pc'[t] = "copy" <=> loc'[t].kid # NULL
                      /\ pc'[t] \in {"scan", "adopt"} => cpu' = t
                      /\ task'[t] # NULL => (task'[t].state = "Z" <=> pc'[t] \in {"adopt", "dead"})
                      /\ pc'[t] = "dead" => task'[t].p_cptr = NULL
                      /\ pc'[t] = "scan" /\ loc'[t].p # NULL =>
                             loc'[t].p \in Linked' /\ task'[loc'[t].p].p_pptr = t
                      /\ t \in Unborn' => /\ task'[t] # NULL /\ task'[t].state = "U"
                                          /\ pc'[t] = "user" /\ t # InitTask
                      /\ \A s \in Task : loc'[s].kid = loc'[t].kid /\ loc'[s].kid # NULL => s = t
    BY DEF Places
  <2>0. /\ task'[t] = NULL <=> task[t] = NULL
        /\ task'[t].state = IF t = c THEN "R" ELSE task[t].state
        /\ task'[t].p_cptr = IF t = c THEN NULL ELSE IF t = p THEN c ELSE task[t].p_cptr
    BY <1>6 DEF IsBorn
  <2>1. task'[t] = NULL => pc'[t] = "user" /\ loc'[t].kid = NULL
    BY <1>0, <1>3, <2>0 DEF Places
  <2>2. pc'[t] = "copy" <=> loc'[t].kid # NULL
    BY <1>0, <1>3 DEF Places
  <2>3. pc'[t] \notin {"scan", "adopt"}
    BY <1>3
  <2>4. task'[t] # NULL => (task'[t].state = "Z" <=> pc'[t] \in {"adopt", "dead"})
    <3>1. CASE t = p
      BY <1>0, <1>1, <1>2, <1>3, <2>0, <3>1 DEF Places, Used
    <3>2. CASE t = c
      BY <1>2, <1>3, <2>0, <3>2
    <3>3. CASE t # p /\ t # c
      BY <1>0, <1>3, <2>0, <3>3 DEF Places
    <3> QED
      BY <3>1, <3>2, <3>3
  <2>5. pc'[t] = "dead" => task'[t].p_cptr = NULL
    BY <1>0, <1>2, <1>3, <2>0 DEF Places
  <2>6. t \in Unborn' => task'[t] # NULL /\ task'[t].state = "U" /\ pc'[t] = "user" /\ t # InitTask
    BY <1>0, <1>2, <1>3, <1>9, <2>0 DEF Places, Linked
  <2>7. \A s \in Task : loc'[s].kid = loc'[t].kid /\ loc'[s].kid # NULL => s = t
    BY <1>0, <1>3 DEF Places
  <2> QED
    BY <2>1, <2>2, <2>3, <2>4, <2>5, <2>6, <2>7
<1>12. Numbers'
  <2>1. \A t \in Used' : /\ t \in Used /\ t \in Task /\ task'[t].pid = task[t].pid
                         /\ task'[t].pgrp = task[t].pgrp
                         /\ task'[t].p_pptr = IF t = c THEN p ELSE task[t].p_pptr
    BY <1>6, <1>8 DEF Used, IsBorn
  <2>2. p # NULL
    BY TaskNames
  <2>3. \A t \in Used' : task'[t].p_pptr = NULL => task'[t].pgrp = 0
    BY <1>0, <2>1, <2>2 DEF Numbers
  <2> QED
    BY <1>0, <1>1, <1>8, <2>1, <2>3 DEF Numbers
<1>13. InitLives'
  <2>1. InitTask \in Task
    BY TaskNames
  <2>2. task'[InitTask].pgrp = task[InitTask].pgrp /\ task'[InitTask].signal = task[InitTask].signal
    BY <1>6, <2>1 DEF IsBorn
  <2> QED
    BY <1>0, <1>3, <1>10, <2>1, <2>2 DEF InitLives
<1>14. TreeInv'
  <2> DEFINE L == Linked
             L2 == Linked \cup {c}
  <2>1. \A t \in L : /\ PP[t] = task[t].p_pptr /\ CP[t] = task[t].p_cptr
                     /\ YS[t] = task[t].p_ysptr /\ OS[t] = task[t].p_osptr
    BY DEF PP, CP, YS, OS
  <2>2. CP[p] = elder
    BY <1>1, <1>2, <2>1
  <2>3. \A t \in L2 : t \in Task
    BY <1>2, <1>4
  <2>4. \A t \in L2 :
          /\ task'[t].p_pptr = IF t = c THEN p ELSE task[t].p_pptr
          /\ task'[t].p_cptr = IF t = c THEN NULL ELSE IF t = p THEN c ELSE task[t].p_cptr
          /\ task'[t].p_ysptr = IF t = c THEN NULL ELSE IF t = elder THEN c ELSE task[t].p_ysptr
          /\ task'[t].p_osptr = IF t = c THEN elder ELSE task[t].p_osptr
    BY <1>6, <2>3 DEF IsBorn
  <2>5. PP' = [t \in L2 |-> IF t = c THEN p ELSE PP[t]]
    BY <1>10, <2>1, <2>4 DEF PP
  <2>6. CP' = [t \in L2 |-> IF t = c THEN NULL ELSE IF t = p THEN c ELSE CP[t]]
    BY <1>10, <2>1, <2>4 DEF CP
  <2>7. YS' = [t \in L2 |-> IF t = c THEN NULL ELSE IF t = CP[p] THEN c ELSE YS[t]]
    BY <1>10, <2>1, <2>2, <2>4 DEF YS
  <2>8. OS' = [t \in L2 |-> IF t = c THEN CP[p] ELSE OS[t]]
    BY <1>10, <2>1, <2>2, <2>4 DEF OS
  <2>9. Tree(L, PP, CP, YS, OS, {})
    BY <1>0, <1>3 DEF TreeInv
  <2>10. Tree(Linked \cup {c}, PP', CP', YS', OS', {})
    <3>1. c \notin L /\ c # NULL /\ p \in L
      BY <1>2
    <3> HIDE DEF PP, CP, YS, OS
    <3> QED
      BY <2>5, <2>6, <2>7, <2>8, <2>9, <3>1, TreeBorn
  <2> QED
    BY <1>3, <1>10, <2>10 DEF TreeInv
<1>15. NoneLeftStopped'
  BY <1>3 DEF NoneLeftStopped, Adopters
<1> QED
  BY <1>7, <1>11, <1>12, <1>13, <1>14, <1>15 DEF ProcInv

-----------------------------------------------------------------------------
(***************************************************************************)
(* The loop of do_exit over the children.                                  *)
(***************************************************************************)

(* A group that the move of c to init orphans is the group of c, and p was *)
(* its guardian.                                                           *)
LEMMA AdoptedGroups ==
    ASSUME NEW T \in Values, NEW R, NEW p \in Task, NEW c \in Task, NEW first, Grouped(T),
           T[c] # NULL, T[c].p_pptr = p, IsAdopted(T, R, p, c, first), NEW g
    PROVE  /\ Members(R, g) = Members(T, g)
           /\ HasStoppedJobs(R, g) <=> HasStoppedJobs(T, g)
           /\ IsOrphanedPgrp(R, g) /\ ~IsOrphanedPgrp(T, g) =>
                g = T[c].pgrp /\ g # T[p].pgrp /\ T[c].session = T[p].session
<1>1. \A t \in Task : /\ R[t] = NULL <=> T[t] = NULL
                      /\ R[t].p_pptr = IF t = c THEN InitTask ELSE T[t].p_pptr
                      /\ R[t].state = T[t].state /\ R[t].pgrp = T[t].pgrp /\ R[t].session = T[t].session
  BY DEF IsAdopted
<1>2. Members(R, g) = Members(T, g)
  BY <1>1 DEF Members
<1>3. Members(T, g) \subseteq Task
  BY DEF Members
<1>4. HasStoppedJobs(R, g) <=> HasStoppedJobs(T, g)
  BY <1>1, <1>2, <1>3 DEF HasStoppedJobs
<1>5. ASSUME IsOrphanedPgrp(R, g), ~IsOrphanedPgrp(T, g)
      PROVE  g = T[c].pgrp /\ g # T[p].pgrp /\ T[c].session = T[p].session
  <2>1. PICK t \in Members(T, g) :
              ~ (\/ T[t].state = "Z"
                 \/ T[t].p_pptr = InitTask
                 \/ T[T[t].p_pptr].pgrp = g
                 \/ T[T[t].p_pptr].session # T[t].session)
    BY <1>5 DEF IsOrphanedPgrp
  <2>2. t \in Task /\ T[t] # NULL /\ T[t].pgrp = g /\ g > 0
    BY DEF Members
  <2>3. T[t].p_pptr \in Task
    <3>1. T[t].p_pptr \in Task \cup {NULL}
      BY <2>2 DEF Values, TaskStruct
    <3>2. g # 0
      BY <2>2
    <3> QED
      BY <2>2, <3>1, <3>2 DEF Grouped
  <2>4. \/ R[t].state = "Z"
        \/ R[t].p_pptr = InitTask
        \/ R[R[t].p_pptr].pgrp = g
        \/ R[R[t].p_pptr].session # R[t].session
    BY <1>2, <1>5 DEF IsOrphanedPgrp
  <2>5. R[T[t].p_pptr].pgrp = T[T[t].p_pptr].pgrp /\ R[T[t].p_pptr].session = T[T[t].p_pptr].session
    BY <1>1, <2>3
  <2>6. t = c
    BY <1>1, <2>1, <2>2, <2>4, <2>5
  <2> QED
    BY <2>1, <2>2, <2>6
<1> QED
  BY <1>2, <1>4, <1>5

LEMMA AdoptKeeps == ASSUME ProcInv, NEW p \in Task, Adopt(p) PROVE ProcInv'
<1>0. /\ TypeOK /\ Places /\ Numbers /\ InitLives /\ TreeInv /\ NoneLeftStopped /\ task \in Values
      /\ InitTask \in Task
  BY TaskNames DEF ProcInv, TypeOK, Values
<1> DEFINE c == task[p].p_cptr
           first == task[InitTask].p_cptr
           R == Adopted(p, c)
           g == task[c].pgrp
           left == /\ g # task[p].pgrp
                   /\ task[c].session = task[p].session
                   /\ IsOrphanedPgrp(R, g)
                   /\ HasStoppedJobs(R, g)
<1>1. /\ pc[p] = "adopt" /\ c # NULL /\ R = Adopted(p, c)
      /\ task' = IF left THEN HangUp(R, g) ELSE R
      /\ UNCHANGED <<last_pid, cpu, pc, loc, guarded, scene>>
      /\ c = task[p].p_cptr /\ first = task[InitTask].p_cptr /\ g = task[c].pgrp
  BY DEF Adopt
<1>2. cpu = p /\ p # InitTask /\ p \in Linked /\ InitTask \in Linked
      /\ \A t \in Task \ {p} : pc[t] \notin {"scan", "adopt"}
  <2>1. cpu = p /\ p # InitTask
    BY <1>0, <1>1 DEF Places, InitLives
  <2>2. p \in Linked
    BY <1>1, PlaceIs
  <2> QED
    BY <1>0, <2>1, <2>2, Alone DEF InitLives
<1>3. Adopters = {p} /\ Adopters' = {p}
  BY <1>1, <1>2 DEF Adopters
<1>4. /\ c \in Linked /\ c # p /\ c # InitTask /\ task[c].p_pptr = p /\ task[c] # NULL /\ c \in Task
      /\ task[p] # NULL
  <2> HIDE DEF c
  <2>1. c \in Linked /\ c # p /\ task[c].p_pptr = p /\ task[p] # NULL
    BY <1>1, <1>2, LinkedIs
  <2>2. c # InitTask
    <3>1. PP[InitTask] = NULL
      BY <1>0 DEF TreeInv, Tree, Links
    <3>2. task[InitTask].p_pptr = NULL
      BY <1>2, <3>1 DEF PP
    <3>3. p # NULL
      BY TaskNames
    <3> QED
      BY <2>1, <3>2, <3>3
  <2> QED
    BY <2>1, <2>2, LinkedIs
<1>5. /\ first \in Linked /\ first \in Task /\ first # c /\ first # InitTask /\ task[first] # NULL
      /\ task[InitTask] # NULL
  <2>1. CP[InitTask] # NULL
    BY <1>0, <1>2, InitHasChild DEF TreeInv
  <2>2. first # NULL
    BY <1>2, <2>1 DEF CP
  <2> HIDE DEF first
  <2>3. first \in Linked /\ first # InitTask /\ task[first].p_pptr = InitTask /\ task[InitTask] # NULL
    BY <1>1, <1>2, <2>2, LinkedIs
  <2>4. first # c
    BY <1>2, <1>4, <2>3
  <2> QED
    BY <2>3, <2>4, LinkedIs
<1> HIDE DEF c, first, R, g
<1>6. R \in Values /\ IsAdopted(task, R, p, c, first)
  BY <1>0, <1>1, <1>2, <1>4, <1>5, AdoptedIs
<1>7. /\ task' \in Values /\ Kin(R, task')
      /\ \A t \in Task \ Members(R, g) : task'[t] = R[t]
      /\ left => \A t \in Members(R, g) : task'[t].state # "T"
  <2>1. CASE left
    <3>1. task' = HangUp(R, g)
      BY <1>1, <2>1
    <3> HIDE DEF left
    <3> QED
      BY <1>6, <3>1, HangUpIs
  <2>2. CASE ~left
    <3>1. task' = R
      BY <1>1, <2>2
    <3>2. Kin(R, R)
      BY DEF Kin
    <3> QED
      BY <1>6, <2>2, <3>1, <3>2
  <2> QED
    BY <2>1, <2>2
<1> HIDE DEF left
<1>8. ASSUME NEW t \in Task
      PROVE  /\ task'[t] = NULL <=> task[t] = NULL
             /\ task[t] # NULL =>
                  /\ task'[t].p_pptr = IF t = c THEN InitTask ELSE task[t].p_pptr
                  /\ task'[t].p_cptr = IF t = InitTask THEN c ELSE IF t = p THEN task[c].p_osptr
                                       ELSE task[t].p_cptr
                  /\ task'[t].p_ysptr = IF t = c THEN NULL ELSE IF t = first THEN c ELSE task[t].p_ysptr
                  /\ task'[t].p_osptr = IF t = c THEN first ELSE task[t].p_osptr
                  /\ task'[t].pid = task[t].pid /\ task'[t].pgrp = task[t].pgrp
                  /\ task'[t].state = task[t].state \/ (task[t].state = "T" /\ task'[t].state = "R")
  <2>1. /\ R[t] = NULL <=> task[t] = NULL
        /\ R[t].p_pptr = IF t = c THEN InitTask ELSE task[t].p_pptr
        /\ R[t].p_cptr = IF t = InitTask THEN c ELSE IF t = p THEN task[c].p_osptr ELSE task[t].p_cptr
        /\ R[t].p_ysptr = IF t = c THEN NULL ELSE IF t = first THEN c ELSE task[t].p_ysptr
        /\ R[t].p_osptr = IF t = c THEN first ELSE task[t].p_osptr
        /\ R[t].state = task[t].state /\ R[t].pid = task[t].pid /\ R[t].pgrp = task[t].pgrp
    BY <1>6 DEF IsAdopted
  <2>2. /\ task'[t] = NULL <=> R[t] = NULL
        /\ R[t] # NULL =>
             /\ task'[t].p_pptr = R[t].p_pptr /\ task'[t].p_cptr = R[t].p_cptr
             /\ task'[t].p_ysptr = R[t].p_ysptr /\ task'[t].p_osptr = R[t].p_osptr
             /\ task'[t].pid = R[t].pid /\ task'[t].pgrp = R[t].pgrp
             /\ task'[t].state = R[t].state \/ (R[t].state = "T" /\ task'[t].state = "R")
    BY <1>7 DEF Kin
  <2> QED
    BY <2>1, <2>2
<1>9. Used' = Used /\ Unborn' = Unborn /\ Linked' = Linked
  <2>1. Used' = Used
    BY <1>8 DEF Used
  <2>2. Unborn' = Unborn
    BY <1>1, <2>1 DEF Unborn
  <2> QED
    BY <2>1, <2>2 DEF Linked
<1>10. TypeOK'
  BY <1>0, <1>1, <1>7, Zenon DEF TypeOK, Values
<1>11. Places'
  <2> SUFFICES ASSUME NEW t \in Task
               PROVE  /\ task'[t] = NULL => pc'[t] = "user" /\ loc'[t].kid = NULL
                      /\ pc'[t] = "copy" <=> loc'[t].kid # NULL
                      /\ pc'[t] \in {"scan", "adopt"} => cpu' = t
                      /\ task'[t] # NULL => (task'[t].state = "Z" <=> pc'[t] \in {"adopt", "dead"})
                      /\ pc'[t] = "dead" => task'[t].p_cptr = NULL
                      /\ pc'[t] = "scan" /\ loc'[t].p # NULL =>
                             loc'[t].p \in Linked' /\ task'[loc'[t].p].p_pptr = t
                      /\ t \in Unborn' => /\ task'[t] # NULL /\ task'[t].state = "U"
                                          /\ pc'[t] = "user" /\ t # InitTask
                      /\ \A s \in Task : loc'[s].kid = loc'[t].kid /\ loc'[s].kid # NULL => s = t
    BY DEF Places
  <2>1. task'[t] = NULL => pc'[t] = "user" /\ loc'[t].kid = NULL
    BY <1>0, <1>1, <1>8 DEF Places
  <2>2. pc'[t] = "copy" <=> loc'[t].kid # NULL
    BY <1>0, <1>1 DEF Places
  <2>3. (pc'[t] \in {"scan", "adopt"} => cpu' = t) /\ pc'[t] # "scan"
    BY <1>0, <1>1, <1>2 DEF Places
  <2>4. task'[t] # NULL => (task'[t].state = "Z" <=> pc'[t] \in {"adopt", "dead"})
    BY <1>0, <1>1, <1>8 DEF Places
  <2>5. pc'[t] = "dead" => task'[t].p_cptr = NULL
    <3> SUFFICES ASSUME pc[t] = "dead" PROVE task'[t].p_cptr = NULL
      BY <1>1
    <3>1. task[t] # NULL /\ t # p /\ t # InitTask /\ task[t].p_cptr = NULL
      BY <1>0, <1>1 DEF Places, InitLives
    <3> QED
      BY <1>8, <3>1
  <2>6. t \in Unborn' => task'[t] # NULL /\ task'[t].state = "U" /\ pc'[t] = "user" /\ t # InitTask
    <3> SUFFICES ASSUME t \in Unborn
                 PROVE  task'[t] # NULL /\ task'[t].state = "U" /\ pc'[t] = "user" /\ t # InitTask
      BY <1>9
    <3>1. task[t] # NULL /\ task[t].state = "U" /\ pc[t] = "user" /\ t # InitTask
      BY <1>0 DEF Places
    <3> QED
      BY <1>1, <1>8, <3>1
  <2>7. \A s \in Task : loc'[s].kid = loc'[t].kid /\ loc'[s].kid # NULL => s = t
    BY <1>0, <1>1 DEF Places
  <2> QED
    BY <2>1, <2>2, <2>3, <2>4, <2>5, <2>6, <2>7
<1>12. Numbers'
  <2>1. \A t \in Used : /\ t \in Task /\ task'[t].pid = task[t].pid /\ task'[t].pgrp = task[t].pgrp
                        /\ task'[t].p_pptr = IF t = c THEN InitTask ELSE task[t].p_pptr
    BY <1>8 DEF Used
  <2>2. InitTask # NULL
    BY TaskNames
  <2>3. \A t \in Used' : task'[t].p_pptr = NULL => task'[t].pgrp = 0
    BY <1>0, <1>9, <2>1, <2>2 DEF Numbers
  <2> QED
    BY <1>0, <1>1, <1>9, <2>1, <2>3 DEF Numbers
<1>13. InitLives'
  <2>1. R[InitTask].pgrp = 0 /\ R[InitTask].signal \subseteq {SIGCHLD}
    BY <1>0, <1>6 DEF IsAdopted, InitLives
  <2>2. InitTask \notin Members(R, g)
    BY <2>1 DEF Members
  <2>3. task'[InitTask] = R[InitTask]
    BY <1>0, <1>7, <2>2
  <2> QED
    BY <1>0, <1>1, <1>9, <2>1, <2>3 DEF InitLives
<1>14. TreeInv'
  <2>1. \A t \in Linked : /\ PP[t] = task[t].p_pptr /\ CP[t] = task[t].p_cptr
                          /\ YS[t] = task[t].p_ysptr /\ OS[t] = task[t].p_osptr
                          /\ t \in Task /\ task[t] # NULL
    BY DEF PP, CP, YS, OS, Linked, Used
  <2>2. CP[p] = c /\ CP[InitTask] = first /\ OS[c] = task[c].p_osptr
    BY <1>1, <1>2, <1>4, <2>1
  <2>3. PP' = [t \in Linked |-> IF t = c THEN InitTask ELSE PP[t]]
    BY <1>8, <1>9, <2>1 DEF PP
  <2>4. CP' = [t \in Linked |-> IF t = InitTask THEN c ELSE IF t = p THEN OS[c] ELSE CP[t]]
    BY <1>8, <1>9, <2>1, <2>2 DEF CP
  <2>5. YS' = [t \in Linked |-> IF t = c THEN NULL ELSE IF t = CP[InitTask] THEN c ELSE YS[t]]
    BY <1>8, <1>9, <2>1, <2>2 DEF YS
  <2>6. OS' = [t \in Linked |-> IF t = c THEN CP[InitTask] ELSE OS[t]]
    BY <1>8, <1>9, <2>1, <2>2 DEF OS
  <2>7. Tree(Linked, PP, CP, YS, OS, {p})
    BY <1>0, <1>3 DEF TreeInv
  <2>8. Tree(Linked, PP', CP', YS', OS', {p})
    <3> HIDE DEF PP, CP, YS, OS
    <3> QED
      BY <1>2, <1>4, <2>2, <2>3, <2>4, <2>5, <2>6, <2>7, TreeAdopt
  <2> QED
    BY <1>3, <1>9, <2>8 DEF TreeInv
<1>15. NoneLeftStopped'
  <2> SUFFICES ASSUME NEW h \in guarded, IsOrphanedPgrp(task', h), HasStoppedJobs(task', h)
               PROVE  FALSE
    BY <1>1 DEF NoneLeftStopped
  <2>1. Grouped(task)
    BY <1>0 DEF Grouped, Numbers, Used
  <2>2. /\ Members(R, h) = Members(task, h)
        /\ HasStoppedJobs(R, h) <=> HasStoppedJobs(task, h)
        /\ IsOrphanedPgrp(R, h) /\ ~IsOrphanedPgrp(task, h) =>
             h = task[c].pgrp /\ h # task[p].pgrp /\ task[c].session = task[p].session
    BY <1>0, <1>4, <1>6, <2>1, AdoptedGroups
  <2>3. \A t \in Task : R[t] # NULL /\ R[t].p_pptr = NULL => R[t].pgrp = 0
    <3>1. InitTask # NULL
      BY TaskNames
    <3> QED
      BY <1>6, <2>1, <3>1 DEF Grouped, IsAdopted
  <2>4. /\ Members(task', h) = Members(R, h)
        /\ IsOrphanedPgrp(task', h) <=> IsOrphanedPgrp(R, h)
        /\ HasStoppedJobs(task', h) => HasStoppedJobs(R, h)
    BY <1>6, <1>7, <2>3, KinGroups, Zenon
  <2>5. ~IsOrphanedPgrp(task, h)
    BY <1>0, <1>1, <2>2, <2>4 DEF NoneLeftStopped
  <2>6. h = g /\ left
    BY <1>1, <2>2, <2>4, <2>5 DEF left
  <2> QED
    BY <1>7, <2>4, <2>6 DEF HasStoppedJobs
<1> QED
  BY <1>10, <1>11, <1>12, <1>13, <1>14, <1>15 DEF ProcInv

-----------------------------------------------------------------------------
(***************************************************************************)
(* waitpid releases a zombie.                                              *)
(***************************************************************************)
LEMMA ReapKeeps == ASSUME ProcInv, NEW p \in Task, NEW c \in Task, Reap(p, c) PROVE ProcInv'
<1>0. /\ TypeOK /\ Places /\ Numbers /\ InitLives /\ TreeInv /\ task \in Values
      /\ InitTask \in Task /\ NULL \notin Task
  BY TaskNames DEF ProcInv, TypeOK, Values
<1> DEFINE old == task[c].p_osptr
           young == task[c].p_ysptr
           R == Released(c)
<1>1. /\ pc[p] = "scan" /\ c = loc[p].p /\ c # NULL /\ task[c].state = "Z"
      /\ task' = R /\ R = Released(c) /\ cpu' = NULL
      /\ pc' = [pc EXCEPT ![p] = "user", ![c] = "user"] /\ loc' = [loc EXCEPT ![p] = NoLoc]
      /\ last_pid' = last_pid /\ guarded' = guarded /\ scene' = scene
      /\ old = task[c].p_osptr /\ young = task[c].p_ysptr
  BY DEF Reap, At
<1> HIDE DEF old, young, R
<1>2. cpu = p /\ c \in Linked /\ task[c].p_pptr = p /\ p \in Linked
  BY <1>0, <1>1, PlaceIs DEF Places
<1>3. /\ task[c] # NULL /\ c # p /\ c \notin {old, young} /\ c \in Used /\ c \notin Unborn
      /\ old \in Linked \cup {NULL} /\ young \in Linked \cup {NULL} /\ Linked \subseteq Task
  BY <1>1, <1>2, LinkedIs DEF Linked, Used
<1>4. /\ \A t \in Task \ {p} : pc[t] \notin {"scan", "adopt"}
      /\ pc[c] = "dead" /\ task[c].p_cptr = NULL /\ c # InitTask
      /\ loc[c].kid = NULL /\ loc[p].kid = NULL
  <2>1. \A t \in Task \ {p} : pc[t] \notin {"scan", "adopt"}
    BY <1>0, <1>2, Alone
  <2>2. pc[c] = "dead"
    BY <1>0, <1>1, <1>3, <2>1 DEF Places
  <2> QED
    BY <1>0, <1>1, <2>1, <2>2 DEF Places, InitLives
<1>5. R \in Values /\ IsReleased(task, R, c, p, old, young)
  <2>1. /\ old \in Task \cup {NULL} /\ young \in Task \cup {NULL} /\ c \notin {p, old, young}
        /\ task[p] # NULL /\ (old # NULL => task[old] # NULL) /\ (young # NULL => task[young] # NULL)
    BY <1>2, <1>3 DEF Linked, Used
  <2> QED
    BY <1>0, <1>1, <1>2, <1>3, <2>1, ReleasedIs
<1>6. task' \in Values /\ IsReleased(task, task', c, p, old, young)
  BY <1>1, <1>5
<1>7. ASSUME NEW t \in Task \ {c}
      PROVE  /\ task'[t] = NULL <=> task[t] = NULL
             /\ task'[t].p_pptr = task[t].p_pptr
             /\ task'[t].p_cptr = IF young = NULL /\ t = p THEN old ELSE task[t].p_cptr
             /\ task'[t].p_ysptr = IF t = old THEN young ELSE task[t].p_ysptr
             /\ task'[t].p_osptr = IF t = young THEN old ELSE task[t].p_osptr
             /\ task'[t].state = task[t].state /\ task'[t].pid = task[t].pid
             /\ task'[t].pgrp = task[t].pgrp /\ task'[t].signal = task[t].signal
  BY <1>6 DEF IsReleased, Rest
<1>8. task'[c] = NULL
  BY <1>6 DEF IsReleased
<1>9. /\ pc' \in [Task -> {"user", "copy", "adopt", "dead", "scan", "wait"}]
      /\ pc'[p] = "user" /\ pc'[c] = "user" /\ \A t \in Task \ {p, c} : pc'[t] = pc[t]
  BY <1>0, <1>1 DEF TypeOK
<1>10. /\ loc' \in [Task -> Locals] /\ loc'[p].kid = NULL
       /\ \A t \in Task \ {p} : loc'[t] = loc[t]
  <2>1. NoLoc \in Locals /\ NoLoc.kid = NULL
    BY DEF NoLoc, Locals
  <2>2. loc \in [Task -> Locals]
    BY <1>0 DEF TypeOK
  <2> HIDE DEF NoLoc
  <2> QED
    BY <1>1, <2>1, <2>2
<1>11. TypeOK'
  BY <1>0, <1>1, <1>6, <1>9, <1>10, Zenon DEF TypeOK, Values
<1>12. Used' = Used \ {c}
  BY <1>7, <1>8 DEF Used
<1>13. Unborn' = Unborn
  <2>1. Unborn' = {loc'[q].kid : q \in Used'} \ {NULL}
    BY DEF Unborn
  <2>2. \A q \in Used : q \in Task /\ loc'[q].kid = loc[q].kid
    BY <1>4, <1>10 DEF Used
  <2>3. ASSUME NEW k \in Unborn' PROVE k \in Unborn
    BY <1>12, <2>1, <2>2 DEF Unborn
  <2>4. ASSUME NEW k \in Unborn PROVE k \in Unborn'
    BY <1>4, <1>12, <2>1, <2>2 DEF Unborn
  <2> QED
    BY <2>3, <2>4
<1>14. Linked' = Linked \ {c}
  BY <1>12, <1>13 DEF Linked
<1>15. Adopters = {} /\ Adopters' = {} /\ \A t \in Task : pc'[t] \notin {"scan", "adopt"}
  BY <1>1, <1>4, <1>9 DEF Adopters
<1>16. Places'
  <2> SUFFICES ASSUME NEW t \in Task
               PROVE  /\ task'[t] = NULL => pc'[t] = "user" /\ loc'[t].kid = NULL
                      /\ pc'[t] = "copy" <=> loc'[t].kid # NULL
                      /\ pc'[t] \in {"scan", "adopt"} => cpu' = t
                      /\ task'[t] # NULL => (task'[t].state = "Z" <=> pc'[t] \in {"adopt", "dead"})
                      /\ pc'[t] = "dead" => task'[t].p_cptr = NULL
                      /\ pc'[t] = "scan" /\ loc'[t].p # NULL =>
                             loc'[t].p \in Linked' /\ task'[loc'[t].p].p_pptr = t
                      /\ t \in Unborn' => /\ task'[t] # NULL /\ task'[t].state = "U"
                                          /\ pc'[t] = "user" /\ t # InitTask
                      /\ \A s \in Task : loc'[s].kid = loc'[t].kid /\ loc'[s].kid # NULL => s = t
    BY DEF Places
  <2>1. task'[t] = NULL => pc'[t] = "user" /\ loc'[t].kid = NULL
    BY <1>0, <1>3, <1>4, <1>7, <1>9, <1>10 DEF Places
  <2>2. pc'[t] = "copy" <=> loc'[t].kid # NULL
    BY <1>0, <1>3, <1>4, <1>9, <1>10 DEF Places
  <2>3. pc'[t] \notin {"scan", "adopt"}
    BY <1>15
  <2>4. task'[t] # NULL => (task'[t].state = "Z" <=> pc'[t] \in {"adopt", "dead"})
    <3> SUFFICES ASSUME task'[t] # NULL PROVE task'[t].state = "Z" <=> pc'[t] \in {"adopt", "dead"}
      OBVIOUS
    <3>1. t # c /\ task[t] # NULL /\ task'[t].state = task[t].state
      BY <1>7, <1>8
    <3> QED
      BY <1>0, <1>1, <1>9, <3>1 DEF Places
  <2>5. pc'[t] = "dead" => task'[t].p_cptr = NULL
    BY <1>0, <1>7, <1>9 DEF Places
  <2>6. t \in Unborn' => task'[t] # NULL /\ task'[t].state = "U" /\ pc'[t] = "user" /\ t # InitTask
    BY <1>0, <1>3, <1>7, <1>9, <1>13 DEF Places
  <2>7. \A s \in Task : loc'[s].kid = loc'[t].kid /\ loc'[s].kid # NULL => s = t
    BY <1>0, <1>4, <1>10 DEF Places
  <2> QED
    BY <2>1, <2>2, <2>3, <2>4, <2>5, <2>6, <2>7
<1>17. Numbers'
  <2>1. \A t \in Used' : /\ t \in Used /\ task'[t].pid = task[t].pid /\ task'[t].pgrp = task[t].pgrp
                         /\ task'[t].p_pptr = task[t].p_pptr
    BY <1>7, <1>12 DEF Used
  <2> QED
    BY <1>0, <1>1, <1>12, <2>1 DEF Numbers
<1>18. InitLives'
  <2>1. task'[InitTask].pgrp = task[InitTask].pgrp /\ task'[InitTask].signal = task[InitTask].signal
    BY <1>0, <1>4, <1>7
  <2>2. pc'[InitTask] \notin {"adopt", "dead"}
    BY <1>0, <1>4, <1>9 DEF InitLives
  <2> QED
    BY <1>0, <1>4, <1>14, <2>1, <2>2 DEF InitLives
<1>19. TreeInv'
  <2>1. \A t \in Linked : /\ PP[t] = task[t].p_pptr /\ CP[t] = task[t].p_cptr
                          /\ YS[t] = task[t].p_ysptr /\ OS[t] = task[t].p_osptr
                          /\ t \in Task
    BY DEF PP, CP, YS, OS, Linked, Used
  <2>2. CP[c] = NULL /\ PP[c] = p /\ YS[c] = young /\ OS[c] = old
    BY <1>1, <1>2, <1>4, <2>1
  <2>3. PP' = [t \in Linked \ {c} |-> PP[t]]
    BY <1>7, <1>14, <2>1 DEF PP
  <2>4. CP' = [t \in Linked \ {c} |-> IF YS[c] = NULL /\ t = PP[c] THEN OS[c] ELSE CP[t]]
    BY <1>7, <1>14, <2>1, <2>2 DEF CP
  <2>5. YS' = [t \in Linked \ {c} |-> IF t = OS[c] THEN YS[c] ELSE YS[t]]
    BY <1>7, <1>14, <2>1, <2>2 DEF YS
  <2>6. OS' = [t \in Linked \ {c} |-> IF t = YS[c] THEN OS[c] ELSE OS[t]]
    BY <1>7, <1>14, <2>1, <2>2 DEF OS
  <2>7. Tree(Linked, PP, CP, YS, OS, {})
    BY <1>0, <1>15 DEF TreeInv
  <2>8. Tree(Linked \ {c}, PP', CP', YS', OS', {})
    <3> HIDE DEF PP, CP, YS, OS
    <3>1. c \in Linked \ {InitTask}
      BY <1>2, <1>4
    <3> QED
      BY <2>2, <2>3, <2>4, <2>5, <2>6, <2>7, <3>1, TreeRelease
  <2> QED
    BY <1>14, <1>15, <2>8 DEF TreeInv
<1>20. NoneLeftStopped'
  BY <1>15 DEF NoneLeftStopped
<1> QED
  BY <1>11, <1>16, <1>17, <1>18, <1>19, <1>20 DEF ProcInv

-----------------------------------------------------------------------------
(***************************************************************************)
(* The invariant holds at the start.                                       *)
(***************************************************************************)
LEMMA InitInv == ASSUME Init PROVE ProcInv
<1>0. InitTask \in Task /\ NULL \notin Task /\ NULL \notin TaskStruct /\ MaxPid \in Nat
  BY TaskNames, NullTask, PidRoom
<1>1. scene \in Scenes /\ scene.firstPid \in 1..MaxPid /\ InitTask \in scene.slots
  BY SceneParams DEF Init
<1>2. TaskInit \in TaskStruct /\ TaskInit.pgrp = 0 /\ TaskInit.p_pptr = NULL /\ TaskInit.p_cptr = NULL
      /\ TaskInit.p_ysptr = NULL /\ TaskInit.p_osptr = NULL /\ TaskInit.signal = {} /\ TaskInit.state = "R"
  <2>1. 1 \in 1..MaxPid /\ 0 \in 0..MaxPid
    BY <1>0, <1>1
  <2> QED
    BY <2>1 DEF TaskInit, TaskStruct
<1>3. NoLoc \in Locals /\ NoLoc.kid = NULL
  BY DEF NoLoc, Locals
<1>4. /\ \A t \in Task : task[t] = IF t = InitTask THEN TaskInit ELSE NULL
      /\ \A t \in Task : pc[t] = "user" /\ loc[t] = NoLoc
  BY DEF Init
<1>5. TypeOK
  <2> HIDE DEF TaskInit, NoLoc
  <2>1. task \in [Task -> TaskStruct \cup {NULL}]
    BY <1>2 DEF Init
  <2>2. loc \in [Task -> Locals]
    BY <1>3 DEF Init
  <2>3. pc \in [Task -> {"user", "copy", "adopt", "dead", "scan", "wait"}]
    BY DEF Init
  <2>4. cpu \in Task \cup {NULL} /\ last_pid \in 1..MaxPid
    BY <1>1 DEF Init
  <2> QED
    BY <1>1, <2>1, <2>2, <2>3, <2>4 DEF TypeOK
<1>6. Used = {InitTask} /\ Unborn = {} /\ Linked = {InitTask} /\ Adopters = {}
  <2>1. TaskInit # NULL
    BY <1>0, <1>2
  <2> HIDE DEF TaskInit, NoLoc
  <2>2. Used = {InitTask}
    BY <1>0, <1>4, <2>1 DEF Used
  <2>3. Unborn = {}
    BY <1>0, <1>3, <1>4, <2>2 DEF Unborn
  <2> QED
    BY <1>4, <2>2, <2>3 DEF Linked, Adopters
<1> HIDE DEF TaskInit, NoLoc
<1>7. Places
  BY <1>2, <1>3, <1>4, <1>6 DEF Places
<1>8. Numbers
  BY <1>0, <1>1, <1>2, <1>4, <1>6 DEF Numbers
<1>9. InitLives
  BY <1>0, <1>2, <1>4, <1>6 DEF InitLives
<1>10. TreeInv
  <2>1. PP[InitTask] = NULL /\ CP[InitTask] = NULL /\ YS[InitTask] = NULL /\ OS[InitTask] = NULL
    BY <1>0, <1>2, <1>4, <1>6 DEF PP, CP, YS, OS
  <2>2. Links({InitTask}, PP, CP, YS, OS)
    <3>1. /\ PP = [t \in {InitTask} |-> NULL] /\ CP = [t \in {InitTask} |-> NULL]
          /\ YS = [t \in {InitTask} |-> NULL] /\ OS = [t \in {InitTask} |-> NULL]
      BY <1>0, <1>2, <1>4, <1>6 DEF PP, CP, YS, OS
    <3> HIDE DEF PP, CP, YS, OS
    <3> QED
      BY <1>0, <3>1 DEF Links
  <2> HIDE DEF PP, CP, YS, OS
  <2>3. Agree({InitTask}, PP, CP, YS, OS, {})
    BY <2>1 DEF Agree
  <2>4. InList({InitTask}, PP, CP, YS, InitTask)
    BY <1>0, <2>1 DEF InList
  <2>5. Rooted({InitTask}, PP)
    BY DEF Rooted
  <2> QED
    BY <1>6, <2>2, <2>3, <2>4, <2>5 DEF TreeInv, Tree
<1>11. NoneLeftStopped
  BY <1>4 DEF NoneLeftStopped
<1> QED
  BY <1>5, <1>7, <1>8, <1>9, <1>10, <1>11 DEF ProcInv

(***************************************************************************)
(* Every step keeps the invariant.                                         *)
(***************************************************************************)
LEMMA NextKeeps == ASSUME ProcInv, [Next]_vars PROVE ProcInv'
<1>1. ASSUME NEW p \in Task, Step(p) PROVE ProcInv'
  <2>1. ASSUME NEW c \in Task, WaitStopped(p, c) \/ Reap(p, c) \/ WaitNext(p, c) PROVE ProcInv'
    BY <2>1, WaitStoppedKeeps, ReapKeeps, WaitNextKeeps
  <2> QED
    BY <1>1, <2>1, ForkDoneKeeps, AdoptKeeps, ExitDoneKeeps, WaitEndKeeps, WaitWakeKeeps DEF Step
<1>2. ASSUME NEW p \in Task,
             ForkCopy(p) \/ ForkNoSlot(p) \/ ForkFail(p) \/ Exit(p) \/ Setsid(p)
      PROVE  ProcInv'
  BY <1>2, ForkCopyKeeps, ForkNoSlotKeeps, ForkFailKeeps, ExitKeeps, SetsidKeeps
<1>3. ASSUME NEW p \in Task, NEW w \in -MaxPid..MaxPid, NEW o \in scene.options, Waitpid(p, w, o)
      PROVE  ProcInv'
  BY <1>3, WaitpidKeeps
<1>4. ASSUME NEW p \in Task, NEW S \in SUBSET Task, NEW sig \in scene.sigs, Kill(p, S, sig)
      PROVE  ProcInv'
  BY <1>4, KillKeeps
<1>5. ASSUME NEW p \in Task, NEW t \in Task, NEW g \in 1..MaxPid, Setpgid(p, t, g)
      PROVE  ProcInv'
  BY <1>5, SetpgidKeeps
<1>6. ASSUME NEW p \in Task, NEW caught \in BOOLEAN, Deliver(p, caught) PROVE ProcInv'
  BY <1>6, DeliverKeeps
<1>7. CASE Next
  BY <1>1, <1>2, <1>3, <1>4, <1>5, <1>6, <1>7 DEF Next
<1>8. CASE UNCHANGED vars
  BY <1>8 DEF vars, ProcInv, TypeOK, Places, Numbers, InitLives, TreeInv, NoneLeftStopped,
              Used, Unborn, Linked, Adopters, PP, CP, YS, OS, IsOrphanedPgrp, HasStoppedJobs, Members
<1> QED
  BY <1>7, <1>8

(***************************************************************************)
(* Types, the place of every task in the kernel, unique numbers, one tree  *)
(* of tasks with links that agree, and no group left stopped: this holds   *)
(* in every state of fork, exit, waitpid, kill, setpgid and setsid, with   *)
(* copy_mem sleeping between the copy of a structure and its links.        *)
(***************************************************************************)
THEOREM FamilyInvariant == Spec => []ProcInv
<1>1. Init => ProcInv
  BY InitInv
<1>2. ProcInv /\ [Next]_vars => ProcInv'
  BY NextKeeps
<1> QED
  BY <1>1, <1>2, PTL DEF Spec

(***************************************************************************)
(* Whenever no task runs in the kernel, audit_ptree (kernel/exit.c) would  *)
(* have nothing to say of the linked tasks, every child is in the list of  *)
(* its parent, everybody descends from init through living tasks, and at   *)
(* any time find_empty_process has given every task a pid of its own.      *)
(***************************************************************************)
THEOREM TreeIsSound == Spec => []TreeSound
<1>1. ProcInv => TreeSound
  <2> SUFFICES ASSUME ProcInv PROVE TreeSound
    OBVIOUS
  <2>0. TypeOK /\ Places /\ Numbers /\ InitLives /\ TreeInv
    BY DEF ProcInv
  <2>1. \A s, t \in Used : s # t => task[s].pid # task[t].pid
    BY <2>0 DEF Numbers
  <2> SUFFICES ASSUME cpu = NULL
               PROVE  /\ Audit(Linked)
                      /\ \A p \in Linked : Listed(p)
                      /\ \A t \in Linked \ {InitTask} :
                             task[t].p_pptr \in Linked /\ task[task[t].p_pptr].state # "Z"
                      /\ \A S \in SUBSET (Linked \ {InitTask}) :
                             S # {} => \E t \in S : task[t].p_pptr \notin S
    BY <2>1 DEF TreeSound
  <2>2. \A t \in Task : pc[t] # "adopt"
    BY <2>0, TaskNames DEF Places
  <2>3. Tree(Linked, PP, CP, YS, OS, {})
    BY <2>0, <2>2 DEF TreeInv, Adopters
  <2>4. \A t \in Linked : /\ PP[t] = task[t].p_pptr /\ CP[t] = task[t].p_cptr
                          /\ YS[t] = task[t].p_ysptr /\ OS[t] = task[t].p_osptr
                          /\ t \in Used /\ t \in Task
    BY DEF PP, CP, YS, OS, Linked, Used
  <2> HIDE DEF PP, CP, YS, OS
  <2>5. Audit(Linked)
    <3> SUFFICES ASSUME NEW t \in Linked
                 PROVE  /\ task[t].p_pptr = NULL \/ task[t].p_pptr \in Used
                        /\ task[t].p_cptr = NULL \/ task[t].p_cptr \in Used
                        /\ task[t].p_ysptr = NULL \/ task[t].p_ysptr \in Used
                        /\ task[t].p_osptr = NULL \/ task[t].p_osptr \in Used
                        /\ t \notin {task[t].p_pptr, task[t].p_cptr, task[t].p_ysptr, task[t].p_osptr}
                        /\ task[t].p_osptr # NULL =>
                             /\ task[task[t].p_osptr].p_pptr = task[t].p_pptr
                             /\ task[task[t].p_osptr].p_ysptr = t
                        /\ task[t].p_ysptr # NULL =>
                             /\ task[task[t].p_ysptr].p_pptr = task[t].p_pptr
                             /\ task[task[t].p_ysptr].p_osptr = t
                        /\ task[t].p_cptr # NULL =>
                             /\ task[task[t].p_cptr].p_pptr = t
                             /\ task[task[t].p_cptr].p_ysptr = NULL
      BY DEF Audit
    <3>1. /\ PP[t] \in Linked \cup {NULL} /\ CP[t] \in Linked \cup {NULL}
          /\ YS[t] \in Linked \cup {NULL} /\ OS[t] \in Linked \cup {NULL}
      BY <2>3 DEF Tree, Links
    <3>2. /\ OS[t] # NULL => PP[OS[t]] = PP[t] /\ YS[OS[t]] = t
          /\ YS[t] # NULL => PP[YS[t]] = PP[t] /\ OS[YS[t]] = t
          /\ CP[t] # NULL => PP[CP[t]] = t /\ YS[CP[t]] = NULL
      BY <2>3 DEF Tree, Agree
    <3>3. t \notin {PP[t], CP[t], YS[t], OS[t]}
      BY <2>3, NoLoops
    <3> QED
      BY <2>4, <3>1, <3>2, <3>3
  <2>6. ASSUME NEW p \in Linked PROVE Listed(p)
    <3> SUFFICES ASSUME NEW S \in SUBSET (Children(p) \cap Linked), S # {}
                 PROVE  \E c \in S : IF task[c].p_ysptr = NULL THEN task[p].p_cptr = c
                                                               ELSE task[c].p_ysptr \notin S
      BY DEF Listed
    <3>1. S \in SUBSET {t \in Linked : PP[t] = p}
      BY <2>4 DEF Children
    <3>2. PICK c \in S : IF YS[c] = NULL THEN CP[p] = c ELSE YS[c] \notin S
      BY <2>3, <3>1 DEF Tree, InList
    <3>3. YS[c] = task[c].p_ysptr /\ CP[p] = task[p].p_cptr
      BY <2>4
    <3> QED
      BY <3>2, <3>3
  <2>7. ASSUME NEW t \in Linked \ {InitTask}
        PROVE  task[t].p_pptr \in Linked /\ task[task[t].p_pptr].state # "Z"
    <3> DEFINE q == task[t].p_pptr
    <3>1. q \in Linked /\ PP[t] = q
      BY <2>4, LinkedIs
    <3>2. q \in Task /\ task[q] # NULL
      BY <3>1 DEF Linked, Used
    <3> HIDE DEF q
    <3>3. CP[q] # NULL
      BY <2>3, <3>1, Childless
    <3>4. task[q].p_cptr # NULL
      BY <2>4, <3>1, <3>3
    <3>5. task[q].state # "Z"
      BY <2>0, <2>2, <3>2, <3>4 DEF Places
    <3> QED
      BY <3>1, <3>5 DEF q
  <2>8. ASSUME NEW S \in SUBSET (Linked \ {InitTask}), S # {}
        PROVE  \E t \in S : task[t].p_pptr \notin S
    <3>1. PICK t \in S : PP[t] \notin S
      BY <2>3, <2>8 DEF Tree, Rooted
    <3> QED
      BY <2>4, <3>1
  <2> QED
    BY <2>5, <2>6, <2>7, <2>8
<1> QED
  BY <1>1, FamilyInvariant, PTL

(***************************************************************************)
(* When do_exit gives a child to init it reads the youngest child of init  *)
(* without a test (kernel/exit.c): there is one.                           *)
(***************************************************************************)
THEOREM AdopterNeverAlone == Spec => []AdopterHasChild
<1>1. ProcInv => AdopterHasChild
  <2> SUFFICES ASSUME ProcInv, NEW p \in Task, pc[p] = "adopt" PROVE task[InitTask].p_cptr # NULL
    BY DEF AdopterHasChild
  <2>1. p \in Linked
    BY PlaceIs
  <2>2. InitTask \in Linked /\ p # InitTask
    BY DEF ProcInv, InitLives
  <2>3. Tree(Linked, PP, CP, YS, OS, Adopters)
    BY DEF ProcInv, TreeInv
  <2>4. CP[InitTask] # NULL
    BY <2>1, <2>2, <2>3, InitHasChild
  <2> QED
    BY <2>2, <2>4 DEF CP
<1> QED
  BY <1>1, FamilyInvariant, PTL

(***************************************************************************)
(* When do_exit has given all the children away, no group that had a       *)
(* guardian before and has none now is left with a stopped member: it was  *)
(* hung up and continued (kernel/exit.c).                                  *)
(***************************************************************************)
THEOREM OrphansAreContinued == Spec => []OrphansContinued
<1>1. ProcInv => OrphansContinued
  BY DEF ProcInv, NoneLeftStopped, OrphansContinued
<1> QED
  BY <1>1, FamilyInvariant, PTL

=============================================================================
