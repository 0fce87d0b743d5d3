------------------------------ MODULE MCPaging ------------------------------
(* Small instances of Paging. *)
EXTENDS Paging, Sequences, SequencesExt

(* Which of the frames a page is in makes no difference.  A state is told  *)
(* by who refers to the same frame, by the count and contents of the       *)
(* frames referred to and by the number of free ones; what is left in a    *)
(* free page of the swap device makes no difference either.                *)
TaskSeq == SetToSeq(Task)
Holders ==
    FlattenSeq([k \in 1..Len(TaskSeq) |->
        LET t == TaskSeq[k]  in(e) == IF e.in = "mem" THEN e.f ELSE 0 IN
        <<dir[t][1], dir[t][2], in(pte[t][1]), in(pte[t][2]), in(loc[t].old),
          loc[t].page, loc[t].victim, loc[t].arg>>]) \o <<bitmap.at>>
View ==
    LET H == Holders
        first(f) == Min({k \in 1..Len(H) : H[k] = f}) IN
    <<cpu, pc, halted, expect, bitmap.free,
      [k \in 1..Len(H) |-> IF H[k] = 0 THEN <<>> ELSE <<first(H[k]), mem_map[H[k]], data[H[k]]>>],
      [t \in Task |-> [v \in Page |-> IF pte[t][v].in = "mem" THEN <<pte[t][v].w, pte[t][v].d>>
                                                             ELSE pte[t][v]]],
      [t \in Task |-> <<loc[t].v, loc[t].acc, loc[t].why, loc[t].child, loc[t].copied,
                        loc[t].old.in = "mem" /\ loc[t].old = pte[t][loc[t].v]>>],
      [s \in Slot |-> IF s \in bitmap.free THEN <<>> ELSE sdata[s]],
      Cardinality(Free)>>

=============================================================================
