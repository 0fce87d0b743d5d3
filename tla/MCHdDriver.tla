----------------------------- MODULE MCHdDriver -----------------------------
(* Small instances of HdDriver. *)
EXTENDS HdDriver

CONSTANTS r1, r2, r3, bad, w1, w2, p1

SectorOf == [r \in Reqs |-> CASE r = r1 -> 1 [] r = r2 -> 3 [] r = r3 -> 5 [] r = bad -> 3
                              [] r = w1 -> 2 [] r = w2 -> 4 [] r = p1 -> 3]

(* A page read, a block write and a request outside the disk, on a bad disk. *)
BadDisk ==
    [reqs |-> {p1, w1, bad}, faults |-> {"error", "lost", "late", "stray", "drq", "hang"}]

(* The elevator: three reads and two writes. *)
Elevator == [reqs |-> {r1, r2, r3, w1, w2}, faults |-> {}]

MCLoads == {BadDisk, Elevator}
=============================================================================
