---------------------------- MODULE MCScheduler ----------------------------
(* Small instances of Scheduler. *)
EXTENDS Scheduler

(* One more, or as little as sys_nice allows *)
MCIncrements == {-1, 3}

=============================================================================
