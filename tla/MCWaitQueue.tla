---------------------------- MODULE MCWaitQueue ----------------------------
(***************************************************************************)
(* Small instances of WaitQueue: one queue that interrupt handlers wake    *)
(* and whose sleepers mask interrupts (b_wait), one that only tasks wake   *)
(* and that is slept on with interrupts enabled (buffer_wait, i_wait).     *)
(***************************************************************************)
EXTENDS WaitQueue

CONSTANTS bwait, iwait

MCQueue == {bwait, iwait}
MCIntrWake == {bwait}
MCUnmasked == {iwait}

=============================================================================
