------------------------------ MODULE HdDriver ------------------------------
(***************************************************************************)
(* The hard disk driver (kernel/blk_drv/hd.c) with the request queue it    *)
(* serves (add_request of ll_rw_blk.c, the macros and end_request of       *)
(* blk.h) and hd_interrupt of kernel/sys_call.S.                           *)
(*                                                                         *)
(* The driver runs with interrupts off, from the call of do_hd_request by  *)
(* a task, from the controller's interrupt or from the timer.  cpu is the  *)
(* place in the driver the processor is at, "idle" outside; the controller *)
(* goes on meanwhile.  One interrupt can be latched: it is raised by the   *)
(* end of a command and may be lost, or come when nobody asked for it, or  *)
(* be still pending when the timer runs out and the driver starts again.   *)
(*                                                                         *)
(* A request is for Sectors consecutive sectors.  The controller is known  *)
(* by the command it executes, whether it is busy, how the last command    *)
(* ended, and the request and sector it is at.                             *)
(***************************************************************************)
EXTENDS Integers, Sequences, FiniteSets, SequencesExt

CONSTANTS Reqs,       \* the requests tasks may make
          Writes,     \* those that write
          Pages,      \* those of ll_rw_page and ll_rw_swap_file (no buffer head)
          NoReq,      \* not a request
          BadReqs,    \* those outside the disk
          Sector,     \* the first sector of each
          Sectors,    \* sectors of a request
          MaxErrors,  \* MAX_ERRORS
          Drives,     \* NR_HD
          Loads       \* what the driver meets; a behaviour has one of them

ASSUME ReqAssumption ==
    NoReq \notin Reqs /\ Writes \subseteq Reqs /\ Pages \subseteq Reqs /\ BadReqs \subseteq Reqs
ASSUME SectorAssumption == Sector \in [Reqs -> Nat] /\ Sectors \in Nat \ {0}
ASSUME DriveAssumption == MaxErrors \in Nat \ {0} /\ Drives \in Nat
(* A load: the requests that are made, again and again, and what can go wrong. *)
ASSUME LoadAssumption ==
    \A l \in Loads : l.reqs \subseteq Reqs
                    /\ l.faults \subseteq {"error", "lost", "late", "stray", "drq", "hang"}

Handlers == {"reset_hd", "recal_intr", "read_intr", "write_intr"}

VARIABLES load,         \* the load of this behaviour
          queue,        \* the requests of the device, CURRENT first
          errors, left, \* CURRENT->errors and nr_sectors of each
          result,       \* "free" before, then "queued", then "ok" or "failed"
          moved,        \* ghost: the sectors really transferred for a request
          do_hd, timer, reset, recalibrate, drive,
          cpu, cmd,     \* the place in the driver; the command hd_out sends
          ctl, irq      \* the controller and its latched interrupt

reqVars == <<queue, errors, left, result, moved>>
intrVars == <<do_hd, timer>>
vars == <<load, reqVars, intrVars, reset, recalibrate, drive, cpu, cmd, ctl, irq>>

Idle == [cmd |-> "none", busy |-> FALSE, ok |-> TRUE, data |-> FALSE, req |-> NoReq, sec |-> 0]

Init ==
    /\ load \in Loads
    /\ queue = <<>>
    /\ errors = [r \in Reqs |-> 0] /\ left = [r \in Reqs |-> 0]
    /\ result = [r \in Reqs |-> "free"] /\ moved = [r \in Reqs |-> {}]
    /\ do_hd = "none" /\ timer = FALSE
    /\ reset = FALSE /\ recalibrate = FALSE /\ drive = 0
    /\ cpu = "idle" /\ cmd = "none"
    /\ ctl = Idle /\ irq = FALSE

CURRENT == Head(queue)

-----------------------------------------------------------------------------
(* The request queue *)

(* IN_ORDER: reads before writes, then by sector *)
InOrder(r, s) ==
    \/ r \notin Writes /\ s \in Writes
    \/ (r \in Writes <=> s \in Writes) /\ Sector[r] < Sector[s]

(* The place for r is behind the first request tmp where this holds, at    *)
(* the latest behind the last; never before CURRENT.                       *)
GoesBetween(tmp, next, r) ==
    IF r \in Pages THEN next \notin Pages
    ELSE (InOrder(tmp, r) \/ ~InOrder(tmp, next)) /\ InOrder(r, next)

\* Mutant: the queue is only sorted, ahead of the request being served too.
InsertSorted(q, r) == 
    LET ahead == {k \in 1..Len(q) : ~InOrder(r, q[k])} IN
    InsertAt(q, Cardinality(ahead) + 1, r)

\* Mutant: an inversion of the queue is not taken as the start of the next sweep.
InsertOneSweep(q, r) ==
    LET stop == {k \in 1..Len(q) : k < Len(q) => InOrder(q[k], r) /\ InOrder(r, q[k + 1])} IN
    InsertAt(q, (CHOOSE k \in stop : \A j \in stop : k <= j) + 1, r)

Insert(q, r) ==
    LET stop == {k \in 1..Len(q) : k < Len(q) => GoesBetween(q[k], q[k + 1], r)} IN
    InsertAt(q, (CHOOSE k \in stop : \A j \in stop : k <= j) + 1, r)

(* add_request: the first request starts the driver. *)
Submit(r) ==
    /\ cpu = "idle" /\ result[r] # "queued"
    /\ errors' = [errors EXCEPT ![r] = 0]
    /\ left' = [left EXCEPT ![r] = Sectors]
    /\ result' = [result EXCEPT ![r] = "queued"]
    /\ moved' = [moved EXCEPT ![r] = {}]
    /\ IF queue = <<>> THEN queue' = <<r>> /\ cpu' = "request"
                       ELSE queue' = Insert(queue, r) /\ UNCHANGED cpu
    /\ UNCHANGED <<load, intrVars, reset, recalibrate, drive, cmd, ctl, irq>>

(* end_request: CURRENT ends, the next one takes its place. *)
EndRequest(res) ==
    /\ result' = [result EXCEPT ![CURRENT] = res]
    /\ queue' = Tail(queue)

-----------------------------------------------------------------------------
(* bad_rw_intr, up to a crash at an empty queue.  The count is read again  *)
(* after end_request: of the next request, of address 0 if there is none.  *)
Halt == cpu' = "halted" /\ UNCHANGED <<queue, errors, result, reset>>

BadRwIntr(next) ==
    IF queue = <<>> THEN Halt
    ELSE LET n == errors[CURRENT] + 1 IN
         /\ errors' = [errors EXCEPT ![CURRENT] = n]
         /\ IF n >= MaxErrors
            THEN /\ EndRequest("failed")
                 /\ IF queue' = <<>> THEN reset' \in {reset, TRUE}
                    ELSE reset' = (reset \/ errors'[Head(queue')] > MaxErrors \div 2)
            ELSE /\ reset' = (reset \/ n > MaxErrors \div 2)
                 /\ UNCHANGED <<queue, result>>
         /\ cpu' = next

(* SET_INTR and CLEAR_INTR *)
SetIntr(h) == do_hd' = h /\ timer' = TRUE
ClearIntr == do_hd' = "none" /\ timer' = FALSE

\* Mutant: the busy bit is not looked at.
WinResultIdle == ctl.ok

(* win_result: the command has ended without an error. *)
WinResult == ~ctl.busy /\ ctl.ok

-----------------------------------------------------------------------------
(* Entries *)

(* hd_interrupt: the handler is taken out of do_hd and called. *)
Interrupt ==
    /\ cpu = "idle" /\ irq
    /\ irq' = FALSE
    /\ do_hd' = "none"
    /\ cpu' = IF do_hd = "none" THEN "unexpected" ELSE do_hd
    /\ UNCHANGED <<load, reqVars, timer, reset, recalibrate, drive, cmd, ctl>>

\* Mutant: the time-out is not counted as an error.
HdTimesOutUncounted ==
    /\ cpu = "idle" /\ timer /\ "late" \in load.faults
    /\ ClearIntr
    /\ reset' = TRUE
    /\ cpu' = IF queue = <<>> THEN "idle" ELSE "request"
    /\ UNCHANGED <<load, reqVars, recalibrate, drive, cmd, ctl, irq>>

(* hd_times_out, called by do_timer, which has cleared the timer *)
HdTimesOut ==
    /\ cpu = "idle" /\ timer /\ "late" \in load.faults
    /\ ClearIntr
    /\ reset' = TRUE
    /\ IF queue = <<>> THEN UNCHANGED <<queue, errors, result, cpu>>
       ELSE /\ errors' = [errors EXCEPT ![CURRENT] = @ + 1]
            /\ IF errors[CURRENT] + 1 >= MaxErrors THEN EndRequest("failed")
                                                   ELSE UNCHANGED <<queue, result>>
            /\ cpu' = "request"
    /\ UNCHANGED <<load, left, moved, recalibrate, drive, cmd, ctl, irq>>

UnexpectedHdInterrupt ==
    /\ cpu = "unexpected"
    /\ reset' = TRUE
    /\ cpu' = "request"
    /\ UNCHANGED <<load, reqVars, intrVars, recalibrate, drive, cmd, ctl, irq>>

-----------------------------------------------------------------------------
(* Handlers *)

ReadErr ==
    /\ cpu = "read_intr" /\ ~WinResult
    /\ BadRwIntr("request")
    /\ UNCHANGED <<load, left, moved, intrVars, recalibrate, drive, cmd, ctl, irq>>

(* The copied sector is the one of the request only if the controller      *)
(* offers it; the controller goes on to its next sector.                   *)
ReadIntr ==
    LET at == Sectors - left[CURRENT]
        offered == ~ctl.busy /\ ctl.cmd = "read" /\ ctl.req = CURRENT /\ ctl.sec = at IN
    /\ cpu = "read_intr" /\ WinResult
    /\ moved' = IF offered THEN [moved EXCEPT ![CURRENT] = @ \cup {at}] ELSE moved
    /\ ctl' = IF offered /\ at + 1 < Sectors THEN [ctl EXCEPT !.sec = @ + 1, !.busy = TRUE] ELSE ctl
    /\ errors' = [errors EXCEPT ![CURRENT] = 0]
    /\ left' = [left EXCEPT ![CURRENT] = @ - 1]
    /\ IF left[CURRENT] > 1
       THEN SetIntr("read_intr") /\ cpu' = "idle" /\ UNCHANGED <<queue, result>>
       ELSE EndRequest("ok") /\ cpu' = "request" /\ UNCHANGED intrVars
    /\ UNCHANGED <<load, reset, recalibrate, drive, cmd, irq>>

WriteErr ==
    /\ cpu = "write_intr" /\ ~WinResult
    /\ BadRwIntr("request")
    /\ UNCHANGED <<load, left, moved, intrVars, recalibrate, drive, cmd, ctl, irq>>

\* Mutant: the handler is not set again for the next sector.
WriteIntrOnce ==
    /\ cpu = "write_intr" /\ WinResult
    /\ left' = [left EXCEPT ![CURRENT] = @ - 1]
    /\ IF left[CURRENT] > 1
       THEN /\ ctl' = [ctl EXCEPT !.sec = @ + 1, !.busy = TRUE, !.data = TRUE]
            /\ cpu' = "idle" /\ UNCHANGED <<queue, result>>
       ELSE EndRequest("ok") /\ cpu' = "request" /\ UNCHANGED ctl
    /\ UNCHANGED <<load, errors, moved, intrVars, reset, recalibrate, drive, cmd, irq>>

(* The data of the next sector is handed over. *)
WriteIntr ==
    /\ cpu = "write_intr" /\ WinResult
    /\ left' = [left EXCEPT ![CURRENT] = @ - 1]
    /\ IF left[CURRENT] > 1
       THEN /\ ctl' = [ctl EXCEPT !.sec = @ + 1, !.busy = TRUE, !.data = TRUE]
            /\ SetIntr("write_intr")
            /\ cpu' = "idle" /\ UNCHANGED <<queue, result>>
       ELSE EndRequest("ok") /\ cpu' = "request" /\ UNCHANGED <<ctl, intrVars>>
    /\ UNCHANGED <<load, errors, moved, reset, recalibrate, drive, cmd, irq>>

RecalIntr ==
    /\ cpu = "recal_intr"
    /\ IF WinResult THEN cpu' = "request" /\ UNCHANGED <<queue, errors, result, reset>>
                    ELSE BadRwIntr("request")
    /\ UNCHANGED <<load, left, moved, intrVars, recalibrate, drive, cmd, ctl, irq>>

(* reset_hd: begin with a reset of the controller, or go on after the      *)
(* interrupt of a drive; an error may make it begin again.                 *)
ResetHd ==
    /\ cpu = "reset_hd"
    /\ \/ /\ reset
          /\ reset' = FALSE /\ drive' = -1
          /\ ctl' = Idle
          /\ cpu' = "next_drive"
          /\ UNCHANGED <<queue, errors, result>>
       \/ /\ ~reset
          /\ \/ WinResult /\ cpu' = "next_drive" /\ UNCHANGED <<queue, errors, result, reset>>
             \/ ~WinResult /\ BadRwIntr("next_drive") /\ ~reset'
             \/ ~WinResult /\ BadRwIntr("reset_hd") /\ reset'
          /\ UNCHANGED <<drive, ctl>>
    /\ UNCHANGED <<load, left, moved, intrVars, recalibrate, cmd, irq>>

NextDrive ==
    /\ cpu = "next_drive"
    /\ drive' = drive + 1
    /\ IF drive + 1 < Drives THEN cmd' = "specify" /\ cpu' = "hd_out"
                             ELSE cpu' = "request" /\ UNCHANGED cmd
    /\ UNCHANGED <<load, reqVars, intrVars, reset, recalibrate, ctl, irq>>

-----------------------------------------------------------------------------
(* do_hd_request *)

RequestNone ==
    /\ cpu = "request" /\ queue = <<>>
    /\ ClearIntr
    /\ cpu' = "idle"
    /\ UNCHANGED <<load, reqVars, reset, recalibrate, drive, cmd, ctl, irq>>

RequestBad ==
    /\ cpu = "request" /\ queue # <<>>
    /\ CURRENT \in BadReqs
    /\ EndRequest("failed")
    /\ UNCHANGED <<load, errors, left, moved, intrVars, reset, recalibrate, drive, cpu, cmd, ctl, irq>>

RequestReset ==
    /\ cpu = "request" /\ queue # <<>>
    /\ CURRENT \notin BadReqs /\ reset
    /\ recalibrate' = TRUE
    /\ cpu' = "reset_hd"
    /\ UNCHANGED <<load, reqVars, intrVars, reset, drive, cmd, ctl, irq>>

RequestCmd ==
    /\ cpu = "request" /\ queue # <<>>
    /\ CURRENT \notin BadReqs /\ ~reset
    /\ cmd' = IF recalibrate THEN "restore" ELSE IF CURRENT \in Writes THEN "write" ELSE "read"
    /\ recalibrate' = FALSE
    /\ cpu' = "hd_out"
    /\ UNCHANGED <<load, reqVars, intrVars, reset, drive, ctl, irq>>

IntrOf(c) ==
    CASE c = "specify" -> "reset_hd" [] c = "restore" -> "recal_intr"
      [] c = "read" -> "read_intr" [] c = "write" -> "write_intr"

(* hd_out waits for the controller and panics if it stays busy.            *)
HdOut ==
    /\ cpu = "hd_out" /\ ~ctl.busy
    /\ SetIntr(IntrOf(cmd))
    /\ ctl' = [cmd |-> cmd, busy |-> TRUE, ok |-> TRUE, data |-> FALSE,
               req |-> IF cmd \in {"read", "write"} THEN CURRENT ELSE NoReq,
               sec |-> IF cmd \in {"read", "write"} THEN Sectors - left[CURRENT] ELSE 0]
    /\ cpu' = IF cmd = "write" THEN "drq" ELSE "idle"
    /\ UNCHANGED <<load, reqVars, reset, recalibrate, drive, cmd, irq>>

HdOutPanic ==
    /\ cpu = "hd_out" /\ ctl.busy /\ "hang" \in load.faults
    /\ cpu' = "halted"
    /\ UNCHANGED <<load, reqVars, intrVars, reset, recalibrate, drive, cmd, ctl, irq>>

(* The controller asks for the data of a write, or not: then try again.    *)
Drq ==
    /\ cpu = "drq" /\ ctl.busy
    /\ ctl' = [ctl EXCEPT !.data = TRUE]
    /\ cpu' = "idle"
    /\ UNCHANGED <<load, reqVars, intrVars, reset, recalibrate, drive, cmd, irq>>

NoDrq ==
    /\ cpu = "drq" /\ (~ctl.busy \/ "drq" \in load.faults)
    /\ BadRwIntr("request")
    /\ UNCHANGED <<load, left, moved, intrVars, recalibrate, drive, cmd, ctl, irq>>

-----------------------------------------------------------------------------
(* The controller *)

(* A command ends.  A sector is written when the write of it ends well.    *)
CtlEnds ==
    /\ ctl.busy /\ cpu # "halted"
    /\ \E ok \in BOOLEAN, raise \in BOOLEAN :
          /\ ok \/ "error" \in load.faults \/ (ctl.cmd = "write" /\ ~ctl.data)
          /\ ok => ctl.cmd # "write" \/ ctl.data
          /\ raise \/ "lost" \in load.faults
          /\ ctl' = [ctl EXCEPT !.busy = FALSE, !.ok = ok]
          /\ irq' = (irq \/ raise)
          /\ moved' = IF ok /\ ctl.cmd = "write"
                      THEN [moved EXCEPT ![ctl.req] = @ \cup {ctl.sec}] ELSE moved
    /\ cpu # "drq" \/ "drq" \in load.faults
    /\ UNCHANGED <<load, queue, errors, left, result, intrVars, reset, recalibrate, drive, cpu, cmd>>

StrayInterrupt ==
    /\ "stray" \in load.faults /\ ~irq /\ cpu # "halted"
    /\ irq' = TRUE
    /\ UNCHANGED <<load, reqVars, intrVars, reset, recalibrate, drive, cpu, cmd, ctl>>

-----------------------------------------------------------------------------
Driver ==
    \/ UnexpectedHdInterrupt \/ ReadErr \/ ReadIntr \/ WriteErr \/ WriteIntr \/ RecalIntr
    \/ ResetHd \/ NextDrive
    \/ RequestNone \/ RequestBad \/ RequestReset \/ RequestCmd
    \/ HdOut \/ HdOutPanic \/ Drq \/ NoDrq

Next ==
    \/ \E r \in load.reqs : Submit(r)
    \/ Interrupt \/ HdTimesOut
    \/ UnexpectedHdInterrupt \/ ReadErr \/ ReadIntr \/ WriteErr \/ WriteIntr \/ RecalIntr
    \/ ResetHd \/ NextDrive
    \/ RequestNone \/ RequestBad \/ RequestReset \/ RequestCmd
    \/ HdOut \/ HdOutPanic \/ Drq \/ NoDrq
    \/ CtlEnds \/ StrayInterrupt

Spec == Init /\ [][Next]_vars

(* The processor goes on, latched interrupts are taken and the timer runs  *)
(* out; the controller ends a command, or panic() ends the wait for it.    *)
FairSpec ==
    /\ Spec
    /\ WF_vars(Driver) /\ WF_vars(Interrupt) /\ WF_vars(HdTimesOut)
    /\ WF_vars(CtlEnds)

-----------------------------------------------------------------------------
(* Properties *)

(* Outside the driver, the handler of the next interrupt fits the request  *)
(* that is CURRENT: a transfer handler never finds an empty queue or a     *)
(* request of the other kind (hd.c:294-333 use CURRENT unchecked).         *)
HandlerFits ==
    cpu = "idle" =>
        /\ do_hd \in Handlers \ {"reset_hd"} => queue # <<>>
        /\ do_hd = "read_intr" => CURRENT \notin Writes
        /\ do_hd = "write_intr" => CURRENT \in Writes

(* Outside the driver, a request is being served and a time-out watches    *)
(* over it (blk.h:77-88): nothing that the controller does or does not do  *)
(* leaves the queue without anyone to go on with it.                       *)
Watched ==
    cpu = "idle" => /\ timer <=> do_hd # "none"
                    /\ queue # <<>> => timer

(* A request ends well only when all its sectors were transferred for it,  *)
(* whatever interrupts were late, lost or stray: win_result and the order  *)
(* of commands keep the driver and the controller together.                *)
OkMeansMoved == \A r \in Reqs : result[r] = "ok" => moved[r] = 0..(Sectors - 1)

(* The queue holds at most two sweeps over the disk: an ascending one that *)
(* CURRENT is part of, and the next one (add_request, without requests of  *)
(* ll_rw_page, which go first).                                            *)
TwoSweeps ==
    load.reqs \cap Pages = {} =>
        Cardinality({k \in 1..(Len(queue) - 1) : ~InOrder(queue[k], queue[k + 1])}) <= 1

(* Every request ends: retries are bounded and the sweeps of the elevator  *)
(* starve nobody, however often other requests are made.                   *)
Served == \A r \in Reqs : result[r] = "queued" ~> (result[r] # "queued" \/ cpu = "halted")

=============================================================================
