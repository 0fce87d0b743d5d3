--------------------------- MODULE HdDriverProofs ---------------------------
(***************************************************************************)
(* Proofs about module HdDriver, for any requests, any size of a request   *)
(* and any faults of the disk: the handler that an interrupt will call     *)
(* fits the request at the head of the queue, a time-out watches over it,  *)
(* and a request that ends well has had all its sectors transferred.       *)
(***************************************************************************)
EXTENDS HdDriver, SequenceTheorems, FiniteSetTheorems, WellFoundedInduction, TLAPS

Cmds == {"none", "specify", "restore", "read", "write"}
Places == Handlers \cup {"idle", "request", "unexpected", "next_drive", "hd_out", "drq", "halted"}
Controllers == [cmd : Cmds, busy : BOOLEAN, ok : BOOLEAN, data : BOOLEAN,
                req : Reqs \cup {NoReq}, sec : 0..Sectors - 1]

(* The variables have their types: in particular nr_sectors stays within   *)
(* the request, and the controller within the disk area of the request.    *)
TypeOK ==
    /\ load \in Loads
    /\ queue \in Seq(Reqs)
    /\ errors \in [Reqs -> Nat] /\ left \in [Reqs -> 0..Sectors]
    /\ result \in [Reqs -> {"free", "queued", "ok", "failed"}]
    /\ moved \in [Reqs -> SUBSET (0..Sectors - 1)]
    /\ do_hd \in Handlers \cup {"none"}
    /\ timer \in BOOLEAN /\ reset \in BOOLEAN /\ recalibrate \in BOOLEAN
    /\ drive \in Int /\ cpu \in Places /\ cmd \in Cmds
    /\ ctl \in Controllers /\ irq \in BOOLEAN

(* The queue holds the requests that are queued, each once, and what is    *)
(* left of one is what has not been transferred.                           *)
QueueExact ==
    /\ \A i, j \in 1..Len(queue) : queue[i] = queue[j] => i = j
    /\ \A r \in Reqs : result[r] = "queued" <=> \E i \in 1..Len(queue) : queue[i] = r
    /\ \A r \in Reqs : result[r] = "queued" => left[r] > 0 /\ 0..(Sectors - left[r] - 1) \subseteq moved[r]

(* The controller transfers for a request. *)
CtlHasReq == ctl.cmd \in {"read", "write"} => ctl.req \in Reqs

(* Handler h runs, or the next interrupt calls it. *)
Active(h) ==
    cpu = h \/ (cpu = "idle" /\ do_hd = h) \/ (cpu = "drq" /\ h = "write_intr")

(* The controller is at the next sector of CURRENT. *)
AtCurrent(c) ==
    /\ queue # <<>>
    /\ ctl.cmd = c /\ ctl.req = CURRENT /\ ctl.sec = Sectors - left[CURRENT]

(* The transfer handlers meet CURRENT and the controller at its sector; a  *)
(* write that ended well is on the disk.                                   *)
Together ==
    /\ Active("recal_intr") => queue # <<>>
    /\ Active("read_intr") => AtCurrent("read") /\ CURRENT \notin Writes
    /\ Active("write_intr") =>
          /\ AtCurrent("write") /\ CURRENT \in Writes
          /\ ~ctl.busy /\ ctl.ok => ctl.sec \in moved[CURRENT]

(* The command that hd_out is about to send suits CURRENT, and a write     *)
(* that waits for DRQ has its handler set.                                 *)
Commanded ==
    /\ cpu = "hd_out" =>
          /\ cmd # "none" /\ (cmd # "specify" => queue # <<>>)
          /\ cmd = "read" => CURRENT \notin Writes
          /\ cmd = "write" => CURRENT \in Writes
    /\ cpu = "drq" => do_hd = "write_intr" /\ timer

DriverInv == TypeOK /\ QueueExact /\ CtlHasReq /\ Together /\ Commanded /\ Watched /\ OkMeansMoved

(* The queue holds requests of the load. *)
OfLoad == \A i \in 1..Len(queue) : queue[i] \in load.reqs

-----------------------------------------------------------------------------
(***************************************************************************)
(* The queue.                                                              *)
(***************************************************************************)

(* Every nonempty set of numbers has a least one. *)
LEMMA LeastNat ==
    ASSUME NEW T, T \subseteq Nat, T # {} PROVE \E x \in T : \A y \in T : x <= y
<1> DEFINE R == OpToRel(<, Nat)
<1>1. IsWellFoundedOn(R, Nat)
  BY NatLessThanWellFounded, Zenon
<1>2. PICK x \in T : \A y \in T : ~(<<y, x>> \in R)
  <2> HIDE DEF R
  <2> QED
    BY <1>1, WFMin
<1>3. \A y \in T : ~(y < x)
  BY <1>2 DEF OpToRel
<1> QED
  BY <1>3

(* The queue without CURRENT *)
LEMMA TailIs ==
    ASSUME NEW q \in Seq(Reqs), q # <<>>
    PROVE  /\ Tail(q) \in Seq(Reqs) /\ Len(q) > 0 /\ Len(Tail(q)) = Len(q) - 1
           /\ Head(q) = q[1] /\ Head(q) \in Reqs
           /\ \A i \in 1..Len(q) - 1 : Tail(q)[i] = q[i + 1]
  OBVIOUS

(* A request is put behind place k. *)
LEMMA InsertIs ==
    ASSUME NEW q \in Seq(Reqs), NEW k \in 1..Len(q), NEW r \in Reqs
    PROVE  LET s == InsertAt(q, k + 1, r) IN
           /\ s \in Seq(Reqs) /\ Len(s) = Len(q) + 1
           /\ \A i \in 1..k : s[i] = q[i]
           /\ s[k + 1] = r
           /\ \A i \in k + 2..Len(q) + 1 : s[i] = q[i - 1]
<1> DEFINE a == SubSeq(q, 1, k)
           b == SubSeq(q, k + 1, Len(q))
           c == a \o <<r>>
           s == c \o b
<1>1. Len(q) \in Nat /\ \A i \in 1..Len(q) : q[i] \in Reqs
  OBVIOUS
<1>2. a \in Seq(Reqs) /\ Len(a) = k /\ \A i \in 1..k : a[i] = q[i]
  BY <1>1
<1>3. b \in Seq(Reqs) /\ Len(b) = Len(q) - k /\ \A i \in 1..Len(q) - k : b[i] = q[k + i]
  BY <1>1
<1>4. InsertAt(q, k + 1, r) = s
  <2>1. (k + 1) - 1 = k
    OBVIOUS
  <2> QED
    BY <2>1, Zenon DEF InsertAt
<1>5. <<r>> \in Seq(Reqs) /\ Len(<<r>>) = 1 /\ <<r>>[1] = r
  OBVIOUS
<1> HIDE DEF a, b
<1>6. /\ c \in Seq(Reqs) /\ Len(c) = k + 1
      /\ \A i \in 1..k + 1 : c[i] = IF i <= k THEN a[i] ELSE r
  BY <1>2, <1>5
<1> HIDE DEF c
<1>7. /\ s \in Seq(Reqs) /\ Len(s) = Len(q) + 1
      /\ \A i \in 1..Len(q) + 1 : s[i] = IF i <= k + 1 THEN c[i] ELSE b[i - (k + 1)]
  <2>1. Len(c) + Len(b) = Len(q) + 1
    BY <1>1, <1>3, <1>6
  <2>2. /\ s \in Seq(Reqs) /\ Len(s) = Len(c) + Len(b)
        /\ \A i \in 1..Len(c) + Len(b) : s[i] = IF i <= Len(c) THEN c[i] ELSE b[i - Len(c)]
    BY <1>3, <1>6, ConcatProperties, Zenon
  <2> QED
    BY <1>6, <2>1, <2>2, Zenon
<1> HIDE DEF s
<1>8. \A i \in 1..k : s[i] = q[i]
  BY <1>1, <1>2, <1>6, <1>7
<1>9. s[k + 1] = r
  BY <1>1, <1>6, <1>7
<1>10. \A i \in k + 2..Len(q) + 1 : s[i] = q[i - 1]
  <2> TAKE i \in k + 2..Len(q) + 1
  <2>1. i \in 1..Len(q) + 1 /\ ~(i <= k + 1) /\ i - (k + 1) \in 1..Len(q) - k /\ k + (i - (k + 1)) = i - 1
    BY <1>1
  <2>2. s[i] = b[i - (k + 1)]
    BY <1>7, <2>1
  <2>3. b[i - (k + 1)] = q[k + (i - (k + 1))]
    BY <1>3, <2>1
  <2> QED
    BY <2>1, <2>2, <2>3
<1> QED
  BY <1>4, <1>7, <1>8, <1>9, <1>10

(* add_request finds a place, behind CURRENT, and it is the first one where *)
(* the new request goes between, or the end.                                *)
LEMMA InsertPlace ==
    ASSUME NEW q \in Seq(Reqs), q # <<>>, NEW r \in Reqs
    PROVE  \E k \in 1..Len(q) :
              /\ k < Len(q) => GoesBetween(q[k], q[k + 1], r)
              /\ \A j \in 1..k - 1 : ~GoesBetween(q[j], q[j + 1], r)
              /\ Insert(q, r) = InsertAt(q, k + 1, r)
<1> DEFINE stop == {k \in 1..Len(q) : k < Len(q) => GoesBetween(q[k], q[k + 1], r)}
           k == CHOOSE k \in stop : \A j \in stop : k <= j
<1>1. Len(q) \in Nat /\ Len(q) > 0
  OBVIOUS
<1>2. Len(q) \in stop /\ stop \subseteq Nat
  BY <1>1
<1>3. \E x \in stop : \A y \in stop : x <= y
  <2> HIDE DEF stop
  <2> QED
    BY <1>2, LeastNat
<1>4. k \in stop /\ \A j \in stop : k <= j
  BY <1>3
<1>5. Insert(q, r) = InsertAt(q, k + 1, r)
  BY DEF Insert
<1> HIDE DEF k
<1>6. \A j \in 1..k - 1 : ~GoesBetween(q[j], q[j + 1], r)
  BY <1>1, <1>4
<1> QED
  BY <1>1, <1>4, <1>5, <1>6

-----------------------------------------------------------------------------
(***************************************************************************)
(* Facts shared by the steps.                                              *)
(***************************************************************************)

(* Inside the driver, off the transfer handlers, nothing is promised. *)
LEMMA OffService ==
    ASSUME cpu' \in {"request", "reset_hd", "next_drive", "unexpected", "halted"}
    PROVE  Together' /\ Commanded' /\ Watched'
  BY DEF Together, Active, Commanded, Watched

(* CURRENT is one of the queued requests. *)
LEMMA CurrentIs ==
    ASSUME DriverInv, queue # <<>>
    PROVE  /\ CURRENT \in Reqs /\ CURRENT = queue[1] /\ result[CURRENT] = "queued"
           /\ left[CURRENT] \in 1..Sectors /\ Len(queue) \in Nat /\ Len(queue) > 0
           /\ 0..(Sectors - left[CURRENT] - 1) \subseteq moved[CURRENT]
<1>1. queue \in Seq(Reqs) /\ left \in [Reqs -> 0..Sectors] /\ Sectors \in Nat
  BY SectorAssumption DEF DriverInv, TypeOK
<1>2. CURRENT \in Reqs /\ CURRENT = queue[1] /\ Len(queue) \in Nat /\ Len(queue) > 0
  BY <1>1, TailIs DEF CURRENT
<1>3. result[CURRENT] = "queued"
  BY <1>2 DEF DriverInv, QueueExact
<1> QED
  BY <1>1, <1>2, <1>3 DEF DriverInv, QueueExact

(* end_request takes CURRENT, and only it, off the queue. *)
LEMMA EndKeeps ==
    ASSUME DriverInv, queue # <<>>, NEW res \in {"ok", "failed"}, EndRequest(res),
           \A r \in Reqs \ {CURRENT} : left'[r] = left[r],
           \A r \in Reqs : moved[r] \subseteq moved'[r] /\ moved'[r] \subseteq 0..Sectors - 1,
           res = "ok" => moved'[CURRENT] = 0..Sectors - 1
    PROVE  /\ queue' \in Seq(Reqs)
           /\ result' \in [Reqs -> {"free", "queued", "ok", "failed"}]
           /\ QueueExact' /\ OkMeansMoved'
<1>1. /\ queue \in Seq(Reqs) /\ result \in [Reqs -> {"free", "queued", "ok", "failed"}]
      /\ CURRENT \in Reqs /\ CURRENT = queue[1] /\ Len(queue) \in Nat /\ Len(queue) > 0
  BY CurrentIs DEF DriverInv, TypeOK
<1>2. /\ queue' \in Seq(Reqs) /\ Len(queue') = Len(queue) - 1
      /\ \A i \in 1..Len(queue) - 1 : queue'[i] = queue[i + 1]
  BY <1>1, TailIs DEF EndRequest
<1>3. /\ result' \in [Reqs -> {"free", "queued", "ok", "failed"}]
      /\ result'[CURRENT] = res /\ \A r \in Reqs \ {CURRENT} : result'[r] = result[r]
  BY <1>1 DEF EndRequest
<1>4. \A i, j \in 1..Len(queue') : queue'[i] = queue'[j] => i = j
  BY <1>1, <1>2 DEF DriverInv, QueueExact
<1>5. ASSUME NEW r \in Reqs
      PROVE  result'[r] = "queued" <=> \E i \in 1..Len(queue') : queue'[i] = r
  <2>1. CASE r = CURRENT
    <3>1. \A i \in 1..Len(queue') : queue'[i] # queue[1]
      BY <1>1, <1>2 DEF DriverInv, QueueExact
    <3> QED
      BY <1>1, <1>3, <2>1, <3>1
  <2>2. CASE r # CURRENT
    <3>1. ASSUME NEW i \in 1..Len(queue), queue[i] = r PROVE i - 1 \in 1..Len(queue') /\ queue'[i - 1] = r
      BY <1>1, <1>2, <2>2, <3>1
    <3>2. ASSUME NEW i \in 1..Len(queue'), queue'[i] = r PROVE i + 1 \in 1..Len(queue) /\ queue[i + 1] = r
      BY <1>1, <1>2, <3>2
    <3> QED
      BY <1>3, <2>2, <3>1, <3>2 DEF DriverInv, QueueExact
  <2> QED
    BY <2>1, <2>2
<1>6. ASSUME NEW r \in Reqs, result'[r] = "queued"
      PROVE  left'[r] > 0 /\ 0..(Sectors - left'[r] - 1) \subseteq moved'[r]
  <2>1. r # CURRENT /\ result[r] = "queued" /\ left'[r] = left[r]
    BY <1>3, <1>6
  <2> QED
    BY <2>1 DEF DriverInv, QueueExact
<1>7. OkMeansMoved'
  BY <1>3 DEF DriverInv, OkMeansMoved
<1> QED
  BY <1>2, <1>3, <1>4, <1>5, <1>6, <1>7 DEF QueueExact

(* Steps that leave the queue alone and may transfer a sector *)
LEMMA SameQueue ==
    ASSUME DriverInv, UNCHANGED <<queue, left, result>>,
           \A r \in Reqs : moved[r] \subseteq moved'[r] /\ moved'[r] \subseteq 0..Sectors - 1
    PROVE  QueueExact' /\ OkMeansMoved'
  BY DEF DriverInv, QueueExact, OkMeansMoved

(* bad_rw_intr counts an error of CURRENT and may end it. *)
LEMMA BadKeeps ==
    ASSUME DriverInv, NEW next \in {"request", "next_drive", "reset_hd"}, BadRwIntr(next),
           UNCHANGED <<left, moved>>
    PROVE  /\ queue' \in Seq(Reqs) /\ errors' \in [Reqs -> Nat] /\ reset' \in BOOLEAN
           /\ result' \in [Reqs -> {"free", "queued", "ok", "failed"}]
           /\ QueueExact' /\ OkMeansMoved'
           /\ Together' /\ Commanded' /\ Watched' /\ cpu' \in Places
<1>0. /\ queue \in Seq(Reqs) /\ errors \in [Reqs -> Nat] /\ reset \in BOOLEAN
      /\ result \in [Reqs -> {"free", "queued", "ok", "failed"}] /\ moved \in [Reqs -> SUBSET (0..Sectors - 1)]
  BY DEF DriverInv, TypeOK
<1>1. \A r \in Reqs : moved[r] \subseteq moved'[r] /\ moved'[r] \subseteq 0..Sectors - 1
  BY <1>0
<1>2. cpu' \in {next, "halted"}
  BY DEF BadRwIntr, Halt
<1>3. Together' /\ Commanded' /\ Watched' /\ cpu' \in Places
  BY <1>2, OffService DEF Places, Handlers
<1>4. CASE queue = <<>>
  <2>1. UNCHANGED <<queue, errors, result, reset>>
    BY <1>4 DEF BadRwIntr, Halt
  <2> QED
    BY <1>0, <1>1, <1>3, <2>1, SameQueue
<1>5. CASE queue # <<>>
  <2> DEFINE n == errors[CURRENT] + 1
  <2>1. errors' = [errors EXCEPT ![CURRENT] = n] /\ CURRENT \in Reqs /\ n \in Nat
    <3>1. CURRENT \in Reqs
      BY <1>5, CurrentIs
    <3>2. errors' = [errors EXCEPT ![CURRENT] = n]
      BY <1>5, Zenon DEF BadRwIntr
    <3> QED
      BY <1>0, <3>1, <3>2
  <2>2. errors' \in [Reqs -> Nat]
    BY <1>0, <2>1
  <2>3. reset' \in BOOLEAN
    <3>1. \/ reset' \in {reset, TRUE}
          \/ reset' = (reset \/ errors'[Head(queue')] > MaxErrors \div 2)
          \/ reset' = (reset \/ n > MaxErrors \div 2)
      BY <1>5, Zenon DEF BadRwIntr
    <3> QED
      BY <1>0, <3>1, Zenon
  <2>4. CASE n >= MaxErrors
    <3>1. EndRequest("failed")
      BY <1>5, <2>4 DEF BadRwIntr
    <3> QED
      BY <1>1, <1>3, <1>5, <2>2, <2>3, <3>1, EndKeeps
  <2>5. CASE ~(n >= MaxErrors)
    <3>1. UNCHANGED <<queue, result>>
      BY <1>5, <2>5 DEF BadRwIntr
    <3> QED
      BY <1>0, <1>1, <1>3, <2>2, <2>3, <3>1, SameQueue
  <2> QED
    BY <2>4, <2>5
<1> QED
  BY <1>4, <1>5

-----------------------------------------------------------------------------
(***************************************************************************)
(* The steps.                                                              *)
(***************************************************************************)
LEMMA InitDriver == Init => DriverInv
<1> SUFFICES ASSUME Init PROVE DriverInv
  OBVIOUS
<1>1. TypeOK
  <2>1. /\ load \in Loads /\ queue \in Seq(Reqs) /\ errors \in [Reqs -> Nat] /\ left \in [Reqs -> 0..Sectors]
        /\ result \in [Reqs -> {"free", "queued", "ok", "failed"}]
        /\ moved \in [Reqs -> SUBSET (0..Sectors - 1)]
    BY SectorAssumption DEF Init
  <2>2. do_hd \in Handlers \cup {"none"} /\ drive \in Int /\ cpu \in Places /\ cmd \in Cmds
    BY DEF Init, Places, Cmds
  <2>3. 0 \in 0..Sectors - 1
    BY SectorAssumption
  <2>4. ctl \in Controllers
    BY <2>3 DEF Init, Idle, Controllers, Cmds
  <2> QED
    BY <2>1, <2>2, <2>4, Zenon DEF TypeOK, Init
<1>2. QueueExact /\ CtlHasReq /\ Together /\ Commanded /\ OkMeansMoved
  BY DEF Init, QueueExact, CtlHasReq, Idle, Together, Active, Commanded, OkMeansMoved
<1>3. Watched
  BY DEF Init, Watched
<1> QED
  BY <1>1, <1>2, <1>3 DEF DriverInv

(* A new request on an empty queue starts the driver; on another one it is *)
(* put behind CURRENT, whatever its sector.                                *)
LEMMA SubmitKeeps == ASSUME DriverInv, NEW r \in Reqs, Submit(r) PROVE DriverInv'
<1>1. /\ cpu = "idle" /\ result[r] # "queued"
      /\ errors' = [errors EXCEPT ![r] = 0] /\ left' = [left EXCEPT ![r] = Sectors]
      /\ result' = [result EXCEPT ![r] = "queued"] /\ moved' = [moved EXCEPT ![r] = {}]
      /\ UNCHANGED <<load, do_hd, timer, reset, recalibrate, drive, cmd, ctl, irq>>
  BY DEF Submit, intrVars
<1>2. /\ queue \in Seq(Reqs) /\ errors \in [Reqs -> Nat] /\ left \in [Reqs -> 0..Sectors]
      /\ result \in [Reqs -> {"free", "queued", "ok", "failed"}]
      /\ moved \in [Reqs -> SUBSET (0..Sectors - 1)] /\ Sectors \in Nat /\ Sectors > 0
  BY SectorAssumption DEF DriverInv, TypeOK
<1>3. /\ errors' \in [Reqs -> Nat] /\ left' \in [Reqs -> 0..Sectors]
      /\ result' \in [Reqs -> {"free", "queued", "ok", "failed"}]
      /\ moved' \in [Reqs -> SUBSET (0..Sectors - 1)]
      /\ left'[r] = Sectors /\ result'[r] = "queued" /\ moved'[r] = {}
      /\ \A s \in Reqs \ {r} : left'[s] = left[s] /\ result'[s] = result[s] /\ moved'[s] = moved[s]
  BY <1>1, <1>2
<1>4. /\ queue' \in Seq(Reqs) /\ cpu' \in {"request", "idle"}
      /\ cpu' = "idle" => queue # <<>> /\ queue' # <<>> /\ Head(queue') = Head(queue)
      /\ \E k \in 0..Len(queue) :
            /\ Len(queue') = Len(queue) + 1
            /\ \A i \in 1..k : queue'[i] = queue[i]
            /\ queue'[k + 1] = r
            /\ \A i \in k + 2..Len(queue) + 1 : queue'[i] = queue[i - 1]
  <2>1. CASE queue = <<>>
    <3>1. queue' = <<r>> /\ cpu' = "request" /\ Len(queue) = 0
      BY <2>1 DEF Submit
    <3>2. queue' \in Seq(Reqs) /\ Len(queue') = 1 /\ queue'[1] = r
      BY <3>1
    <3> QED
      BY <3>1, <3>2
  <2>2. CASE queue # <<>>
    <3>1. queue' = Insert(queue, r) /\ cpu' = "idle"
      BY <1>1, <2>2 DEF Submit
    <3>2. PICK k \in 1..Len(queue) : queue' = InsertAt(queue, k + 1, r)
      BY <1>2, <2>2, <3>1, InsertPlace
    <3>3. /\ queue' \in Seq(Reqs) /\ Len(queue') = Len(queue) + 1
          /\ \A i \in 1..k : queue'[i] = queue[i]
          /\ queue'[k + 1] = r
          /\ \A i \in k + 2..Len(queue) + 1 : queue'[i] = queue[i - 1]
      BY <1>2, <3>2, InsertIs, Zenon
    <3>4. Len(queue) \in Nat /\ 1 \in 1..k /\ k \in 0..Len(queue)
      BY <1>2
    <3>5. queue' # <<>> /\ Head(queue') = queue'[1] /\ Head(queue) = queue[1]
      BY <1>2, <3>3, <3>4, <2>2
    <3> QED
      BY <2>2, <3>1, <3>3, <3>4, <3>5
  <2> QED
    BY <2>1, <2>2
<1>5. Len(queue) \in Nat /\ \A i \in 1..Len(queue) : queue[i] # r
  BY <1>1, <1>2 DEF DriverInv, QueueExact
<1>6. PICK k \in 0..Len(queue) :
            /\ Len(queue') = Len(queue) + 1
            /\ \A i \in 1..k : queue'[i] = queue[i]
            /\ queue'[k + 1] = r
            /\ \A i \in k + 2..Len(queue) + 1 : queue'[i] = queue[i - 1]
  BY <1>4
<1>7. TypeOK'
  <2>1. cpu' \in Places
    BY <1>4 DEF Places
  <2> QED
    BY <1>1, <1>3, <1>4, <2>1, Zenon DEF DriverInv, TypeOK
<1>8. QueueExact'
  <2>1. \A i, j \in 1..Len(queue') : queue'[i] = queue'[j] => i = j
    <3> SUFFICES ASSUME NEW i \in 1..Len(queue'), NEW j \in 1..Len(queue'), queue'[i] = queue'[j]
                 PROVE  i = j
      OBVIOUS
    <3> DEFINE old(x) == IF x <= k THEN x ELSE x - 1
    <3>1. \A x \in 1..Len(queue') : x # k + 1 => old(x) \in 1..Len(queue) /\ queue'[x] = queue[old(x)]
      BY <1>5, <1>6
    <3>2. CASE i = k + 1 \/ j = k + 1
      BY <1>5, <1>6, <3>1, <3>2
    <3>3. CASE i # k + 1 /\ j # k + 1
      <4>1. old(i) = old(j)
        BY <3>1, <3>3 DEF DriverInv, QueueExact
      <4> QED
        BY <1>5, <1>6, <3>3, <4>1
    <3> QED
      BY <3>2, <3>3
  <2>2. ASSUME NEW s \in Reqs
        PROVE  result'[s] = "queued" <=> \E i \in 1..Len(queue') : queue'[i] = s
    <3>1. CASE s = r
      <4>1. k + 1 \in 1..Len(queue')
        BY <1>5, <1>6
      <4> QED
        BY <1>3, <1>6, <3>1, <4>1
    <3>2. CASE s # r
      <4>1. ASSUME NEW i \in 1..Len(queue), queue[i] = s PROVE \E j \in 1..Len(queue') : queue'[j] = s
        <5>1. CASE i <= k
          BY <1>5, <1>6, <4>1, <5>1
        <5>2. CASE i > k
          <6>1. i + 1 \in 1..Len(queue') /\ i + 1 \in k + 2..Len(queue) + 1 /\ (i + 1) - 1 = i
            BY <1>5, <1>6, <5>2
          <6> QED
            BY <1>6, <4>1, <6>1
        <5> QED
          BY <1>5, <5>1, <5>2
      <4>2. ASSUME NEW i \in 1..Len(queue'), queue'[i] = s PROVE \E j \in 1..Len(queue) : queue[j] = s
        <5>1. i # k + 1
          BY <1>6, <3>2, <4>2
        <5>2. CASE i <= k
          BY <1>5, <1>6, <4>2, <5>2
        <5>3. CASE i > k
          <6>1. i \in k + 2..Len(queue) + 1 /\ i - 1 \in 1..Len(queue)
            BY <1>5, <1>6, <5>1, <5>3
          <6> QED
            BY <1>6, <4>2, <6>1
        <5> QED
          BY <1>5, <5>2, <5>3
      <4> QED
        BY <1>3, <3>2, <4>1, <4>2 DEF DriverInv, QueueExact
    <3> QED
      BY <3>1, <3>2
  <2>3. ASSUME NEW s \in Reqs, result'[s] = "queued"
        PROVE  left'[s] > 0 /\ 0..(Sectors - left'[s] - 1) \subseteq moved'[s]
    <3>1. CASE s = r
      BY <1>2, <1>3, <3>1
    <3>2. CASE s # r
      BY <1>3, <2>3, <3>2 DEF DriverInv, QueueExact
    <3> QED
      BY <3>1, <3>2
  <2> QED
    BY <2>1, <2>2, <2>3 DEF QueueExact
<1>9. CtlHasReq' /\ OkMeansMoved'
  BY <1>1, <1>3 DEF DriverInv, CtlHasReq, OkMeansMoved
<1>10. Together' /\ Commanded' /\ Watched'
  <2>1. CASE cpu' = "request"
    BY <2>1, OffService
  <2>2. CASE cpu' = "idle"
    <3>1. /\ queue # <<>> /\ queue' # <<>> /\ CURRENT' = CURRENT
          /\ CURRENT \in Reqs /\ CURRENT # r
      BY <1>1, <1>4, <2>2, CurrentIs DEF CURRENT
    <3>2. left'[CURRENT] = left[CURRENT] /\ moved'[CURRENT] = moved[CURRENT]
      BY <1>3, <3>1
    <3> QED
      BY <1>1, <2>2, <3>1, <3>2 DEF DriverInv, Together, Active, AtCurrent, Commanded, Watched
  <2> QED
    BY <1>4, <2>1, <2>2
<1> QED
  BY <1>7, <1>8, <1>9, <1>10 DEF DriverInv

(* A step that only moves about inside the driver *)
LEMMA OffKeeps ==
    ASSUME DriverInv, cpu' \in {"request", "reset_hd", "next_drive", "unexpected", "halted"},
           UNCHANGED <<load, queue, errors, left, result, moved, ctl>>,
           do_hd' \in Handlers \cup {"none"}, timer' \in BOOLEAN, reset' \in BOOLEAN, recalibrate' \in BOOLEAN,
           drive' \in Int, cmd' \in Cmds, irq' \in BOOLEAN
    PROVE  DriverInv'
<1>1. Together' /\ Commanded' /\ Watched' /\ cpu' \in Places
  BY OffService DEF Places, Handlers
<1>2. TypeOK'
  BY <1>1, Zenon DEF DriverInv, TypeOK
<1>3. QueueExact' /\ OkMeansMoved'
  BY SameQueue DEF DriverInv, TypeOK
<1>4. CtlHasReq'
  BY DEF DriverInv, CtlHasReq
<1> QED
  BY <1>1, <1>2, <1>3, <1>4 DEF DriverInv

(* A handler that ends in bad_rw_intr *)
LEMMA BadStep ==
    ASSUME DriverInv, NEW next \in {"request", "next_drive", "reset_hd"}, BadRwIntr(next),
           UNCHANGED <<load, left, moved, do_hd, timer, recalibrate, drive, cmd, ctl, irq>>
    PROVE  DriverInv'
<1>1. /\ queue' \in Seq(Reqs) /\ errors' \in [Reqs -> Nat] /\ reset' \in BOOLEAN
      /\ result' \in [Reqs -> {"free", "queued", "ok", "failed"}]
      /\ QueueExact' /\ OkMeansMoved'
      /\ Together' /\ Commanded' /\ Watched' /\ cpu' \in Places
  BY BadKeeps
<1>2. TypeOK'
  BY <1>1, Zenon DEF DriverInv, TypeOK
<1>3. CtlHasReq'
  BY DEF DriverInv, CtlHasReq
<1> QED
  BY <1>1, <1>2, <1>3 DEF DriverInv

(* The interrupt calls the handler that Together speaks of. *)
LEMMA InterruptKeeps == ASSUME DriverInv, Interrupt PROVE DriverInv'
<1>1. /\ cpu = "idle" /\ do_hd' = "none" /\ irq' = FALSE
      /\ cpu' = (IF do_hd = "none" THEN "unexpected" ELSE do_hd)
      /\ UNCHANGED <<load, queue, errors, left, result, moved, timer, reset, recalibrate, drive, cmd, ctl>>
  BY DEF Interrupt, reqVars
<1>2. cpu' \in Handlers \cup {"unexpected"} /\ (cpu' \in Handlers => do_hd = cpu')
  BY <1>1 DEF DriverInv, TypeOK, Handlers
<1>3. TypeOK'
  <2>1. cpu' \in Places /\ do_hd' \in Handlers \cup {"none"}
    BY <1>1, <1>2 DEF Places
  <2> QED
    BY <1>1, <2>1, Zenon DEF DriverInv, TypeOK
<1>4. QueueExact' /\ OkMeansMoved'
  BY <1>1, SameQueue DEF DriverInv, TypeOK
<1>5. CtlHasReq' /\ Commanded' /\ Watched'
  BY <1>1, <1>2 DEF DriverInv, CtlHasReq, Commanded, Watched, Handlers
<1>6. Together'
  <2>1. CURRENT' = CURRENT
    BY <1>1 DEF CURRENT
  <2> QED
    BY <1>1, <1>2, <2>1 DEF DriverInv, Together, Active, AtCurrent, Handlers
<1> QED
  BY <1>3, <1>4, <1>5, <1>6 DEF DriverInv

(* hd_times_out with a request starts the driver again, without one it     *)
(* leaves neither handler nor timer.                                       *)
LEMMA TimeoutKeeps == ASSUME DriverInv, HdTimesOut PROVE DriverInv'
<1>1. /\ cpu = "idle" /\ do_hd' = "none" /\ timer' = FALSE /\ reset' = TRUE
      /\ UNCHANGED <<load, left, moved, recalibrate, drive, cmd, ctl, irq>>
  BY DEF HdTimesOut, ClearIntr
<1>2. /\ errors \in [Reqs -> Nat] /\ moved \in [Reqs -> SUBSET (0..Sectors - 1)] /\ queue \in Seq(Reqs)
      /\ result \in [Reqs -> {"free", "queued", "ok", "failed"}]
  BY DEF DriverInv, TypeOK
<1>3. /\ errors' \in [Reqs -> Nat] /\ queue' \in Seq(Reqs)
      /\ result' \in [Reqs -> {"free", "queued", "ok", "failed"}]
      /\ QueueExact' /\ OkMeansMoved'
      /\ (cpu' = "idle" /\ queue' = <<>>) \/ cpu' = "request"
  <2>1. CASE queue = <<>>
    <3>1. UNCHANGED <<queue, errors, result, cpu>>
      BY <2>1 DEF HdTimesOut
    <3> QED
      BY <1>1, <1>2, <2>1, <3>1, SameQueue
  <2>2. CASE queue # <<>>
    <3>1. errors' = [errors EXCEPT ![CURRENT] = @ + 1] /\ cpu' = "request" /\ CURRENT \in Reqs
      BY <2>2, CurrentIs DEF HdTimesOut
    <3>2. errors' \in [Reqs -> Nat]
      BY <1>2, <3>1
    <3>3. EndRequest("failed") \/ UNCHANGED <<queue, result>>
      BY <2>2 DEF HdTimesOut
    <3>4. CASE EndRequest("failed")
      BY <1>1, <1>2, <2>2, <3>1, <3>2, <3>4, EndKeeps
    <3>5. CASE UNCHANGED <<queue, result>>
      BY <1>1, <1>2, <3>1, <3>2, <3>5, SameQueue
    <3> QED
      BY <3>3, <3>4, <3>5
  <2> QED
    BY <2>1, <2>2
<1>4. TypeOK'
  <2>1. cpu' \in Places /\ do_hd' \in Handlers \cup {"none"}
    BY <1>1, <1>3 DEF Places
  <2> QED
    BY <1>1, <1>3, <2>1, Zenon DEF DriverInv, TypeOK
<1>5. CtlHasReq'
  BY <1>1 DEF DriverInv, CtlHasReq
<1>6. Together' /\ Commanded' /\ Watched'
  BY <1>1, <1>3, OffService DEF Together, Active, Commanded, Watched
<1> QED
  BY <1>3, <1>4, <1>5, <1>6 DEF DriverInv

(* A sector of CURRENT has been transferred and it is not the last. *)
LEMMA NextSector ==
    ASSUME DriverInv, queue # <<>>, left[CURRENT] > 1, UNCHANGED <<queue, result>>,
           left' = [left EXCEPT ![CURRENT] = @ - 1],
           \A r \in Reqs : moved[r] \subseteq moved'[r] /\ moved'[r] \subseteq 0..Sectors - 1,
           Sectors - left[CURRENT] \in moved'[CURRENT]
    PROVE  /\ QueueExact' /\ OkMeansMoved'
           /\ left' \in [Reqs -> 0..Sectors] /\ left'[CURRENT] = left[CURRENT] - 1
<1>1. /\ left \in [Reqs -> 0..Sectors] /\ Sectors \in Nat /\ CURRENT \in Reqs /\ left[CURRENT] \in 1..Sectors
      /\ 0..(Sectors - left[CURRENT] - 1) \subseteq moved[CURRENT]
  BY CurrentIs, SectorAssumption DEF DriverInv, TypeOK
<1>2. /\ left' \in [Reqs -> 0..Sectors] /\ left'[CURRENT] = left[CURRENT] - 1
      /\ \A r \in Reqs \ {CURRENT} : left'[r] = left[r]
  BY <1>1
<1>3. OkMeansMoved'
  BY DEF DriverInv, OkMeansMoved
<1>4. ASSUME NEW r \in Reqs, result'[r] = "queued"
      PROVE  left'[r] > 0 /\ 0..(Sectors - left'[r] - 1) \subseteq moved'[r]
  <2>1. CASE r = CURRENT
    <3>1. 0..(Sectors - left'[r] - 1) = 0..(Sectors - left[CURRENT] - 1) \cup {Sectors - left[CURRENT]}
      BY <1>1, <1>2, <2>1
    <3>2. left'[r] > 0
      BY <1>1, <1>2, <2>1
    <3> QED
      BY <1>1, <2>1, <3>1, <3>2
  <2>2. CASE r # CURRENT
    BY <1>2, <1>4, <2>2 DEF DriverInv, QueueExact
  <2> QED
    BY <2>1, <2>2
<1>5. QueueExact'
  BY <1>4 DEF DriverInv, QueueExact
<1> QED
  BY <1>2, <1>3, <1>5

(* read_intr copies the sector the controller offers, the next one of      *)
(* CURRENT; the last one ends the request.                                 *)
LEMMA ReadKeeps == ASSUME DriverInv, ReadIntr PROVE DriverInv'
<1> DEFINE at == Sectors - left[CURRENT]
<1>1. cpu = "read_intr" /\ ~ctl.busy /\ ctl.ok
  BY DEF ReadIntr, WinResult
<1>2. queue # <<>> /\ ctl.cmd = "read" /\ ctl.req = CURRENT /\ ctl.sec = at /\ CURRENT \notin Writes
  BY <1>1 DEF DriverInv, Together, Active, AtCurrent
<1>3. /\ CURRENT \in Reqs /\ left[CURRENT] \in 1..Sectors /\ 0..(at - 1) \subseteq moved[CURRENT]
      /\ Sectors \in Nat /\ left \in [Reqs -> 0..Sectors] /\ moved \in [Reqs -> SUBSET (0..Sectors - 1)]
      /\ errors \in [Reqs -> Nat] /\ queue \in Seq(Reqs)
      /\ result \in [Reqs -> {"free", "queued", "ok", "failed"}] /\ ctl \in Controllers
  BY <1>2, CurrentIs, SectorAssumption DEF DriverInv, TypeOK
<1>4. at \in 0..Sectors - 1 /\ (at + 1 < Sectors <=> left[CURRENT] > 1)
  BY <1>3
<1>5. /\ moved' = [moved EXCEPT ![CURRENT] = @ \cup {at}]
      /\ ctl' = IF at + 1 < Sectors THEN [ctl EXCEPT !.sec = @ + 1, !.busy = TRUE] ELSE ctl
      /\ errors' = [errors EXCEPT ![CURRENT] = 0]
      /\ left' = [left EXCEPT ![CURRENT] = @ - 1]
      /\ IF left[CURRENT] > 1
         THEN do_hd' = "read_intr" /\ timer' = TRUE /\ cpu' = "idle" /\ UNCHANGED <<queue, result>>
         ELSE EndRequest("ok") /\ cpu' = "request" /\ UNCHANGED <<do_hd, timer>>
      /\ UNCHANGED <<load, reset, recalibrate, drive, cmd, irq>>
  BY <1>1, <1>2 DEF ReadIntr, SetIntr, intrVars
<1>6. /\ moved' \in [Reqs -> SUBSET (0..Sectors - 1)] /\ errors' \in [Reqs -> Nat]
      /\ \A r \in Reqs : moved[r] \subseteq moved'[r] /\ moved'[r] \subseteq 0..Sectors - 1
      /\ moved'[CURRENT] = moved[CURRENT] \cup {at}
  <2> HIDE DEF at
  <2> QED
    BY <1>3, <1>4, <1>5
<1>7. left' \in [Reqs -> 0..Sectors] /\ \A r \in Reqs \ {CURRENT} : left'[r] = left[r]
  BY <1>3, <1>5
<1>8. CASE left[CURRENT] > 1
  <2>1. /\ ctl' = [ctl EXCEPT !.sec = @ + 1, !.busy = TRUE]
        /\ do_hd' = "read_intr" /\ timer' = TRUE /\ cpu' = "idle" /\ UNCHANGED <<queue, result>>
    BY <1>4, <1>5, <1>8
  <2>2. ctl' \in Controllers /\ ctl'.cmd = "read" /\ ctl'.req = CURRENT /\ ctl'.sec = at + 1
    <3>1. at + 1 \in 0..Sectors - 1
      BY <1>3, <1>8
    <3> QED
      BY <1>2, <1>3, <2>1, <3>1 DEF Controllers
  <2>3. QueueExact' /\ OkMeansMoved' /\ left'[CURRENT] = left[CURRENT] - 1
    BY <1>2, <1>5, <1>6, <1>8, <2>1, NextSector
  <2>4. CURRENT' = CURRENT /\ queue' # <<>>
    BY <1>2, <2>1 DEF CURRENT
  <2>5. at + 1 = Sectors - (left[CURRENT] - 1)
    BY <1>3
  <2>6. TypeOK'
    <3>1. do_hd' \in Handlers \cup {"none"} /\ cpu' \in Places
      BY <2>1 DEF Handlers, Places
    <3> QED
      BY <1>5, <1>6, <1>7, <2>1, <2>2, <3>1, Zenon DEF DriverInv, TypeOK
  <2>7. CtlHasReq'
    BY <1>3, <2>2 DEF CtlHasReq
  <2>8. Together' /\ Commanded'
    BY <1>2, <2>1, <2>2, <2>3, <2>4, <2>5 DEF Together, Active, AtCurrent, Commanded
  <2>9. Watched'
    BY <2>1, Zenon DEF Watched
  <2> QED
    BY <2>3, <2>6, <2>7, <2>8, <2>9 DEF DriverInv
<1>9. CASE ~(left[CURRENT] > 1)
  <2>1. ctl' = ctl /\ EndRequest("ok") /\ cpu' = "request" /\ UNCHANGED <<do_hd, timer>>
    BY <1>4, <1>5, <1>9
  <2>2. moved'[CURRENT] = 0..Sectors - 1
    <3>1. 0..Sectors - 1 = 0..(at - 1) \cup {at}
      BY <1>3, <1>9
    <3> QED
      BY <1>3, <1>6, <3>1
  <2>3. /\ queue' \in Seq(Reqs) /\ result' \in [Reqs -> {"free", "queued", "ok", "failed"}]
        /\ QueueExact' /\ OkMeansMoved'
    BY <1>2, <1>6, <1>7, <2>1, <2>2, EndKeeps
  <2>4. TypeOK'
    <3>1. cpu' \in Places
      BY <2>1 DEF Places
    <3> QED
      BY <1>5, <1>6, <1>7, <2>1, <2>3, <3>1, Zenon DEF DriverInv, TypeOK
  <2>5. CtlHasReq'
    BY <2>1 DEF DriverInv, CtlHasReq
  <2> QED
    BY <2>1, <2>3, <2>4, <2>5, OffService DEF DriverInv
<1> QED
  BY <1>8, <1>9

(* write_intr finds the sector on the disk and hands over the next one. *)
LEMMA WriteKeeps == ASSUME DriverInv, WriteIntr PROVE DriverInv'
<1> DEFINE at == Sectors - left[CURRENT]
<1>1. cpu = "write_intr" /\ ~ctl.busy /\ ctl.ok
  BY DEF WriteIntr, WinResult
<1>2. /\ queue # <<>> /\ ctl.cmd = "write" /\ ctl.req = CURRENT /\ ctl.sec = at /\ CURRENT \in Writes
      /\ at \in moved[CURRENT]
  BY <1>1 DEF DriverInv, Together, Active, AtCurrent
<1>3. /\ CURRENT \in Reqs /\ left[CURRENT] \in 1..Sectors /\ 0..(at - 1) \subseteq moved[CURRENT]
      /\ Sectors \in Nat /\ left \in [Reqs -> 0..Sectors] /\ moved \in [Reqs -> SUBSET (0..Sectors - 1)]
      /\ queue \in Seq(Reqs)
      /\ result \in [Reqs -> {"free", "queued", "ok", "failed"}] /\ ctl \in Controllers
  BY <1>2, CurrentIs, SectorAssumption DEF DriverInv, TypeOK
<1>4. /\ left' = [left EXCEPT ![CURRENT] = @ - 1]
      /\ IF left[CURRENT] > 1
         THEN /\ ctl' = [ctl EXCEPT !.sec = @ + 1, !.busy = TRUE, !.data = TRUE]
              /\ do_hd' = "write_intr" /\ timer' = TRUE /\ cpu' = "idle" /\ UNCHANGED <<queue, result>>
         ELSE EndRequest("ok") /\ cpu' = "request" /\ UNCHANGED <<ctl, do_hd, timer>>
      /\ UNCHANGED <<load, errors, moved, reset, recalibrate, drive, cmd, irq>>
  BY DEF WriteIntr, SetIntr, intrVars
<1>5. \A r \in Reqs : moved[r] \subseteq moved'[r] /\ moved'[r] \subseteq 0..Sectors - 1
  BY <1>3, <1>4
<1>6. left' \in [Reqs -> 0..Sectors] /\ \A r \in Reqs \ {CURRENT} : left'[r] = left[r]
  BY <1>3, <1>4
<1>7. CASE left[CURRENT] > 1
  <2>1. /\ ctl' = [ctl EXCEPT !.sec = @ + 1, !.busy = TRUE, !.data = TRUE]
        /\ do_hd' = "write_intr" /\ timer' = TRUE /\ cpu' = "idle" /\ UNCHANGED <<queue, result>>
    BY <1>4, <1>7
  <2>2. ctl' \in Controllers /\ ctl'.cmd = "write" /\ ctl'.req = CURRENT /\ ctl'.sec = at + 1 /\ ctl'.busy
    <3>1. at + 1 \in 0..Sectors - 1
      BY <1>3, <1>7
    <3> QED
      BY <1>2, <1>3, <2>1, <3>1 DEF Controllers
  <2>3. QueueExact' /\ OkMeansMoved' /\ left'[CURRENT] = left[CURRENT] - 1
    BY <1>2, <1>4, <1>5, <1>7, <2>1, NextSector
  <2>4. CURRENT' = CURRENT /\ queue' # <<>>
    BY <1>2, <2>1 DEF CURRENT
  <2>5. at + 1 = Sectors - (left[CURRENT] - 1)
    BY <1>3
  <2>6. TypeOK'
    <3>1. do_hd' \in Handlers \cup {"none"} /\ cpu' \in Places
      BY <2>1 DEF Handlers, Places
    <3> QED
      BY <1>4, <1>6, <2>1, <2>2, <3>1, Zenon DEF DriverInv, TypeOK
  <2>7. CtlHasReq'
    BY <1>3, <2>2 DEF CtlHasReq
  <2>8. Together' /\ Commanded'
    BY <1>2, <2>1, <2>2, <2>3, <2>4, <2>5 DEF Together, Active, AtCurrent, Commanded
  <2>9. Watched'
    BY <2>1, Zenon DEF Watched
  <2> QED
    BY <2>3, <2>6, <2>7, <2>8, <2>9 DEF DriverInv
<1>8. CASE ~(left[CURRENT] > 1)
  <2>1. EndRequest("ok") /\ cpu' = "request" /\ UNCHANGED <<ctl, do_hd, timer>>
    BY <1>4, <1>8
  <2>2. moved'[CURRENT] = 0..Sectors - 1
    <3>1. 0..Sectors - 1 = 0..(at - 1) \cup {at}
      BY <1>3, <1>8
    <3> QED
      BY <1>2, <1>3, <1>4, <3>1
  <2>3. /\ queue' \in Seq(Reqs) /\ result' \in [Reqs -> {"free", "queued", "ok", "failed"}]
        /\ QueueExact' /\ OkMeansMoved'
    BY <1>2, <1>5, <1>6, <2>1, <2>2, EndKeeps
  <2>4. TypeOK'
    <3>1. cpu' \in Places
      BY <2>1 DEF Places
    <3> QED
      BY <1>4, <1>6, <2>1, <2>3, <3>1, Zenon DEF DriverInv, TypeOK
  <2>5. CtlHasReq'
    BY <2>1 DEF DriverInv, CtlHasReq
  <2> QED
    BY <2>1, <2>3, <2>4, <2>5, OffService DEF DriverInv
<1> QED
  BY <1>7, <1>8

(* The handlers that only look at the result of their command *)
LEMMA PlainHandlerKeeps ==
    ASSUME DriverInv, UnexpectedHdInterrupt \/ ReadErr \/ WriteErr \/ RecalIntr \/ NoDrq
    PROVE  DriverInv'
<1>1. CASE UnexpectedHdInterrupt
  <2>1. /\ cpu' = "request" /\ reset' = TRUE
        /\ UNCHANGED <<load, queue, errors, left, result, moved, ctl, do_hd, timer, recalibrate, drive, cmd, irq>>
    BY <1>1 DEF UnexpectedHdInterrupt, reqVars, intrVars
  <2>2. /\ do_hd' \in Handlers \cup {"none"} /\ timer' \in BOOLEAN /\ reset' \in BOOLEAN /\ recalibrate' \in BOOLEAN
        /\ drive' \in Int /\ cmd' \in Cmds /\ irq' \in BOOLEAN
    BY <2>1, Zenon DEF DriverInv, TypeOK
  <2> QED
    BY <2>1, <2>2, OffKeeps
<1>2. CASE ReadErr \/ WriteErr \/ NoDrq
  <2>1. BadRwIntr("request") /\ UNCHANGED <<load, left, moved, do_hd, timer, recalibrate, drive, cmd, ctl, irq>>
    BY <1>2 DEF ReadErr, WriteErr, NoDrq, intrVars
  <2> QED
    BY <2>1, BadStep
<1>3. CASE RecalIntr
  <2>1. UNCHANGED <<load, left, moved, do_hd, timer, recalibrate, drive, cmd, ctl, irq>>
    BY <1>3 DEF RecalIntr, intrVars
  <2>2. CASE WinResult
    <3>1. cpu' = "request" /\ UNCHANGED <<queue, errors, result, reset>>
      BY <1>3, <2>2 DEF RecalIntr
    <3>2. /\ do_hd' \in Handlers \cup {"none"} /\ timer' \in BOOLEAN /\ reset' \in BOOLEAN /\ recalibrate' \in BOOLEAN
          /\ drive' \in Int /\ cmd' \in Cmds /\ irq' \in BOOLEAN
      BY <2>1, <3>1, Zenon DEF DriverInv, TypeOK
    <3> QED
      BY <2>1, <3>1, <3>2, OffKeeps
  <2>3. CASE ~WinResult
    BY <1>3, <2>1, <2>3, BadStep DEF RecalIntr
  <2> QED
    BY <2>2, <2>3
<1> QED
  BY <1>1, <1>2, <1>3

(* reset_hd resets the controller, or goes on with its result. *)
LEMMA ResetKeeps == ASSUME DriverInv, ResetHd PROVE DriverInv'
<1>1. UNCHANGED <<load, left, moved, do_hd, timer, recalibrate, cmd, irq>>
  BY DEF ResetHd, intrVars
<1>2. CASE /\ reset' = FALSE /\ drive' = -1 /\ ctl' = Idle /\ cpu' = "next_drive"
           /\ UNCHANGED <<queue, errors, result>>
  <2>1. Together' /\ Commanded' /\ Watched'
    BY <1>2, OffService
  <2>2. QueueExact' /\ OkMeansMoved'
    BY <1>1, <1>2, SameQueue DEF DriverInv, TypeOK
  <2>3. CtlHasReq'
    BY <1>2 DEF CtlHasReq, Idle
  <2>4. TypeOK'
    <3>1. 0 \in 0..Sectors - 1
      BY SectorAssumption
    <3>2. ctl' \in Controllers
      BY <1>2, <3>1 DEF Idle, Controllers, Cmds
    <3>3. cpu' \in Places /\ drive' \in Int
      BY <1>2 DEF Places
    <3> QED
      BY <1>1, <1>2, <3>2, <3>3, Zenon DEF DriverInv, TypeOK
  <2> QED
    BY <2>1, <2>2, <2>3, <2>4 DEF DriverInv
<1>3. CASE cpu' = "next_drive" /\ UNCHANGED <<queue, errors, result, reset, drive, ctl>>
  <2>1. /\ do_hd' \in Handlers \cup {"none"} /\ timer' \in BOOLEAN /\ reset' \in BOOLEAN /\ recalibrate' \in BOOLEAN
        /\ drive' \in Int /\ cmd' \in Cmds /\ irq' \in BOOLEAN
    BY <1>1, <1>3, Zenon DEF DriverInv, TypeOK
  <2> QED
    BY <1>1, <1>3, <2>1, OffKeeps
<1>4. CASE (BadRwIntr("next_drive") \/ BadRwIntr("reset_hd")) /\ UNCHANGED <<drive, ctl>>
  BY <1>1, <1>4, BadStep
<1> QED
  BY <1>2, <1>3, <1>4, Zenon DEF ResetHd

LEMMA NextDriveKeeps == ASSUME DriverInv, NextDrive PROVE DriverInv'
<1>1. /\ drive' = drive + 1 /\ cpu' \in {"hd_out", "request"}
      /\ cpu' = "hd_out" => cmd' = "specify"
      /\ cmd' \in {cmd, "specify"}
      /\ UNCHANGED <<load, queue, errors, left, result, moved, do_hd, timer, reset, recalibrate, ctl, irq>>
  BY DEF NextDrive, reqVars, intrVars
<1>2. TypeOK'
  <2>1. cpu' \in Places /\ cmd' \in Cmds /\ drive' \in Int
    BY <1>1 DEF DriverInv, TypeOK, Places, Cmds
  <2> QED
    BY <1>1, <2>1, Zenon DEF DriverInv, TypeOK
<1>3. QueueExact' /\ OkMeansMoved'
  BY <1>1, SameQueue DEF DriverInv, TypeOK
<1>4. CtlHasReq' /\ Together' /\ Commanded' /\ Watched'
  BY <1>1 DEF DriverInv, CtlHasReq, Together, Active, Commanded, Watched
<1> QED
  BY <1>2, <1>3, <1>4 DEF DriverInv

(* do_hd_request: with nothing to do there is no handler and no timer; a   *)
(* request outside the disk ends; a reset comes before a command.          *)
LEMMA RequestKeeps ==
    ASSUME DriverInv, RequestNone \/ RequestBad \/ RequestReset \/ RequestCmd
    PROVE  DriverInv'
<1>1. CASE RequestNone
  <2>1. /\ queue = <<>> /\ do_hd' = "none" /\ timer' = FALSE /\ cpu' = "idle"
        /\ UNCHANGED <<load, queue, errors, left, result, moved, reset, recalibrate, drive, cmd, ctl, irq>>
    BY <1>1 DEF RequestNone, ClearIntr, reqVars
  <2>2. TypeOK'
    <3>1. cpu' \in Places /\ do_hd' \in Handlers \cup {"none"}
      BY <2>1 DEF Places
    <3> QED
      BY <2>1, <3>1, Zenon DEF DriverInv, TypeOK
  <2>3. QueueExact' /\ OkMeansMoved'
    BY <2>1, SameQueue DEF DriverInv, TypeOK
  <2>4. CtlHasReq' /\ Together' /\ Commanded' /\ Watched'
    BY <2>1 DEF DriverInv, CtlHasReq, Together, Active, Commanded, Watched
  <2> QED
    BY <2>2, <2>3, <2>4 DEF DriverInv
<1>2. CASE RequestBad
  <2>1. /\ queue # <<>> /\ cpu' = "request" /\ EndRequest("failed")
        /\ UNCHANGED <<load, errors, left, moved, do_hd, timer, reset, recalibrate, drive, cmd, ctl, irq>>
    BY <1>2 DEF RequestBad, intrVars
  <2>2. /\ queue' \in Seq(Reqs) /\ result' \in [Reqs -> {"free", "queued", "ok", "failed"}]
        /\ QueueExact' /\ OkMeansMoved'
    BY <2>1, EndKeeps DEF DriverInv, TypeOK
  <2>3. TypeOK'
    <3>1. cpu' \in Places
      BY <2>1 DEF Places
    <3> QED
      BY <2>1, <2>2, <3>1, Zenon DEF DriverInv, TypeOK
  <2>4. CtlHasReq'
    BY <2>1 DEF DriverInv, CtlHasReq
  <2> QED
    BY <2>1, <2>2, <2>3, <2>4, OffService DEF DriverInv
<1>3. CASE RequestReset
  <2>1. /\ cpu' = "reset_hd" /\ recalibrate' = TRUE
        /\ UNCHANGED <<load, queue, errors, left, result, moved, do_hd, timer, reset, drive, cmd, ctl, irq>>
    BY <1>3 DEF RequestReset, reqVars, intrVars
  <2>2. /\ do_hd' \in Handlers \cup {"none"} /\ timer' \in BOOLEAN /\ reset' \in BOOLEAN /\ recalibrate' \in BOOLEAN
        /\ drive' \in Int /\ cmd' \in Cmds /\ irq' \in BOOLEAN
    BY <2>1, Zenon DEF DriverInv, TypeOK
  <2> QED
    BY <2>1, <2>2, OffKeeps
<1>4. CASE RequestCmd
  <2>1. /\ queue # <<>> /\ cpu' = "hd_out" /\ recalibrate' = FALSE
        /\ cmd' = (IF recalibrate THEN "restore" ELSE IF CURRENT \in Writes THEN "write" ELSE "read")
        /\ UNCHANGED <<load, queue, errors, left, result, moved, do_hd, timer, reset, drive, ctl, irq>>
    BY <1>4 DEF RequestCmd, reqVars, intrVars
  <2>2. TypeOK'
    <3>1. cpu' \in Places /\ cmd' \in Cmds
      BY <2>1 DEF Places, Cmds
    <3> QED
      BY <2>1, <3>1, Zenon DEF DriverInv, TypeOK
  <2>3. QueueExact' /\ OkMeansMoved'
    BY <2>1, SameQueue DEF DriverInv, TypeOK
  <2>4. CURRENT' = CURRENT
    BY <2>1 DEF CURRENT
  <2>5. CtlHasReq' /\ Together' /\ Commanded' /\ Watched'
    BY <2>1, <2>4 DEF DriverInv, CtlHasReq, Together, Active, Commanded, Watched
  <2> QED
    BY <2>2, <2>3, <2>5 DEF DriverInv
<1> QED
  BY <1>1, <1>2, <1>3, <1>4

(* hd_out sends the command with its handler and its timer. *)
LEMMA HdOutKeeps == ASSUME DriverInv, HdOut PROVE DriverInv'
<1> DEFINE rw == cmd \in {"read", "write"}
           at == IF rw THEN Sectors - left[CURRENT] ELSE 0
<1>1. /\ cpu = "hd_out" /\ do_hd' = IntrOf(cmd) /\ timer' = TRUE
      /\ ctl' = [cmd |-> cmd, busy |-> TRUE, ok |-> TRUE, data |-> FALSE,
                 req |-> IF rw THEN CURRENT ELSE NoReq, sec |-> at]
      /\ cpu' = (IF cmd = "write" THEN "drq" ELSE "idle")
      /\ UNCHANGED <<load, queue, errors, left, result, moved, reset, recalibrate, drive, cmd, irq>>
  BY DEF HdOut, SetIntr, reqVars
<1>2. /\ cmd \in Cmds /\ cmd # "none" /\ (cmd # "specify" => queue # <<>>)
      /\ cmd = "read" => CURRENT \notin Writes
      /\ cmd = "write" => CURRENT \in Writes
  BY <1>1 DEF DriverInv, TypeOK, Commanded
<1>3. rw => CURRENT \in Reqs /\ queue # <<>> /\ left[CURRENT] \in 1..Sectors
  BY <1>2, CurrentIs
<1>4. at \in 0..Sectors - 1
  BY <1>3, SectorAssumption
<1> HIDE DEF at
<1>5. ctl' \in Controllers
  BY <1>1, <1>2, <1>3, <1>4 DEF Controllers
<1>6. /\ do_hd' \in Handlers
      /\ do_hd' = "recal_intr" => cmd = "restore"
      /\ do_hd' = "read_intr" => cmd = "read"
      /\ do_hd' = "write_intr" <=> cmd = "write"
  BY <1>1, <1>2 DEF IntrOf, Cmds, Handlers
<1>7. cpu' \in {"idle", "drq"} /\ (cpu' = "drq" <=> cmd = "write")
  BY <1>1
<1>8. TypeOK'
  <2>1. cpu' \in Places /\ do_hd' \in Handlers \cup {"none"}
    BY <1>6, <1>7 DEF Places
  <2> QED
    BY <1>1, <1>5, <2>1, Zenon DEF DriverInv, TypeOK
<1>9. QueueExact' /\ OkMeansMoved'
  BY <1>1, SameQueue DEF DriverInv, TypeOK
<1>10. /\ ctl'.cmd = cmd /\ ctl'.busy /\ ctl'.sec = at
       /\ ctl'.req = IF rw THEN CURRENT ELSE NoReq
  BY <1>1
<1>11. CtlHasReq'
  BY <1>3, <1>10 DEF CtlHasReq
<1>12. CURRENT' = CURRENT
  BY <1>1 DEF CURRENT
<1>13. Together'
  BY <1>1, <1>2, <1>3, <1>6, <1>7, <1>10, <1>12 DEF Together, Active, AtCurrent, Handlers, at
<1>14. Commanded' /\ Watched'
  <2>1. do_hd' # "none"
    BY <1>6 DEF Handlers
  <2> QED
    BY <1>1, <1>6, <1>7, <2>1, Zenon DEF Commanded, Watched
<1> QED
  BY <1>8, <1>9, <1>11, <1>13, <1>14 DEF DriverInv

(* The controller takes the data of a write, or stays busy for ever. *)
LEMMA DrqKeeps == ASSUME DriverInv, Drq \/ HdOutPanic PROVE DriverInv'
<1>1. CASE Drq
  <2>1. /\ cpu = "drq" /\ ctl.busy /\ cpu' = "idle" /\ ctl' = [ctl EXCEPT !.data = TRUE]
        /\ UNCHANGED <<load, queue, errors, left, result, moved, do_hd, timer, reset, recalibrate, drive, cmd, irq>>
    BY <1>1 DEF Drq, reqVars, intrVars
  <2>2. /\ ctl' \in Controllers /\ ctl'.cmd = ctl.cmd /\ ctl'.req = ctl.req /\ ctl'.sec = ctl.sec
        /\ ctl'.busy = ctl.busy
    BY <2>1 DEF DriverInv, TypeOK, Controllers
  <2>3. TypeOK'
    <3>1. cpu' \in Places
      BY <2>1 DEF Places
    <3> QED
      BY <2>1, <2>2, <3>1, Zenon DEF DriverInv, TypeOK
  <2>4. QueueExact' /\ OkMeansMoved'
    BY <2>1, SameQueue DEF DriverInv, TypeOK
  <2>5. CURRENT' = CURRENT
    BY <2>1 DEF CURRENT
  <2>6. do_hd = "write_intr" /\ timer
    BY <2>1 DEF DriverInv, Commanded
  <2>7. Together'
    BY <2>1, <2>2, <2>5, <2>6 DEF DriverInv, Together, Active, AtCurrent
  <2>8. CtlHasReq' /\ Commanded'
    BY <2>1, <2>2 DEF DriverInv, CtlHasReq, Commanded
  <2>9. Watched'
    <3>1. do_hd' # "none" /\ timer'
      BY <2>1, <2>6
    <3> QED
      BY <3>1, Zenon DEF Watched
  <2> QED
    BY <2>3, <2>4, <2>7, <2>8, <2>9 DEF DriverInv
<1>2. CASE HdOutPanic
  <2>1. /\ cpu' = "halted"
        /\ UNCHANGED <<load, queue, errors, left, result, moved, ctl, do_hd, timer, reset, recalibrate, drive, cmd, irq>>
    BY <1>2 DEF HdOutPanic, reqVars, intrVars
  <2>2. /\ do_hd' \in Handlers \cup {"none"} /\ timer' \in BOOLEAN /\ reset' \in BOOLEAN /\ recalibrate' \in BOOLEAN
        /\ drive' \in Int /\ cmd' \in Cmds /\ irq' \in BOOLEAN
    BY <2>1, Zenon DEF DriverInv, TypeOK
  <2> QED
    BY <2>1, <2>2, OffKeeps
<1> QED
  BY <1>1, <1>2

(* The controller ends its command, at the sector of the request it has. *)
LEMMA CtlKeeps == ASSUME DriverInv, CtlEnds PROVE DriverInv'
<1>1. PICK ok \in BOOLEAN, raise \in BOOLEAN :
          /\ ctl' = [ctl EXCEPT !.busy = FALSE, !.ok = ok]
          /\ irq' = (irq \/ raise)
          /\ moved' = IF ok /\ ctl.cmd = "write"
                      THEN [moved EXCEPT ![ctl.req] = @ \cup {ctl.sec}] ELSE moved
  BY DEF CtlEnds
<1>2. UNCHANGED <<load, queue, errors, left, result, do_hd, timer, reset, recalibrate, drive, cpu, cmd>>
  BY DEF CtlEnds, intrVars
<1>3. /\ ctl \in Controllers /\ moved \in [Reqs -> SUBSET (0..Sectors - 1)] /\ ctl.sec \in 0..Sectors - 1
      /\ ctl.cmd = "write" => ctl.req \in Reqs
  BY DEF DriverInv, TypeOK, CtlHasReq, Controllers
<1>4. /\ ctl' \in Controllers /\ ctl'.cmd = ctl.cmd /\ ctl'.req = ctl.req /\ ctl'.sec = ctl.sec
      /\ ctl'.ok <=> ok
  BY <1>1, <1>3 DEF Controllers
<1>5. /\ moved' \in [Reqs -> SUBSET (0..Sectors - 1)]
      /\ \A r \in Reqs : moved[r] \subseteq moved'[r] /\ moved'[r] \subseteq 0..Sectors - 1
      /\ ok /\ ctl.cmd = "write" => ctl.sec \in moved'[ctl.req]
  <2>1. CASE ok /\ ctl.cmd = "write"
    <3>1. moved' = [moved EXCEPT ![ctl.req] = @ \cup {ctl.sec}] /\ ctl.req \in Reqs
      BY <1>1, <1>3, <2>1
    <3> QED
      BY <1>3, <3>1
  <2>2. CASE ~(ok /\ ctl.cmd = "write")
    BY <1>1, <1>3, <2>2
  <2> QED
    BY <2>1, <2>2
<1>6. irq' \in BOOLEAN
  BY <1>1, Zenon DEF DriverInv, TypeOK
<1>7. TypeOK'
  BY <1>2, <1>4, <1>5, <1>6, Zenon DEF DriverInv, TypeOK
<1>8. QueueExact' /\ OkMeansMoved'
  BY <1>2, <1>5, SameQueue
<1>9. CURRENT' = CURRENT
  BY <1>2 DEF CURRENT
<1>10. CtlHasReq' /\ Commanded'
  BY <1>2, <1>4, <1>9 DEF DriverInv, CtlHasReq, Commanded
<1>11. Together'
  BY <1>2, <1>4, <1>5, <1>9 DEF DriverInv, Together, Active, AtCurrent
<1>12. Watched'
  BY <1>2 DEF DriverInv, Watched
<1> QED
  BY <1>7, <1>8, <1>10, <1>11, <1>12 DEF DriverInv

LEMMA StillKeeps == ASSUME DriverInv, StrayInterrupt \/ UNCHANGED vars PROVE DriverInv'
<1>1. /\ irq' \in {irq, TRUE}
      /\ UNCHANGED <<load, queue, errors, left, result, moved, do_hd, timer, reset, recalibrate,
                     drive, cpu, cmd, ctl>>
  BY DEF StrayInterrupt, vars, reqVars, intrVars
<1>2. TypeOK'
  BY <1>1, Zenon DEF DriverInv, TypeOK
<1>3. QueueExact' /\ OkMeansMoved'
  BY <1>1, SameQueue DEF DriverInv, TypeOK
<1>4. CURRENT' = CURRENT
  BY <1>1 DEF CURRENT
<1>5. CtlHasReq' /\ Together' /\ Commanded' /\ Watched'
  BY <1>1, <1>4 DEF DriverInv, CtlHasReq, Together, Active, AtCurrent, Commanded, Watched
<1> QED
  BY <1>2, <1>3, <1>5 DEF DriverInv

LEMMA StepDriver == ASSUME DriverInv, [Next]_vars PROVE DriverInv'
<1>1. ASSUME NEW r \in load.reqs, Submit(r) PROVE DriverInv'
  <2>1. r \in Reqs
    BY LoadAssumption DEF DriverInv, TypeOK
  <2> QED
    BY <1>1, <2>1, SubmitKeeps
<1> QED
  BY <1>1, InterruptKeeps, TimeoutKeeps, PlainHandlerKeeps, ReadKeeps, WriteKeeps, ResetKeeps,
     NextDriveKeeps, RequestKeeps, HdOutKeeps, DrqKeeps, CtlKeeps, StillKeeps, Zenon DEF Next

-----------------------------------------------------------------------------
(***************************************************************************)
(* Theorems.                                                               *)
(***************************************************************************)

(* The driver's inductive invariant: the queue and the results agree, and  *)
(* driver and controller are at the same sector of CURRENT whenever a      *)
(* transfer handler can be called.                                         *)
THEOREM DriverInvariant == Spec => []DriverInv
<1>1. Init => DriverInv
  BY InitDriver
<1>2. DriverInv /\ [Next]_vars => DriverInv'
  BY StepDriver
<1> QED
  BY <1>1, <1>2, PTL DEF Spec

(* The handler that the next interrupt calls fits CURRENT: read_intr and   *)
(* write_intr (hd.c:294-333) never meet an empty queue or a request of the *)
(* other kind, whatever interrupts and time-outs came before.              *)
THEOREM HandlersFit == Spec => []HandlerFits
<1>1. DriverInv => HandlerFits
  BY DEF DriverInv, Together, Active, AtCurrent, HandlerFits, Handlers
<1> QED
  BY <1>1, DriverInvariant, PTL

(* A request being served is watched over by a time-out (blk.h:77-88). *)
THEOREM AlwaysWatched == Spec => []Watched
<1>1. DriverInv => Watched
  BY DEF DriverInv
<1> QED
  BY <1>1, DriverInvariant, PTL

(* end_request(1) is called only when all sectors were transferred for the *)
(* request that is at the head of the queue (hd.c:294-333).                *)
THEOREM OkIsTransferred == Spec => []OkMeansMoved
<1>1. DriverInv => OkMeansMoved
  BY DEF DriverInv
<1> QED
  BY <1>1, DriverInvariant, PTL

-----------------------------------------------------------------------------
(***************************************************************************)
(* The elevator.  A buffer that is queued is locked, so that no two        *)
(* requests of a queue are for the same block: DistinctSectors.            *)
(***************************************************************************)
DistinctSectors ==
    \A l \in Loads : l.reqs \cap Pages = {} =>
        \A r, s \in l.reqs : r # s /\ (r \in Writes <=> s \in Writes) => Sector[r] # Sector[s]

Break(q, i) == ~InOrder(q[i], q[i + 1])

OneBreak(q) == \A i, j \in 1..Len(q) - 1 : Break(q, i) /\ Break(q, j) => i = j

(* The inductive form of TwoSweeps *)
Sweeps == OfLoad /\ (load.reqs \cap Pages = {} => OneBreak(queue))

(* A place found by GoesBetween starts no new sweep; the end is only taken *)
(* when the queue has no next sweep that the request would fit into.       *)
LEMMA InsertSweeps ==
    ASSUME NEW q \in Seq(Reqs), q # <<>>, NEW r \in Reqs, r \notin Pages, OneBreak(q),
           \A i \in 1..Len(q) : InOrder(q[i], r) \/ InOrder(r, q[i])
    PROVE  OneBreak(Insert(q, r))
<1> DEFINE s == Insert(q, r)
           n == Len(q)
<1>1. PICK k \in 1..Len(q) :
              /\ k < Len(q) => GoesBetween(q[k], q[k + 1], r)
              /\ \A j \in 1..k - 1 : ~GoesBetween(q[j], q[j + 1], r)
              /\ Insert(q, r) = InsertAt(q, k + 1, r)
  BY InsertPlace
<1>2. /\ s \in Seq(Reqs) /\ Len(s) = n + 1
      /\ \A i \in 1..k : s[i] = q[i]
      /\ s[k + 1] = r
      /\ \A i \in k + 2..n + 1 : s[i] = q[i - 1]
  <2>1. LET t == InsertAt(q, k + 1, r) IN
        /\ t \in Seq(Reqs) /\ Len(t) = Len(q) + 1
        /\ \A i \in 1..k : t[i] = q[i]
        /\ t[k + 1] = r
        /\ \A i \in k + 2..Len(q) + 1 : t[i] = q[i - 1]
    BY InsertIs, Zenon
  <2> QED
    BY <1>1, <2>1
<1>3. n \in Nat
  OBVIOUS
<1> HIDE DEF s, n
<1>4. ASSUME NEW i \in 1..n, i < k, Break(s, i) PROVE Break(q, i)
  <2>1. i \in 1..k /\ i + 1 \in 1..k
    BY <1>3, <1>4
  <2> QED
    BY <1>2, <1>4, <2>1 DEF Break
<1>5. ASSUME NEW i \in 1..n, i > k + 1, Break(s, i) PROVE Break(q, i - 1)
  <2>1. i \in k + 2..n + 1 /\ i + 1 \in k + 2..n + 1 /\ (i + 1) - 1 = (i - 1) + 1
    BY <1>3, <1>5
  <2> QED
    BY <1>2, <1>5, <2>1 DEF Break
<1>6. ASSUME Break(s, k) PROVE ~InOrder(q[k], r)
  BY <1>2, <1>6 DEF Break
<1>7. CASE k < n
  <2>1. (InOrder(q[k], r) \/ ~InOrder(q[k], q[k + 1])) /\ InOrder(r, q[k + 1])
    BY <1>1, <1>7 DEF GoesBetween, n
  <2>2. Break(s, k) => Break(q, k)
    BY <1>6, <2>1 DEF Break
  <2>3. ~Break(s, k + 1)
    <3>1. k + 2 \in k + 2..n + 1 /\ (k + 2) - 1 = k + 1 /\ (k + 1) + 1 = k + 2
      BY <1>3, <1>7
    <3> QED
      BY <1>2, <2>1, <3>1 DEF Break
  <2> DEFINE old(i) == IF i <= k THEN i ELSE i - 1
  <2>4. ASSUME NEW i \in 1..n, Break(s, i) PROVE i # k + 1 /\ old(i) \in 1..n - 1 /\ Break(q, old(i))
    <3>1. CASE i < k
      BY <1>3, <1>4, <1>7, <2>4, <3>1
    <3>2. CASE i = k
      BY <1>3, <1>7, <2>2, <2>4, <3>2
    <3>3. CASE i > k
      <4>1. i # k + 1
        BY <2>3, <2>4
      <4>2. i > k + 1 /\ old(i) = i - 1 /\ i - 1 \in 1..n - 1
        BY <1>3, <3>3, <4>1
      <4> QED
        BY <1>5, <2>4, <4>2
    <3> QED
      BY <1>3, <3>1, <3>2, <3>3
  <2>5. ASSUME NEW i \in 1..n, NEW j \in 1..n, Break(s, i), Break(s, j) PROVE i = j
    <3>1. old(i) = old(j) /\ i # k + 1 /\ j # k + 1
      BY <2>4, <2>5 DEF OneBreak, n
    <3> QED
      BY <1>3, <3>1
  <2> QED
    BY <1>2, <1>3, <2>5 DEF OneBreak, s
<1>8. CASE k = n
  <2>1. ASSUME NEW j \in 1..n - 1, Break(q, j), ~InOrder(q[n], r) PROVE FALSE
    <3> DEFINE T == {i \in j + 1..n : InOrder(r, q[i])}
    <3>1. n \in T /\ T \subseteq Nat
      BY <1>3, <2>1 DEF n
    <3>2. PICK m \in T : \A y \in T : m <= y
      <4> HIDE DEF T
      <4> QED
        BY <3>1, LeastNat
    <3>3. m \in j + 1..n /\ InOrder(r, q[m])
      BY <3>2
    <3>4. m - 1 \in 1..k - 1 /\ (m - 1) + 1 = m
      BY <1>3, <1>8, <3>3
    <3>5. CASE m = j + 1
      <4>1. ~InOrder(q[m - 1], q[m])
        BY <1>3, <2>1, <3>4, <3>5 DEF Break
      <4> QED
        BY <1>1, <3>3, <3>4, <4>1 DEF GoesBetween
    <3>6. CASE m # j + 1
      <4>1. m - 1 \in j + 1..n /\ ~(m <= m - 1) /\ m - 1 \in 1..n
        BY <1>3, <3>3, <3>6
      <4>2. ~InOrder(r, q[m - 1])
        BY <3>2, <4>1
      <4>3. InOrder(q[m - 1], r)
        BY <4>1, <4>2 DEF n
      <4> QED
        BY <1>1, <3>3, <3>4, <4>3 DEF GoesBetween
    <3> QED
      BY <3>5, <3>6
  <2>2. ASSUME NEW i \in 1..n, NEW j \in 1..n, Break(s, i), Break(s, j) PROVE i = j
    <3>1. CASE i < n /\ j < n
      <4>1. Break(q, i) /\ Break(q, j) /\ i \in 1..n - 1 /\ j \in 1..n - 1
        BY <1>3, <1>4, <1>8, <2>2, <3>1
      <4> QED
        BY <4>1 DEF OneBreak, n
    <3>2. ASSUME NEW x \in 1..n, NEW y \in 1..n, Break(s, x), Break(s, y), x = n, y < n PROVE FALSE
      <4>1. ~InOrder(q[n], r)
        BY <1>6, <1>8, <3>2
      <4>2. Break(q, y) /\ y \in 1..n - 1
        BY <1>3, <1>4, <1>8, <3>2
      <4> QED
        BY <2>1, <4>1, <4>2
    <3> QED
      BY <1>3, <2>2, <3>1, <3>2
  <2> QED
    BY <1>2, <1>3, <2>2 DEF OneBreak, s
<1> QED
  BY <1>3, <1>7, <1>8 DEF n

LEMMA TailSweeps ==
    ASSUME NEW q \in Seq(Reqs), q # <<>>, OneBreak(q) PROVE OneBreak(Tail(q))
<1>1. /\ Len(q) \in Nat /\ Len(q) > 0 /\ Len(Tail(q)) = Len(q) - 1
      /\ \A i \in 1..Len(q) - 1 : Tail(q)[i] = q[i + 1]
  BY TailIs
<1>2. ASSUME NEW i \in 1..Len(Tail(q)) - 1, Break(Tail(q), i)
      PROVE  i + 1 \in 1..Len(q) - 1 /\ Break(q, i + 1)
  <2>1. i \in 1..Len(q) - 1 /\ i + 1 \in 1..Len(q) - 1
    BY <1>1
  <2> QED
    BY <1>1, <1>2, <2>1 DEF Break
<1>3. ASSUME NEW i \in 1..Len(Tail(q)) - 1, NEW j \in 1..Len(Tail(q)) - 1,
             Break(Tail(q), i), Break(Tail(q), j)
      PROVE  i = j
  <2>1. i + 1 = j + 1
    BY <1>2, <1>3 DEF OneBreak
  <2> QED
    BY <1>1, <2>1
<1> QED
  BY <1>3 DEF OneBreak

(* What a step does to the queue *)
LEMMA QueueStep ==
    ASSUME DriverInv, [Next]_vars
    PROVE  /\ load' = load
           /\ \/ queue' = queue
              \/ queue # <<>> /\ queue' = Tail(queue)
              \/ \E r \in load.reqs : Submit(r)
<1>1. ASSUME NEW next, BadRwIntr(next)
      PROVE  queue' = queue \/ (queue # <<>> /\ queue' = Tail(queue))
  <2>1. CASE queue = <<>>
    BY <1>1, <2>1 DEF BadRwIntr, Halt
  <2>2. CASE queue # <<>>
    <3>1. EndRequest("failed") \/ UNCHANGED <<queue, result>>
      BY <1>1, <2>2, Zenon DEF BadRwIntr
    <3>2. queue' = Tail(queue) \/ queue' = queue
      BY <3>1, Zenon DEF EndRequest
    <3> QED
      BY <2>2, <3>2
  <2> QED
    BY <2>1, <2>2
<1>2. CASE \E r \in load.reqs : Submit(r)
  BY <1>2 DEF Submit
<1>3. CASE Interrupt \/ HdTimesOut \/ UnexpectedHdInterrupt
  BY <1>3 DEF Interrupt, HdTimesOut, UnexpectedHdInterrupt, reqVars, EndRequest
<1>4. CASE ReadErr \/ WriteErr \/ RecalIntr \/ NoDrq
  BY <1>1, <1>4 DEF ReadErr, WriteErr, RecalIntr, NoDrq
<1>5. CASE ReadIntr \/ WriteIntr
  <2>1. queue # <<>>
    BY <1>5 DEF ReadIntr, WriteIntr, DriverInv, Together, Active, AtCurrent
  <2> QED
    BY <1>5, <2>1 DEF ReadIntr, WriteIntr, EndRequest
<1>6. CASE ResetHd
  BY <1>1, <1>6 DEF ResetHd
<1>7. CASE NextDrive \/ RequestNone \/ RequestBad \/ RequestReset \/ RequestCmd
  BY <1>7 DEF NextDrive, RequestNone, RequestBad, RequestReset, RequestCmd, reqVars, EndRequest
<1>8. CASE HdOut \/ HdOutPanic \/ Drq \/ CtlEnds \/ StrayInterrupt \/ UNCHANGED vars
  BY <1>8 DEF HdOut, HdOutPanic, Drq, CtlEnds, StrayInterrupt, vars, reqVars
<1> QED
  BY <1>2, <1>3, <1>4, <1>5, <1>6, <1>7, <1>8, Zenon DEF Next

LEMMA StepSweeps ==
    ASSUME DistinctSectors, DriverInv, Sweeps, [Next]_vars PROVE Sweeps'
<1>1. queue \in Seq(Reqs) /\ load \in Loads /\ load.reqs \subseteq Reqs /\ Len(queue) \in Nat
  BY LoadAssumption DEF DriverInv, TypeOK
<1>2. load' = load
  BY QueueStep
<1>3. CASE queue' = queue
  BY <1>2, <1>3 DEF Sweeps, OfLoad
<1>4. CASE queue # <<>> /\ queue' = Tail(queue)
  <2>1. OfLoad'
    BY <1>1, <1>2, <1>4, TailIs DEF Sweeps, OfLoad
  <2> QED
    BY <1>1, <1>2, <1>4, <2>1, TailSweeps DEF Sweeps
<1>5. ASSUME NEW r \in load.reqs, Submit(r) PROVE Sweeps'
  <2>1. r \in Reqs /\ result[r] # "queued"
    BY <1>1, <1>5 DEF Submit
  <2>2. \A i \in 1..Len(queue) : queue[i] # r /\ queue[i] \in Reqs /\ queue[i] \in load.reqs
    BY <1>1, <2>1 DEF DriverInv, QueueExact, Sweeps, OfLoad
  <2>3. CASE queue = <<>>
    <3>1. queue' = <<r>>
      BY <1>5, <2>3 DEF Submit
    <3>2. Len(queue') = 1 /\ queue'[1] = r
      BY <3>1
    <3> QED
      BY <1>2, <3>2 DEF Sweeps, OfLoad, OneBreak
  <2>4. CASE queue # <<>>
    <3>1. queue' = Insert(queue, r)
      BY <1>5, <2>4 DEF Submit
    <3>2. OfLoad'
      <4>1. PICK k \in 1..Len(queue) : queue' = InsertAt(queue, k + 1, r)
        BY <1>1, <2>1, <2>4, <3>1, InsertPlace
      <4>2. /\ Len(queue') = Len(queue) + 1
            /\ \A i \in 1..k : queue'[i] = queue[i]
            /\ queue'[k + 1] = r
            /\ \A i \in k + 2..Len(queue) + 1 : queue'[i] = queue[i - 1]
        BY <1>1, <2>1, <4>1, InsertIs, Zenon
      <4>3. ASSUME NEW i \in 1..Len(queue') PROVE queue'[i] \in load.reqs
        <5>1. CASE i <= k
          BY <1>1, <2>2, <4>2, <5>1
        <5>2. CASE i = k + 1
          BY <4>2, <5>2
        <5>3. CASE i > k + 1
          <6>1. i \in k + 2..Len(queue) + 1 /\ i - 1 \in 1..Len(queue)
            BY <1>1, <4>2, <5>3
          <6> QED
            BY <2>2, <4>2, <6>1
        <5> QED
          BY <1>1, <4>2, <5>1, <5>2, <5>3
      <4> QED
        BY <1>2, <4>3 DEF OfLoad
    <3>3. ASSUME load.reqs \cap Pages = {} PROVE OneBreak(queue')
      <4>1. \A i \in 1..Len(queue) : InOrder(queue[i], r) \/ InOrder(r, queue[i])
        BY <1>1, <2>1, <2>2, <3>3, SectorAssumption DEF DistinctSectors, InOrder
      <4>2. r \notin Pages /\ OneBreak(queue)
        BY <3>3 DEF Sweeps
      <4> QED
        BY <1>1, <2>1, <2>4, <3>1, <4>1, <4>2, InsertSweeps
    <3> QED
      BY <1>2, <3>2, <3>3 DEF Sweeps
  <2> QED
    BY <2>3, <2>4
<1> QED
  BY <1>3, <1>4, <1>5, QueueStep

(* At most one element, if any two are the same *)
LEMMA AtMostOne ==
    ASSUME NEW B, \A x, y \in B : x = y PROVE Cardinality(B) <= 1
<1>1. CASE B = {}
  BY <1>1, FS_EmptySet
<1>2. CASE B # {}
  <2>1. PICK x \in B : TRUE
    BY <1>2
  <2>2. B = {x}
    BY <2>1
  <2> QED
    BY <2>2, FS_Singleton
<1> QED
  BY <1>1, <1>2

(* The queue of the elevator is at most two ascending sweeps: the one that *)
(* CURRENT is part of and the next (add_request, ll_rw_blk.c), for any     *)
(* order of requests and ends of requests.                                 *)
THEOREM ElevatorSweeps ==
    ASSUME DistinctSectors PROVE Spec => []TwoSweeps
<1>1. Init => Sweeps
  BY DEF Init, Sweeps, OfLoad, OneBreak
<1>2. DriverInv /\ Sweeps /\ [Next]_vars => Sweeps'
  BY StepSweeps
<1>3. Sweeps => TwoSweeps
  <2> SUFFICES ASSUME Sweeps, load.reqs \cap Pages = {}
               PROVE  Cardinality({k \in 1..(Len(queue) - 1) : ~InOrder(queue[k], queue[k + 1])}) <= 1
    BY DEF TwoSweeps
  <2> DEFINE B == {k \in 1..(Len(queue) - 1) : ~InOrder(queue[k], queue[k + 1])}
  <2>1. \A x, y \in B : x = y
    BY DEF Sweeps, OneBreak, Break
  <2> HIDE DEF B
  <2>2. Cardinality(B) <= 1
    BY <2>1, AtMostOne
  <2> QED
    BY <2>2 DEF B
<1> QED
  BY <1>1, <1>2, <1>3, DriverInvariant, PTL DEF Spec

=============================================================================
