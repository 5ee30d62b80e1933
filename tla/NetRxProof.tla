----------------------------- MODULE NetRxProof -----------------------------
(***************************************************************************)
(* Proofs about NetRx, for a completion ring of any size, any number of    *)
(* CPUs, packets, failures and sessions.                                   *)
(***************************************************************************)
EXTENDS NetRx, TLAPS

USE RxAssumption

Slot == 0..(CmptSz - 1)

Delta(new, old) == ring_idx_delta(new, old, CmptSz)

-----------------------------------------------------------------------------
(* The invariant *)

\* The records have their fields, whatever the fields hold.
Shape ==
  /\ DOMAIN q = {"q_state", "err", "listed", "avail", "pidx", "cidx_cmpt", "color", "wrb_cidx", "irq_en", "post"}
  /\ DOMAIN hw = {"on", "cidx", "pidx", "cmpt_pidx", "cmpt_cidx", "color", "armed", "irq"}
  /\ DOMAIN napi = {"st", "missed", "polling", "disabling", "cpu"}
  /\ DOMAIN cpu = Cpus
  /\ \A c \in Cpus : DOMAIN cpu[c] = {"pc", "ok", "left", "pidx", "pend", "proc", "pkt_cnt"}
  /\ DOMAIN count = {"pkts", "events"}
  /\ DOMAIN seen = {"failed", "short", "swallowed", "first"}
  /\ DOMAIN cmpt = Slot

\* One poll at a time is between its start and napi_complete(), and none while NAPI is
\* disabled.
PollInv ==
  /\ napi.st \in {"disabled", "idle", "sched"}
  /\ napi.st = "disabled" <=> ctl \notin {"up", "disabling"}
  /\ \A c \in Cpus : cpu[c].pc \in {"serve", "complete"} =>
        napi.st = "sched" /\ napi.polling = TRUE /\ napi.cpu = c

\* What the phases of ifup and ifdown say of queue and hardware
PhaseInv ==
  /\ ctl \in {"down", "allocated", "programmed", "listed", "online", "up", "disabling",
              "disabled", "offline", "cleared"}
  /\ q.q_state = "ONLINE" <=> ctl \in {"online", "up", "disabling", "disabled"}
  /\ hw.on = (ctl \notin {"down", "allocated", "cleared"})

\* The packets passed up, which have come in one session
OrderInv ==
  /\ count.pkts \in Nat /\ seen.first \in Nat
  /\ delivered \in Seq([id : Nat, right : BOOLEAN, chained : BOOLEAN])
  /\ DeliveredInOrder
  /\ ctl = "allocated" => delivered = <<>> /\ seen.first = count.pkts /\ q.cidx_cmpt = 0

\* The hardware's index, the driver's, the one the next update tells and the one the hardware
\* was told follow one another in the ring, less than a round apart.
IndicesInv ==
  /\ q.cidx_cmpt \in Slot /\ q.wrb_cidx \in Slot
  /\ hw.cmpt_pidx \in Slot /\ hw.cmpt_cidx \in Slot
  /\ CmptPending + Delta(q.cidx_cmpt, q.wrb_cidx) + Delta(q.wrb_cidx, hw.cmpt_cidx) < CmptSz

\* The completions not yet taken are those of the packets that come next.
EntriesInv ==
  /\ count.pkts = seen.first + Len(delivered) + CmptPending
  /\ \A k \in Slot : Delta(k, q.cidx_cmpt) < CmptPending =>
        cmpt[k].id = seen.first + Len(delivered) + 1 + Delta(k, q.cidx_cmpt)

\* A poll that has the lock takes no more than there is.
LeftInv ==
  \A c \in Cpus : cpu[c].pc = "serve" => cpu[c].left \in Nat /\ cpu[c].left <= CmptPending

RingInv ==
  /\ hw.on => IndicesInv /\ EntriesInv
  /\ LeftInv

IInv == Shape /\ PollInv /\ PhaseInv /\ OrderInv /\ RingInv

-----------------------------------------------------------------------------
(* Rings *)

\* Distances and steps in the ring stay in it.
LEMMA DeltaIn ==
  ASSUME NEW a \in Slot, NEW b \in Slot
  PROVE  Delta(a, b) \in Slot
BY DEF Slot, Delta, ring_idx_delta

\* One step on is one further from everything but the slot it comes to.
LEMMA NextIs ==
  ASSUME NEW a \in Slot
  PROVE  /\ ring_idx_incr(a, 1, CmptSz) \in Slot
         /\ ring_idx_incr(a, 1, CmptSz) = IF a + 1 = CmptSz THEN 0 ELSE a + 1
         /\ \A b \in Slot : ring_idx_incr(a, 1, CmptSz) # b =>
               Delta(ring_idx_incr(a, 1, CmptSz), b) = Delta(a, b) + 1
         /\ \A b \in Slot : Delta(b, a) > 0 =>
               Delta(b, ring_idx_incr(a, 1, CmptSz)) = Delta(b, a) - 1
BY DEF Slot, Delta, ring_idx_delta, ring_idx_incr

\* The smaller of two numbers
LEMMA MinOfTwo ==
  ASSUME NEW a \in Nat, NEW b \in Nat
  PROVE  Min({a, b}) \in Nat /\ Min({a, b}) <= a /\ Min({a, b}) <= b
<1>1. \E x \in {a, b} : \A y \in {a, b} : x <= y
  <2>1. CASE a <= b
    BY <2>1
  <2>2. CASE b <= a
    BY <2>2
  <2>. QED BY <2>1, <2>2
<1>. QED BY <1>1 DEF Min

-----------------------------------------------------------------------------
(* What the steps leave alone *)

\* What the ring's invariant reads
RingView ==
  <<q.cidx_cmpt, q.wrb_cidx, hw.on, hw.cmpt_pidx, hw.cmpt_cidx, cmpt, count.pkts, seen.first, delivered>>

\* What lies in the ring is counted by a number.
LEMMA PendingIn ==
  ASSUME IndicesInv
  PROVE  CmptPending \in Slot
BY DeltaIn DEF IndicesInv, CmptPending, Delta

\* There is no service without the hardware.
LEMMA ServeOn ==
  ASSUME PollInv, PhaseInv, NEW c \in Cpus, cpu[c].pc \in {"serve", "complete"}
  PROVE  /\ ctl \in {"up", "disabling"} /\ hw.on /\ q.q_state = "ONLINE"
         /\ \A d \in Cpus : cpu[d].pc \in {"serve", "complete"} => d = c
BY DEF PollInv, PhaseInv

\* A step that moves no index and starts no service keeps the ring's invariant.
LEMMA SameRing ==
  ASSUME PollInv, PhaseInv, RingInv, RingView' = RingView,
         \A c \in Cpus : cpu'[c].pc = "serve" =>
            cpu[c].pc = "serve" /\ (cpu'[c].left = cpu[c].left \/ cpu'[c].left = 0)
  PROVE  RingInv'
<1>1. CmptPending' = CmptPending
  BY DEF RingView, CmptPending, ring_idx_delta
<1>2. hw'.on => IndicesInv' /\ EntriesInv'
  BY <1>1 DEF RingInv, RingView, IndicesInv, EntriesInv, Delta
<1>3. LeftInv'
  <2>. SUFFICES ASSUME NEW c \in Cpus, cpu'[c].pc = "serve"
       PROVE  cpu'[c].left \in Nat /\ cpu'[c].left <= CmptPending'
    BY DEF LeftInv
  <2>1. cpu[c].left \in Nat /\ cpu[c].left <= CmptPending
    BY DEF RingInv, LeftInv
  <2>2. CmptPending \in Slot
    BY ServeOn, PendingIn DEF RingInv
  <2>. QED BY <1>1, <2>1, <2>2 DEF Slot
<1>. QED BY <1>2, <1>3 DEF RingInv

\* A step that passes nothing up and starts nothing keeps the order.
LEMMA SameOrder ==
  ASSUME OrderInv, delivered' = delivered, count'.pkts = count.pkts, seen'.first = seen.first,
         ctl' = "allocated" => ctl = "allocated", q'.cidx_cmpt = q.cidx_cmpt
  PROVE  OrderInv'
BY DEF OrderInv, DeliveredInOrder

\* Telling the hardware the index that was written back leaves the order of the indices.
LEMMA ToldIndex ==
  ASSUME RingInv, LeftInv', q'.cidx_cmpt = q.cidx_cmpt, q'.wrb_cidx = q.wrb_cidx,
         hw'.on = hw.on, hw'.cmpt_pidx = hw.cmpt_pidx, hw'.cmpt_cidx \in {hw.cmpt_cidx, q.wrb_cidx},
         cmpt' = cmpt, count'.pkts = count.pkts, seen'.first = seen.first, delivered' = delivered
  PROVE  RingInv'
<1>1. CmptPending' = CmptPending
  BY DEF CmptPending
<1>2. ASSUME hw.on PROVE IndicesInv' /\ EntriesInv'
  <2>1. IndicesInv /\ EntriesInv
    BY <1>2 DEF RingInv
  <2>2. CmptPending \in Slot /\ Delta(q.cidx_cmpt, q.wrb_cidx) \in Slot /\ Delta(q.wrb_cidx, hw.cmpt_cidx) \in Slot
    BY <2>1, PendingIn, DeltaIn DEF IndicesInv
  <2>3. Delta(q.wrb_cidx, q.wrb_cidx) = 0
    BY <2>1 DEF IndicesInv, Delta, ring_idx_delta, Slot
  <2>4. IndicesInv'
    BY <1>1, <2>1, <2>2, <2>3 DEF IndicesInv, Slot
  <2>. QED BY <1>1, <2>1, <2>4 DEF EntriesInv
<1>. QED BY <1>2 DEF RingInv

-----------------------------------------------------------------------------
(* The steps *)

\* An interrupt is raised.
LEMMA InterruptKeeps ==
  ASSUME IInv, Interrupt
  PROVE  IInv'
<1>1. Shape'
  BY DEF IInv, Shape, Interrupt
<1>2. PollInv'
  BY DEF IInv, Shape, PollInv, PhaseInv, Interrupt
<1>3. PhaseInv'
  BY DEF IInv, Shape, PhaseInv, PollInv, Interrupt
<1>4. OrderInv'
  BY SameOrder DEF IInv, Shape, PhaseInv, Interrupt
<1>5. RingInv'
  <2>1. RingView' = RingView
    BY DEF IInv, Shape, RingView, Interrupt
  <2>2. \A c \in Cpus : cpu'[c].pc = "serve" =>
           cpu[c].pc = "serve" /\ (cpu'[c].left = cpu[c].left \/ cpu'[c].left = 0)
    BY DEF IInv, Shape, Interrupt
  <2>. QED BY <2>1, <2>2, SameRing DEF IInv
<1>. QED BY <1>1, <1>2, <1>3, <1>4, <1>5 DEF IInv

\* An interrupt schedules the poll; while NAPI is disabled it does not.
LEMMA IsrKeeps ==
  ASSUME IInv, NEW c \in Cpus, onic_isr_rx_tophalf(c)
  PROVE  IInv'
<1>1. Shape'
  BY DEF IInv, Shape, onic_isr_rx_tophalf, NapiSchedule
<1>2. PollInv'
  BY DEF IInv, Shape, PollInv, PhaseInv, onic_isr_rx_tophalf, NapiSchedule
<1>3. PhaseInv'
  BY DEF IInv, Shape, PhaseInv, PollInv, onic_isr_rx_tophalf, NapiSchedule
<1>4. OrderInv'
  BY SameOrder DEF IInv, Shape, PhaseInv, onic_isr_rx_tophalf, NapiSchedule
<1>5. RingInv'
  <2>1. RingView' = RingView
    BY DEF IInv, Shape, RingView, onic_isr_rx_tophalf, NapiSchedule
  <2>2. \A d \in Cpus : cpu'[d].pc = "serve" =>
           cpu[d].pc = "serve" /\ (cpu'[d].left = cpu[d].left \/ cpu'[d].left = 0)
    BY DEF IInv, Shape, onic_isr_rx_tophalf, NapiSchedule
  <2>. QED BY <2>1, <2>2, SameRing DEF IInv
<1>. QED BY <1>1, <1>2, <1>3, <1>4, <1>5 DEF IInv

\* A faulty completion ends the call.
LEMMA ServeErrorKeeps ==
  ASSUME IInv, NEW c \in Cpus, ServeError(c)
  PROVE  IInv'
<1>1. Shape'
  BY DEF IInv, Shape, ServeError, Serving
<1>2. PollInv'
  BY DEF IInv, Shape, PollInv, PhaseInv, ServeError, Serving
<1>3. PhaseInv'
  BY DEF IInv, Shape, PhaseInv, PollInv, ServeError, Serving
<1>4. OrderInv'
  BY SameOrder DEF IInv, Shape, PhaseInv, ServeError, Serving
<1>5. RingInv'
  <2>1. RingView' = RingView
    BY DEF IInv, Shape, RingView, ServeError, Serving
  <2>2. \A d \in Cpus : cpu'[d].pc = "serve" =>
           cpu[d].pc = "serve" /\ (cpu'[d].left = cpu[d].left \/ cpu'[d].left = 0)
    BY DEF IInv, Shape, ServeError, Serving
  <2>. QED BY <2>1, <2>2, SameRing DEF IInv
<1>. QED BY <1>1, <1>2, <1>3, <1>4, <1>5 DEF IInv

\* The call stops before its budget is used up.
LEMMA ServeNothingKeeps ==
  ASSUME IInv, NEW c \in Cpus, ServeNothing(c)
  PROVE  IInv'
<1>1. Shape'
  BY DEF IInv, Shape, ServeNothing, Serving, Stop, LastLen
<1>2. PollInv'
  BY DEF IInv, Shape, PollInv, PhaseInv, ServeNothing, Serving, Stop, LastLen
<1>3. PhaseInv'
  BY DEF IInv, Shape, PhaseInv, PollInv, ServeNothing, Serving, Stop, LastLen
<1>4. OrderInv'
  BY SameOrder DEF IInv, Shape, PhaseInv, ServeNothing, Serving, Stop, LastLen
<1>5. RingInv'
  <2>1. RingView' = RingView
    BY DEF IInv, Shape, RingView, ServeNothing, Serving, Stop, LastLen
  <2>2. \A d \in Cpus : cpu'[d].pc = "serve" =>
           cpu[d].pc = "serve" /\ (cpu'[d].left = cpu[d].left \/ cpu'[d].left = 0)
    BY DEF IInv, Shape, ServeNothing, Serving, Stop, LastLen
  <2>. QED BY <2>1, <2>2, SameRing DEF IInv
<1>. QED BY <1>1, <1>2, <1>3, <1>4, <1>5 DEF IInv

\* A packet there is no memory for stays the next one.
LEMMA ServeNoMemoryKeeps ==
  ASSUME IInv, NEW c \in Cpus, ServeNoMemory(c)
  PROVE  IInv'
<1>0. Serving(c) /\ Stop(c)
  BY DEF ServeNoMemory, Deliverable
<1>1. Shape'
  BY DEF IInv, Shape, ServeNoMemory, Deliverable, Serving, Stop
<1>2. PollInv'
  BY DEF IInv, Shape, PollInv, PhaseInv, ServeNoMemory, Deliverable, Serving, Stop
<1>3. PhaseInv'
  BY DEF IInv, Shape, PhaseInv, PollInv, ServeNoMemory, Deliverable, Serving, Stop
<1>4. OrderInv'
  BY SameOrder DEF IInv, Shape, PhaseInv, ServeNoMemory, Deliverable, Serving, Stop
<1>5. RingInv'
  <2>1. RingView' = RingView
    BY DEF IInv, Shape, RingView, ServeNoMemory, Deliverable, Serving, Stop
  <2>2. \A d \in Cpus : cpu'[d].pc = "serve" =>
           cpu[d].pc = "serve" /\ (cpu'[d].left = cpu[d].left \/ cpu'[d].left = 0)
    BY <1>0 DEF IInv, Shape, Serving, Stop
  <2>. QED BY <2>1, <2>2, SameRing DEF IInv
<1>. QED BY <1>1, <1>2, <1>3, <1>4, <1>5 DEF IInv

\* napi_complete()
LEMMA CompleteKeeps ==
  ASSUME IInv, NEW c \in Cpus, Complete(c)
  PROVE  IInv'
<1>1. Shape'
  BY DEF IInv, Shape, Complete, NapiComplete
<1>2. PollInv'
  BY DEF IInv, Shape, PollInv, PhaseInv, Complete, NapiComplete
<1>3. PhaseInv'
  BY DEF IInv, Shape, PhaseInv, PollInv, Complete, NapiComplete
<1>4. OrderInv'
  BY SameOrder DEF IInv, Shape, PhaseInv, Complete, NapiComplete
<1>5. RingInv'
  <2>1. RingView' = RingView
    BY DEF IInv, Shape, RingView, Complete, NapiComplete
  <2>2. \A d \in Cpus : cpu'[d].pc = "serve" =>
           cpu[d].pc = "serve" /\ (cpu'[d].left = cpu[d].left \/ cpu'[d].left = 0)
    BY DEF IInv, Shape, Complete, NapiComplete
  <2>. QED BY <2>1, <2>2, SameRing DEF IInv
<1>. QED BY <1>1, <1>2, <1>3, <1>4, <1>5 DEF IInv

\* A look at the number of completions left
LEMMA PeekKeeps ==
  ASSUME IInv, NEW c \in Cpus, Peek(c)
  PROVE  IInv'
<1>1. Shape'
  BY DEF IInv, Shape, Peek
<1>2. PollInv'
  BY DEF IInv, Shape, PollInv, PhaseInv, Peek
<1>3. PhaseInv'
  BY DEF IInv, Shape, PhaseInv, PollInv, Peek
<1>4. OrderInv'
  BY SameOrder DEF IInv, Shape, PhaseInv, Peek
<1>5. RingInv'
  <2>1. RingView' = RingView
    BY DEF IInv, Shape, RingView, Peek
  <2>2. \A d \in Cpus : cpu'[d].pc = "serve" =>
           cpu[d].pc = "serve" /\ (cpu'[d].left = cpu[d].left \/ cpu'[d].left = 0)
    BY DEF IInv, Shape, Peek
  <2>. QED BY <2>1, <2>2, SameRing DEF IInv
<1>. QED BY <1>1, <1>2, <1>3, <1>4, <1>5 DEF IInv

\* The poll is scheduled again, or not.
LEMMA RescheduleKeeps ==
  ASSUME IInv, NEW c \in Cpus, Reschedule(c)
  PROVE  IInv'
<1>1. Shape'
  BY DEF IInv, Shape, Reschedule, NapiSchedule
<1>2. PollInv'
  BY DEF IInv, Shape, PollInv, PhaseInv, Reschedule, NapiSchedule
<1>3. PhaseInv'
  BY DEF IInv, Shape, PhaseInv, PollInv, Reschedule, NapiSchedule
<1>4. OrderInv'
  BY SameOrder DEF IInv, Shape, PhaseInv, Reschedule, NapiSchedule
<1>5. RingInv'
  <2>1. RingView' = RingView
    BY DEF IInv, Shape, RingView, Reschedule, NapiSchedule
  <2>2. \A d \in Cpus : cpu'[d].pc = "serve" =>
           cpu[d].pc = "serve" /\ (cpu'[d].left = cpu[d].left \/ cpu'[d].left = 0)
    BY DEF IInv, Shape, Reschedule, NapiSchedule
  <2>. QED BY <2>1, <2>2, SameRing DEF IInv
<1>. QED BY <1>1, <1>2, <1>3, <1>4, <1>5 DEF IInv

\* A fragment is let go.
LEMMA FreeKeeps ==
  ASSUME IInv, NEW h \in held, Free(h)
  PROVE  IInv'
<1>1. Shape'
  BY DEF IInv, Shape, Free
<1>2. PollInv'
  BY DEF IInv, Shape, PollInv, PhaseInv, Free
<1>3. PhaseInv'
  BY DEF IInv, Shape, PhaseInv, PollInv, Free
<1>4. OrderInv'
  BY SameOrder DEF IInv, Shape, PhaseInv, Free
<1>5. RingInv'
  <2>1. RingView' = RingView
    BY DEF IInv, Shape, RingView, Free
  <2>2. \A d \in Cpus : cpu'[d].pc = "serve" =>
           cpu[d].pc = "serve" /\ (cpu'[d].left = cpu[d].left \/ cpu'[d].left = 0)
    BY DEF IInv, Shape, Free
  <2>. QED BY <2>1, <2>2, SameRing DEF IInv
<1>. QED BY <1>1, <1>2, <1>3, <1>4, <1>5 DEF IInv

\* The queue is on its vector's list.
LEMMA StartListedKeeps ==
  ASSUME IInv, StartListed
  PROVE  IInv'
<1>1. Shape'
  BY DEF IInv, Shape, StartListed
<1>2. PollInv'
  BY DEF IInv, Shape, PollInv, PhaseInv, StartListed
<1>3. PhaseInv'
  BY DEF IInv, Shape, PhaseInv, PollInv, StartListed
<1>4. OrderInv'
  BY SameOrder DEF IInv, Shape, PhaseInv, StartListed
<1>5. RingInv'
  <2>1. RingView' = RingView
    BY DEF IInv, Shape, RingView, StartListed
  <2>2. \A c \in Cpus : cpu'[c].pc = "serve" =>
           cpu[c].pc = "serve" /\ (cpu'[c].left = cpu[c].left \/ cpu'[c].left = 0)
    BY DEF IInv, Shape, StartListed
  <2>. QED BY <2>1, <2>2, SameRing DEF IInv
<1>. QED BY <1>1, <1>2, <1>3, <1>4, <1>5 DEF IInv

\* The queue is online.
LEMMA StartOnlineKeeps ==
  ASSUME IInv, StartOnline
  PROVE  IInv'
<1>1. Shape'
  BY DEF IInv, Shape, StartOnline
<1>2. PollInv'
  BY DEF IInv, Shape, PollInv, PhaseInv, StartOnline
<1>3. PhaseInv'
  BY DEF IInv, Shape, PhaseInv, PollInv, StartOnline
<1>4. OrderInv'
  BY SameOrder DEF IInv, Shape, PhaseInv, StartOnline
<1>5. RingInv'
  <2>1. RingView' = RingView
    BY DEF IInv, Shape, RingView, StartOnline
  <2>2. \A c \in Cpus : cpu'[c].pc = "serve" =>
           cpu[c].pc = "serve" /\ (cpu'[c].left = cpu[c].left \/ cpu'[c].left = 0)
    BY DEF IInv, Shape, StartOnline
  <2>. QED BY <2>1, <2>2, SameRing DEF IInv
<1>. QED BY <1>1, <1>2, <1>3, <1>4, <1>5 DEF IInv

\* NAPI is enabled.
LEMMA OpenDoneKeeps ==
  ASSUME IInv, OpenDone
  PROVE  IInv'
<1>1. Shape'
  BY DEF IInv, Shape, OpenDone
<1>2. PollInv'
  BY DEF IInv, Shape, PollInv, PhaseInv, OpenDone
<1>3. PhaseInv'
  BY DEF IInv, Shape, PhaseInv, PollInv, OpenDone
<1>4. OrderInv'
  BY SameOrder DEF IInv, Shape, PhaseInv, OpenDone
<1>5. RingInv'
  <2>1. RingView' = RingView
    BY DEF IInv, Shape, RingView, OpenDone
  <2>2. \A c \in Cpus : cpu'[c].pc = "serve" =>
           cpu[c].pc = "serve" /\ (cpu'[c].left = cpu[c].left \/ cpu'[c].left = 0)
    BY DEF IInv, Shape, OpenDone
  <2>. QED BY <2>1, <2>2, SameRing DEF IInv
<1>. QED BY <1>1, <1>2, <1>3, <1>4, <1>5 DEF IInv

\* ifdown begins.
LEMMA OnicStopKeeps ==
  ASSUME IInv, onic_stop
  PROVE  IInv'
<1>1. Shape'
  BY DEF IInv, Shape, onic_stop
<1>2. PollInv'
  BY DEF IInv, Shape, PollInv, PhaseInv, onic_stop
<1>3. PhaseInv'
  BY DEF IInv, Shape, PhaseInv, PollInv, onic_stop
<1>4. OrderInv'
  BY SameOrder DEF IInv, Shape, PhaseInv, onic_stop
<1>5. RingInv'
  <2>1. RingView' = RingView
    BY DEF IInv, Shape, RingView, onic_stop
  <2>2. \A c \in Cpus : cpu'[c].pc = "serve" =>
           cpu[c].pc = "serve" /\ (cpu'[c].left = cpu[c].left \/ cpu'[c].left = 0)
    BY DEF IInv, Shape, onic_stop
  <2>. QED BY <2>1, <2>2, SameRing DEF IInv
<1>. QED BY <1>1, <1>2, <1>3, <1>4, <1>5 DEF IInv

\* The poll in progress has ended.
LEMMA NapiDisabledKeeps ==
  ASSUME IInv, NapiDisabled
  PROVE  IInv'
<1>1. Shape'
  BY DEF IInv, Shape, NapiDisabled
<1>2. PollInv'
  BY DEF IInv, Shape, PollInv, PhaseInv, NapiDisabled
<1>3. PhaseInv'
  BY DEF IInv, Shape, PhaseInv, PollInv, NapiDisabled
<1>4. OrderInv'
  BY SameOrder DEF IInv, Shape, PhaseInv, NapiDisabled
<1>5. RingInv'
  <2>1. RingView' = RingView
    BY DEF IInv, Shape, RingView, NapiDisabled
  <2>2. \A c \in Cpus : cpu'[c].pc = "serve" =>
           cpu[c].pc = "serve" /\ (cpu'[c].left = cpu[c].left \/ cpu'[c].left = 0)
    BY DEF IInv, Shape, NapiDisabled
  <2>. QED BY <2>1, <2>2, SameRing DEF IInv
<1>. QED BY <1>1, <1>2, <1>3, <1>4, <1>5 DEF IInv

\* The queue is offline.
LEMMA StopOfflineKeeps ==
  ASSUME IInv, StopOffline
  PROVE  IInv'
<1>1. Shape'
  BY DEF IInv, Shape, StopOffline
<1>2. PollInv'
  BY DEF IInv, Shape, PollInv, PhaseInv, StopOffline
<1>3. PhaseInv'
  BY DEF IInv, Shape, PhaseInv, PollInv, StopOffline
<1>4. OrderInv'
  BY SameOrder DEF IInv, Shape, PhaseInv, StopOffline
<1>5. RingInv'
  <2>1. RingView' = RingView
    BY DEF IInv, Shape, RingView, StopOffline
  <2>2. \A c \in Cpus : cpu'[c].pc = "serve" =>
           cpu[c].pc = "serve" /\ (cpu'[c].left = cpu[c].left \/ cpu'[c].left = 0)
    BY DEF IInv, Shape, StopOffline
  <2>. QED BY <2>1, <2>2, SameRing DEF IInv
<1>. QED BY <1>1, <1>2, <1>3, <1>4, <1>5 DEF IInv

\* Its memory is freed.
LEMMA StopFreeKeeps ==
  ASSUME IInv, StopFree
  PROVE  IInv'
<1>1. Shape'
  BY DEF IInv, Shape, StopFree
<1>2. PollInv'
  BY DEF IInv, Shape, PollInv, PhaseInv, StopFree
<1>3. PhaseInv'
  BY DEF IInv, Shape, PhaseInv, PollInv, StopFree
<1>4. OrderInv'
  BY SameOrder DEF IInv, Shape, PhaseInv, StopFree
<1>5. RingInv'
  <2>1. RingView' = RingView
    BY DEF IInv, Shape, RingView, StopFree
  <2>2. \A c \in Cpus : cpu'[c].pc = "serve" =>
           cpu[c].pc = "serve" /\ (cpu'[c].left = cpu[c].left \/ cpu'[c].left = 0)
    BY DEF IInv, Shape, StopFree
  <2>. QED BY <2>1, <2>2, SameRing DEF IInv
<1>. QED BY <1>1, <1>2, <1>3, <1>4, <1>5 DEF IInv

\* The hardware is told the last index written back.
LEMMA UpdateKeeps ==
  ASSUME IInv, NEW c \in Cpus, qdma_queue_update_pointers(c)
  PROVE  IInv'
<1>1. Shape'
  BY DEF IInv, Shape, qdma_queue_update_pointers, CmptCidxUpdate
<1>2. PollInv'
  BY DEF IInv, Shape, PollInv, PhaseInv, qdma_queue_update_pointers, CmptCidxUpdate
<1>3. PhaseInv'
  BY DEF IInv, Shape, PhaseInv, PollInv, qdma_queue_update_pointers, CmptCidxUpdate
<1>4. OrderInv'
  BY SameOrder DEF IInv, Shape, PhaseInv, qdma_queue_update_pointers, CmptCidxUpdate
<1>5. RingInv'
  <2>1. q'.cidx_cmpt = q.cidx_cmpt /\ q'.wrb_cidx = q.wrb_cidx /\ hw'.on = hw.on /\ hw'.cmpt_pidx = hw.cmpt_pidx
    BY DEF IInv, Shape, qdma_queue_update_pointers, CmptCidxUpdate
  <2>2. hw'.cmpt_cidx \in {hw.cmpt_cidx, q.wrb_cidx}
    BY DEF IInv, Shape, qdma_queue_update_pointers, CmptCidxUpdate
  <2>3. cmpt' = cmpt /\ count'.pkts = count.pkts /\ seen'.first = seen.first /\ delivered' = delivered
    BY DEF qdma_queue_update_pointers, CmptCidxUpdate
  <2>4. LeftInv'
    <3>1. CmptPending' = CmptPending
      BY <2>1 DEF CmptPending
    <3>2. \A d \in Cpus : cpu'[d].pc = "serve" => cpu'[d] = cpu[d]
      BY DEF IInv, Shape, qdma_queue_update_pointers
    <3>. QED BY <3>1, <3>2 DEF IInv, RingInv, LeftInv
  <2>. QED BY <2>1, <2>2, <2>3, <2>4, ToldIndex DEF IInv
<1>. QED BY <1>1, <1>2, <1>3, <1>4, <1>5 DEF IInv

\* A call takes the lock, with a budget that the ring can serve, or fails.
LEMMA ServiceKeeps ==
  ASSUME IInv, NEW c \in Cpus, Service(c)
  PROVE  IInv'
<1>s. \/ cpu' = [cpu EXCEPT ![c].pc = "complete", ![c].ok = FALSE]
      \/ /\ q.q_state = "ONLINE"
         /\ cpu' = [cpu EXCEPT ![c] = [pc |-> "serve", ok |-> TRUE, left |-> Min({Quota, CmptPending}),
                                       pidx |-> q.pidx, pend |-> flq.pidx_pend, proc |-> FALSE, pkt_cnt |-> 0]]
  BY DEF Service
<1>d. DOMAIN cpu' = Cpus /\ \A d \in Cpus : DOMAIN cpu'[d] = {"pc", "ok", "left", "pidx", "pend", "proc", "pkt_cnt"}
  BY <1>s DEF IInv, Shape
<1>1. Shape'
  BY <1>d DEF IInv, Shape, Service, CmptCidxUpdate
<1>2. PollInv'
  BY DEF IInv, Shape, PollInv, PhaseInv, Service, CmptCidxUpdate
<1>3. PhaseInv'
  BY DEF IInv, Shape, PhaseInv, PollInv, Service, CmptCidxUpdate
<1>4. OrderInv'
  BY SameOrder DEF IInv, Shape, PhaseInv, Service, CmptCidxUpdate
<1>5. RingInv'
  <2>1. q'.cidx_cmpt = q.cidx_cmpt /\ q'.wrb_cidx = q.wrb_cidx /\ hw'.on = hw.on /\ hw'.cmpt_pidx = hw.cmpt_pidx
    BY DEF IInv, Shape, Service, CmptCidxUpdate
  <2>2. hw'.cmpt_cidx \in {hw.cmpt_cidx, q.wrb_cidx}
    BY DEF IInv, Shape, Service, CmptCidxUpdate
  <2>3. cmpt' = cmpt /\ count'.pkts = count.pkts /\ seen'.first = seen.first /\ delivered' = delivered
    BY DEF Service, CmptCidxUpdate
  <2>4. LeftInv'
    <3>1. CmptPending' = CmptPending
      BY <2>1 DEF CmptPending
    <3>2. \A d \in Cpus : d # c => cpu'[d] = cpu[d]
      BY DEF IInv, Shape, Service
    <3>3. ASSUME cpu'[c].pc = "serve"
          PROVE  cpu'[c].left \in Nat /\ cpu'[c].left <= CmptPending
      <4>1. q.q_state = "ONLINE" /\ cpu'[c].left = Min({Quota, CmptPending})
        BY <1>s, <3>3 DEF IInv, Shape
      <4>2. CmptPending \in Nat
        <5>1. hw.on
          BY <4>1 DEF IInv, PhaseInv
        <5>. QED BY <5>1, PendingIn DEF IInv, RingInv, Slot
      <4>. QED BY <4>1, <4>2, MinOfTwo
    <3>. QED BY <3>1, <3>2, <3>3 DEF IInv, RingInv, LeftInv
  <2>. QED BY <2>1, <2>2, <2>3, <2>4, ToldIndex DEF IInv
<1>. QED BY <1>1, <1>2, <1>3, <1>4, <1>5 DEF IInv

\* The hardware is off.
LEMMA StopHwKeeps ==
  ASSUME IInv, StopHw
  PROVE  IInv'
<1>1. Shape'
  BY DEF IInv, Shape, StopHw
<1>2. PollInv'
  BY DEF IInv, Shape, PollInv, PhaseInv, StopHw
<1>3. PhaseInv'
  BY DEF IInv, Shape, PhaseInv, PollInv, StopHw
<1>4. OrderInv'
  BY SameOrder DEF IInv, Shape, PhaseInv, StopHw
<1>5. RingInv'
  <2>1. ~hw'.on
    BY DEF IInv, Shape, StopHw
  <2>2. LeftInv'
    BY ServeOn DEF IInv, StopHw, LeftInv, RingInv, PhaseInv
  <2>. QED BY <2>1, <2>2 DEF RingInv
<1>. QED BY <1>1, <1>2, <1>3, <1>4, <1>5 DEF IInv

\* A session begins: nothing is passed up yet, and the driver's index is at the ring's start.
LEMMA StartAllocKeeps ==
  ASSUME IInv, StartAlloc
  PROVE  IInv'
<1>1. Shape'
  BY DEF IInv, Shape, StartAlloc, NewCmpt, Slot
<1>2. PollInv'
  BY DEF IInv, Shape, PollInv, PhaseInv, StartAlloc, NewCmpt, Slot
<1>3. PhaseInv'
  BY DEF IInv, Shape, PhaseInv, PollInv, StartAlloc, NewCmpt, Slot
<1>4. OrderInv'
  BY DEF IInv, Shape, OrderInv, DeliveredInOrder, StartAlloc
<1>5. RingInv'
  <2>1. ~hw'.on
    BY DEF IInv, PhaseInv, StartAlloc
  <2>2. LeftInv'
    BY ServeOn DEF IInv, StartAlloc, LeftInv, RingInv
  <2>. QED BY <2>1, <2>2 DEF RingInv
<1>. QED BY <1>1, <1>2, <1>3, <1>4, <1>5 DEF IInv

\* The hardware starts with an empty completion ring.
LEMMA StartHwKeeps ==
  ASSUME IInv, StartHw
  PROVE  IInv'
<1>1. Shape'
  BY DEF IInv, Shape, StartHw
<1>2. PollInv'
  BY DEF IInv, Shape, PollInv, PhaseInv, StartHw
<1>3. PhaseInv'
  BY DEF IInv, Shape, PhaseInv, PollInv, StartHw
<1>4. OrderInv'
  BY SameOrder DEF IInv, Shape, PhaseInv, StartHw
<1>5. RingInv'
  <2>0. /\ q'.cidx_cmpt = 0 /\ q'.wrb_cidx = 0 /\ hw'.cmpt_pidx = 0 /\ hw'.cmpt_cidx = 0
        /\ delivered' = <<>> /\ count'.pkts = seen'.first
    BY DEF IInv, Shape, OrderInv, StartHw
  <2>1. CmptPending' = 0 /\ Delta(0, 0) = 0
    BY <2>0 DEF CmptPending, ring_idx_delta, Delta
  <2>2. IndicesInv'
    BY <2>0, <2>1 DEF IndicesInv, Slot, Delta
  <2>3. EntriesInv'
    <3>1. \A k \in Slot : ~(Delta(k, 0) < 0)
      BY DeltaIn DEF Slot
    <3>. QED BY <1>4, <2>0, <2>1, <3>1 DEF EntriesInv, OrderInv, Delta
  <2>4. LeftInv'
    BY ServeOn DEF IInv, StartHw, LeftInv
  <2>. QED BY <2>2, <2>3, <2>4 DEF RingInv
<1>. QED BY <1>1, <1>2, <1>3, <1>4, <1>5 DEF IInv

\* At the end of the call the index of the last completion taken is written back.
LEMMA ServeEndKeeps ==
  ASSUME IInv, NEW c \in Cpus, NEW left \in 0..NumPages, ServeEnd(c, left)
  PROVE  IInv'
<1>q. q'.q_state = q.q_state /\ q'.cidx_cmpt = q.cidx_cmpt /\ q'.wrb_cidx \in {q.wrb_cidx, q.cidx_cmpt}
      /\ DOMAIN q' = DOMAIN q
  <2>. DEFINE q1 == [q EXCEPT !.irq_en = ~(CmptPending > Quota),
                            !.pidx = cpu[c].pidx,
                            !.wrb_cidx = IF cpu[c].proc THEN q.cidx_cmpt ELSE @]
              post == ring_idx_decr(flq.pidx_pend, 1, RngSz)
  <2>1. \/ q' = q1
        \/ \E done : q' = [q1 EXCEPT !.avail = @ + done.n, !.post = post]
    BY Zenon DEF ServeEnd
  <2>2. /\ DOMAIN q1 = DOMAIN q /\ q1.q_state = q.q_state /\ q1.cidx_cmpt = q.cidx_cmpt
        /\ q1.wrb_cidx \in {q.wrb_cidx, q.cidx_cmpt}
    BY DEF IInv, Shape
  <2>. HIDE DEF q1, post
  <2>. QED BY <2>1, <2>2 DEF IInv, Shape
<1>s. DOMAIN seen' = DOMAIN seen /\ seen'.first = seen.first /\ DOMAIN count' = DOMAIN count /\ count'.pkts = count.pkts
  BY DEF IInv, Shape, ServeEnd
<1>u. /\ cpu[c].pc = "serve" /\ cpu' = [cpu EXCEPT ![c].pc = "complete"]
      /\ UNCHANGED <<cmpt, hw, napi, ctl, delivered>>
  BY DEF ServeEnd
<1>1. Shape'
  BY <1>q, <1>s, <1>u DEF IInv, Shape
<1>2. PollInv'
  BY <1>q, <1>s, <1>u DEF IInv, PollInv
<1>3. PhaseInv'
  BY <1>q, <1>s, <1>u DEF IInv, PhaseInv
<1>4. OrderInv'
  BY <1>q, <1>s, <1>u, SameOrder DEF IInv
<1>5. RingInv'
  <2>0. hw.on /\ IndicesInv /\ EntriesInv
    BY <1>u, ServeOn DEF IInv, RingInv
  <2>1. CmptPending' = CmptPending
    BY <1>u, <1>q DEF CmptPending
  <2>2. IndicesInv'
    <3>1. CASE q'.wrb_cidx = q.wrb_cidx
      BY <1>u, <1>q, <2>0, <2>1, <3>1 DEF IndicesInv
    <3>2. CASE q'.wrb_cidx = q.cidx_cmpt
      <4>1. /\ Delta(q.cidx_cmpt, q.cidx_cmpt) = 0
            /\ Delta(q.cidx_cmpt, hw.cmpt_cidx) <= Delta(q.cidx_cmpt, q.wrb_cidx) + Delta(q.wrb_cidx, hw.cmpt_cidx)
        BY <2>0 DEF IndicesInv, Delta, ring_idx_delta, Slot
      <4>2. /\ CmptPending \in Slot /\ Delta(q.cidx_cmpt, q.wrb_cidx) \in Slot
            /\ Delta(q.wrb_cidx, hw.cmpt_cidx) \in Slot /\ Delta(q.cidx_cmpt, hw.cmpt_cidx) \in Slot
        BY <2>0, PendingIn, DeltaIn DEF IndicesInv
      <4>. QED BY <1>u, <1>q, <2>0, <2>1, <3>2, <4>1, <4>2 DEF IndicesInv, Slot
    <3>. QED BY <1>q, <3>1, <3>2
  <2>3. EntriesInv'
    BY <1>u, <1>q, <1>s, <2>0, <2>1 DEF EntriesInv
  <2>4. LeftInv'
    BY <1>u, <2>1 DEF IInv, Shape, RingInv, LeftInv
  <2>. QED BY <2>2, <2>3, <2>4 DEF RingInv
<1>. QED BY <1>1, <1>2, <1>3, <1>4, <1>5 DEF IInv

\* A completion is added behind the others, for the packet that comes next.
LEMMA ReceiveKeeps ==
  ASSUME IInv, NEW len \in Lens, NEW bad \in BOOLEAN, Receive(len, bad)
  PROVE  IInv'
<1>c. /\ hw.on /\ hw'.on = hw.on /\ hw'.cmpt_pidx = ring_idx_incr(hw.cmpt_pidx, 1, CmptSz) /\ hw'.cmpt_cidx = hw.cmpt_cidx
      /\ DOMAIN hw' = DOMAIN hw /\ ring_idx_incr(hw.cmpt_pidx, 1, CmptSz) # hw.cmpt_cidx
      /\ count'.pkts = count.pkts + 1 /\ DOMAIN count' = DOMAIN count
      /\ DOMAIN cmpt' = DOMAIN cmpt /\ cmpt'[hw.cmpt_pidx].id = count.pkts + 1
      /\ \A k \in Slot : k # hw.cmpt_pidx => cmpt'[k] = cmpt[k]
  <2>1. hw.cmpt_pidx \in Slot /\ count.pkts \in Nat
    BY DEF Receive, IInv, RingInv, IndicesInv, OrderInv
  <2>. QED BY <2>1 DEF IInv, Shape, Receive
<1>n. seen.first \in Nat /\ Len(delivered) \in Nat /\ count.pkts \in Nat
  BY DEF IInv, OrderInv
<1>u. UNCHANGED <<q, napi, cpu, ctl, delivered, seen>>
  BY DEF Receive
<1>1. Shape'
  BY <1>c, <1>u DEF IInv, Shape
<1>2. PollInv'
  BY <1>c, <1>u DEF IInv, PollInv
<1>3. PhaseInv'
  BY <1>c, <1>u DEF IInv, PhaseInv
<1>4. OrderInv'
  <2>1. ctl # "allocated"
    BY <1>c, <1>u DEF IInv, PhaseInv
  <2>. QED BY <1>c, <1>u, <2>1 DEF IInv, OrderInv, DeliveredInOrder
<1>5. RingInv'
  <2>0. IndicesInv /\ EntriesInv /\ LeftInv
    BY <1>c DEF IInv, RingInv
  <2>. DEFINE p == hw.cmpt_pidx
              n == ring_idx_incr(p, 1, CmptSz)
  <2>1. p \in Slot /\ n \in Slot /\ q.cidx_cmpt \in Slot /\ q.wrb_cidx \in Slot /\ hw.cmpt_cidx \in Slot
    BY <2>0, NextIs DEF IndicesInv
  <2>2. /\ CmptPending \in Slot /\ Delta(q.cidx_cmpt, q.wrb_cidx) \in Slot
        /\ Delta(q.wrb_cidx, hw.cmpt_cidx) \in Slot
    BY <2>0, <2>1, PendingIn, DeltaIn
  \* There is room: the slot after the new entry is not the one the hardware was told.
  <2>3. CmptPending + Delta(q.cidx_cmpt, q.wrb_cidx) + Delta(q.wrb_cidx, hw.cmpt_cidx) = Delta(p, hw.cmpt_cidx)
    BY <2>0, <2>1 DEF IndicesInv, CmptPending, Delta, ring_idx_delta, Slot
  <2>4. Delta(n, hw.cmpt_cidx) = Delta(p, hw.cmpt_cidx) + 1 /\ Delta(n, hw.cmpt_cidx) \in Slot
    BY <1>c, <2>1, NextIs, DeltaIn
  <2>5. CmptPending' = Delta(n, q.cidx_cmpt)
    BY <1>c, <1>u DEF CmptPending, Delta
  <2>6. n # q.cidx_cmpt
    <3>. SUFFICES ASSUME n = q.cidx_cmpt PROVE FALSE
      OBVIOUS
    <3>1. CmptPending = CmptSz - 1
      BY <2>1 DEF CmptPending, ring_idx_delta, ring_idx_incr, Slot
    <3>. QED BY <2>2, <2>3, <2>4, <3>1 DEF Slot
  <2>7. CmptPending' = CmptPending + 1
    BY <2>1, <2>5, <2>6, NextIs DEF CmptPending, Delta
  <2>8. IndicesInv'
    <3>1. CmptPending' + Delta(q.cidx_cmpt, q.wrb_cidx) + Delta(q.wrb_cidx, hw.cmpt_cidx) < CmptSz
      BY <2>2, <2>3, <2>4, <2>7 DEF Slot
    <3>. QED BY <1>c, <1>u, <2>1, <3>1 DEF IndicesInv
  <2>9. EntriesInv'
    <3>1. count'.pkts = seen.first + Len(delivered) + CmptPending'
      BY <1>c, <1>n, <2>0, <2>2, <2>7 DEF EntriesInv, Slot
    <3>2. ASSUME NEW k \in Slot, Delta(k, q.cidx_cmpt) < CmptPending'
          PROVE  cmpt'[k].id = seen.first + Len(delivered) + 1 + Delta(k, q.cidx_cmpt)
      <4>1. CASE k = p
        <5>1. Delta(k, q.cidx_cmpt) = CmptPending
          BY <4>1 DEF CmptPending, Delta
        <5>. QED BY <1>c, <1>n, <2>0, <2>2, <4>1, <5>1 DEF EntriesInv, Slot
      <4>2. CASE k # p
        <5>1. Delta(k, q.cidx_cmpt) \in Slot /\ Delta(k, q.cidx_cmpt) # CmptPending
          BY <2>1, <4>2, DeltaIn DEF CmptPending, Delta, ring_idx_delta, Slot
        <5>2. Delta(k, q.cidx_cmpt) < CmptPending
          BY <2>2, <2>7, <3>2, <5>1 DEF Slot
        <5>. QED BY <1>c, <2>0, <4>2, <5>2 DEF EntriesInv
      <4>. QED BY <4>1, <4>2
    <3>. QED BY <1>u, <3>1, <3>2 DEF EntriesInv, Delta
  <2>10. LeftInv'
    <3>. SUFFICES ASSUME NEW d \in Cpus, cpu[d].pc = "serve"
         PROVE  cpu[d].left \in Nat /\ cpu[d].left <= CmptPending'
      BY <1>u DEF LeftInv
    <3>1. cpu[d].left \in Nat /\ cpu[d].left <= CmptPending
      BY <2>0 DEF LeftInv
    <3>. QED BY <2>2, <2>7, <3>1 DEF Slot
  <2>. QED BY <2>8, <2>9, <2>10 DEF RingInv
<1>. QED BY <1>1, <1>2, <1>3, <1>4, <1>5 DEF IInv

\* The packet passed up is the one that comes next.
LEMMA DeliverKeeps ==
  ASSUME IInv, NEW c \in Cpus, Deliver(c)
  PROVE  IInv'
<1>k. /\ cpu[c].pc = "serve" /\ cpu[c].left > 0 /\ hw.on
      /\ IndicesInv /\ EntriesInv /\ LeftInv
  <2>1. cpu[c].pc = "serve" /\ cpu[c].left > 0
    BY DEF Deliver, Deliverable, Serving
  <2>. QED BY <2>1, ServeOn DEF IInv, RingInv
<1>q. /\ DOMAIN q' = DOMAIN q /\ q'.q_state = q.q_state /\ q'.wrb_cidx = q.wrb_cidx
      /\ q'.cidx_cmpt = ring_idx_incr(q.cidx_cmpt, 1, CmptSz)
  BY <1>k, NextIs DEF IInv, Shape, Deliver, cmpt_next, IndicesInv
<1>u. /\ cpu'[c].left = cpu[c].left - 1 /\ cpu'[c].pc = cpu[c].pc /\ \A d \in Cpus : d # c => cpu'[d] = cpu[d]
      /\ DOMAIN cpu' = DOMAIN cpu /\ \A d \in Cpus : DOMAIN cpu'[d] = DOMAIN cpu[d]
  BY DEF IInv, Shape, Deliver
<1>s. DOMAIN seen' = DOMAIN seen /\ seen'.first = seen.first
  BY DEF IInv, Shape, Deliver
<1>v. UNCHANGED <<cmpt, hw, napi, ctl, count>>
  BY DEF Deliver
<1>i. Entry.id = seen.first + Len(delivered) + 1 /\ Entry.id \in Nat /\ CmptPending \in Slot /\ CmptPending > 0
  <2>1. CmptPending \in Slot
    BY <1>k, PendingIn
  <2>2. cpu[c].left \in Nat /\ cpu[c].left <= CmptPending
    BY <1>k DEF LeftInv
  <2>3. CmptPending > 0
    BY <1>k, <2>1, <2>2 DEF Slot
  <2>4. q.cidx_cmpt \in Slot /\ Delta(q.cidx_cmpt, q.cidx_cmpt) = 0
    BY <1>k DEF IndicesInv, Delta, ring_idx_delta, Slot
  <2>5. cmpt[q.cidx_cmpt].id = seen.first + Len(delivered) + 1 + 0
    BY <1>k, <2>3, <2>4 DEF EntriesInv
  <2>. QED BY <2>1, <2>3, <2>5 DEF Entry, IInv, OrderInv
<1>n. seen.first \in Nat /\ Len(delivered) \in Nat /\ count.pkts \in Nat
  BY DEF IInv, OrderInv
<1>d. \E r, l \in BOOLEAN : delivered' = Append(delivered, [id |-> Entry.id, right |-> r, chained |-> l])
  <2>. DEFINE f == LastLen(c)
              sgl == [i \in DOMAIN PktSlots(c) |-> f.sdesc[PktSlots(c)[i]]]
  <2>1. delivered' = Append(delivered, [id |-> Entry.id, right |-> DataRight(sgl, Entry),
                                        chained |-> Linear(Entry.len) /\ Len(sgl) > 1])
    BY DEF Deliver
  <2>2. DataRight(sgl, Entry) \in BOOLEAN
    BY DEF DataRight
  <2>3. (Linear(Entry.len) /\ Len(sgl) > 1) \in BOOLEAN
    OBVIOUS
  <2>. HIDE DEF sgl
  <2>. QED BY <2>1, <2>2, <2>3
<1>a. /\ delivered' \in Seq([id : Nat, right : BOOLEAN, chained : BOOLEAN])
      /\ Len(delivered') = Len(delivered) + 1
      /\ DOMAIN delivered = 1..Len(delivered) /\ DOMAIN delivered' = 1..(Len(delivered) + 1)
      /\ \A i \in 1..Len(delivered) : delivered'[i] = delivered[i]
      /\ delivered'[Len(delivered) + 1].id = seen.first + Len(delivered) + 1
  <2>1. PICK r \in BOOLEAN, l \in BOOLEAN : delivered' = Append(delivered, [id |-> Entry.id, right |-> r, chained |-> l])
    BY <1>d
  <2>2. [id |-> Entry.id, right |-> r, chained |-> l] \in [id : Nat, right : BOOLEAN, chained : BOOLEAN]
    BY <1>i
  <2>. QED BY <1>i, <2>1, <2>2 DEF IInv, OrderInv
<1>1. Shape'
  BY <1>k, <1>q, <1>u, <1>s, <1>v, <1>a DEF IInv, Shape
<1>2. PollInv'
  BY <1>k, <1>q, <1>u, <1>s, <1>v, <1>a DEF IInv, PollInv
<1>3. PhaseInv'
  BY <1>k, <1>q, <1>u, <1>s, <1>v, <1>a DEF IInv, PhaseInv
<1>4. OrderInv'
  <2>1. ctl' # "allocated"
    BY <1>k, <1>v DEF IInv, PhaseInv
  <2>2. DeliveredInOrder'
    <3>. SUFFICES ASSUME NEW i \in 1..(Len(delivered) + 1) PROVE delivered'[i].id = seen.first + i
      BY <1>a, <1>s DEF DeliveredInOrder
    <3>1. CASE i \in 1..Len(delivered)
      BY <1>a, <3>1 DEF IInv, OrderInv, DeliveredInOrder
    <3>2. CASE i = Len(delivered) + 1
      <4>1. delivered'[Len(delivered) + 1].id = seen.first + Len(delivered) + 1
        BY <1>a
      <4>2. seen.first + Len(delivered) + 1 = seen.first + (Len(delivered) + 1)
        BY <1>n
      <4>. QED BY <3>2, <4>1, <4>2
    <3>. QED BY <1>n, <3>1, <3>2
  <2>. QED BY <1>a, <1>s, <1>v, <2>1, <2>2 DEF IInv, OrderInv
<1>5. RingInv'
  <2>. DEFINE p == q.cidx_cmpt
              n == ring_idx_incr(p, 1, CmptSz)
  <2>1. p \in Slot /\ n \in Slot /\ q.wrb_cidx \in Slot /\ hw.cmpt_pidx \in Slot /\ hw.cmpt_cidx \in Slot
    BY <1>k, NextIs DEF IndicesInv
  <2>2. CmptPending' = CmptPending - 1
    <3>1. CmptPending' = Delta(hw.cmpt_pidx, n)
      BY <1>q, <1>v DEF CmptPending, Delta
    <3>. QED BY <1>i, <2>1, <3>1, NextIs DEF CmptPending, Delta
  <2>3. IndicesInv'
    <3>1. /\ Delta(p, q.wrb_cidx) \in Slot /\ Delta(q.wrb_cidx, hw.cmpt_cidx) \in Slot
      BY <2>1, DeltaIn
    <3>2. n # q.wrb_cidx
      <4>. SUFFICES ASSUME n = q.wrb_cidx PROVE FALSE
        OBVIOUS
      <4>1. Delta(p, q.wrb_cidx) = CmptSz - 1
        BY <2>1 DEF Delta, ring_idx_delta, ring_idx_incr, Slot
      <4>. QED BY <1>k, <1>i, <3>1, <4>1 DEF IndicesInv, Slot
    <3>3. Delta(n, q.wrb_cidx) = Delta(p, q.wrb_cidx) + 1
      BY <2>1, <3>2, NextIs
    <3>4. CmptPending' + Delta(n, q.wrb_cidx) + Delta(q.wrb_cidx, hw.cmpt_cidx) < CmptSz
      BY <1>k, <1>i, <2>2, <3>1, <3>3 DEF IndicesInv, Slot
    <3>. QED BY <1>q, <1>v, <2>1, <3>4 DEF IndicesInv
  <2>4. EntriesInv'
    <3>l. Len(delivered') = Len(delivered) + 1
      BY <1>a
    <3>e. count.pkts = seen.first + Len(delivered) + CmptPending
      BY <1>k DEF EntriesInv
    <3>1. count.pkts = seen.first + Len(delivered') + CmptPending'
      BY <1>i, <1>n, <2>2, <3>l, <3>e DEF Slot
    <3>2. ASSUME NEW k \in Slot, Delta(k, n) < CmptPending'
          PROVE  cmpt[k].id = seen.first + Len(delivered') + 1 + Delta(k, n)
      <4>1. k # p
        <5>. SUFFICES ASSUME k = p PROVE FALSE
          OBVIOUS
        <5>1. Delta(k, n) = CmptSz - 1
          BY <2>1 DEF Delta, ring_idx_delta, ring_idx_incr, Slot
        <5>. QED BY <1>i, <2>2, <3>2, <5>1 DEF Slot
      <4>2. Delta(k, p) > 0 /\ Delta(k, p) \in Slot
        BY <2>1, <4>1, DeltaIn DEF Delta, ring_idx_delta, Slot
      <4>3. Delta(k, n) = Delta(k, p) - 1
        BY <2>1, <4>2, NextIs
      <4>4. Delta(k, p) < CmptPending
        BY <1>i, <2>2, <3>2, <4>2, <4>3 DEF Slot
      <4>5. cmpt[k].id = seen.first + Len(delivered) + 1 + Delta(k, p)
        BY <1>k, <4>4 DEF EntriesInv
      <4>6. Delta(k, p) \in Int
        BY <4>2 DEF Slot
      <4>7. \A a, b, d \in Int : a + b + 1 + d = a + (b + 1) + 1 + (d - 1)
        OBVIOUS
      <4>. QED BY <1>n, <3>l, <4>3, <4>5, <4>6, <4>7
    <3>. QED BY <1>q, <1>s, <1>v, <3>1, <3>2 DEF EntriesInv, Delta
  <2>5. LeftInv'
    <3>1. cpu'[c].left \in Nat /\ cpu'[c].left <= CmptPending'
      <4>1. cpu[c].left \in Nat /\ cpu[c].left <= CmptPending
        BY <1>k DEF LeftInv
      <4>. QED BY <1>k, <1>i, <1>u, <2>2, <4>1 DEF Slot
    <3>2. ASSUME NEW d \in Cpus, cpu'[d].pc = "serve" PROVE d = c
      BY <1>k, <1>u, <3>2, ServeOn DEF IInv
    <3>. QED BY <3>1, <3>2 DEF LeftInv
  <2>. QED BY <2>3, <2>4, <2>5 DEF RingInv
<1>. QED BY <1>1, <1>2, <1>3, <1>4, <1>5 DEF IInv

-----------------------------------------------------------------------------
(* The theorem *)

\* The initial state
LEMMA InitHolds == Init => IInv
<1>. SUFFICES ASSUME Init PROVE IInv
  OBVIOUS
<1>1. Shape
  BY DEF Init, Shape, Idle, NewCmpt, Slot
<1>2. PollInv
  BY DEF Init, PollInv, Idle
<1>3. PhaseInv
  BY DEF Init, PhaseInv
<1>4. OrderInv
  BY DEF Init, OrderInv, DeliveredInOrder
<1>5. RingInv
  BY DEF Init, RingInv, LeftInv, Idle
<1>. QED BY <1>1, <1>2, <1>3, <1>4, <1>5 DEF IInv

\* Every step keeps the invariant.
LEMMA NextKeeps == IInv /\ [Next]_vars => IInv'
<1>. SUFFICES ASSUME IInv, [Next]_vars PROVE IInv'
  OBVIOUS
<1>1. ASSUME NEW len \in Lens, NEW bad \in BOOLEAN, Receive(len, bad) PROVE IInv'
  BY <1>1, ReceiveKeeps
<1>2. CASE Interrupt
  BY <1>2, InterruptKeeps
<1>3. ASSUME NEW c \in Cpus, onic_isr_rx_tophalf(c) PROVE IInv'
  BY <1>3, IsrKeeps
<1>4. ASSUME NEW c \in Cpus, Poll(c) PROVE IInv'
  <2>1. ASSUME NEW left \in 0..NumPages, ServeEnd(c, left) PROVE IInv'
    BY <2>1, ServeEndKeeps
  <2>. QED BY <1>4, <2>1, ServiceKeeps, ServeErrorKeeps, ServeNothingKeeps, DeliverKeeps, ServeNoMemoryKeeps,
              CompleteKeeps, PeekKeeps, UpdateKeeps, RescheduleKeeps DEF Poll
<1>5. ASSUME NEW h \in held, Free(h) PROVE IInv'
  BY <1>5, FreeKeeps
<1>6. CASE Open
  BY <1>6, StartAllocKeeps, StartHwKeeps, StartListedKeeps, StartOnlineKeeps, OpenDoneKeeps DEF Open
<1>7. CASE onic_stop
  BY <1>7, OnicStopKeeps
<1>8. CASE Close
  BY <1>8, NapiDisabledKeeps, StopOfflineKeeps, StopHwKeeps, StopFreeKeeps DEF Close
<1>9. CASE UNCHANGED vars
  <2>. USE <1>9 DEF vars
  <2>1. Shape' /\ PollInv' /\ PhaseInv' /\ OrderInv'
    BY DEF IInv, Shape, PollInv, PhaseInv, OrderInv, DeliveredInOrder
  <2>2. RingInv'
    BY SameRing DEF IInv, RingView
  <2>. QED BY <2>1, <2>2 DEF IInv
<1>. QED BY <1>1, <1>2, <1>3, <1>4, <1>5, <1>6, <1>7, <1>8, <1>9 DEF Next

\* In every reachable state NAPI, the phases of ifup and ifdown, the indices of the completion
\* ring and its entries agree: onic_rx_poll(), onic_open(), onic_stop().
THEOREM RxInvariantHolds == Spec => []IInv
<1>1. Spec => Init /\ [][Next]_vars
  BY DEF Spec
<1>. QED BY <1>1, InitHolds, NextKeeps, PTL

\* The packets of a session are passed up in the order of arrival, none left out and none
\* twice: what descq_process_completion_st_c2h() takes from the ring, poll after poll.
THEOREM DeliveredInOrderHolds == Spec => []DeliveredInOrder
<1>1. IInv => DeliveredInOrder
  BY DEF IInv, OrderInv
<1>. QED BY <1>1, RxInvariantHolds, PTL
=============================================================================
