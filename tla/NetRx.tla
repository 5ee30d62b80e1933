------------------------------- MODULE NetRx -------------------------------
(***************************************************************************)
(* The receive path of the network device: one streaming C2H queue of      *)
(* libqdma (its free list of pages, its descriptor and completion rings),  *)
(* the NAPI poll of the driver on top of it, and ifup/ifdown.              *)
(*                                                                         *)
(*   - the hardware is external: it writes packets into the buffers of the *)
(*     descriptors it was given, adds a completion and, once armed, raises *)
(*     one interrupt when there is a completion to report;                 *)
(*   - NAPI and page reference counts are the kernel's, external too;      *)
(*   - a poll is split where other threads run: what it does under         *)
(*     descq->lock is one step per packet, what it does after              *)
(*     napi_complete() may overlap the next poll on another CPU.           *)
(*                                                                         *)
(* Lengths and offsets are in units of which a buffer holds BufSz; the     *)
(* offset of a buffer in its page is counted in buffers.  The content of a *)
(* buffer is the packet and the fragment last written to it.               *)
(***************************************************************************)
EXTENDS Integers, Sequences, FiniteSets, FiniteSetsExt, SequencesExt

CONSTANTS
    RngSz,      \* descq->conf.rngsz, the size of the free list
    CmptSz,     \* descq->conf.rngsz_cmpt
    BufSz,      \* descq->conf.c2h_bufsz, a power of two here
    BufsPerPg,  \* flq->num_bufs_per_pg
    Quota,      \* ONIC_NAPI_WEIGHT
    CopyThres,  \* ONIC_RX_COPY_THRES
    Lens,       \* lengths of the packets received
    Pages,      \* the kernel's pages, numbered
    Cpus,
    MaxPkts,    \* bound on the packets received
    MaxEvents,  \* bound on ifdowns, failed allocations and faulty completions together
    MaxHeld     \* bound on the buffers the network stack keeps

VARIABLES
    sg,         \* netdev->features & NETIF_F_SG, fixed by the kernel at registration
    q,          \* the queue's software state (struct qdma_descq)
    flq,        \* its free list (struct qdma_flq)
    cmpt,       \* the completion ring in memory
    lock,       \* descq->lock: 0 or the CPU that holds it
    hw,         \* the hardware's view of the queue
    mem,        \* mem[page][i]: content of the i-th buffer of a page
    refs,       \* reference count of each page
    napi,       \* struct napi_struct
    cpu,        \* cpu[c]: the poll that runs on CPU c
    ctl,        \* progress of onic_open() and onic_stop()
    held,       \* fragments in packets that the network stack still keeps
    delivered,  \* packets passed up since the queue was started
    count,      \* how many packets and events there were so far
    seen        \* history: what the properties make an exception for

vars == <<sg, q, flq, cmpt, lock, hw, mem, refs, napi, cpu, ctl, held, delivered, count, seen>>

NoPage == 0

-----------------------------------------------------------------------------
(* Rings and pages *)

ring_idx_delta(new, old, rngsz) == IF new >= old THEN new - old ELSE new + (rngsz - old)

ring_idx_incr(idx, n, rngsz) == IF idx + n >= rngsz THEN idx + n - rngsz ELSE idx + n

ring_idx_decr(idx, n, rngsz) == IF idx >= n THEN idx - n ELSE rngsz - (n - idx)

\* v rounded up to a multiple of the largest power of two that is not above it
get_next_powof2(v) ==
    LET p == Max({b \in {2^i : i \in 0..5} : b <= v})
    IN  ((v + p - 1) \div p) * p

\* (mutant) the pages are not doubled
NumPagesJustEnough ==
    get_next_powof2((RngSz \div BufsPerPg) + (IF RngSz % BufsPerPg = 0 THEN 0 ELSE 1))

NumPages ==
    LET n == get_next_powof2((RngSz \div BufsPerPg) + (IF RngSz % BufsPerPg = 0 THEN 0 ELSE 1))
    IN  IF n < RngSz THEN 2 * n ELSE n


IsPowerOf2(n) == n \in {2^i : i \in 0..5}

\* How many buffers a packet takes, and what is in the last of them.
get_fl_nr(len) ==
    IF len = 0 THEN [nr |-> 1, last |-> BufSz]
    ELSE IF IsPowerOf2(len)
    THEN [nr |-> (len + BufSz - 1) \div BufSz, last |-> IF len % BufSz = 0 THEN BufSz ELSE len % BufSz]
    ELSE IF len <= BufSz THEN [nr |-> 1, last |-> len]
    ELSE [nr |-> (len \div BufSz) + (IF len % BufSz = 0 THEN 0 ELSE 1),
          last |-> IF len % BufSz = 0 THEN BufSz ELSE len % BufSz]

\* What the hardware takes: the buffers the data needs, and one for an empty packet.
HwBufs(len) == IF len = 0 THEN 1 ELSE (len + BufSz - 1) \div BufSz

\* The buffer size is a power of two, for which get_fl_nr() agrees with the hardware.
ASSUME BufSzAssumption == \A len \in 0..(4 * BufSz + 1) : get_fl_nr(len).nr = HwBufs(len)

\* What one call takes never leaves less outstanding than the page that is allocated from
\* may have handed out: 1023 descriptors against 64 packets of two buffers, four to a page.
ASSUME QuotaAssumption ==
    RngSz - Min({RngSz - 1, Quota * Max({HwBufs(len) : len \in Lens})}) >= BufsPerPg - 1

\* There is a ring of completions, and a poll has a budget.
ASSUME RxAssumption == CmptSz \in Nat \ {0} /\ Quota \in Nat

put_page(r, p) == [r EXCEPT ![p] = @ - 1]

\* The kernel hands out a page nobody refers to; buffers of a freed page are anybody's.
AllocPage(r) == Min({p \in Pages : r[p] <= 0})

-----------------------------------------------------------------------------
(* The free list.  Both operators work on and return [f: the free list,    *)
(* r: the reference counts, ok].                                            *)

\* The next buffer of the page at alloc_idx goes into descriptor idx.
FillOne(s, idx) ==
    LET pi == s.f.alloc_idx % NumPages
        p == s.f.pg[pi]
    IN  IF ~s.ok THEN s
        ELSE IF p.off + 1 > BufsPerPg
        THEN [s EXCEPT !.ok = FALSE, !.f.sdesc[idx] = [pg |-> NoPage, off |-> 0, len |-> 0]]
        ELSE [s EXCEPT !.f.sdesc[idx] = [pg |-> p.pg, off |-> p.off, len |-> BufSz],
                       !.f.pg[pi].off = @ + 1,
                       !.f.alloc_idx = IF p.off + 2 > BufsPerPg THEN @ + 1 ELSE @,
                       !.r[p.pg] = @ + 1,
                       !.n = @ + 1]

\* The page slots whose buffers the next n consumed ones are counted against.
RecycleBuffer(f) ==
    LET used == {k \in 0..(NumPages - 1) : f.pg[(f.recycle_idx + k) % NumPages].off > 0}
    IN  IF used = {} THEN f
        ELSE [f EXCEPT !.pg[(f.recycle_idx + Min(used)) % NumPages].off = @ - 1]

\* One round of the second loop of flq_refill_pages(): a page with no buffer
\* outstanding is replaced by a new one, until the page that is being allocated from.
ReplacePage(s) ==
    LET pi == s.f.recycle_idx % NumPages
        dropped == put_page(s.r, s.f.pg[pi].pg)
        new == AllocPage(dropped)
    IN  IF ~s.ok \/ s.f.pg[pi].off > 0 \/ s.f.recycle_idx = s.f.alloc_idx THEN s
        ELSE IF s.left = 0 THEN [s EXCEPT !.ok = FALSE, !.oom = TRUE, !.r = dropped, !.f.pg[pi].mapped = FALSE]
        ELSE [s EXCEPT !.left = @ - 1,
                       !.r = [dropped EXCEPT ![new] = 1],
                       !.f.pg[pi] = [pg |-> new, off |-> 0, mapped |-> TRUE],
                       !.f.recycle_idx = @ + 1]


Upto(n) == [i \in 1..n |-> i]

\* The steps above for FoldLeft, with an argument that is evaluated once.
flq_fill_one(s, idx) == CHOOSE t \in {FillOne(v, idx) : v \in {s}} : TRUE
RecycleOne(f, i) == CHOOSE g \in {RecycleBuffer(v) : v \in {f}} : TRUE
ReplaceOne(s, i) == CHOOSE t \in {ReplacePage(v) : v \in {s}} : TRUE

\* flq_refill_pages() for a queue with a packet handler, whose pages the stack puts.
\* left is the number of page allocations that succeed.
flq_refill_pages(f, r, n, left) ==
    FoldLeft(ReplaceOne, [f |-> FoldLeft(RecycleOne, f, Upto(n)), r |-> r, ok |-> TRUE, oom |-> FALSE, left |-> left, n |-> 0],
             Upto(NumPages))

\* qdma_flq_refill(): n descriptors from idx on get new buffers.
qdma_flq_refill(f, r, idx, n, left) ==
    LET s == flq_refill_pages(f, r, n, left)
        slots == [i \in 1..n |-> ring_idx_incr(idx, i - 1, RngSz)]
    IN  FoldLeft(flq_fill_one, [s EXCEPT !.ok = TRUE], slots)

\* flq_fill_page_one() for every page of a new free list.
FillPages(r) ==
    LET free == {p \in Pages : r[p] <= 0}
        Rank(p) == Cardinality({x \in free : x < p})
    IN  [pg |-> [i \in 0..(NumPages - 1) |->
                   [pg |-> CHOOSE p \in free : Rank(p) = i, off |-> 0, mapped |-> TRUE]],
         r |-> [p \in Pages |-> IF p \in free /\ Rank(p) < NumPages THEN 1 ELSE r[p]]]

NoFlq == [pg |-> [i \in 0..(NumPages - 1) |-> [pg |-> NoPage, off |-> 0, mapped |-> FALSE]],
          sdesc |-> [i \in 0..(RngSz - 1) |-> [pg |-> NoPage, off |-> 0, len |-> 0]],
          alloc_idx |-> 0, recycle_idx |-> 0, pidx_pend |-> 0, pkt_cnt |-> 0]

\* descq_flq_alloc_resource()
descq_flq_alloc_resource(r) ==
    LET p == FillPages(r)
    IN  FoldLeft(flq_fill_one, [f |-> [NoFlq EXCEPT !.pg = p.pg], r |-> p.r, ok |-> TRUE, oom |-> FALSE, left |-> 0, n |-> 0],
                 [i \in 1..RngSz |-> i - 1])

\* (mutant) only the page's own reference is put
FreePagesOnce(f, r) ==
    FoldLeft(LAMBDA s, i : IF f.pg[i - 1].pg = NoPage THEN s ELSE put_page(s, f.pg[i - 1].pg),
             r, Upto(NumPages))

\* descq_flq_free_page_resource(): as many references as buffers are outstanding, and one.
descq_flq_free_page_resource(f, r) ==
    FoldLeft(LAMBDA s, i : IF f.pg[i - 1].pg = NoPage THEN s
                           ELSE [s EXCEPT ![f.pg[i - 1].pg] = @ - (f.pg[i - 1].off + 1)],
             r, Upto(NumPages))


-----------------------------------------------------------------------------
(* The hardware (external) *)

\* Descriptors the hardware may use: those before the last index it was given.
Owned == {i \in 0..(RngSz - 1) : ring_idx_delta(i, hw.cidx, RngSz) < ring_idx_delta(hw.pidx, hw.cidx, RngSz)}

CmptPending == ring_idx_delta(hw.cmpt_pidx, q.cidx_cmpt, CmptSz)

\* A packet is written to as many buffers as it needs and its completion follows.
Receive(len, bad) ==
    LET nr == HwBufs(len)
        slots == [i \in 1..nr |-> ring_idx_incr(hw.cidx, i - 1, RngSz)]
        id == count.pkts + 1
    IN  /\ hw.on
        /\ count.pkts < MaxPkts
        /\ bad => count.events < MaxEvents
        /\ nr <= Cardinality(Owned)
        /\ ring_idx_incr(hw.cmpt_pidx, 1, CmptSz) # hw.cmpt_cidx
        /\ mem' = [p \in Pages |-> [b \in 0..(BufsPerPg - 1) |->
                     IF \E i \in 1..nr : flq.sdesc[slots[i]].pg = p /\ flq.sdesc[slots[i]].off = b
                     THEN <<id, CHOOSE i \in 1..nr : flq.sdesc[slots[i]].pg = p /\ flq.sdesc[slots[i]].off = b>>
                     ELSE mem[p][b]]]
        /\ cmpt' = [cmpt EXCEPT ![hw.cmpt_pidx] = [color |-> hw.color, len |-> len, err |-> bad, id |-> id]]
        /\ hw' = [hw EXCEPT !.cidx = ring_idx_incr(@, nr, RngSz),
                            !.cmpt_pidx = ring_idx_incr(@, 1, CmptSz),
                            !.color = IF hw.cmpt_pidx + 1 = CmptSz THEN 1 - @ ELSE @]
        /\ count' = [count EXCEPT !.pkts = id, !.events = IF bad THEN @ + 1 ELSE @]
        /\ UNCHANGED <<sg, q, flq, lock, refs, napi, cpu, ctl, held, delivered, seen>>

\* An armed queue interrupts once (timer or counter, TRIG_MODE_COMBO).
Interrupt ==
    /\ hw.on /\ hw.armed /\ hw.cmpt_pidx # hw.cmpt_cidx
    /\ hw' = [hw EXCEPT !.armed = FALSE, !.irq = TRUE]
    /\ UNCHANGED <<sg, q, flq, cmpt, lock, mem, refs, napi, cpu, ctl, held, delivered, count, seen>>

\* queue_cmpt_cidx_update(): the index and, with it, whether to interrupt again.
CmptCidxUpdate(h) == [h EXCEPT !.cmpt_cidx = q.wrb_cidx, !.armed = q.irq_en]

-----------------------------------------------------------------------------
(* NAPI (external) *)

\* napi_schedule() on CPU c.  A disabled instance counts as scheduled.
NapiSchedule(n, c) ==
    IF n.disabling THEN n
    ELSE IF n.st = "idle" THEN [n EXCEPT !.st = "sched", !.cpu = c]
    ELSE [n EXCEPT !.missed = TRUE]

\* napi_complete() on CPU c: a schedule that was missed is made up for.
NapiComplete(n, c) ==
    IF n.missed THEN [n EXCEPT !.missed = FALSE, !.polling = FALSE, !.cpu = c]
    ELSE [n EXCEPT !.st = "idle", !.polling = FALSE]

-----------------------------------------------------------------------------
(* Interrupt and poll *)

\* data_intr_direct() for the queues listed on the vector, onic_isr_rx_tophalf().
onic_isr_rx_tophalf(c) ==
    /\ hw.irq
    /\ hw' = [hw EXCEPT !.irq = FALSE]
    /\ napi' = IF q.listed THEN NapiSchedule(napi, c) ELSE napi
    /\ seen' = [seen EXCEPT !.swallowed = @ \/ ~q.listed \/ napi.st = "disabled"]
    /\ UNCHANGED <<sg, q, flq, cmpt, lock, mem, refs, cpu, ctl, held, delivered, count>>

\* The call of onic_rx_poll(), up to descq->lock in qdma_descq_service_cmpl_update(), and
\* the first part of descq_process_completion_st_c2h().
Service(c) ==
    LET pend == CmptPending
        fails == q.q_state # "ONLINE" \/ q.err
    IN  /\ cpu[c].pc = "idle" /\ napi.st = "sched" /\ napi.cpu = c /\ ~napi.polling
        /\ lock = 0
        /\ IF fails \/ pend = 0
           THEN /\ cpu' = [cpu EXCEPT ![c].pc = "complete", ![c].ok = FALSE]
                /\ hw' = IF fails THEN hw ELSE CmptCidxUpdate(hw)
                /\ UNCHANGED lock
           ELSE /\ cpu' = [cpu EXCEPT ![c] = [pc |-> "serve", ok |-> TRUE, left |-> Min({Quota, pend}),
                                              pidx |-> q.pidx, pend |-> flq.pidx_pend, proc |-> FALSE, pkt_cnt |-> 0]]
                /\ lock' = c
                /\ UNCHANGED hw
        /\ napi' = [napi EXCEPT !.polling = TRUE]
        /\ UNCHANGED <<sg, q, flq, cmpt, mem, refs, ctl, held, delivered, count, seen>>


Entry == cmpt[q.cidx_cmpt]

\* The descriptors that rcv_pkt() takes the next packet to be in, and their buffers.
PktSlots(c) == [i \in 1..get_fl_nr(Entry.len).nr |-> ring_idx_incr(cpu[c].pidx, i - 1, RngSz)]
PktSgl(c) == [i \in DOMAIN PktSlots(c) |-> flq.sdesc[PktSlots(c)[i]]]

\* rcv_pkt() sets the length of the last descriptor first.
LastLen(c) ==
    [flq EXCEPT !.sdesc[Last(PktSlots(c))].len = IF Entry.len = 0 THEN 0 ELSE get_fl_nr(Entry.len).last]

\* cmpt_next()
cmpt_next(qq) ==
    IF qq.cidx_cmpt + 1 = CmptSz THEN [qq EXCEPT !.cidx_cmpt = 0, !.color = 1 - @]
    ELSE [qq EXCEPT !.cidx_cmpt = @ + 1]


Serving(c) == cpu[c].pc = "serve" /\ cpu[c].left > 0

Stop(c) == cpu' = [cpu EXCEPT ![c].left = 0]

\* descq_cmpl_err_check() finds an error: the queue is halted.
ServeError(c) ==
    /\ Serving(c) /\ Entry.err
    /\ q' = [q EXCEPT !.err = TRUE]
    /\ cpu' = [cpu EXCEPT ![c].pc = "complete", ![c].ok = FALSE]
    /\ lock' = 0
    /\ seen' = [seen EXCEPT !.failed = @ \/ cpu[c].proc]
    /\ UNCHANGED <<sg, flq, cmpt, hw, mem, refs, napi, ctl, held, delivered, count>>

\* An entry that is not new, or more buffers than are left: stop here.
ServeNothing(c) ==
    /\ Serving(c) /\ ~Entry.err
    /\ Entry.color # q.color \/ q.avail < Len(PktSlots(c))
    /\ flq' = IF Entry.color # q.color THEN flq ELSE LastLen(c)
    /\ Stop(c)
    /\ UNCHANGED <<sg, q, cmpt, lock, hw, mem, refs, napi, ctl, held, delivered, count, seen>>

Deliverable(c) ==
    Serving(c) /\ ~Entry.err /\ Entry.color = q.color /\ q.avail >= Len(PktSlots(c))

\* (mutant) the completion of a packet there was no memory for is taken
NoMemorySkips(c) ==
    /\ Deliverable(c) /\ count.events < MaxEvents
    /\ q' = cmpt_next([q EXCEPT !.avail = @ - Len(PktSlots(c))])
    /\ flq' = LastLen(c)
    /\ refs' = FoldLeft(LAMBDA r, d : put_page(r, d.pg), refs, PktSgl(c))
    /\ count' = [count EXCEPT !.events = @ + 1]
    /\ seen' = [seen EXCEPT !.failed = TRUE]
    /\ cpu' = [cpu EXCEPT ![c].left = @ - 1]
    /\ UNCHANGED <<sg, cmpt, lock, hw, mem, napi, ctl, held, delivered>>

\* onic_rx_deliver() has no memory for the packet: onic_rx_pkt_process() puts the pages
\* and rcv_pkt() returns before the descriptors are taken.
ServeNoMemory(c) ==
    /\ Deliverable(c) /\ count.events < MaxEvents
    /\ q' = [q EXCEPT !.avail = @ - Len(PktSlots(c))]
    /\ flq' = LastLen(c)
    /\ refs' = FoldLeft(LAMBDA r, d : put_page(r, d.pg), refs, PktSgl(c))
    /\ count' = [count EXCEPT !.events = @ + 1]
    /\ seen' = [seen EXCEPT !.failed = TRUE]
    /\ Stop(c)
    /\ UNCHANGED <<sg, cmpt, lock, hw, mem, napi, ctl, held, delivered>>

Linear(len) == len <= CopyThres \/ ~sg

\* What the network stack is given: the packet's bytes are copied from the first buffer on,
\* or its buffers become fragments.
DataRight(sgl, e) ==
    IF Linear(e.len)
    THEN \A i \in 1..((e.len + BufSz - 1) \div BufSz) :
            /\ sgl[1].off + i - 1 < BufsPerPg
            /\ mem[sgl[1].pg][sgl[1].off + i - 1] = <<e.id, i>>
    ELSE \A i \in DOMAIN sgl :
            /\ mem[sgl[i].pg][sgl[i].off] = <<e.id, i>>
            /\ sgl[i].len = IF i < Len(sgl) THEN BufSz ELSE e.len - (i - 1) * BufSz

\* rcv_pkt() with onic_rx_pkt_process() and onic_rx_deliver(); then cmpt_next().
Deliver(c) ==
    LET f == LastLen(c)
        sgl == [i \in DOMAIN PktSlots(c) |-> f.sdesc[PktSlots(c)[i]]]
        next == ring_idx_incr(Last(PktSlots(c)), 1, RngSz)
    IN  /\ Deliverable(c)
        /\ Linear(Entry.len) \/ Cardinality(held) + Len(sgl) <= MaxHeld
        /\ refs' = IF Linear(Entry.len) THEN put_page(refs, sgl[1].pg) ELSE refs
        /\ held' = IF Linear(Entry.len) THEN held
                   ELSE held \cup {[pg |-> sgl[i].pg, off |-> sgl[i].off, data |-> <<Entry.id, i>>] : i \in DOMAIN sgl}
        /\ delivered' = Append(delivered, [id |-> Entry.id, right |-> DataRight(sgl, Entry),
                                           chained |-> Linear(Entry.len) /\ Len(sgl) > 1])
        /\ flq' = [f EXCEPT !.pidx_pend = next]
        /\ q' = cmpt_next([q EXCEPT !.avail = @ - Len(sgl)])
        /\ cpu' = [cpu EXCEPT ![c].left = @ - 1, ![c].pidx = next, ![c].proc = TRUE]
        /\ seen' = [seen EXCEPT !.short = @ \/ (Linear(Entry.len) /\ Len(sgl) > 1)]
        /\ UNCHANGED <<sg, cmpt, lock, hw, mem, napi, ctl, count>>

\* The rest of descq_process_completion_st_c2h() for a queue with a packet handler, in
\* interrupt moderation.  left: the page allocations that succeed in the refill.
ServeEnd(c, left) ==
    LET pend == CmptPending
        used == ring_idx_delta(flq.pidx_pend, cpu[c].pend, RngSz)
        refilled == cpu[c].proc /\ used > 0
        q1 == [q EXCEPT !.irq_en = ~(pend > Quota),
                        !.pidx = cpu[c].pidx,
                        !.wrb_cidx = IF cpu[c].proc THEN q.cidx_cmpt ELSE @]
    IN  /\ cpu[c].pc = "serve" /\ cpu[c].left = 0
        /\ IF refilled
           THEN \E done \in {qdma_flq_refill([flq EXCEPT !.pkt_cnt = pend], refs, cpu[c].pend, used, left)} :
                /\ done.oom = (left < NumPages)
                /\ done.oom => count.events < MaxEvents
                /\ flq' = done.f /\ refs' = done.r
                /\ q' = [q1 EXCEPT !.avail = @ + done.n, !.post = ring_idx_decr(flq.pidx_pend, 1, RngSz)]
                /\ seen' = [seen EXCEPT !.failed = @ \/ done.oom]
                /\ count' = [count EXCEPT !.events = IF done.oom THEN @ + 1 ELSE @]
           ELSE /\ left = NumPages
                /\ flq' = [flq EXCEPT !.pkt_cnt = pend]
                /\ q' = q1
                /\ UNCHANGED <<refs, seen, count>>
        /\ cpu' = [cpu EXCEPT ![c].pc = "complete"]
        /\ lock' = 0
        /\ UNCHANGED <<sg, cmpt, hw, mem, napi, ctl, held, delivered>>

\* (mutant) a poll that left nothing behind returns before the update of the index
CompleteNoUpdate(c) ==
    /\ cpu[c].pc = "complete"
    /\ napi' = NapiComplete(napi, c)
    /\ cpu' = [cpu EXCEPT ![c].pc = IF cpu[c].ok /\ flq.pkt_cnt > 0 THEN "peek" ELSE "idle"]
    /\ UNCHANGED <<sg, q, flq, cmpt, lock, hw, mem, refs, ctl, held, delivered, count, seen>>

\* napi_complete(); a failed qdma_queue_service() ends the poll.
Complete(c) ==
    /\ cpu[c].pc = "complete"
    /\ napi' = NapiComplete(napi, c)
    /\ cpu' = [cpu EXCEPT ![c].pc = IF cpu[c].ok THEN "peek" ELSE "idle"]
    /\ UNCHANGED <<sg, q, flq, cmpt, lock, hw, mem, refs, ctl, held, delivered, count, seen>>


\* qdma_queue_c2h_peek(), without the lock
Peek(c) ==
    /\ cpu[c].pc = "peek"
    /\ cpu' = [cpu EXCEPT ![c].pc = "update", ![c].pkt_cnt = flq.pkt_cnt]
    /\ UNCHANGED <<sg, q, flq, cmpt, lock, hw, mem, refs, napi, ctl, held, delivered, count, seen>>

qdma_queue_update_pointers(c) ==
    /\ cpu[c].pc = "update" /\ lock = 0
    /\ hw' = IF q.q_state = "ONLINE" THEN [CmptCidxUpdate(hw) EXCEPT !.pidx = q.post] ELSE hw
    /\ cpu' = [cpu EXCEPT ![c].pc = "reschedule"]
    /\ UNCHANGED <<sg, q, flq, cmpt, lock, mem, refs, napi, ctl, held, delivered, count, seen>>

\* napi_reschedule() when there is as much as this poll was allowed; onic_rx_poll() returns.
Reschedule(c) ==
    /\ cpu[c].pc = "reschedule"
    /\ napi' = IF cpu[c].pkt_cnt >= Quota THEN NapiSchedule(napi, c) ELSE napi
    /\ cpu' = [cpu EXCEPT ![c] = [pc |-> "idle", ok |-> FALSE, left |-> 0, pidx |-> 0, pend |-> 0,
                                  proc |-> FALSE, pkt_cnt |-> 0]]
    /\ UNCHANGED <<sg, q, flq, cmpt, lock, hw, mem, refs, ctl, held, delivered, count, seen>>

\* The network stack is done with a fragment of a packet (external).
Free(h) ==
    /\ held' = held \ {h}
    /\ refs' = put_page(refs, h.pg)
    /\ UNCHANGED <<sg, q, flq, cmpt, lock, hw, mem, napi, cpu, ctl, delivered, count, seen>>

-----------------------------------------------------------------------------
(* onic_open(): qdma_queue_start(), then napi_enable() *)

NewCmpt == [i \in 0..(CmptSz - 1) |-> [color |-> 0, len |-> 0, err |-> FALSE, id |-> 0]]

\* qdma_descq_config_complete() and qdma_descq_alloc_resource()
StartAlloc ==
    /\ ctl = "down" /\ q.q_state = "ENABLED"
    /\ \E s \in {descq_flq_alloc_resource(refs)} : flq' = s.f /\ refs' = s.r
    /\ cmpt' = NewCmpt
    /\ q' = [q EXCEPT !.avail = RngSz - 1, !.pidx = 0, !.cidx_cmpt = 0, !.color = 1, !.irq_en = TRUE]
    /\ delivered' = <<>>
    /\ seen' = [seen EXCEPT !.swallowed = FALSE, !.first = count.pkts]
    /\ ctl' = "allocated"
    /\ UNCHANGED <<sg, lock, hw, mem, napi, cpu, held, count>>

\* qdma_descq_prog_hw(): the hardware runs, and interrupts, from here on.
StartHw ==
    /\ ctl = "allocated"
    /\ q' = [q EXCEPT !.wrb_cidx = 0, !.post = RngSz - 1]
    /\ hw' = [on |-> TRUE, cidx |-> 0, pidx |-> RngSz - 1, cmpt_pidx |-> 0, cmpt_cidx |-> 0, color |-> 1,
              armed |-> q.irq_en, irq |-> hw.irq]
    /\ ctl' = "programmed"
    /\ UNCHANGED <<sg, flq, cmpt, lock, mem, refs, napi, cpu, held, delivered, count, seen>>

\* The queue is put on its vector's list.
StartListed ==
    /\ ctl = "programmed"
    /\ q' = [q EXCEPT !.listed = TRUE]
    /\ ctl' = "listed"
    /\ UNCHANGED <<sg, flq, cmpt, lock, hw, mem, refs, napi, cpu, held, delivered, count, seen>>

StartOnline ==
    /\ ctl = "listed" /\ lock = 0
    /\ q' = [q EXCEPT !.q_state = "ONLINE"]
    /\ ctl' = "online"
    /\ UNCHANGED <<sg, flq, cmpt, lock, hw, mem, refs, napi, cpu, held, delivered, count, seen>>

\* napi_enable()
OpenDone ==
    /\ ctl = "online"
    /\ napi' = [napi EXCEPT !.st = "idle"]
    /\ ctl' = "up"
    /\ UNCHANGED <<sg, q, flq, cmpt, lock, hw, mem, refs, cpu, held, delivered, count, seen>>

(* onic_stop(): napi_disable(), then qdma_queue_stop() *)

onic_stop ==
    /\ ctl = "up" /\ count.events < MaxEvents
    /\ napi' = [napi EXCEPT !.disabling = TRUE]
    /\ count' = [count EXCEPT !.events = @ + 1]
    /\ ctl' = "disabling"
    /\ UNCHANGED <<sg, q, flq, cmpt, lock, hw, mem, refs, cpu, held, delivered, seen>>

\* napi_disable() waits until the instance is not scheduled and takes it.
NapiDisabled ==
    /\ ctl = "disabling" /\ napi.st = "idle"
    /\ napi' = [napi EXCEPT !.st = "disabled", !.disabling = FALSE]
    /\ ctl' = "disabled"
    /\ UNCHANGED <<sg, q, flq, cmpt, lock, hw, mem, refs, cpu, held, delivered, count, seen>>


StopOffline ==
    /\ ctl = "disabled" /\ lock = 0
    /\ q' = [q EXCEPT !.q_state = "ENABLED"]
    /\ ctl' = "offline"
    /\ UNCHANGED <<sg, flq, cmpt, lock, hw, mem, refs, napi, cpu, held, delivered, count, seen>>

\* qdma_descq_context_clear(): the hardware is off.
StopHw ==
    /\ ctl = "offline"
    /\ hw' = [hw EXCEPT !.on = FALSE, !.armed = FALSE]
    /\ ctl' = "cleared"
    /\ UNCHANGED <<sg, q, flq, cmpt, lock, mem, refs, napi, cpu, held, delivered, count, seen>>

\* The queue leaves its vector's list; qdma_descq_free_resource().
StopFree ==
    /\ ctl = "cleared"
    /\ q' = [q EXCEPT !.listed = FALSE]
    /\ flq' = NoFlq
    /\ refs' = descq_flq_free_page_resource(flq, refs)
    /\ ctl' = "down"
    /\ UNCHANGED <<sg, cmpt, lock, hw, mem, napi, cpu, held, delivered, count, seen>>

-----------------------------------------------------------------------------
Idle == [pc |-> "idle", ok |-> FALSE, left |-> 0, pidx |-> 0, pend |-> 0, proc |-> FALSE, pkt_cnt |-> 0]

\* After probing: the queue was added, its NAPI instance is there and disabled.
Init ==
    /\ sg \in BOOLEAN
    /\ q = [q_state |-> "ENABLED", err |-> FALSE, listed |-> FALSE, avail |-> 0, pidx |-> 0, cidx_cmpt |-> 0,
            color |-> 0, wrb_cidx |-> 0, irq_en |-> FALSE, post |-> 0]
    /\ flq = NoFlq
    /\ cmpt = NewCmpt
    /\ lock = 0
    /\ hw = [on |-> FALSE, cidx |-> 0, pidx |-> 0, cmpt_pidx |-> 0, cmpt_cidx |-> 0, color |-> 0,
             armed |-> FALSE, irq |-> FALSE]
    /\ mem = [p \in Pages |-> [b \in 0..(BufsPerPg - 1) |-> <<0, 0>>]]
    /\ refs = [p \in Pages |-> 0]
    /\ napi = [st |-> "disabled", missed |-> FALSE, polling |-> FALSE, disabling |-> FALSE, cpu |-> 0]
    /\ cpu = [c \in Cpus |-> Idle]
    /\ ctl = "down"
    /\ held = {}
    /\ delivered = <<>>
    /\ count = [pkts |-> 0, events |-> 0]
    /\ seen = [failed |-> FALSE, short |-> FALSE, swallowed |-> FALSE, first |-> 0]

Poll(c) ==
    \/ Service(c) \/ ServeError(c) \/ ServeNothing(c) \/ Deliver(c) \/ ServeNoMemory(c)
    \/ \E left \in 0..NumPages : ServeEnd(c, left)
    \/ Complete(c) \/ Peek(c) \/ qdma_queue_update_pointers(c) \/ Reschedule(c)

Open == StartAlloc \/ StartHw \/ StartListed \/ StartOnline \/ OpenDone

Close == NapiDisabled \/ StopOffline \/ StopHw \/ StopFree

Next ==
    \/ \E len \in Lens, bad \in BOOLEAN : Receive(len, bad)
    \/ Interrupt
    \/ \E c \in Cpus : onic_isr_rx_tophalf(c) \/ Poll(c)
    \/ \E h \in held : Free(h)
    \/ Open \/ onic_stop \/ Close

\* The hardware's timer runs; interrupts are taken; the CPUs run their polls and get the
\* spinlock; ifup and ifdown go on; the network stack lets go of packets.
Fairness ==
    /\ WF_vars(Interrupt)
    /\ WF_vars(\E c \in Cpus : onic_isr_rx_tophalf(c))
    /\ \A c \in Cpus : WF_vars(Poll(c))
    /\ WF_vars(\E h \in held : Free(h))
    /\ WF_vars(Open) /\ WF_vars(Close)

Spec == Init /\ [][Next]_vars /\ Fairness

-----------------------------------------------------------------------------
(* Properties *)

\* The slots whose buffers nobody but the hardware may have: given to it, or written by it
\* and not yet passed up.
Live ==
    IF ~hw.on THEN {}
    ELSE LET next == IF \E c \in Cpus : cpu[c].pc = "serve"
                     THEN cpu[CHOOSE c \in Cpus : cpu[c].pc = "serve"].pidx ELSE q.pidx
         IN  {i \in 0..(RngSz - 1) : ring_idx_delta(i, next, RngSz) < ring_idx_delta(hw.pidx, next, RngSz)}

At(x) == <<x.pg, x.off>>

\* Nothing the hardware writes can land in memory that is in use: the descriptors it has and
\* the packets not yet passed up are all in buffers of their own, on pages that are mapped
\* and not free, and no fragment the network stack keeps is in one of them or changes.  So
\* what is passed up is what arrived, except that a copied packet in several buffers is right
\* only if they happen to be adjacent.  This is what flq_refill_pages() and flq_fill_one()
\* make of alloc_idx and recycle_idx.
BuffersApart ==
    ~seen.failed =>
        /\ \A i, j \in Live : i # j => At(flq.sdesc[i]) # At(flq.sdesc[j])
        /\ \A i \in Live : flq.sdesc[i].pg # NoPage /\ refs[flq.sdesc[i].pg] > 0
        /\ \A i \in Live, h \in held : At(flq.sdesc[i]) # At(h)
        /\ \A h \in held : mem[h.pg][h.off] = h.data
        /\ \A i \in DOMAIN delivered : delivered[i].right \/ delivered[i].chained

\* Slots whose packet was passed up in the call that has the lock, to be refilled at its end.
Taken ==
    UNION {{i \in 0..(RngSz - 1) : ring_idx_delta(i, cpu[c].pend, RngSz) < ring_idx_delta(cpu[c].pidx, cpu[c].pend, RngSz)}
             : c \in {d \in Cpus : cpu[d].pc = "serve"}}

\* The users of a page: the free list itself, its descriptors not yet taken, the stack.
Users(p) ==
    Cardinality({i \in 0..(NumPages - 1) : flq.pg[i].pg = p})
    + Cardinality({i \in (0..(RngSz - 1)) \ Taken : flq.sdesc[i].pg = p})
    + Cardinality({h \in held : h.pg = p})

\* A page has a reference for each of its users, at every moment and across ifdown and ifup:
\* it is never freed under a user and, but for packets in several buffers that are copied
\* (onic_rx_deliver() puts the first buffer's page only), none is kept for ever.
PageRefs ==
    ~seen.failed =>
        \A p \in Pages : refs[p] >= Users(p) /\ (~seen.short => refs[p] = Users(p))

\* The network stack gets the packets of a session in the order of arrival, none left out and
\* none twice, whichever CPUs the polls ran on, and even if memory ran out in between.  The
\* rings' indices and the index the hardware was told keep behind one another.
DeliveredInOrder == \A i \in DOMAIN delivered : delivered[i].id = seen.first + i

\* The device is up, no interrupt was lost on the way there, and nothing failed.
Sound == ctl = "up" /\ ~seen.swallowed /\ ~q.err /\ ~seen.failed

\* A packet that arrived is passed up: no interrupt is missed between napi_complete(), the
\* update of the completion index that arms the next one, and napi_reschedule().
PacketsDelivered == Sound ~> (~Sound \/ seen.first + Len(delivered) = count.pkts)

=============================================================================
