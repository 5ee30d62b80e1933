------------------------------ MODULE MmDescq ------------------------------
(***************************************************************************)
(* Blocking memory-mapped requests on one descriptor queue of libqdma, in  *)
(* the interrupt mode the driver selects (DIRECT_INTR_MODE):               *)
(*                                                                         *)
(*   - callers of qdma_request_submit(), one per request;                  *)
(*   - the work item intr_work() that the interrupt handler schedules;     *)
(*   - qdma_queue_stop() and qdma_queue_start(), serialised by the network *)
(*     device's ifdown and ifup;                                           *)
(*   - the DMA engine, which is external: it moves the descriptors the     *)
(*     driver made visible, writes its consumer index back and interrupts  *)
(*     when it is armed.                                                   *)
(*                                                                         *)
(* A request is known by the number of descriptors it needs; offset counts *)
(* descriptors.  The bodies of the two loops under descq->lock are steps   *)
(* of their own, taken while the lock is held.                             *)
(***************************************************************************)
EXTENDS Integers, Sequences, FiniteSets, SequencesExt

CONSTANTS
    Reqs,         \* the requests; each is submitted at most once
    NoReq,        \* the content of a slot no descriptor was written to
    Need,         \* Need[r]: descriptors that request r takes
    RngSz,        \* descq->conf.rngsz
    C2H,          \* TRUE: a C2H queue, which has fp_descq_c2h_packet set
    MaxTimeouts,  \* bound on the waits that time out
    MaxStops      \* bound on qdma_queue_stop() calls

ASSUME NoReqAssumption == NoReq \notin Reqs
ASSUME NeedAssumption == Need \in [Reqs -> Nat \ {0}]
ASSUME RngSzAssumption == RngSz \in Nat \ {0, 1}
ASSUME BoundsAssumption == C2H \in BOOLEAN /\ MaxTimeouts \in Nat /\ MaxStops \in Nat

VARIABLES
    q_state,          \* descq->q_state
    q_stop_wait,      \* descq->q_stop_wait
    work_list,        \* requests with descriptors still to be written
    pend_list,        \* requests whose descriptors are all written
    work_req_pend,    \* descq->work_req_pend
    pend_list_empty,  \* descq->pend_list_empty
    avail,            \* descq->avail
    pidx,             \* descq->pidx
    cidx,             \* descq->cidx
    credit,           \* descq->credit
    desc,             \* the descriptor ring: the request of each slot
    ring,             \* descq->desc: "freed" or "allocated"
    lock,             \* descq->lock: "free", or what its holder is doing
    cb,               \* the request's control block
    mapped,           \* is the request's sg list mapped for DMA?
    st,               \* where the caller of qdma_request_submit() is
    result,           \* what it returned
    work,             \* intr_work(): scheduled? and at which section
    ctl,              \* where qdma_queue_stop()/qdma_queue_start() is
    hw,               \* the DMA engine's context of this queue
    moved,            \* moved[r]: descriptors of r the engine has transferred
    fault,            \* a memory error the code has run into
    stray,            \* has the engine accessed memory that was unmapped?
    skew,             \* descriptors in the ring that belong to no listed request,
                      \* less those a stop left charged to a listed one
    orphans,          \* requests a stop found listed
    expired,          \* has the wait of a stop timed out?
    timeouts, stops   \* how many requests timed out, how many stops there were

lists == <<work_list, pend_list, work_req_pend>>
idx == <<avail, pidx, cidx, credit, desc>>
req == <<cb, mapped, st, result>>
qctl == <<q_state, q_stop_wait, ctl, ring, stops, orphans, expired>>
seen == <<moved, stray>>
vars == <<q_state, q_stop_wait, work_list, pend_list, work_req_pend,
          pend_list_empty, avail, pidx, cidx, credit, desc, ring, lock, cb,
          mapped, st, result, work, ctl, hw, moved, fault, stray, skew,
          orphans, expired, timeouts, stops>>

Slots == 0 .. RngSz - 1

\* A full ring would look like an empty one, so one slot is never used.
UsableSlotsAll == RngSz                                       \* (mutant)
UsableSlots == RngSz - 1

\* Advance a ring index by n < RngSz
Adv(i, n) == IF i + n >= RngSz THEN i + n - RngSz ELSE i + n
\* How far index `new' is ahead of index `old'
Dist(new, old) == IF new >= old THEN new - old ELSE new + (RngSz - old)

FirstN(s, n) == {s[i] : i \in {j \in DOMAIN s : j <= n}}
Listed == ToSet(work_list) \cup ToSet(pend_list)
Charged == MapThenSumSet(LAMBDA r : cb[r].desc_nr, Listed)

-----------------------------------------------------------------------------
(***************************************************************************)
(* Linked lists.  A control block lives on the stack of its caller: once   *)
(* the caller has returned, any access to it is a use of freed memory,     *)
(* after which nothing can be said of the program (see Next).              *)
(***************************************************************************)
Stale(r) == st[r] = "returned"
Touch(S) == fault' = IF \E r \in S : Stale(r) THEN "stale_cb" ELSE fault
LastOf(s) == IF s = <<>> THEN {} ELSE {s[Len(s)]}
list_del(s, r) == IF r \in ToSet(s)
                  THEN RemoveAt(s, CHOOSE i \in DOMAIN s : s[i] = r)
                  ELSE s
\* list_del(r) writes the entries on both sides of r
Beside(s, r) == {s[i] : i \in {j \in DOMAIN s : (j > 1 /\ s[j - 1] = r)
                                            \/ (j < Len(s) /\ s[j + 1] = r)}}

qdma_work_queue_add(r) ==
    /\ work_list' = Append(work_list, r)
    /\ work_req_pend' = work_req_pend + 1
qdma_work_queue_del ==
    /\ work_list' = Tail(work_list)
    /\ work_req_pend' = work_req_pend - 1

sgl_map(r) == mapped' = [mapped EXCEPT ![r] = TRUE]
sgl_unmap(r) == mapped' = [mapped EXCEPT ![r] = FALSE]

EmptyCb == [offset |-> 0, desc_nr |-> 0, done |-> FALSE, status |-> "ok"]
ResetHw == [valid |-> FALSE, idx |-> 0, doorbell |-> 0, wb |-> 0,
            arm |-> FALSE, req |-> FALSE]

Init ==
    /\ q_state = "enabled" /\ q_stop_wait = FALSE
    /\ work_list = <<>> /\ pend_list = <<>> /\ work_req_pend = 0
    /\ pend_list_empty = FALSE
    /\ avail = 0 /\ pidx = 0 /\ cidx = 0 /\ credit = 0
    /\ desc = [i \in Slots |-> NoReq]
    /\ ring = "freed" /\ lock = "free"
    /\ cb = [r \in Reqs |-> EmptyCb]
    /\ mapped = [r \in Reqs |-> FALSE]
    /\ st = [r \in Reqs |-> "idle"]
    /\ result = [r \in Reqs |-> "none"]
    /\ work = [scheduled |-> FALSE, pc |-> "idle"]
    /\ ctl = "idle"
    /\ hw = ResetHw
    /\ moved = [r \in Reqs |-> 0]
    /\ fault = "none" /\ stray = FALSE /\ skew = 0
    /\ orphans = {} /\ expired = FALSE
    /\ timeouts = 0 /\ stops = 0

-----------------------------------------------------------------------------
(***************************************************************************)
(* The engine's interrupt: one is due after a writeback and is sent once   *)
(* the queue is armed; a doorbell write arms it (external).                *)
(***************************************************************************)
Doorbell(p) == IF hw.valid
               THEN [hw EXCEPT !.doorbell = p, !.arm = ~hw.req, !.req = FALSE]
               ELSE hw
Schedule(w, b) == [w EXCEPT !.scheduled = @ \/ b]

HwTransfer ==
    /\ hw.valid /\ hw.idx # hw.doorbell
    /\ hw' = [hw EXCEPT !.idx = Adv(hw.idx, 1)]
    /\ moved' = [moved EXCEPT ![desc[hw.idx]] = @ + 1]
    /\ stray' = (stray \/ ~mapped[desc[hw.idx]])
    /\ UNCHANGED <<lists, idx, req, qctl, pend_list_empty, lock, work, fault,
                   skew, timeouts>>

HwWriteback ==
    /\ hw.valid /\ hw.wb # hw.idx
    /\ hw' = [hw EXCEPT !.wb = hw.idx, !.arm = FALSE, !.req = ~hw.arm]
    /\ work' = Schedule(work, hw.arm)
    /\ UNCHANGED <<lists, idx, req, qctl, pend_list_empty, lock, seen, fault,
                   skew, timeouts>>

-----------------------------------------------------------------------------
(***************************************************************************)
(* descq_mm_n_h2c_cmpl_status(), called with the lock held: the part that  *)
(* reads the engine's index, and the loop that completes requests.         *)
(***************************************************************************)
NothingNew == pidx = cidx \/ (ring = "allocated" /\ hw.wb = cidx)

\* desc_cmpl_status is NULL once the ring is freed
ReadFreedRing == pidx # cidx /\ ring = "freed"

TakeCredits ==
    LET cr == Dist(hw.wb, cidx) IN
    /\ pidx # cidx /\ ring = "allocated" /\ hw.wb # cidx
    /\ cidx' = hw.wb
    /\ avail' = avail + cr
    /\ credit' = credit + cr
    /\ UNCHANGED <<pidx, desc>>

\* What follows the unlock: intr_work() goes on to qdma_descq_proc_sgt_request()
\* if the work queue has entries.
AfterCmplIdle(w) == [w EXCEPT !.pc = "idle"]                  \* (mutant)
AfterCmpl(w) == [w EXCEPT !.pc = IF work_req_pend # 0 THEN "proc" ELSE "idle"]

EnoughButOne(r) == credit + 1 >= cb[r].desc_nr                \* (mutant)
Enough(r) == credit >= cb[r].desc_nr

\* How qdma_sgt_req_done() sets pend_list_empty: with fp_descq_c2h_packet set,
\* whatever is left in the ring.
PendListEmptyAlways == TRUE                                   \* (mutant)
PendListEmpty == C2H \/ avail = UsableSlots

\* qdma_sgt_req_done() for the first request of pend_list
CmplDone ==
    LET r == Head(pend_list) IN
    /\ lock \in {"cmpl", "work_cmpl"}
    /\ pend_list # <<>> /\ credit > 0 /\ Enough(r)
    /\ credit' = credit - cb[r].desc_nr
    /\ pend_list' = Tail(pend_list)
    /\ Touch(FirstN(pend_list, 2))
    /\ sgl_unmap(r)
    /\ cb' = [cb EXCEPT ![r].done = TRUE, ![r].status = "ok"]
    /\ pend_list_empty' = PendListEmpty
    /\ UNCHANGED <<work_list, work_req_pend, avail, pidx, cidx, desc, st,
                   result, qctl, lock, work, hw, seen, skew, timeouts>>

CmplPart ==
    LET r == Head(pend_list) IN
    /\ lock \in {"cmpl", "work_cmpl"}
    /\ pend_list # <<>> /\ credit > 0 /\ ~Enough(r)
    /\ cb' = [cb EXCEPT ![r].desc_nr = @ - credit]
    /\ credit' = 0
    /\ Touch({r})
    /\ UNCHANGED <<lists, pend_list_empty, avail, pidx, cidx, desc, mapped, st,
                   result, qctl, lock, work, hw, seen, skew, timeouts>>

\* No request or no credit is left: qdma_pidx_update(descq, 1) re-arms the
\* interrupt, and the lock is released.
CmplEnd ==
    /\ lock \in {"cmpl", "work_cmpl"}
    /\ pend_list = <<>> \/ credit = 0
    /\ hw' = Doorbell(hw.doorbell)
    /\ LET w == Schedule(work, hw.valid /\ hw.req)
       IN  work' = IF lock = "work_cmpl" THEN AfterCmpl(w) ELSE w
    /\ lock' = "free"
    /\ UNCHANGED <<lists, idx, req, qctl, pend_list_empty, seen, fault, skew,
                   timeouts>>

-----------------------------------------------------------------------------
(***************************************************************************)
(* descq_mm_proc_request(): entry, one round of the loop over work_list,   *)
(* and the doorbell.                                                       *)
(***************************************************************************)
ProcEnter ==
    \/ /\ q_stop_wait /\ NothingNew
       /\ UNCHANGED <<idx, lock, fault>>
    \/ /\ q_stop_wait /\ ReadFreedRing
       /\ fault' = "null_ring"
       /\ UNCHANGED <<idx, lock>>
    \/ /\ q_stop_wait /\ TakeCredits
       /\ lock' = "cmpl"
       /\ UNCHANGED fault
    \/ /\ ~q_stop_wait /\ q_state # "online"
       /\ UNCHANGED <<idx, lock, fault>>
    \/ /\ ~q_stop_wait /\ q_state = "online"
       /\ lock' = "post"
       /\ UNCHANGED <<idx, fault>>

\* qdma_sgl_find_offset(): where to go on, as what is left from there
Left(r) == Need[r] - cb[r].offset

\* qdma_update_request(): n descriptors of r were written; a request with none
\* left moves to pend_list
UpdateRequest(r, n) ==
    /\ cb' = [cb EXCEPT ![r].desc_nr = @ + n, ![r].offset = @ + n]
    /\ IF n = Left(r)
       THEN /\ qdma_work_queue_del
            /\ pend_list' = Append(pend_list, r)
            /\ Touch(FirstN(work_list, 2) \cup LastOf(pend_list))
       ELSE Touch({r}) /\ UNCHANGED lists

PostOne ==
    LET r == Head(work_list)
        n == IF Left(r) <= avail THEN Left(r) ELSE avail
    IN
    /\ lock \in {"post", "posted"}
    /\ work_list # <<>> /\ avail > 0
    /\ desc' = [i \in Slots |-> IF Dist(i, pidx) < n THEN r ELSE desc[i]]
    /\ pidx' = Adv(pidx, n)
    /\ avail' = avail - n
    /\ UpdateRequest(r, n)
    /\ lock' = "posted"
    /\ UNCHANGED <<pend_list_empty, cidx, credit, mapped, st, result, qctl,
                   work, hw, seen, skew, timeouts>>

PostEnd ==
    /\ lock \in {"post", "posted"}
    /\ work_list = <<>> \/ avail = 0
    /\ IF lock = "posted"
       THEN /\ pend_list_empty' = FALSE
            /\ hw' = Doorbell(pidx)
            /\ work' = Schedule(work, hw.valid /\ hw.req)
       ELSE UNCHANGED <<pend_list_empty, hw, work>>
    /\ lock' = "free"
    /\ Touch(FirstN(work_list, 1))
    /\ UNCHANGED <<lists, idx, req, qctl, seen, skew, timeouts>>

-----------------------------------------------------------------------------
(***************************************************************************)
(* qdma_request_submit()                                                   *)
(***************************************************************************)
SubmitMap(r) ==
    /\ st[r] = "idle"
    /\ cb' = [cb EXCEPT ![r] = EmptyCb]
    /\ \/ /\ sgl_map(r)
          /\ st' = [st EXCEPT ![r] = "mapped"]
          /\ UNCHANGED result
       \/ /\ st' = [st EXCEPT ![r] = "returned"]       \* sgl_map() failed
          /\ result' = [result EXCEPT ![r] = "EIO"]
          /\ UNCHANGED mapped
    /\ UNCHANGED <<lists, idx, qctl, pend_list_empty, lock, work, hw, seen,
                   fault, skew, timeouts>>

SubmitAdd(r) ==
    /\ st[r] = "mapped" /\ lock = "free"
    /\ \/ /\ q_state = "online"
          /\ qdma_work_queue_add(r)
          /\ Touch(LastOf(work_list))
          /\ st' = [st EXCEPT ![r] = "proc"]
          /\ UNCHANGED <<pend_list, mapped, result>>
       \/ /\ q_state # "online"
          /\ sgl_unmap(r)
          /\ st' = [st EXCEPT ![r] = "returned"]
          /\ result' = [result EXCEPT ![r] = "EINVAL"]
          /\ UNCHANGED <<lists, fault>>
    /\ UNCHANGED <<idx, cb, qctl, pend_list_empty, lock, work, hw, seen, skew,
                   timeouts>>

SubmitProc(r) ==
    /\ st[r] = "proc" /\ lock = "free"
    /\ st' = [st EXCEPT ![r] = "wait"]
    /\ ProcEnter
    /\ UNCHANGED <<lists, cb, mapped, result, qctl, pend_list_empty, work, hw,
                   seen, skew, timeouts>>

\* qdma_request_wait_for_cmpl(): woken by cb->done
WaiterWakes(r) ==
    /\ st[r] = "wait" /\ cb[r].done /\ lock = "free"
    /\ st' = [st EXCEPT ![r] = "returned"]
    /\ IF cb[r].status = "ok"
       THEN /\ result' = [result EXCEPT ![r] = "bytes"]
            /\ UNCHANGED mapped
       ELSE /\ result' = [result EXCEPT ![r] = "EIO"]
            /\ sgl_unmap(r)
    /\ UNCHANGED <<lists, idx, cb, qctl, pend_list_empty, lock, work, hw, seen,
                   fault, skew, timeouts>>

\* ... or not done after timeout_ms: list_del() from the list it is on.
\* work_req_pend and the ring keep what the request had.
WaiterTimesOut(r) ==
    /\ st[r] = "wait" /\ ~cb[r].done /\ lock = "free"
    /\ timeouts < MaxTimeouts
    /\ timeouts' = timeouts + 1
    /\ work_list' = list_del(work_list, r)
    /\ pend_list' = list_del(pend_list, r)
    /\ Touch(Beside(work_list, r) \cup Beside(pend_list, r))
    /\ skew' = skew + cb[r].desc_nr
    /\ st' = [st EXCEPT ![r] = "returned"]
    /\ result' = [result EXCEPT ![r] = "EIO"]
    /\ sgl_unmap(r)
    /\ UNCHANGED <<work_req_pend, idx, cb, qctl, pend_list_empty, lock, work,
                   hw, seen>>

-----------------------------------------------------------------------------
(***************************************************************************)
(* intr_work() -> qdma_descq_service_cmpl_update()                         *)
(***************************************************************************)
IntrWork ==
    /\ work.pc = "idle" /\ work.scheduled /\ lock = "free"
    /\ LET w == [work EXCEPT !.scheduled = FALSE] IN
       \/ /\ NothingNew
          /\ work' = AfterCmpl(w)
          /\ UNCHANGED <<idx, lock, fault>>
       \/ /\ ReadFreedRing
          /\ fault' = "null_ring"
          /\ work' = w
          /\ UNCHANGED <<idx, lock>>
       \/ /\ TakeCredits
          /\ lock' = "work_cmpl"
          /\ work' = [w EXCEPT !.pc = "cmpl"]
          /\ UNCHANGED fault
    /\ UNCHANGED <<lists, req, qctl, pend_list_empty, hw, seen, skew, timeouts>>

IntrWorkProc ==
    /\ work.pc = "proc" /\ lock = "free"
    /\ work' = [work EXCEPT !.pc = "idle"]
    /\ ProcEnter
    /\ UNCHANGED <<lists, req, qctl, pend_list_empty, hw, seen, skew, timeouts>>

-----------------------------------------------------------------------------
(***************************************************************************)
(* qdma_queue_stop()                                                       *)
(***************************************************************************)
StopBegin ==
    /\ ctl = "idle" /\ q_state = "online" /\ lock = "free"
    /\ stops < MaxStops
    /\ stops' = stops + 1
    /\ q_stop_wait' = TRUE
    /\ ctl' = IF pend_list_empty THEN "stop_finish" ELSE "stop_wait"
    /\ UNCHANGED <<lists, idx, req, q_state, ring, orphans, expired,
                   pend_list_empty, lock, work, hw, seen, fault, skew, timeouts>>

\* pend_list_wq: woken by qdma_sgt_req_done(), or after one second
StopWaitEnds ==
    /\ ctl = "stop_wait"
    /\ expired' = (expired \/ ~pend_list_empty)
    /\ ctl' = "stop_finish"
    /\ UNCHANGED <<lists, idx, req, q_state, q_stop_wait, ring, stops, orphans,
                   pend_list_empty, lock, work, hw, seen, fault, skew, timeouts>>

StopFinish ==
    /\ ctl = "stop_finish" /\ lock = "free"
    /\ q_state' = "enabled" /\ q_stop_wait' = FALSE
    /\ cb' = [r \in Reqs |-> IF r \in Listed
                             THEN [cb[r] EXCEPT !.done = TRUE, !.status = "ENXIO"]
                             ELSE cb[r]]
    /\ Touch(Listed)
    /\ orphans' = orphans \cup Listed
    /\ ctl' = "stop_clear"
    /\ UNCHANGED <<lists, idx, mapped, st, result, ring, stops, expired,
                   pend_list_empty, lock, work, hw, seen, skew, timeouts>>

\* qdma_descq_context_clear(), and the queue leaves the vector's intr_list
StopClear ==
    /\ ctl = "stop_clear"
    /\ hw' = [hw EXCEPT !.valid = FALSE]
    /\ ctl' = "stop_free"
    /\ UNCHANGED <<lists, idx, req, q_state, q_stop_wait, ring, stops, orphans,
                   expired, pend_list_empty, lock, work, seen, fault, skew, timeouts>>

\* qdma_descq_free_resource()
StopFree ==
    /\ ctl = "stop_free"
    /\ ring' = "freed"
    /\ ctl' = "idle"
    /\ UNCHANGED <<lists, idx, req, q_state, q_stop_wait, stops, orphans,
                   expired, pend_list_empty, lock, work, hw, seen, fault, skew, timeouts>>

(***************************************************************************)
(* qdma_queue_start(): the counters are reset, without the lock and with   *)
(* the two lists as they are; then the ring is allocated, the context is   *)
(* programmed and the queue goes online, or one of these fails.            *)
(***************************************************************************)
ConfigComplete ==
    /\ avail' = UsableSlots
    /\ pidx' = 0 /\ cidx' = 0 /\ credit' = 0
    /\ work_req_pend' = 0
    /\ pend_list_empty' = TRUE

StartConfig ==
    /\ ctl = "idle" /\ q_state = "enabled" /\ lock = "free"
    /\ ConfigComplete
    /\ skew' = -Charged
    /\ ctl' = "start"
    /\ UNCHANGED <<work_list, pend_list, desc, req, q_state, q_stop_wait, ring,
                   stops, orphans, expired, lock, work, hw, seen, fault,
                   timeouts>>

StartOnline ==
    /\ ctl = "start" /\ lock = "free"
    /\ ring' = "allocated"
    /\ desc' = [i \in Slots |-> NoReq]
    /\ hw' = [ResetHw EXCEPT !.valid = TRUE]
    /\ q_state' = "online"
    /\ ctl' = "idle"
    /\ UNCHANGED <<lists, avail, pidx, cidx, credit, req, q_stop_wait, stops,
                   orphans, expired, pend_list_empty, lock, work, seen, fault, skew, timeouts>>

StartFails ==
    /\ ctl = "start"
    /\ ctl' = "idle"
    /\ UNCHANGED <<lists, idx, req, q_state, q_stop_wait, ring, stops, orphans,
                   expired, pend_list_empty, lock, work, hw, seen, fault, skew, timeouts>>

-----------------------------------------------------------------------------
Cmpl == CmplDone \/ CmplPart \/ CmplEnd
Post == PostOne \/ PostEnd
Submit(r) == SubmitMap(r) \/ SubmitAdd(r) \/ SubmitProc(r) \/ WaiterWakes(r)
Stop == StopBegin \/ StopWaitEnds \/ StopFinish \/ StopClear \/ StopFree
Start == StartConfig \/ StartOnline \/ StartFails

Step ==
    \/ \E r \in Reqs : Submit(r) \/ WaiterTimesOut(r)
    \/ IntrWork \/ IntrWorkProc \/ Cmpl \/ Post
    \/ Stop \/ Start
    \/ HwTransfer \/ HwWriteback

\* Nothing is known of the program after a memory error.
Next == fault = "none" /\ Step

Spec == Init /\ [][Next]_vars

\* Every thread, the work item and the engine go on; a stop's wait ends, if not
\* by the wakeup then by its one-second timeout.  Submissions, request timeouts,
\* stops and starts need not happen.
FairSpec ==
    /\ Spec
    /\ \A r \in Reqs : WF_vars(fault = "none" /\ (SubmitAdd(r) \/ SubmitProc(r)
                                                    \/ WaiterWakes(r)))
    /\ WF_vars(fault = "none" /\ (IntrWork \/ IntrWorkProc))
    /\ WF_vars(fault = "none" /\ (Cmpl \/ Post))
    /\ WF_vars(fault = "none" /\ (StopWaitEnds \/ StopFinish))
    /\ WF_vars(fault = "none" /\ HwTransfer)
    /\ WF_vars(fault = "none" /\ HwWriteback)

-----------------------------------------------------------------------------
Cb == [offset : Nat, desc_nr : Nat, done : BOOLEAN, status : {"ok", "ENXIO"}]
Work == [scheduled : BOOLEAN, pc : {"idle", "cmpl", "proc"}]
Hw == [valid : BOOLEAN, idx : Slots, doorbell : Slots, wb : Slots,
       arm : BOOLEAN, req : BOOLEAN]

CtlType ==
    /\ q_state \in {"enabled", "online"} /\ q_stop_wait \in BOOLEAN
    /\ ctl \in {"idle", "stop_wait", "stop_finish", "stop_clear", "stop_free",
                "start"}
    /\ ring \in {"freed", "allocated"}
    /\ lock \in {"free", "cmpl", "work_cmpl", "post", "posted"}
    /\ pend_list_empty \in BOOLEAN
ListType ==
    /\ work_list \in Seq(Reqs) /\ pend_list \in Seq(Reqs)
    /\ work_req_pend \in Int
IdxType ==
    /\ avail \in 0 .. RngSz - 1 /\ pidx \in Slots /\ cidx \in Slots
    /\ credit \in Nat
    /\ desc \in [Slots -> Reqs \cup {NoReq}]
ReqType ==
    /\ mapped \in [Reqs -> BOOLEAN]
    /\ st \in [Reqs -> {"idle", "mapped", "proc", "wait", "returned"}]
    /\ result \in [Reqs -> {"none", "bytes", "EIO", "EINVAL"}]
SeenType ==
    /\ moved \in [Reqs -> Nat]
    /\ fault \in {"none", "stale_cb", "null_ring"}
    /\ stray \in BOOLEAN
    /\ orphans \subseteq Reqs /\ expired \in BOOLEAN
    /\ timeouts \in 0 .. MaxTimeouts /\ stops \in 0 .. MaxStops

TypeOK ==
    /\ CtlType /\ ListType /\ IdxType /\ ReqType /\ SeenType
    /\ cb \in [Reqs -> Cb] /\ work \in Work /\ hw \in Hw

\* While the queue runs, the consumer index of the driver, the engine's
\* writeback, the engine, the doorbell and the producer index follow each other
\* around the ring, none overtaking the next, and `avail' counts exactly the
\* free slots, one always being left unused.
RingOrder ==
    hw.valid =>
        /\ Dist(hw.wb, cidx) <= Dist(hw.idx, cidx)
        /\ Dist(hw.idx, cidx) <= Dist(hw.doorbell, cidx)
        /\ Dist(hw.doorbell, cidx) <= Dist(pidx, cidx)
        /\ avail + Dist(pidx, cidx) = RngSz - 1

\* The credits balance: the descriptors that listed requests are charged with
\* are those in the ring and in descq->credit, but for the skew that timeouts
\* and stops have caused; with no skew, each request gets its own credits.
CreditBalance == hw.valid => Charged + skew = Dist(pidx, cidx) + credit

\* A request that is completed successfully has been transferred to its last
\* descriptor.
CompletedIsTransferred ==
    \A r \in Reqs : cb[r].done /\ cb[r].status = "ok" => moved[r] = Need[r]

\* ... unless a timeout or a stop took a request from under the engine.
Disturbed == timeouts > 0 \/ orphans # {}
CompletedIsTransferredIfCalm == ~Disturbed => CompletedIsTransferred

\* The engine only accesses mapped memory, no freed control block is accessed
\* and no freed ring is read, unless a timeout or a stop came in between.
MemorySafeIfCalm == ~Disturbed => fault = "none" /\ ~stray

\* A stop whose wait has not timed out gives the ring up only when the engine
\* has finished every descriptor.
StopDrains ==
    (ctl \in {"stop_clear", "stop_free"} /\ ~expired /\ fault = "none")
        => pidx = cidx /\ hw.idx = pidx

\* intr_work() is never cancelled: it may run after qdma_queue_stop() has freed
\* the ring.  It reads the freed ring only if the stop's wait had timed out.
FreedRingUnread == fault = "null_ring" => expired

\* A call that has returned left no list entry behind, unless a stop found it.
ReturnedIsUnlisted == \A r \in Listed : Stale(r) => r \in orphans

\* Callers are served right: without a timeout and without a stop that found requests, what is
\* reported as transferred has been and nobody touches memory that was unmapped or freed; and
\* with them, what they unbalance is accounted for and no returned call is left on a list.
ServedRight ==
    CompletedIsTransferredIfCalm /\ MemorySafeIfCalm /\ CreditBalance /\ ReturnedIsUnlisted

\* Every accepted request returns, with its bytes, because a stop found it or because a
\* wait timed out, as long as no other request was left on a list by a stop and no freed
\* memory was used: also when another request has timed out and left its descriptors.
RequestReturns ==
    \A r \in Reqs :
        st[r] = "proc" ~> \/ /\ st[r] = "returned"
                             /\ result[r] = "bytes" \/ r \in orphans \/ timeouts > 0
                          \/ orphans \ {r} # {} \/ fault # "none"
=============================================================================
