---------------------------- MODULE MmDescqProof ----------------------------
(***************************************************************************)
(* Proofs about MmDescq for every set of requests, every ring size and     *)
(* every number of timeouts and stops.                                     *)
(***************************************************************************)
EXTENDS MmDescq, FiniteSetTheorems, WellFoundedInduction, TLAPS

-----------------------------------------------------------------------------
(***************************************************************************)
(* The inductive invariant.                                                *)
(***************************************************************************)

\* How the states of qdma_queue_stop() and qdma_queue_start() go with the state
\* of the queue, of its ring and of its lock.
CtlInv ==
    /\ q_state = "online" => hw.valid
    /\ hw.valid => ring = "allocated"
    /\ q_stop_wait => ctl \in {"stop_wait", "stop_finish"}
    /\ ctl \in {"stop_wait", "stop_finish"} => q_stop_wait /\ q_state = "online"
    /\ ctl \in {"stop_clear", "stop_free"}
          => q_state = "enabled" /\ ring = "allocated"
    /\ ctl = "stop_free" => ~hw.valid
    /\ ctl \in {"idle", "start"} /\ q_state = "enabled" => ring = "freed"
    /\ ctl = "start" => q_state = "enabled" /\ lock = "free"
    /\ ctl = "start" => pidx = 0 /\ cidx = 0 /\ avail = RngSz - 1
    /\ lock \in {"post", "posted"} => q_state = "online" /\ ~q_stop_wait

\* RingOrder, for as long as the ring is allocated: late work still reads it
\* when the engine's context is already cleared.
RingInv ==
    ring = "allocated" =>
        /\ Dist(hw.wb, cidx) <= Dist(hw.idx, cidx)
        /\ Dist(hw.idx, cidx) <= Dist(hw.doorbell, cidx)
        /\ Dist(hw.doorbell, cidx) <= Dist(pidx, cidx)
        /\ avail + Dist(pidx, cidx) = RngSz - 1

\* No more descriptors are written than the request needs.
OffsetInv == \A r \in Reqs : cb[r].offset <= Need[r]

\* pend_list_empty is set only when the ring is empty, and a stop that saw it
\* set keeps the ring empty.
PendInv ==
    /\ pend_list_empty /\ ring = "allocated" /\ lock # "posted" => pidx = cidx
    /\ ctl \in {"stop_finish", "stop_clear", "stop_free"} /\ ~expired
          => pidx = cidx
    /\ ring = "freed" /\ ~expired => pidx = cidx
    /\ FreedRingUnread

Inv == TypeOK /\ CtlInv /\ RingInv /\ OffsetInv

-----------------------------------------------------------------------------
(***************************************************************************)
(* Arithmetic on the ring.                                                 *)
(***************************************************************************)

\* The distance between two slots is less than the ring's size, and 0 only
\* between a slot and itself.
LEMMA DistBounds ==
    ASSUME NEW x \in Slots, NEW y \in Slots
    PROVE  /\ Dist(x, y) \in 0 .. RngSz - 1
           /\ Dist(x, y) = 0 <=> x = y
    BY RngSzAssumption DEF Dist, Slots

\* Advancing an index by n takes it n slots further, if it stays in the ring.
LEMMA AdvDist ==
    ASSUME NEW x \in Slots, NEW y \in Slots, NEW n \in Nat,
           Dist(x, y) + n <= RngSz - 1
    PROVE  Adv(x, n) \in Slots /\ Dist(Adv(x, n), y) = Dist(x, y) + n
    BY RngSzAssumption DEF Dist, Slots, Adv

\* Distances from a later origin.
LEMMA DistFrom ==
    ASSUME NEW x \in Slots, NEW y \in Slots, NEW z \in Slots,
           Dist(y, z) <= Dist(x, z)
    PROVE  Dist(x, y) = Dist(x, z) - Dist(y, z)
    BY RngSzAssumption DEF Dist, Slots

\* Taking an entry out of a list leaves a list.
LEMMA ListDelType ==
    ASSUME NEW s \in Seq(Reqs), NEW r
    PROVE  list_del(s, r) \in Seq(Reqs)
<1>1. CASE r \in ToSet(s)
    <2>1. PICK i \in DOMAIN s : i = (CHOOSE j \in DOMAIN s : s[j] = r)
        BY <1>1 DEF ToSet
    <2>2. SubSeq(s, 1, i - 1) \in Seq(Reqs) /\ SubSeq(s, i + 1, Len(s)) \in Seq(Reqs)
        OBVIOUS
    <2> QED BY <1>1, <2>1, <2>2 DEF list_del, RemoveAt
<1>2. CASE r \notin ToSet(s)
    BY <1>2 DEF list_del
<1> QED BY <1>1, <1>2

\* Counting one more descriptor of a request keeps the counts numbers.
LEMMA IncrType ==
    ASSUME NEW f \in [Reqs -> Nat], NEW x
    PROVE  [f EXCEPT ![x] = @ + 1] \in [Reqs -> Nat]
<1>1. CASE x \in Reqs
    BY <1>1
<1>2. CASE x \notin Reqs
    BY <1>2
<1> QED BY <1>1, <1>2

\* Taking the credits of a writeback keeps the order of the indices.
LEMMA TakeCreditsStep ==
    ASSUME Inv, TakeCredits, UNCHANGED <<hw, ring>>
    PROVE  IdxType' /\ RingInv'
<1> USE DEF Inv, TypeOK
<1> DEFINE cr == Dist(hw.wb, cidx)
<1>1. /\ {cidx, pidx, hw.idx, hw.doorbell, hw.wb} \subseteq Slots
      /\ avail \in Nat /\ cr \in Nat
    BY RngSzAssumption DEF IdxType, Hw, Dist, Slots
<1>2. /\ cidx' = hw.wb /\ avail' = avail + cr /\ credit' = credit + cr
      /\ ring = "allocated"
      /\ UNCHANGED <<pidx, desc>>
    BY DEF TakeCredits
<1>3. /\ cr <= Dist(hw.idx, cidx)
      /\ cr <= Dist(hw.doorbell, cidx)
      /\ cr <= Dist(pidx, cidx)
    BY <1>1, <1>2, RngSzAssumption DEF RingInv, Dist, Slots
<1>4. /\ Dist(hw.idx, hw.wb) = Dist(hw.idx, cidx) - cr
      /\ Dist(hw.doorbell, hw.wb) = Dist(hw.doorbell, cidx) - cr
      /\ Dist(pidx, hw.wb) = Dist(pidx, cidx) - cr
    BY <1>1, <1>3, DistFrom
<1>5. /\ Dist(hw.wb, hw.wb) = 0
      /\ {Dist(hw.idx, cidx), Dist(hw.doorbell, cidx), Dist(pidx, cidx)} \subseteq Nat
    BY <1>1, RngSzAssumption DEF Dist, Slots
<1>6. avail + Dist(pidx, cidx) = RngSz - 1
    BY <1>2 DEF RingInv
<1> HIDE DEF cr
<1>7. IdxType'
    <2>1. avail + cr \in 0 .. RngSz - 1
        BY <1>1, <1>3, <1>5, <1>6, RngSzAssumption
    <2>2. credit \in Nat /\ cr \in Nat
        BY <1>1 DEF IdxType
    <2> QED BY <1>1, <1>2, <2>1, <2>2 DEF IdxType
<1>8. RingInv'
    <2>1. /\ Dist(hw.wb, cidx)' = 0
          /\ Dist(hw.idx, cidx)' = Dist(hw.idx, cidx) - cr
          /\ Dist(hw.doorbell, cidx)' = Dist(hw.doorbell, cidx) - cr
          /\ Dist(pidx, cidx)' = Dist(pidx, cidx) - cr
          /\ avail' = avail + cr
        BY <1>2, <1>4, <1>5
    <2>2. /\ Dist(hw.idx, cidx) <= Dist(hw.doorbell, cidx)
          /\ Dist(hw.doorbell, cidx) <= Dist(pidx, cidx)
        BY <1>2 DEF RingInv
    <2> HIDE DEF Inv
    <2> QED BY <1>1, <1>3, <1>5, <1>6, <2>1, <2>2 DEF RingInv
<1> QED BY <1>7, <1>8

\* Entering descq_mm_proc_request().
LEMMA ProcEnterStep ==
    ASSUME Inv, ProcEnter, UNCHANGED <<hw, qctl, pend_list_empty>>
    PROVE  /\ CtlType' /\ IdxType' /\ CtlInv' /\ RingInv'
           /\ fault' \in {"none", "stale_cb", "null_ring"}
<1> USE DEF Inv, TypeOK, idx, qctl
<1>1. CtlType' /\ fault' \in {"none", "stale_cb", "null_ring"}
    BY DEF ProcEnter, CtlType, SeenType
<1>2. IdxType' /\ RingInv'
    <2>1. CASE TakeCredits
        BY <2>1, TakeCreditsStep
    <2>2. CASE UNCHANGED idx
        BY <2>2 DEF IdxType, RingInv
    <2> QED BY <2>1, <2>2 DEF ProcEnter
<1>3. CtlInv'
    <2>1. ctl = "start" => UNCHANGED <<pidx, cidx, avail, lock>>
        BY DEF ProcEnter, CtlInv, CtlType
    <2> QED BY <2>1 DEF ProcEnter, CtlInv, CtlType, Hw, TakeCredits
<1> QED BY <1>1, <1>2, <1>3

\* HwTransfer preserves the invariant.
LEMMA HwTransferStep ==
    ASSUME Inv, HwTransfer
    PROVE  Inv'
<1> USE DEF Inv, TypeOK, lists, idx, req, qctl, seen
<1>1. SeenType'
    <2>1. stray' \in BOOLEAN
        BY Zenon DEF HwTransfer
    <2>2. moved' \in [Reqs -> Nat]
        BY IncrType DEF SeenType, HwTransfer
    <2> QED BY <2>1, <2>2 DEF SeenType, HwTransfer
<1>2. hw' \in Hw
    <2>1. Adv(hw.idx, 1) \in Slots
        BY RngSzAssumption DEF Hw, Slots, Adv
    <2> QED BY <2>1 DEF Hw, HwTransfer
<1>3. RingInv'
    <2>1. /\ {cidx, pidx, hw.idx, hw.doorbell, hw.wb} \subseteq Slots
          /\ avail \in Nat
        BY RngSzAssumption DEF IdxType, Hw
    <2>2. Dist(hw.idx, cidx) + 1 <= Dist(hw.doorbell, cidx)
        BY <2>1, RngSzAssumption DEF HwTransfer, CtlInv, RingInv, Dist, Slots
    <2>3. /\ Adv(hw.idx, 1) \in Slots
          /\ Dist(Adv(hw.idx, 1), cidx) = Dist(hw.idx, cidx) + 1
        <3>1. Dist(hw.idx, cidx) + 1 <= RngSz - 1
            BY <2>1, <2>2, RngSzAssumption DEF Dist, Slots
        <3> QED BY <2>1, <3>1, AdvDist
    <2>4. /\ hw'.idx = Adv(hw.idx, 1)
          /\ hw'.doorbell = hw.doorbell /\ hw'.wb = hw.wb
          /\ UNCHANGED <<cidx, pidx, avail, ring>>
        BY DEF HwTransfer, Hw
    <2>5. {Dist(hw.wb, cidx), Dist(hw.idx, cidx), Dist(hw.doorbell, cidx)} \subseteq Nat
        BY <2>1, RngSzAssumption DEF Dist, Slots
    <2> HIDE DEF Inv, TypeOK
    <2>6. RingInv
        BY DEF Inv
    <2>7. ring = "allocated"
        BY DEF Inv, CtlInv, HwTransfer
    <2> QED BY <2>2, <2>3, <2>4, <2>5, <2>6, <2>7 DEF RingInv, Dist
<1>4. /\ CtlType'
      /\ ListType'
      /\ IdxType'
      /\ ReqType'
      /\ cb' \in [Reqs -> Cb]
      /\ work' \in Work
      /\ CtlInv'
      /\ OffsetInv'
    BY DEF CtlType, ListType, IdxType, ReqType, CtlInv, OffsetInv, HwTransfer
<1> QED BY <1>1, <1>2, <1>3, <1>4

\* HwWriteback preserves the invariant.
LEMMA HwWritebackStep ==
    ASSUME Inv, HwWriteback
    PROVE  Inv'
<1> USE DEF Inv, TypeOK, lists, idx, req, qctl, seen
<1>1. work' \in Work
    <2>1. (work.scheduled \/ hw.arm) \in BOOLEAN
        OBVIOUS
    <2> QED BY <2>1 DEF Work, HwWriteback, Schedule
<1>2. hw' \in Hw
    <2>1. (~hw.arm) \in BOOLEAN
        OBVIOUS
    <2> QED BY <2>1 DEF Hw, HwWriteback
<1>3. CtlInv'
    BY DEF CtlType, Hw, CtlInv, HwWriteback, Schedule, Slots
<1>4. RingInv'
    <2>1. /\ {cidx, pidx, hw.idx, hw.doorbell, hw.wb} \subseteq Slots
          /\ avail \in Nat
        BY RngSzAssumption DEF IdxType, Hw
    <2>2. /\ hw'.idx = hw.idx /\ hw'.doorbell = hw.doorbell /\ hw'.wb = hw.idx
          /\ UNCHANGED <<cidx, pidx, avail, ring>>
        BY DEF HwWriteback, Hw
    <2> QED BY <2>1, <2>2, RngSzAssumption DEF RingInv, Dist, Slots
<1>5. /\ CtlType'
      /\ ListType'
      /\ IdxType'
      /\ ReqType'
      /\ SeenType'
      /\ cb' \in [Reqs -> Cb]
      /\ OffsetInv'
    BY DEF CtlType, ListType, IdxType, ReqType, SeenType, OffsetInv, HwWriteback
<1> QED BY <1>1, <1>2, <1>3, <1>4, <1>5

\* CmplDone preserves the invariant.
LEMMA CmplDoneStep ==
    ASSUME Inv, CmplDone
    PROVE  Inv'
<1> USE DEF Inv, TypeOK, lists, idx, req, qctl, seen
<1>1. CtlType'
    BY DEF CtlType, CmplDone, Touch, PendListEmpty, sgl_unmap, Enough
<1>2. ListType'
    BY DEF ListType, CmplDone, Touch, PendListEmpty, sgl_unmap, Enough
<1>3. IdxType'
    <2>1. Head(pend_list) \in Reqs
        BY DEF ListType, CmplDone
    <2> QED BY <2>1 DEF IdxType, Cb, CmplDone, Enough
<1>4. ReqType'
    BY DEF ReqType, CmplDone, Touch, PendListEmpty, sgl_unmap, Enough
<1>5. SeenType'
    BY BoundsAssumption DEF SeenType, CmplDone, Touch, PendListEmpty, sgl_unmap, Enough
<1>6. cb' \in [Reqs -> Cb]
    BY DEF Cb, CmplDone, Touch, PendListEmpty, sgl_unmap, Enough
<1>7. OffsetInv'
    <2>1. \A x \in Reqs : cb'[x].offset = cb[x].offset
        BY DEF CmplDone, Cb
    <2> QED BY <2>1 DEF OffsetInv
<1>8. /\ work' \in Work
      /\ hw' \in Hw
      /\ CtlInv'
      /\ RingInv'
    BY DEF CtlInv, RingInv, CmplDone
<1> QED BY <1>1, <1>2, <1>3, <1>4, <1>5, <1>6, <1>7, <1>8

\* CmplPart preserves the invariant.
LEMMA CmplPartStep ==
    ASSUME Inv, CmplPart
    PROVE  Inv'
<1> USE DEF Inv, TypeOK, lists, idx, req, qctl, seen
<1>1. IdxType'
    BY RngSzAssumption DEF IdxType, CmplPart, Touch, Enough
<1>2. SeenType'
    BY BoundsAssumption DEF SeenType, CmplPart, Touch, Enough
<1>3. cb' \in [Reqs -> Cb]
    <2>1. Head(pend_list) \in Reqs
        BY DEF ListType, CmplPart
    <2>2. cb[Head(pend_list)].desc_nr - credit \in Nat
        BY <2>1 DEF IdxType, Cb, CmplPart, Enough
    <2> QED BY <2>1, <2>2 DEF Cb, CmplPart
<1>4. OffsetInv'
    BY NeedAssumption DEF Cb, OffsetInv, CmplPart, Touch, Enough
<1>5. /\ CtlType'
      /\ ListType'
      /\ ReqType'
      /\ work' \in Work
      /\ hw' \in Hw
      /\ CtlInv'
      /\ RingInv'
    BY DEF CtlType, ListType, ReqType, CtlInv, RingInv, CmplPart
<1> QED BY <1>1, <1>2, <1>3, <1>4, <1>5

\* CmplEnd preserves the invariant.
LEMMA CmplEndStep ==
    ASSUME Inv, CmplEnd
    PROVE  Inv'
<1> USE DEF Inv, TypeOK, lists, idx, req, qctl, seen
<1>1. CtlType'
    BY DEF CtlType, CmplEnd, Doorbell, Schedule, AfterCmpl, Slots
<1>2. work' \in Work
    BY DEF Work, CmplEnd, Doorbell, Schedule, AfterCmpl, Slots
<1>3. hw' \in Hw
    BY DEF Hw, CmplEnd, Doorbell, Schedule, AfterCmpl, Slots
<1>4. CtlInv'
    BY DEF CtlType, Hw, CtlInv, CmplEnd, Doorbell, Schedule, AfterCmpl, Slots
<1>5. RingInv'
    BY DEF CtlType, IdxType, Hw, RingInv, CmplEnd, Doorbell, Schedule, AfterCmpl, Slots
<1>6. /\ ListType'
      /\ IdxType'
      /\ ReqType'
      /\ SeenType'
      /\ cb' \in [Reqs -> Cb]
      /\ OffsetInv'
    BY DEF ListType, IdxType, ReqType, SeenType, OffsetInv, CmplEnd
<1> QED BY <1>1, <1>2, <1>3, <1>4, <1>5, <1>6

\* The number of descriptors written in one round, and what it may be.
Round(r) == IF Left(r) <= avail THEN Left(r) ELSE avail

\* PostOne preserves the invariant: what it writes fits into the free slots.
LEMMA PostOneStep ==
    ASSUME Inv, PostOne
    PROVE  Inv'
<1> USE DEF Inv, TypeOK, lists, idx, req, qctl, seen
<1> DEFINE r == Head(work_list)
           n == Round(r)
<1>a. r \in Reqs /\ work_list # <<>> /\ lock \in {"post", "posted"}
    BY DEF ListType, PostOne
<1>b. /\ n \in Nat /\ n <= avail /\ avail \in Nat
      /\ n <= Need[r] - cb[r].offset
    BY <1>a, NeedAssumption, RngSzAssumption DEF Round, Left, Cb, IdxType, OffsetInv
<1>c. /\ UpdateRequest(r, n) /\ pidx' = Adv(pidx, n) /\ avail' = avail - n
      /\ desc' = [i \in Slots |-> IF Dist(i, pidx) < n THEN r ELSE desc[i]]
      /\ UNCHANGED <<cidx, credit, hw, ring>>
    BY DEF PostOne, Round
<1>d. ring = "allocated"
    BY <1>a DEF CtlInv
<1>e. /\ Adv(pidx, n) \in Slots
      /\ Dist(Adv(pidx, n), cidx) = Dist(pidx, cidx) + n
    <2>1. Dist(pidx, cidx) + n <= RngSz - 1
        BY <1>b, <1>d, RngSzAssumption DEF RingInv, IdxType, Dist, Slots
    <2> QED BY <1>b, <2>1, AdvDist DEF IdxType
<1> HIDE DEF n, r
<1>1. CtlType'
    BY DEF CtlType, PostOne
<1>2. ListType'
    <2>1. CASE n = Left(r)
        <3>1. /\ work_list' = Tail(work_list) /\ work_req_pend' = work_req_pend - 1
              /\ pend_list' = Append(pend_list, r)
            BY <1>c, <2>1 DEF UpdateRequest, qdma_work_queue_del
        <3> QED BY <1>a, <3>1 DEF ListType
    <2>2. CASE n # Left(r)
        <3>1. UNCHANGED lists
            BY <1>c, <2>2 DEF UpdateRequest
        <3> QED BY <3>1 DEF ListType
    <2> QED BY <2>1, <2>2
<1>3. IdxType'
    <2>1. avail - n \in 0 .. RngSz - 1
        BY <1>b, RngSzAssumption DEF IdxType
    <2>2. desc' \in [Slots -> Reqs \cup {NoReq}]
        <3>1. desc \in [Slots -> Reqs \cup {NoReq}]
            BY DEF IdxType
        <3> QED BY <1>a, <1>c, <3>1
    <2> QED BY <1>c, <1>e, <2>1, <2>2 DEF IdxType
<1>4. ReqType' /\ work' \in Work /\ hw' \in Hw
    BY DEF ReqType, PostOne
<1>5. SeenType'
    <2>1. fault' \in {fault, "stale_cb"}
        BY <1>c DEF UpdateRequest, Touch
    <2> QED BY <2>1 DEF SeenType, PostOne
<1>6. cb' \in [Reqs -> Cb]
    <2>1. /\ cb[r].desc_nr + n \in Nat /\ cb[r].offset + n \in Nat
          /\ cb' = [cb EXCEPT ![r].desc_nr = @ + n, ![r].offset = @ + n]
        BY <1>a, <1>b, <1>c DEF Cb, UpdateRequest
    <2> QED BY <1>a, <2>1 DEF Cb
<1>7. CtlInv'
    BY DEF CtlType, Hw, CtlInv, PostOne
<1>8. RingInv'
    <2>1. Dist(pidx', cidx') = Dist(pidx, cidx) + n
        BY <1>c, <1>e
    <2>2. /\ Dist(hw.wb, cidx)' = Dist(hw.wb, cidx)
          /\ Dist(hw.idx, cidx)' = Dist(hw.idx, cidx)
          /\ Dist(hw.doorbell, cidx)' = Dist(hw.doorbell, cidx)
        BY <1>c
    <2>3. {Dist(hw.doorbell, cidx), Dist(pidx, cidx)} \subseteq Nat
        BY RngSzAssumption DEF Dist, IdxType, Hw, Slots
    <2> QED BY <1>b, <1>c, <1>d, <2>1, <2>2, <2>3 DEF RingInv
<1>9. OffsetInv'
    <2>1. \A x \in Reqs : cb'[x].offset = IF x = r THEN cb[x].offset + n
                                          ELSE cb[x].offset
        BY <1>a, <1>c DEF UpdateRequest, Cb
    <2>2. \A x \in Reqs : /\ cb[x].offset \in Nat /\ Need[x] \in Nat
                           /\ cb[x].offset <= Need[x]
        BY NeedAssumption DEF OffsetInv, Cb
    <2>3. \A x \in Reqs : cb'[x].offset <= Need[x]
        BY <1>a, <1>b, <2>1, <2>2
    <2> QED BY <2>3 DEF OffsetInv
<1> QED BY <1>1, <1>2, <1>3, <1>4, <1>5, <1>6, <1>7, <1>8, <1>9

\* PostEnd preserves the invariant.
LEMMA PostEndStep ==
    ASSUME Inv, PostEnd
    PROVE  Inv'
<1> USE DEF Inv, TypeOK, lists, idx, req, qctl, seen
<1>1. CtlType'
    BY DEF CtlType, PostEnd, Touch, Doorbell, Schedule, Slots
<1>2. SeenType'
    BY BoundsAssumption DEF SeenType, PostEnd, Touch, Doorbell, Schedule, Slots
<1>3. work' \in Work
    BY DEF Work, PostEnd, Touch, Doorbell, Schedule, Slots
<1>4. hw' \in Hw
    <2>1. (~hw.req) \in BOOLEAN
        OBVIOUS
    <2> QED BY <2>1 DEF Hw, IdxType, PostEnd, Doorbell
<1>5. CtlInv'
    BY DEF CtlType, Hw, CtlInv, PostEnd, Touch, Doorbell, Schedule, Slots
<1>6. RingInv'
    <2>1. /\ {cidx, pidx, hw.idx, hw.doorbell, hw.wb} \subseteq Slots
          /\ avail \in Nat
        BY RngSzAssumption DEF IdxType, Hw
    <2>2. /\ hw'.idx = hw.idx /\ hw'.wb = hw.wb
          /\ hw'.doorbell \in {hw.doorbell, pidx}
          /\ UNCHANGED <<cidx, pidx, avail, ring>>
        BY DEF PostEnd, Doorbell, Hw
    <2> QED BY <2>1, <2>2, RngSzAssumption DEF RingInv, Dist, Slots
<1>7. /\ ListType'
      /\ IdxType'
      /\ ReqType'
      /\ cb' \in [Reqs -> Cb]
      /\ OffsetInv'
    BY DEF ListType, IdxType, ReqType, OffsetInv, PostEnd
<1> QED BY <1>1, <1>2, <1>3, <1>4, <1>5, <1>6, <1>7

\* SubmitMap preserves the invariant.
LEMMA SubmitMapStep ==
    ASSUME NEW r \in Reqs, Inv, SubmitMap(r)
    PROVE  Inv'
<1> USE DEF Inv, TypeOK, lists, idx, req, qctl, seen
<1>1. ReqType'
    BY DEF ReqType, SubmitMap, sgl_map, EmptyCb
<1>2. cb' \in [Reqs -> Cb]
    BY DEF Cb, SubmitMap, sgl_map, EmptyCb
<1>3. OffsetInv'
    <2>1. \A x \in Reqs : cb'[x].offset = IF x = r THEN 0 ELSE cb[x].offset
        BY DEF SubmitMap, EmptyCb
    <2> QED BY <2>1, NeedAssumption DEF OffsetInv
<1>4. /\ CtlType'
      /\ ListType'
      /\ IdxType'
      /\ SeenType'
      /\ work' \in Work
      /\ hw' \in Hw
      /\ CtlInv'
      /\ RingInv'
    BY DEF CtlType, ListType, IdxType, SeenType, CtlInv, RingInv, SubmitMap
<1> QED BY <1>1, <1>2, <1>3, <1>4

\* SubmitAdd preserves the invariant.
LEMMA SubmitAddStep ==
    ASSUME NEW r \in Reqs, Inv, SubmitAdd(r)
    PROVE  Inv'
<1> USE DEF Inv, TypeOK, lists, idx, req, qctl, seen
<1>1. ListType'
    <2>1. CASE q_state = "online"
        <3>1. work_list' = Append(work_list, r) /\ work_req_pend' = work_req_pend + 1
              /\ pend_list' = pend_list
            BY <2>1 DEF SubmitAdd, qdma_work_queue_add
        <3>2. work_list \in Seq(Reqs) /\ pend_list \in Seq(Reqs) /\ work_req_pend \in Int
            BY DEF ListType
        <3> QED BY ONLY <3>1, <3>2, r \in Reqs DEF ListType
    <2>2. CASE q_state # "online"
        BY <2>2 DEF ListType, SubmitAdd
    <2> QED BY <2>1, <2>2
<1>2. ReqType'
    BY DEF ReqType, SubmitAdd, qdma_work_queue_add, sgl_unmap, Touch
<1>3. SeenType'
    BY BoundsAssumption DEF SeenType, SubmitAdd, qdma_work_queue_add, sgl_unmap, Touch
<1>4. /\ CtlType'
      /\ IdxType'
      /\ cb' \in [Reqs -> Cb]
      /\ work' \in Work
      /\ hw' \in Hw
      /\ CtlInv'
      /\ RingInv'
      /\ OffsetInv'
    BY DEF CtlType, IdxType, CtlInv, RingInv, OffsetInv, SubmitAdd
<1> QED BY <1>1, <1>2, <1>3, <1>4

\* SubmitProc preserves the invariant.
LEMMA SubmitProcStep ==
    ASSUME NEW r \in Reqs, Inv, SubmitProc(r)
    PROVE  Inv'
<1> USE DEF Inv, TypeOK, lists, idx, req, qctl, seen
<1>1. CtlType'
    BY ProcEnterStep DEF SubmitProc
<1>2. IdxType'
    BY ProcEnterStep DEF SubmitProc
<1>3. ReqType'
    BY DEF ReqType, SubmitProc
<1>4. SeenType'
    BY ProcEnterStep DEF SeenType, SubmitProc
<1>5. CtlInv'
    BY ProcEnterStep DEF SubmitProc
<1>6. RingInv'
    BY ProcEnterStep DEF SubmitProc
<1>7. /\ ListType'
      /\ cb' \in [Reqs -> Cb]
      /\ work' \in Work
      /\ hw' \in Hw
      /\ OffsetInv'
    BY DEF ListType, OffsetInv, SubmitProc
<1> QED BY <1>1, <1>2, <1>3, <1>4, <1>5, <1>6, <1>7

\* WaiterWakes preserves the invariant.
LEMMA WaiterWakesStep ==
    ASSUME NEW r \in Reqs, Inv, WaiterWakes(r)
    PROVE  Inv'
<1> USE DEF Inv, TypeOK, lists, idx, req, qctl, seen
<1>1. ReqType'
    BY DEF ReqType, WaiterWakes, sgl_unmap
<1>2. /\ CtlType'
      /\ ListType'
      /\ IdxType'
      /\ SeenType'
      /\ cb' \in [Reqs -> Cb]
      /\ work' \in Work
      /\ hw' \in Hw
      /\ CtlInv'
      /\ RingInv'
      /\ OffsetInv'
    BY DEF CtlType, ListType, IdxType, SeenType, CtlInv, RingInv, OffsetInv, WaiterWakes
<1> QED BY <1>1, <1>2

\* WaiterTimesOut preserves the invariant.
LEMMA WaiterTimesOutStep ==
    ASSUME NEW r \in Reqs, Inv, WaiterTimesOut(r)
    PROVE  Inv'
<1> USE DEF Inv, TypeOK, lists, idx, req, qctl, seen
<1>1. ListType'
    BY ListDelType DEF ListType, WaiterTimesOut
<1>2. ReqType'
    BY DEF ReqType, WaiterTimesOut, Touch, sgl_unmap
<1>3. SeenType'
    BY BoundsAssumption DEF SeenType, WaiterTimesOut, Touch, sgl_unmap
<1>4. /\ CtlType'
      /\ IdxType'
      /\ cb' \in [Reqs -> Cb]
      /\ work' \in Work
      /\ hw' \in Hw
      /\ CtlInv'
      /\ RingInv'
      /\ OffsetInv'
    BY DEF CtlType, IdxType, CtlInv, RingInv, OffsetInv, WaiterTimesOut
<1> QED BY <1>1, <1>2, <1>3, <1>4

\* IntrWork preserves the invariant.
LEMMA IntrWorkStep ==
    ASSUME Inv, IntrWork
    PROVE  Inv'
<1> USE DEF Inv, TypeOK, lists, idx, req, qctl, seen
<1>1. CtlType'
    BY DEF CtlType, IntrWork
<1>2. IdxType'
    BY TakeCreditsStep DEF IntrWork, IdxType, RingInv
<1>3. SeenType'
    BY BoundsAssumption DEF SeenType, IntrWork
<1>4. work' \in Work
    BY DEF Work, IntrWork, AfterCmpl
<1>5. CtlInv'
    <2>1. ctl = "start" => ~TakeCredits
        BY DEF CtlInv, TakeCredits
    <2> QED BY <2>1 DEF CtlType, Hw, CtlInv, IntrWork, TakeCredits
<1>6. RingInv'
    BY TakeCreditsStep DEF IntrWork, IdxType, RingInv
<1>7. /\ ListType'
      /\ ReqType'
      /\ cb' \in [Reqs -> Cb]
      /\ hw' \in Hw
      /\ OffsetInv'
    BY DEF ListType, ReqType, OffsetInv, IntrWork
<1> QED BY <1>1, <1>2, <1>3, <1>4, <1>5, <1>6, <1>7

\* IntrWorkProc preserves the invariant.
LEMMA IntrWorkProcStep ==
    ASSUME Inv, IntrWorkProc
    PROVE  Inv'
<1> USE DEF Inv, TypeOK, lists, idx, req, qctl, seen
<1>1. CtlType'
    BY ProcEnterStep DEF IntrWorkProc
<1>2. IdxType'
    BY ProcEnterStep DEF IntrWorkProc
<1>3. SeenType'
    BY ProcEnterStep DEF SeenType, IntrWorkProc
<1>4. work' \in Work
    BY DEF Work, IntrWorkProc
<1>5. CtlInv'
    BY ProcEnterStep DEF IntrWorkProc
<1>6. RingInv'
    BY ProcEnterStep DEF IntrWorkProc
<1>7. /\ ListType'
      /\ ReqType'
      /\ cb' \in [Reqs -> Cb]
      /\ hw' \in Hw
      /\ OffsetInv'
    BY DEF ListType, ReqType, OffsetInv, IntrWorkProc
<1> QED BY <1>1, <1>2, <1>3, <1>4, <1>5, <1>6, <1>7

\* StopBegin preserves the invariant.
LEMMA StopBeginStep ==
    ASSUME Inv, StopBegin
    PROVE  Inv'
<1> USE DEF Inv, TypeOK, lists, idx, req, qctl, seen
<1>1. CtlType'
    BY DEF CtlType, StopBegin
<1>2. SeenType'
    BY BoundsAssumption DEF SeenType, StopBegin
<1>3. CtlInv'
    BY DEF CtlType, Hw, CtlInv, StopBegin
<1>4. /\ ListType'
      /\ IdxType'
      /\ ReqType'
      /\ cb' \in [Reqs -> Cb]
      /\ work' \in Work
      /\ hw' \in Hw
      /\ RingInv'
      /\ OffsetInv'
    BY DEF ListType, IdxType, ReqType, RingInv, OffsetInv, StopBegin
<1> QED BY <1>1, <1>2, <1>3, <1>4

\* StopWaitEnds preserves the invariant.
LEMMA StopWaitEndsStep ==
    ASSUME Inv, StopWaitEnds
    PROVE  Inv'
<1> USE DEF Inv, TypeOK, lists, idx, req, qctl, seen
<1>1. CtlType'
    BY DEF CtlType, StopWaitEnds
<1>2. SeenType'
    BY BoundsAssumption DEF SeenType, StopWaitEnds
<1>3. CtlInv'
    BY DEF CtlType, Hw, CtlInv, StopWaitEnds
<1>4. /\ ListType'
      /\ IdxType'
      /\ ReqType'
      /\ cb' \in [Reqs -> Cb]
      /\ work' \in Work
      /\ hw' \in Hw
      /\ RingInv'
      /\ OffsetInv'
    BY DEF ListType, IdxType, ReqType, RingInv, OffsetInv, StopWaitEnds
<1> QED BY <1>1, <1>2, <1>3, <1>4

\* StopFinish preserves the invariant.
LEMMA StopFinishStep ==
    ASSUME Inv, StopFinish
    PROVE  Inv'
<1> USE DEF Inv, TypeOK, lists, idx, req, qctl, seen
<1>1. CtlType'
    BY DEF CtlType, StopFinish, Touch, Listed
<1>2. SeenType'
    <2>1. Listed \subseteq Reqs
        BY DEF Listed, ListType, ToSet
    <2> QED BY <2>1 DEF SeenType, StopFinish, Touch
<1>3. cb' \in [Reqs -> Cb]
    BY DEF Cb, StopFinish, Touch, Listed
<1>4. CtlInv'
    BY DEF CtlType, Hw, CtlInv, StopFinish, Touch, Listed
<1>5. OffsetInv'
    BY NeedAssumption DEF Cb, OffsetInv, StopFinish, Touch, Listed
<1>6. /\ ListType'
      /\ IdxType'
      /\ ReqType'
      /\ work' \in Work
      /\ hw' \in Hw
      /\ RingInv'
    BY DEF ListType, IdxType, ReqType, RingInv, StopFinish
<1> QED BY <1>1, <1>2, <1>3, <1>4, <1>5, <1>6

\* StopClear preserves the invariant.
LEMMA StopClearStep ==
    ASSUME Inv, StopClear
    PROVE  Inv'
<1> USE DEF Inv, TypeOK, lists, idx, req, qctl, seen
<1>1. CtlType'
    BY DEF CtlType, StopClear
<1>2. hw' \in Hw
    BY DEF Hw, StopClear
<1>3. CtlInv'
    BY DEF CtlType, Hw, CtlInv, StopClear
<1>4. RingInv'
    BY DEF CtlType, IdxType, Hw, RingInv, StopClear
<1>5. /\ ListType'
      /\ IdxType'
      /\ ReqType'
      /\ SeenType'
      /\ cb' \in [Reqs -> Cb]
      /\ work' \in Work
      /\ OffsetInv'
    BY DEF ListType, IdxType, ReqType, SeenType, OffsetInv, StopClear
<1> QED BY <1>1, <1>2, <1>3, <1>4, <1>5

\* StopFree preserves the invariant.
LEMMA StopFreeStep ==
    ASSUME Inv, StopFree
    PROVE  Inv'
<1> USE DEF Inv, TypeOK, lists, idx, req, qctl, seen
<1>1. CtlType'
    BY DEF CtlType, StopFree
<1>2. CtlInv'
    BY DEF CtlType, Hw, CtlInv, StopFree
<1>3. RingInv'
    BY DEF CtlType, IdxType, Hw, RingInv, StopFree
<1>4. /\ ListType'
      /\ IdxType'
      /\ ReqType'
      /\ SeenType'
      /\ cb' \in [Reqs -> Cb]
      /\ work' \in Work
      /\ hw' \in Hw
      /\ OffsetInv'
    BY DEF ListType, IdxType, ReqType, SeenType, OffsetInv, StopFree
<1> QED BY <1>1, <1>2, <1>3, <1>4

\* StartConfig preserves the invariant.
LEMMA StartConfigStep ==
    ASSUME Inv, StartConfig
    PROVE  Inv'
<1> USE DEF Inv, TypeOK, lists, idx, req, qctl, seen
<1>1. CtlType'
    BY DEF CtlType, StartConfig, ConfigComplete, UsableSlots, Slots
<1>2. ListType'
    BY DEF ListType, StartConfig, ConfigComplete, UsableSlots, Slots
<1>3. IdxType'
    BY RngSzAssumption DEF IdxType, StartConfig, ConfigComplete, UsableSlots, Slots
<1>4. CtlInv'
    BY DEF CtlType, Hw, CtlInv, StartConfig, ConfigComplete, UsableSlots, Slots
<1>5. RingInv'
    BY DEF StartConfig, CtlInv, RingInv
<1>6. /\ ReqType'
      /\ SeenType'
      /\ cb' \in [Reqs -> Cb]
      /\ work' \in Work
      /\ hw' \in Hw
      /\ OffsetInv'
    BY DEF ReqType, SeenType, OffsetInv, StartConfig
<1> QED BY <1>1, <1>2, <1>3, <1>4, <1>5, <1>6

\* StartOnline preserves the invariant.
LEMMA StartOnlineStep ==
    ASSUME Inv, StartOnline
    PROVE  Inv'
<1> USE DEF Inv, TypeOK, lists, idx, req, qctl, seen
<1>1. CtlType'
    BY DEF CtlType, StartOnline, ResetHw, Slots
<1>2. IdxType'
    BY RngSzAssumption DEF IdxType, StartOnline, ResetHw, Slots
<1>3. hw' \in Hw
    <2>1. 0 \in Slots
        BY RngSzAssumption DEF Slots
    <2> QED BY <2>1 DEF StartOnline, ResetHw, Hw
<1>4. CtlInv'
    BY DEF CtlType, Hw, CtlInv, StartOnline, ResetHw, Slots
<1>5. RingInv'
    <2>1. hw'.idx = 0 /\ hw'.doorbell = 0 /\ hw'.wb = 0
        BY DEF StartOnline, ResetHw
    <2>2. pidx' = 0 /\ cidx' = 0 /\ avail' = RngSz - 1
        BY DEF StartOnline, CtlInv
    <2> QED BY <2>1, <2>2, RngSzAssumption DEF RingInv, Dist
<1>6. /\ ListType'
      /\ ReqType'
      /\ SeenType'
      /\ cb' \in [Reqs -> Cb]
      /\ work' \in Work
      /\ OffsetInv'
    BY DEF ListType, ReqType, SeenType, OffsetInv, StartOnline
<1> QED BY <1>1, <1>2, <1>3, <1>4, <1>5, <1>6

\* StartFails preserves the invariant.
LEMMA StartFailsStep ==
    ASSUME Inv, StartFails
    PROVE  Inv'
<1> USE DEF Inv, TypeOK, lists, idx, req, qctl, seen
<1>1. CtlType'
    BY DEF CtlType, StartFails
<1>2. CtlInv'
    BY DEF CtlType, Hw, CtlInv, StartFails
<1>3. /\ ListType'
      /\ IdxType'
      /\ ReqType'
      /\ SeenType'
      /\ cb' \in [Reqs -> Cb]
      /\ work' \in Work
      /\ hw' \in Hw
      /\ RingInv'
      /\ OffsetInv'
    BY DEF ListType, IdxType, ReqType, SeenType, RingInv, OffsetInv, StartFails
<1> QED BY <1>1, <1>2, <1>3

-----------------------------------------------------------------------------
\* The initial state satisfies the invariant.
LEMMA InitInv == Init => Inv
<1> SUFFICES ASSUME Init PROVE Inv
    OBVIOUS
<1> USE RngSzAssumption, BoundsAssumption, NeedAssumption DEF Init
<1>1. CtlType /\ ListType /\ IdxType /\ ReqType /\ SeenType
    <2>1. CtlType
        BY DEF CtlType
    <2>2. ListType
        BY DEF ListType
    <2>3. IdxType
        BY DEF IdxType, Slots
    <2>4. ReqType
        BY DEF ReqType
    <2>5. SeenType
        <3>1. moved \in [Reqs -> Nat] /\ orphans \subseteq Reqs
            OBVIOUS
        <3>2. timeouts \in 0 .. MaxTimeouts /\ stops \in 0 .. MaxStops
            OBVIOUS
        <3>3. stray \in BOOLEAN /\ expired \in BOOLEAN
            OBVIOUS
        <3> QED BY <3>1, <3>2, <3>3 DEF SeenType
    <2> QED BY <2>1, <2>2, <2>3, <2>4, <2>5
<1>2. cb \in [Reqs -> Cb] /\ work \in Work /\ hw \in Hw
    BY DEF Cb, EmptyCb, Work, Hw, ResetHw, Slots
<1>3. CtlInv /\ RingInv /\ OffsetInv
    BY DEF CtlInv, RingInv, OffsetInv, ResetHw, EmptyCb
<1> QED BY <1>1, <1>2, <1>3 DEF Inv, TypeOK

\* Every step preserves it.
LEMMA NextInv == Inv /\ [Next]_vars => Inv'
<1> SUFFICES ASSUME Inv, [Next]_vars PROVE Inv'
    OBVIOUS
<1>1. ASSUME NEW r \in Reqs, Submit(r) \/ WaiterTimesOut(r) PROVE Inv'
    BY <1>1, SubmitMapStep, SubmitAddStep, SubmitProcStep, WaiterWakesStep,
       WaiterTimesOutStep DEF Submit
<1>2. CASE IntrWork \/ IntrWorkProc
    BY <1>2, IntrWorkStep, IntrWorkProcStep
<1>3. CASE Cmpl
    BY <1>3, CmplDoneStep, CmplPartStep, CmplEndStep DEF Cmpl
<1>4. CASE Post
    BY <1>4, PostOneStep, PostEndStep DEF Post
<1>5. CASE Stop
    BY <1>5, StopBeginStep, StopWaitEndsStep, StopFinishStep, StopClearStep,
       StopFreeStep DEF Stop
<1>6. CASE Start
    BY <1>6, StartConfigStep, StartOnlineStep, StartFailsStep DEF Start
<1>7. CASE HwTransfer \/ HwWriteback
    BY <1>7, HwTransferStep, HwWritebackStep
<1>8. CASE UNCHANGED vars
    BY <1>8 DEF vars, Inv, TypeOK, CtlType, ListType, IdxType, ReqType, SeenType,
                CtlInv, RingInv, OffsetInv
<1> QED BY <1>1, <1>2, <1>3, <1>4, <1>5, <1>6, <1>7, <1>8 DEF Next, Step

\* The inductive invariant holds in every reachable state.
THEOREM Invariance == Spec => []Inv
    BY InitInv, NextInv, PTL DEF Spec

\* Type correctness of the queue's state: in particular avail, which the code
\* adds to and subtracts from without a check, stays within 0 .. rngsz - 1.
THEOREM TypeCorrect == Spec => []TypeOK
<1>1. Inv => TypeOK
    BY DEF Inv
<1> QED BY <1>1, Invariance, PTL

\* The driver, the doorbell and the engine never overtake each other on the
\* descriptor ring, and avail counts its free slots exactly, whatever requests
\* time out and whenever the queue is stopped and started.
THEOREM RingOrderHolds == Spec => []RingOrder
<1>1. Inv => RingOrder
    BY DEF Inv, CtlInv, RingInv, RingOrder
<1> QED BY <1>1, Invariance, PTL

-----------------------------------------------------------------------------
(***************************************************************************)
(* Stopping an H2C queue.                                                  *)
(***************************************************************************)

\* The initial state satisfies PendInv.
LEMMA InitPendInv == Init => PendInv
    BY DEF Init, PendInv, FreedRingUnread

\* Entering descq_mm_proc_request() keeps PendInv.
LEMMA ProcEnterPend ==
    ASSUME ~C2H, Inv, PendInv, ProcEnter, lock = "free",
           UNCHANGED <<q_state, q_stop_wait, ctl, ring, expired, pend_list_empty>>
    PROVE  PendInv'
<1> USE DEF Inv, TypeOK, PendInv, FreedRingUnread, CtlType, idx
<1>1. CASE q_stop_wait
    BY <1>1 DEF ProcEnter, NothingNew, ReadFreedRing, TakeCredits, CtlInv, SeenType
<1>2. CASE ~q_stop_wait
    <2>1. /\ UNCHANGED <<pidx, cidx, fault>>
          /\ lock # "posted" /\ lock' # "posted"
        BY <1>2 DEF ProcEnter
    <2> QED BY <1>2, <2>1
<1> QED BY <1>1, <1>2

\* Every step of an H2C queue preserves PendInv.
LEMMA NextPendInv ==
    ASSUME ~C2H, Inv, PendInv, [Next]_vars
    PROVE  PendInv'
<1> USE DEF Inv, TypeOK, PendInv, FreedRingUnread, CtlType, lists, idx, req, qctl, seen
<1>1. CASE HwTransfer
    BY <1>1 DEF HwTransfer, Touch, SeenType
<1>2. CASE HwWriteback
    BY <1>2 DEF HwWriteback, Touch, SeenType
<1>3. CASE CmplDone
    <2>1. pend_list_empty' /\ ring = "allocated" => pidx = cidx
        <3>1. pend_list_empty' = (avail = RngSz - 1)
            BY <1>3 DEF CmplDone, PendListEmpty, UsableSlots
        <3>2. ring = "allocated" /\ avail = RngSz - 1 => Dist(pidx, cidx) = 0
            BY RngSzAssumption DEF RingInv, IdxType, Dist, Slots
        <3> QED BY <3>1, <3>2, DistBounds DEF IdxType
    <2> QED BY <2>1, <1>3 DEF CmplDone, Touch
<1>4. CASE CmplPart
    BY <1>4 DEF CmplPart, Touch, SeenType
<1>5. CASE CmplEnd
    BY <1>5 DEF CmplEnd, Touch, SeenType
<1>6. CASE PostOne
    BY <1>6 DEF PostOne, UpdateRequest, Touch, CtlInv, SeenType
<1>7. CASE PostEnd
    BY <1>7 DEF PostEnd, Touch, SeenType
<1>8. ASSUME NEW r \in Reqs, SubmitMap(r) PROVE PendInv'
    BY <1>8 DEF SubmitMap, Touch, SeenType
<1>9. ASSUME NEW r \in Reqs, SubmitAdd(r) PROVE PendInv'
    BY <1>9 DEF SubmitAdd, Touch, SeenType
<1>10. ASSUME NEW r \in Reqs, SubmitProc(r) PROVE PendInv'
    <2>1. /\ ProcEnter /\ lock = "free"
          /\ UNCHANGED <<q_state, q_stop_wait, ctl, ring, expired, pend_list_empty>>
        BY <1>10 DEF SubmitProc
    <2> QED BY <2>1, ProcEnterPend
<1>11. ASSUME NEW r \in Reqs, WaiterWakes(r) PROVE PendInv'
    BY <1>11 DEF WaiterWakes, Touch, SeenType
<1>12. ASSUME NEW r \in Reqs, WaiterTimesOut(r) PROVE PendInv'
    BY <1>12 DEF WaiterTimesOut, Touch, SeenType
<1>13. CASE IntrWork
    BY <1>13 DEF IntrWork, NothingNew, ReadFreedRing, TakeCredits, SeenType
<1>14. CASE IntrWorkProc
    <2>1. /\ ProcEnter /\ lock = "free"
          /\ UNCHANGED <<q_state, q_stop_wait, ctl, ring, expired, pend_list_empty>>
        BY <1>14 DEF IntrWorkProc
    <2> QED BY <2>1, ProcEnterPend
<1>15. CASE StopBegin
    BY <1>15 DEF StopBegin, CtlInv, ConfigComplete, Touch, SeenType
<1>16. CASE StopWaitEnds
    BY <1>16 DEF StopWaitEnds, CtlInv, ConfigComplete, Touch, SeenType
<1>17. CASE StopFinish
    BY <1>17 DEF StopFinish, CtlInv, ConfigComplete, Touch, SeenType
<1>18. CASE StopClear
    BY <1>18 DEF StopClear, CtlInv, ConfigComplete, Touch, SeenType
<1>19. CASE StopFree
    BY <1>19 DEF StopFree, CtlInv, ConfigComplete, Touch, SeenType
<1>20. CASE StartConfig
    BY <1>20 DEF StartConfig, CtlInv, ConfigComplete, Touch, SeenType
<1>21. CASE StartOnline
    BY <1>21 DEF StartOnline, CtlInv, ConfigComplete, Touch, SeenType
<1>22. CASE StartFails
    BY <1>22 DEF StartFails, Touch, SeenType
<1>23. CASE UNCHANGED vars
    BY <1>23 DEF vars
<1> QED
    BY <1>1, <1>2, <1>3, <1>4, <1>5, <1>6, <1>7, <1>8, <1>9, <1>10, <1>11, <1>12,
       <1>13, <1>14, <1>15, <1>16, <1>17, <1>18, <1>19, <1>20, <1>21, <1>22, <1>23
    DEF Next, Step, Submit, Cmpl, Post, Stop, Start

\* On an H2C queue (fp_descq_c2h_packet is not set), a qdma_queue_stop() whose
\* wait does not time out gives the ring up only when it is empty and the engine
\* is idle.
THEOREM StopDrainsHolds == ASSUME ~C2H PROVE Spec => []StopDrains
<1>1. Init => Inv /\ PendInv
    BY InitInv, InitPendInv
<1>2. (Inv /\ PendInv) /\ [Next]_vars => (Inv /\ PendInv)'
    BY NextInv, NextPendInv
<1>3. Inv /\ PendInv => StopDrains
    <2> SUFFICES ASSUME Inv, PendInv, ctl \in {"stop_clear", "stop_free"}, ~expired
                 PROVE  pidx = cidx /\ hw.idx = pidx
        BY DEF StopDrains
    <2>1. pidx = cidx /\ ring = "allocated"
        BY DEF Inv, CtlInv, PendInv
    <2>2. {cidx, pidx, hw.idx, hw.doorbell} \subseteq Slots
        BY DEF Inv, TypeOK, IdxType, Hw
    <2>3. Dist(hw.idx, cidx) = 0
        BY <2>1, <2>2, RngSzAssumption DEF Inv, RingInv, Dist, Slots
    <2> QED BY <2>1, <2>2, <2>3, DistBounds
<1> QED BY <1>1, <1>2, <1>3, PTL DEF Spec

\* On an H2C queue, intr_work() never reads the ring that a qdma_queue_stop()
\* has freed, unless that stop's wait timed out.
THEOREM FreedRingUnreadHolds == ASSUME ~C2H PROVE Spec => []FreedRingUnread
<1>1. Init => Inv /\ PendInv
    BY InitInv, InitPendInv
<1>2. (Inv /\ PendInv) /\ [Next]_vars => (Inv /\ PendInv)'
    BY NextInv, NextPendInv
<1>3. Inv /\ PendInv => FreedRingUnread
    BY DEF PendInv
<1> QED BY <1>1, <1>2, <1>3, PTL DEF Spec

-----------------------------------------------------------------------------
\* A non-empty collection of subsets of a finite set has a minimal member.
LEMMA MinimalSet ==
  ASSUME NEW S, IsFiniteSet(S), NEW C \in SUBSET (SUBSET S), C # {}
  PROVE  \E T \in C : \A U \in C : U \subseteq T => U = T
<1>1. IsWellFoundedOn(StrictSubsetOrdering(S), SUBSET S)
  BY FS_StrictSubsetOrderingWellFounded, FS_FiniteSubsetsOfFinite
<1>2. PICK T \in C : \A U \in C : ~(<<U, T>> \in StrictSubsetOrdering(S))
  BY <1>1, WFMin
<1>. QED BY <1>2 DEF StrictSubsetOrdering

\* Induction over the subsets of a finite set
LEMMA SubsetInduction ==
  ASSUME NEW S, IsFiniteSet(S), NEW G \in SUBSET (SUBSET S), {} \in G,
         \A T \in SUBSET S : T # {} /\ (\A x \in T : T \ {x} \in G) => T \in G
  PROVE  S \in G
<1>. SUFFICES ASSUME S \notin G PROVE FALSE
  OBVIOUS
<1>. DEFINE C == (SUBSET S) \ G
<1>1. C \in SUBSET (SUBSET S) /\ S \in C
  OBVIOUS
<1>2. PICK T \in C : \A U \in C : U \subseteq T => U = T
  <2>. HIDE DEF C
  <2>. QED BY <1>1, MinimalSet
<1>3. \A x \in T : T \ {x} \in G
  BY <1>2
<1>. QED BY <1>2, <1>3

\* Induction over the subsets of a finite set: from every T without an element to T itself.
LEMMA EverySubset ==
  ASSUME NEW S, IsFiniteSet(S), NEW G \in SUBSET (SUBSET S), {} \in G,
         \A T \in SUBSET S : T # {} /\ (\A x \in T : T \ {x} \in G) => T \in G
  PROVE  \A T \in SUBSET S : T \in G
<1>. SUFFICES ASSUME NEW T \in SUBSET S PROVE T \in G
  OBVIOUS
<1>. DEFINE H == G \cap SUBSET T
<1>1. IsFiniteSet(T) /\ H \in SUBSET (SUBSET T) /\ {} \in H
  BY FS_Subset
<1>2. \A U \in SUBSET T : U # {} /\ (\A x \in U : U \ {x} \in H) => U \in H
  OBVIOUS
<1>. HIDE DEF H
<1>3. T \in H
  BY <1>1, <1>2, SubsetInduction
<1>. QED BY <1>3 DEF H

\* A set of naturals with 0 and every successor is all of them.
LEMMA NatInductionSet ==
  ASSUME NEW N \in SUBSET Nat, 0 \in N, \A n \in N : n + 1 \in N
  PROVE  N = Nat
<1>. SUFFICES ASSUME NEW k \in Nat, k \notin N PROVE FALSE
  OBVIOUS
<1>. DEFINE C == {1 .. m : m \in 0 .. k} \ {1 .. m : m \in N}
<1>1. IsFiniteSet(1 .. k)
  BY FS_Interval
<1>2. \A m, n \in Nat : 1 .. m \subseteq 1 .. n <=> m <= n
  <2>. SUFFICES ASSUME NEW m \in Nat, NEW n \in Nat PROVE 1 .. m \subseteq 1 .. n <=> m <= n
    OBVIOUS
  <2>1. m \in 1 .. m \/ m = 0
    OBVIOUS
  <2>. QED BY <2>1
<1>3. \A m, n \in Nat : 1 .. m = 1 .. n => m = n
  BY <1>2
<1>4. 1 .. k \in C /\ C \in SUBSET (SUBSET (1 .. k))
  <2>1. \A n \in N : n \in Nat /\ 1 .. k # 1 .. n
    BY <1>3
  <2>2. k \in 0 .. k
    OBVIOUS
  <2>3. 1 .. k \in C
    BY ONLY <2>1, <2>2 DEF C
  <2>4. \A m \in 0 .. k : 1 .. m \in SUBSET (1 .. k)
    OBVIOUS
  <2>5. C \subseteq {1 .. m : m \in 0 .. k}
    OBVIOUS
  <2>. QED BY ONLY <2>3, <2>4, <2>5
<1>5. PICK T \in C : \A U \in C : U \subseteq T => U = T
  <2>. DEFINE K == 1 .. k
  <2>1. IsFiniteSet(K) /\ C \in SUBSET (SUBSET K) /\ C # {}
    BY <1>1, <1>4
  <2>. HIDE DEF C, K
  <2>. QED BY <2>1, MinimalSet
<1>6. PICK m \in 0 .. k : T = 1 .. m
  OBVIOUS
<1>7. m \notin N /\ m # 0
  BY <1>6
<1>8. m - 1 \notin N
  BY <1>7
<1>9. 1 .. (m - 1) \in C
  <2>1. m - 1 \in 0 .. k /\ m - 1 \in Nat
    BY ONLY <1>7, m \in 0 .. k, k \in Nat
  <2>2. \A n \in N : n \in Nat /\ 1 .. (m - 1) # 1 .. n
    BY <1>3, <1>8, <2>1
  <2>. QED BY ONLY <2>1, <2>2 DEF C
<1>10. 1 .. (m - 1) \subseteq 1 .. m
  OBVIOUS
<1>11. 1 .. (m - 1) = 1 .. m
  BY <1>5, <1>6, <1>9, <1>10
<1>. QED BY <1>3, <1>7, <1>11

Chosen(s) == CHOOSE x \in s : TRUE
SumEq(f, D, F) == f = [s \in D |-> IF s = {} THEN 0 ELSE F[Chosen(s)] + f[s \ {Chosen(s)}]]
Natural(S, F) == \A x \in S : F[x] \in Nat
AnyOrder(f, S, F) == \A T \in SUBSET S : \A x \in T : f[T] = F[x] + f[T \ {x}]
IsSum(f, S, F) == SumEq(f, SUBSET S, F)

\* There is a function that adds up F over every subset of a finite set.
LEMMA SumExists ==
  ASSUME NEW S, IsFiniteSet(S), NEW F
  PROVE  \E f : IsSum(f, S, F)
<1>. DEFINE D(n) == {s \in SUBSET S : Cardinality(s) <= n}
            N == {n \in Nat : \E f : SumEq(f, D(n), F)}
<1>1. \A s \in SUBSET S : IsFiniteSet(s) /\ Cardinality(s) \in Nat
                            /\ (Cardinality(s) = 0 <=> s = {})
  BY FS_Subset, FS_CardinalityType, FS_EmptySet
<1>2. \A s \in SUBSET S : s # {} =>
        /\ s \ {Chosen(s)} \in SUBSET S
        /\ Cardinality(s \ {Chosen(s)}) = Cardinality(s) - 1
  <2>. SUFFICES ASSUME NEW s \in SUBSET S, s # {}
                PROVE  Cardinality(s \ {Chosen(s)}) = Cardinality(s) - 1
    OBVIOUS
  <2>1. Chosen(s) \in s
    BY DEF Chosen
  <2>. QED BY <1>1, <2>1, FS_RemoveElement
<1>3. 0 \in N
  <2>1. D(0) = {{}}
    BY <1>1
  <2>. DEFINE f == [s \in {{}} |-> 0]
  <2>2. SumEq(f, {{}}, F)
    BY DEF SumEq, IsSum
  <2>. QED BY <2>1, <2>2
<1>4. ASSUME NEW n \in N PROVE n + 1 \in N
  <2>1. PICK f : SumEq(f, D(n), F)
    OBVIOUS
  <2>. DEFINE g == [s \in D(n + 1) |->
                      IF s = {} THEN 0 ELSE F[Chosen(s)] + f[s \ {Chosen(s)}]]
  <2>2. D(n) \subseteq D(n + 1)
    BY <1>1
  <2>3. \A s \in D(n) : g[s] = f[s]
    BY <2>1, <2>2 DEF SumEq
  <2>4. \A s \in D(n + 1) : s # {} => s \ {Chosen(s)} \in D(n)
    BY <1>1, <1>2
  <2>5. g = [s \in D(n + 1) |-> IF s = {} THEN 0 ELSE F[Chosen(s)] + g[s \ {Chosen(s)}]]
    BY <2>3, <2>4
  <2>6. SumEq(g, D(n + 1), F)
    BY <2>5 DEF SumEq
  <2>7. \E h : SumEq(h, D(n + 1), F)
    <3>. HIDE DEF g
    <3>. QED BY <2>6
  <2>. HIDE DEF D
  <2>. QED BY <2>7
<1>5. N = Nat
  <2>. HIDE DEF N
  <2>1. N \in SUBSET Nat
    BY DEF N
  <2>. QED BY <1>3, <1>4, <2>1, NatInductionSet
<1>6. Cardinality(S) \in Nat /\ D(Cardinality(S)) = SUBSET S
  BY <1>1, FS_Subset
<1>. QED BY <1>5, <1>6 DEF IsSum

\* The sum of F over S, and that it does not matter in which order it is made up
LEMMA SumOfSet ==
  ASSUME NEW S, IsFiniteSet(S), NEW F, Natural(S, F), NEW f, IsSum(f, S, F)
  PROVE  /\ f \in [SUBSET S -> Nat]
         /\ AnyOrder(f, S, F)
<1>1. /\ DOMAIN f = SUBSET S /\ f[{}] = 0
      /\ \A T \in SUBSET S : T # {} => f[T] = F[Chosen(T)] + f[T \ {Chosen(T)}]
  BY DEF SumEq, IsSum
<1>0. \A x \in S : F[x] \in Nat
  BY DEF Natural
<1>2. \A T \in SUBSET S : T # {} => Chosen(T) \in T
  BY DEF Chosen
<1>3. f \in [SUBSET S -> Nat]
  <2>. DEFINE G == {T \in SUBSET S : f[T] \in Nat}
  <2>0. {} \in G
    BY <1>1
  <2>5. ASSUME NEW T \in SUBSET S, T # {}, \A x \in T : T \ {x} \in G PROVE T \in G
    <3>. DEFINE c == Chosen(T)
    <3>1. c \in T /\ c \in S /\ f[T] = F[c] + f[T \ {c}]
      BY <1>1, <1>2, <2>5
    <3>. HIDE DEF c
    <3>2. f[T \ {c}] \in Nat /\ F[c] \in Nat
      BY <1>0, <2>5, <3>1
    <3>. QED BY <3>1, <3>2
  <2>. HIDE DEF G
  <2>1. {} \in G /\ \A T \in SUBSET S : T # {} /\ (\A x \in T : T \ {x} \in G) => T \in G
    BY <2>0, <2>5
  <2>4. G \in SUBSET (SUBSET S)
    BY DEF G
  <2>2. \A T \in SUBSET S : T \in G
    BY <2>1, <2>4, EverySubset
  <2>3. f = [T \in SUBSET S |-> f[T]]
    BY DEF SumEq, IsSum
  <2>. QED BY <2>2, <2>3 DEF G
<1>. DEFINE G == {T \in SUBSET S : \A x \in T : f[T] = F[x] + f[T \ {x}]}
<1>4. {} \in G
  OBVIOUS
<1>5. ASSUME NEW T \in SUBSET S, T # {}, \A x \in T : T \ {x} \in G PROVE T \in G
  <2>. DEFINE c == Chosen(T)
  <2>1. c \in T /\ f[T] = F[c] + f[T \ {c}]
    BY <1>1, <1>2, <1>5
  <2>. HIDE DEF c
  <2>2. ASSUME NEW x \in T, x # c PROVE f[T] = F[x] + f[T \ {x}]
    <3>1. f[T \ {c}] = F[x] + f[(T \ {c}) \ {x}] /\ f[T \ {x}] = F[c] + f[(T \ {x}) \ {c}]
      BY <1>5, <2>1, <2>2
    <3>2. (T \ {c}) \ {x} = (T \ {x}) \ {c}
      OBVIOUS
    <3>3. f[(T \ {x}) \ {c}] \in Nat /\ F[x] \in Nat /\ F[c] \in Nat
      BY <1>0, <1>3, <2>1
    <3>. DEFINE a == f[(T \ {x}) \ {c}]
    <3>4. /\ f[T \ {c}] = F[x] + a /\ f[T \ {x}] = F[c] + a /\ a \in Nat
          /\ F[x] \in Nat /\ F[c] \in Nat
      BY <3>1, <3>2, <3>3
    <3>. HIDE DEF a
    <3>. QED BY <2>1, <3>4
  <2>. QED BY <2>1, <2>2
<1>6. \A T \in SUBSET S : T \in G
  <2>. HIDE DEF G
  <2>1. G \in SUBSET (SUBSET S)
    BY DEF G
  <2>. QED BY <1>4, <1>5, <2>1, EverySubset
<1>. QED BY <1>3, <1>6 DEF AnyOrder

\* Two such functions agree wherever what they add up agrees.
LEMMA SumUnique ==
  ASSUME NEW S, IsFiniteSet(S), NEW F, NEW f, IsSum(f, S, F), NEW R, NEW H, NEW g, 
         S \subseteq R, IsSum(g, R, H), \A x \in S : F[x] = H[x]
  PROVE  f[S] = g[S]
<1>1. /\ f[{}] = 0 /\ g[{}] = 0
      /\ \A T \in SUBSET S : T # {} => /\ f[T] = F[Chosen(T)] + f[T \ {Chosen(T)}]
                                     /\ g[T] = H[Chosen(T)] + g[T \ {Chosen(T)}]
  BY DEF SumEq, IsSum
<1>. DEFINE G == {T \in SUBSET S : f[T] = g[T]}
<1>2. {} \in G
  BY <1>1
<1>3. \A T \in SUBSET S : T # {} => Chosen(T) \in T
  BY DEF Chosen
<1>4. ASSUME NEW T \in SUBSET S, T # {}, \A x \in T : T \ {x} \in G PROVE T \in G
  <2>1. PICK c \in T : c = Chosen(T)
    BY <1>3, <1>4
  <2>2. f[T \ {c}] = g[T \ {c}]
    BY <1>4
  <2>3. F[c] = H[c]
    OBVIOUS
  <2>4. f[T] = F[c] + f[T \ {c}] /\ g[T] = H[c] + g[T \ {c}]
    BY ONLY <1>1, <1>4, <2>1
  <2>5. f[T] = g[T]
    BY ONLY <2>2, <2>3, <2>4
  <2>. QED BY <2>5
<1>. HIDE DEF G
<1>5. G \in SUBSET (SUBSET S)
  BY DEF G
<1>6. S \in G
  BY <1>2, <1>4, <1>5, SubsetInduction
<1>. QED BY <1>6 DEF G

Total(c, S) == MapThenSumSet(LAMBDA r : c[r].desc_nr, S)
DescNr(c) == [r \in Reqs |-> c[r].desc_nr]

\* Total is such a sum of the posted descriptors.
LEMMA TotalIs ==
  ASSUME NEW S \in SUBSET Reqs, IsFiniteSet(S), NEW c \in [Reqs -> Cb]
  PROVE  \E f : IsSum(f, S, DescNr(c)) /\ Total(c, S) = f[S]
<1>. DEFINE F == [r \in Reqs |-> c[r].desc_nr]
            f == CHOOSE f : f = [s \in SUBSET S |->
                    IF s = {} THEN 0
                    ELSE c[CHOOSE x \in s : TRUE].desc_nr + f[s \ {CHOOSE x \in s : TRUE}]]
<1>1. \A s \in SUBSET S : s # {} => Chosen(s) \in s /\ F[Chosen(s)] = c[Chosen(s)].desc_nr
  BY DEF Chosen
<1>2. \A g : IsSum(g, S, F) <=>
        g = [s \in SUBSET S |-> IF s = {} THEN 0
                               ELSE c[Chosen(s)].desc_nr + g[s \ {Chosen(s)}]]
  <2>. HIDE DEF F
  <2>. QED BY <1>1 DEF SumEq, IsSum
<1>3. PICK g : IsSum(g, S, F)
  <2>. HIDE DEF F
  <2>. QED BY SumExists
<1>4. \E h : h = [s \in SUBSET S |->
                    IF s = {} THEN 0
                    ELSE c[CHOOSE x \in s : TRUE].desc_nr + h[s \ {CHOOSE x \in s : TRUE}]]
  <2>1. g = [s \in SUBSET S |->
                    IF s = {} THEN 0
                    ELSE c[CHOOSE x \in s : TRUE].desc_nr + g[s \ {CHOOSE x \in s : TRUE}]]
    BY <1>2, <1>3 DEF Chosen
  <2>. QED BY <2>1
<1>5. f = [s \in SUBSET S |->
                    IF s = {} THEN 0
                    ELSE c[CHOOSE x \in s : TRUE].desc_nr + f[s \ {CHOOSE x \in s : TRUE}]]
  BY <1>4, Zenon
<1>6. Total(c, S) = f[S]
  BY DEF Total, MapThenSumSet, MapThenFoldSet
<1>. HIDE DEF f, F
<1>7. IsSum(f, S, F)
  BY <1>2, <1>5 DEF Chosen
<1>. QED BY <1>6, <1>7 DEF F, DescNr

\* The total is a number; it loses what a request that is taken out has, and
\* depends on nothing but the requests in the set.
LEMMA TotalOut ==
  ASSUME NEW S \in SUBSET Reqs, IsFiniteSet(S), NEW c \in [Reqs -> Cb]
  PROVE  /\ Total(c, S) \in Nat /\ Total(c, {}) = 0
         /\ \A r \in S : Total(c, S) = c[r].desc_nr + Total(c, S \ {r})
<1>. DEFINE F == DescNr(c)
<1>1. \A T \in SUBSET S : IsFiniteSet(T) /\ T \in SUBSET Reqs
  BY FS_Subset
<1>2. \A r \in S : F[r] \in Nat /\ F[r] = c[r].desc_nr
  BY DEF Cb, DescNr
<1>3. \A T \in SUBSET S : \E f : IsSum(f, T, F) /\ Total(c, T) = f[T]
  BY <1>1, TotalIs
<1>. HIDE DEF F
<1>4. PICK g : IsSum(g, S, F)
  BY SumExists
<1>5. ASSUME NEW T \in SUBSET S PROVE Total(c, T) = g[T]
  <2>1. PICK f : IsSum(f, T, F) /\ Total(c, T) = f[T]
    BY <1>3
  <2>2. IsFiniteSet(T) /\ T \subseteq S /\ \A x \in T : F[x] = F[x]
    BY <1>1
  <2>. QED BY <1>4, <2>1, <2>2, SumUnique
<1>6. /\ g \in [SUBSET S -> Nat]
      /\ AnyOrder(g, S, F)
  <2>1. Natural(S, F)
    BY <1>2 DEF Natural
  <2>. QED BY <1>4, <2>1, SumOfSet
<1>7. g[{}] = 0
  BY <1>4 DEF SumEq, IsSum
<1>8. Total(c, S) = g[S] /\ Total(c, {}) = g[{}] /\ g[S] \in Nat
  BY <1>5, <1>6
<1>9. ASSUME NEW r \in S PROVE Total(c, S) = c[r].desc_nr + Total(c, S \ {r})
  <2>1. g[S] = F[r] + g[S \ {r}]
    BY <1>6 DEF AnyOrder
  <2>2. Total(c, S \ {r}) = g[S \ {r}]
    BY <1>5
  <2>. QED BY <1>2, <1>8, <2>1, <2>2
<1>. QED BY <1>7, <1>8, <1>9

\* Total depends on desc_nr alone.
LEMMA TotalSame ==
  ASSUME NEW S \in SUBSET Reqs, IsFiniteSet(S), NEW c \in [Reqs -> Cb], NEW d \in [Reqs -> Cb],
         \A r \in S : c[r].desc_nr = d[r].desc_nr
  PROVE  Total(c, S) = Total(d, S)
<1>. DEFINE F == DescNr(c)
            G == DescNr(d)
<1>1. \A r \in S : F[r] = G[r]
  BY DEF DescNr
<1>2. (\E f : IsSum(f, S, F) /\ Total(c, S) = f[S])
      /\ \E f : IsSum(f, S, G) /\ Total(d, S) = f[S]
  BY TotalIs
<1>. HIDE DEF F, G
<1>3. PICK f : IsSum(f, S, F) /\ Total(c, S) = f[S]
  BY <1>2
<1>4. PICK g : IsSum(g, S, G) /\ Total(d, S) = g[S]
  BY <1>2
<1>5. S \subseteq S
  OBVIOUS
<1>6. IsSum(f, S, F) /\ IsSum(g, S, G)
  BY <1>3, <1>4
<1>7. f[S] = g[S]
  <2>1. IsFiniteSet(S)
    OBVIOUS
  <2>. QED BY ONLY <1>1, <1>5, <1>6, <2>1, SumUnique
<1>. QED BY <1>3, <1>4, <1>7

-----------------------------------------------------------------------------
(***************************************************************************)
(* Lists.                                                                  *)
(***************************************************************************)
NoDup(s) == \A i, j \in DOMAIN s : s[i] = s[j] => i = j

\* The requests of a list are a finite set.
LEMMA FiniteList ==
  ASSUME NEW s \in Seq(Reqs)
  PROVE  ToSet(s) \in SUBSET Reqs /\ IsFiniteSet(ToSet(s))
<1>1. s \in Surjection(1 .. Len(s), ToSet(s))
  BY DEF Surjection, ToSet
<1>2. IsFiniteSet(1 .. Len(s))
  BY FS_Interval
<1>. QED BY <1>1, <1>2, FS_Surjection DEF ToSet

\* What the tail of a list without duplicates holds.
LEMMA TailSet ==
  ASSUME NEW s \in Seq(Reqs), s # <<>>, NoDup(s)
  PROVE  /\ Tail(s) \in Seq(Reqs) /\ NoDup(Tail(s)) /\ Head(s) \in ToSet(s)
         /\ ToSet(Tail(s)) = ToSet(s) \ {Head(s)}
<1>1. /\ Tail(s) \in Seq(Reqs) /\ Len(s) \in Nat \ {0} /\ Len(Tail(s)) = Len(s) - 1
      /\ Head(s) = s[1] /\ \A i \in 1 .. Len(s) - 1 : Tail(s)[i] = s[i + 1]
  OBVIOUS
<1>2. NoDup(Tail(s))
  BY <1>1 DEF NoDup
<1>3. \A i \in 2 .. Len(s) : i - 1 \in 1 .. Len(s) - 1 /\ s[i] = Tail(s)[i - 1]
  BY <1>1
<1>. DEFINE t == Tail(s)
<1>4. /\ DOMAIN s = 1 .. Len(s) /\ DOMAIN t = 1 .. Len(s) - 1
      /\ \A i \in 1 .. Len(s) - 1 : t[i] = s[i + 1]
  BY <1>1
<1>5. t \in Seq(Reqs) /\ NoDup(t)
  BY <1>1, <1>2
<1>. HIDE DEF t
<1>6. \A x \in ToSet(t) : x \in ToSet(s) /\ x # s[1]
  <2>. SUFFICES ASSUME NEW i \in DOMAIN t PROVE t[i] \in ToSet(s) /\ t[i] # s[1]
    BY DEF ToSet
  <2>1. t[i] = s[i + 1] /\ i + 1 \in DOMAIN s /\ 1 \in DOMAIN s /\ i + 1 # 1
    BY <1>1, <1>4
  <2>. QED BY <2>1 DEF ToSet, NoDup
<1>7. \A x \in ToSet(s) : x # s[1] => x \in ToSet(t)
  <2>. SUFFICES ASSUME NEW i \in DOMAIN s, s[i] # s[1] PROVE s[i] \in ToSet(t)
    BY DEF ToSet
  <2>1. i - 1 \in DOMAIN t /\ t[i - 1] = s[i]
    BY <1>1, <1>4
  <2>. QED BY <2>1 DEF ToSet
<1>8. s[1] \in ToSet(s)
  BY <1>1, <1>4 DEF ToSet
<1>. QED BY <1>1, <1>5, <1>6, <1>7, <1>8 DEF t

\* What a list holds after an append.
LEMMA AppendSet ==
  ASSUME NEW s \in Seq(Reqs), NEW r \in Reqs
  PROVE  /\ Append(s, r) \in Seq(Reqs) /\ ToSet(Append(s, r)) = ToSet(s) \cup {r}
         /\ NoDup(s) /\ r \notin ToSet(s) => NoDup(Append(s, r))
<1>1. /\ Len(Append(s, r)) = Len(s) + 1 /\ Append(s, r)[Len(s) + 1] = r
      /\ \A i \in 1 .. Len(s) : Append(s, r)[i] = s[i]
      /\ DOMAIN s = 1 .. Len(s) /\ DOMAIN Append(s, r) = 1 .. Len(s) + 1 /\ Len(s) \in Nat
  OBVIOUS
<1>. QED BY <1>1 DEF ToSet, NoDup

\* What the second part of a concatenation holds.
LEMMA SecondPart ==
  ASSUME NEW S, NEW p \in Seq(S), NEW q \in Seq(S),
         NEW j \in Len(p) + 1 .. Len(p) + Len(q)
  PROVE  (p \o q)[j] = q[j - Len(p)]
OBVIOUS

\* What a list holds after list_del().
LEMMA DelSet ==
  ASSUME NEW s \in Seq(Reqs), NEW r, NoDup(s)
  PROVE  NoDup(list_del(s, r)) /\ ToSet(list_del(s, r)) = ToSet(s) \ {r}
<1>1. CASE r \notin ToSet(s)
  BY <1>1 DEF list_del
<1>2. CASE r \in ToSet(s)
  <2>1. PICK i \in DOMAIN s : i = (CHOOSE j \in DOMAIN s : s[j] = r) /\ s[i] = r
    BY <1>2 DEF ToSet
  <2>. DEFINE t == SubSeq(s, 1, i - 1) \o SubSeq(s, i + 1, Len(s))
  <2>2. list_del(s, r) = t
    BY <1>2, <2>1 DEF list_del, RemoveAt
  <2>3. i \in 1 .. Len(s) /\ Len(s) \in Nat
    OBVIOUS
  <2>4. /\ Len(t) = Len(s) - 1
        /\ \A j \in 1 .. i - 1 : t[j] = s[j]
        /\ \A j \in i .. Len(s) - 1 : t[j] = s[j + 1]
    <3>1. /\ SubSeq(s, 1, i - 1) \in Seq(Reqs) /\ Len(SubSeq(s, 1, i - 1)) = i - 1
          /\ \A j \in 1 .. i - 1 : SubSeq(s, 1, i - 1)[j] = s[j]
      BY <2>3
    <3>2. /\ SubSeq(s, i + 1, Len(s)) \in Seq(Reqs) /\ Len(SubSeq(s, i + 1, Len(s))) = Len(s) - i
          /\ \A j \in 1 .. Len(s) - i : SubSeq(s, i + 1, Len(s))[j] = s[j + i]
      BY <2>3
    <3>. DEFINE u == SubSeq(s, 1, i - 1)
                v == SubSeq(s, i + 1, Len(s))
    <3>3. u \in Seq(Reqs) /\ v \in Seq(Reqs) /\ Len(u) = i - 1 /\ Len(v) = Len(s) - i
      BY <3>1, <3>2
    <3>4. /\ \A j \in 1 .. i - 1 : u[j] = s[j]
          /\ \A j \in 1 .. Len(s) - i : v[j] = s[j + i]
      BY <3>1, <3>2
    <3>. HIDE DEF u, v
    <3>5. /\ Len(u \o v) = Len(s) - 1
          /\ \A j \in 1 .. i - 1 : (u \o v)[j] = u[j]
          /\ \A j \in i .. Len(s) - 1 : (u \o v)[j] = v[j - (i - 1)]
      <4>1. PICK a \in Nat, b \in Nat : a = Len(u) /\ b = Len(v)
        BY <3>3
      <4>2. /\ Len(u \o v) = a + b
            /\ \A j \in 1 .. a : (u \o v)[j] = u[j]
            /\ \A j \in a + 1 .. a + b : (u \o v)[j] = v[j - a]
        <5>1. Len(u \o v) = a + b
          BY ONLY <3>3, <4>1
        <5>2. ASSUME NEW j \in 1 .. a PROVE (u \o v)[j] = u[j]
          BY ONLY <3>3, <4>1, j \in 1 .. a
        <5>3. ASSUME NEW j \in a + 1 .. a + b PROVE (u \o v)[j] = v[j - a]
          BY ONLY <3>3, <4>1, j \in a + 1 .. a + b, SecondPart
        <5>. QED BY ONLY <5>1, <5>2, <5>3
      <4>3. a = i - 1 /\ a + b = Len(s) - 1 /\ a + 1 = i
        BY ONLY <2>3, <3>3, <4>1
      <4>. QED BY ONLY <4>2, <4>3
    <3>6. \A j \in i .. Len(s) - 1 : v[j - (i - 1)] = s[j + 1]
      BY <2>3, <3>4
    <3>. QED BY <3>4, <3>5, <3>6 DEF u, v
  <2>5. DOMAIN t = 1 .. Len(s) - 1
    BY <2>3, <2>4
  <2>. HIDE DEF t
  <2>a. \A j \in DOMAIN t : \E k \in DOMAIN s :
          t[j] = s[k] /\ k # i /\ k = IF j < i THEN j ELSE j + 1
    <3>. SUFFICES ASSUME NEW j \in DOMAIN t
                  PROVE \E k \in DOMAIN s : t[j] = s[k] /\ k # i /\ k = IF j < i THEN j ELSE j + 1
      OBVIOUS
    <3>1. CASE j < i
      BY <2>3, <2>4, <2>5, <3>1
    <3>2. CASE j >= i
      <4>1. t[j] = s[j + 1] /\ j + 1 \in DOMAIN s /\ j + 1 # i
        BY <2>3, <2>4, <2>5, <3>2
      <4>. QED BY <2>3, <2>5, <3>2, <4>1
    <3>3. j \in Int /\ i \in Int
      BY <2>3, <2>5
    <3>. QED BY ONLY <3>1, <3>2, <3>3
  <2>6. NoDup(t)
    <3>. SUFFICES ASSUME NEW j \in DOMAIN t, NEW k \in DOMAIN t, t[j] = t[k] PROVE j = k
      BY DEF NoDup
    <3>1. PICK m \in DOMAIN s : t[j] = s[m] /\ m = IF j < i THEN j ELSE j + 1
      BY ONLY <2>a, j \in DOMAIN t
    <3>2. PICK n \in DOMAIN s : t[k] = s[n] /\ n = IF k < i THEN k ELSE k + 1
      BY ONLY <2>a, k \in DOMAIN t
    <3>3. m = n
      BY ONLY NoDup(s), <3>1, <3>2, t[j] = t[k] DEF NoDup
    <3>4. i \in Int /\ j \in Int /\ k \in Int
      BY <2>3, <2>5
    <3>. QED BY ONLY <3>1, <3>2, <3>3, <3>4
  <2>7. ASSUME NEW x \in ToSet(t) PROVE x \in ToSet(s) \ {r}
    BY <2>1, <2>3, <2>a, <2>7 DEF ToSet, NoDup
  <2>8. ASSUME NEW x \in ToSet(s) \ {r} PROVE x \in ToSet(t)
    <3>1. PICK k \in DOMAIN s : s[k] = x
      BY DEF ToSet
    <3>2. CASE k < i
      BY <2>3, <2>4, <2>5, <3>1, <3>2 DEF ToSet
    <3>3. CASE k > i
      <4>1. k - 1 \in i .. Len(s) - 1 /\ t[k - 1] = s[k] /\ k - 1 \in DOMAIN t
        BY <2>3, <2>4, <2>5, <3>3
      <4>. QED BY <3>1, <4>1 DEF ToSet
    <3>. QED BY <2>1, <2>3, <3>1, <3>2, <3>3
  <2>. QED BY <2>2, <2>6, <2>7, <2>8
<1>. QED BY <1>1, <1>2

-----------------------------------------------------------------------------
(***************************************************************************)
(* Who is on the lists.                                                    *)
(***************************************************************************)
Distinct ==
    /\ NoDup(work_list) /\ NoDup(pend_list)
    /\ ToSet(work_list) \cap ToSet(pend_list) = {}

\* A listed request has been added and is neither done nor has it returned, unless a stop
\* found it listed.
OnList ==
    \A r \in Listed : /\ st[r] \in {"proc", "wait", "returned"}
                      /\ cb[r].done \/ Stale(r) => r \in orphans

\* A request that waits to be done is listed; one that is not added yet has an empty block.
OffList ==
    \A r \in Reqs : /\ st[r] \in {"proc", "wait"} /\ ~cb[r].done => r \in Listed
                    /\ st[r] \in {"idle", "mapped"} => cb[r] = EmptyCb

ListInv == Distinct /\ OnList /\ OffList

\* The requests on the two lists are a finite set of requests.
LEMMA ListedType == TypeOK => Listed \in SUBSET Reqs /\ IsFiniteSet(Listed)
<1> SUFFICES ASSUME TypeOK PROVE Listed \in SUBSET Reqs /\ IsFiniteSet(Listed)
    OBVIOUS
<1>1. /\ ToSet(work_list) \in SUBSET Reqs /\ IsFiniteSet(ToSet(work_list))
      /\ ToSet(pend_list) \in SUBSET Reqs /\ IsFiniteSet(ToSet(pend_list))
    BY FiniteList DEF TypeOK, ListType
<1> QED BY <1>1, FS_Union DEF Listed

\* The same in the next state.
LEMMA ListedNext == TypeOK' => (Listed \in SUBSET Reqs /\ IsFiniteSet(Listed))'
    BY ListedType, PTL

\* What the actions that change the lists do to the set of listed requests.
LEMMA CmplDoneLists ==
    ASSUME Inv, Distinct, CmplDone
    PROVE  /\ Distinct' /\ Listed' = Listed \ {Head(pend_list)}
           /\ Head(pend_list) \in Listed /\ Head(pend_list) \in Reqs
<1>1. /\ pend_list \in Seq(Reqs) /\ pend_list # <<>> /\ NoDup(pend_list)
      /\ pend_list' = Tail(pend_list) /\ work_list' = work_list
    BY DEF Inv, TypeOK, ListType, Distinct, CmplDone
<1>2. /\ NoDup(Tail(pend_list)) /\ Head(pend_list) \in ToSet(pend_list)
      /\ ToSet(Tail(pend_list)) = ToSet(pend_list) \ {Head(pend_list)}
    BY <1>1, TailSet
<1>3. ToSet(pend_list)' = ToSet(pend_list) \ {Head(pend_list)} /\ NoDup(pend_list)'
      /\ ToSet(work_list)' = ToSet(work_list)
    BY <1>1, <1>2
<1>4. Head(pend_list) \in Reqs
    BY <1>1
<1> QED BY <1>1, <1>2, <1>3, <1>4 DEF Distinct, Listed

\* Posting moves a request from one list to the other at most.
LEMMA PostOneLists ==
    ASSUME Inv, Distinct, PostOne
    PROVE  /\ Distinct' /\ Listed' = Listed
           /\ Head(work_list) \in Listed /\ Head(work_list) \in Reqs
<1> DEFINE r == Head(work_list)
<1>1. /\ work_list \in Seq(Reqs) /\ pend_list \in Seq(Reqs) /\ work_list # <<>>
      /\ NoDup(work_list) /\ NoDup(pend_list)
      /\ ToSet(work_list) \cap ToSet(pend_list) = {}
    BY DEF Inv, TypeOK, ListType, Distinct, PostOne
<1>2. /\ NoDup(Tail(work_list)) /\ r \in ToSet(work_list) /\ r \in Reqs
      /\ ToSet(Tail(work_list)) = ToSet(work_list) \ {r}
    BY <1>1, TailSet
<1>3. CASE UNCHANGED <<work_list, pend_list>>
    BY <1>1, <1>2, <1>3 DEF Distinct, Listed
<1>4. CASE work_list' = Tail(work_list) /\ pend_list' = Append(pend_list, r)
    <2>1. /\ ToSet(Append(pend_list, r)) = ToSet(pend_list) \cup {r}
          /\ NoDup(Append(pend_list, r))
        BY <1>1, <1>2, AppendSet
    <2>2. /\ ToSet(pend_list)' = ToSet(pend_list) \cup {r} /\ NoDup(pend_list)'
          /\ ToSet(work_list)' = ToSet(work_list) \ {r} /\ NoDup(work_list)'
        BY <1>2, <1>4, <2>1
    <2> QED BY <1>1, <1>2, <2>2 DEF Distinct, Listed
<1> QED BY <1>3, <1>4 DEF PostOne, UpdateRequest, qdma_work_queue_del, lists

\* A request added to the work list is listed.
LEMMA AddLists ==
    ASSUME Inv, Distinct, NEW r \in Reqs, r \notin Listed, qdma_work_queue_add(r),
           UNCHANGED pend_list
    PROVE  Distinct' /\ Listed' = Listed \cup {r}
<1>1. /\ work_list \in Seq(Reqs) /\ NoDup(work_list) /\ work_list' = Append(work_list, r)
      /\ r \notin ToSet(work_list) /\ r \notin ToSet(pend_list)
    BY DEF Inv, TypeOK, ListType, Distinct, qdma_work_queue_add, Listed
<1>2. ToSet(work_list)' = ToSet(work_list) \cup {r} /\ NoDup(work_list)'
    BY <1>1, AppendSet
<1> QED BY <1>1, <1>2 DEF Distinct, Listed

\* A request deleted from both lists is not listed any more.
LEMMA DelLists ==
    ASSUME Inv, Distinct, NEW r \in Reqs, work_list' = list_del(work_list, r),
           pend_list' = list_del(pend_list, r)
    PROVE  Distinct' /\ Listed' = Listed \ {r}
<1>1. /\ work_list \in Seq(Reqs) /\ NoDup(work_list) /\ pend_list \in Seq(Reqs)
      /\ NoDup(pend_list)
    BY DEF Inv, TypeOK, ListType, Distinct
<1>2. /\ ToSet(work_list)' = ToSet(work_list) \ {r} /\ NoDup(work_list)'
      /\ ToSet(pend_list)' = ToSet(pend_list) \ {r} /\ NoDup(pend_list)'
    BY <1>1, DelSet
<1> QED BY <1>2 DEF Distinct, Listed

\* Every step keeps ListInv.
LEMMA ListInvStep ==
    ASSUME Inv, ListInv, Next
    PROVE  ListInv'
<1> USE DEF ListInv
<1>t. st \in [Reqs -> {"idle", "mapped", "proc", "wait", "returned"}] /\ cb \in [Reqs -> Cb]
      /\ Listed \subseteq Reqs
    BY ListedType DEF Inv, TypeOK, ReqType
<1>1. ASSUME UNCHANGED <<work_list, pend_list, cb, st, orphans>> PROVE ListInv'
    BY <1>1 DEF Distinct, OnList, OffList, Listed, Stale
<1>2. CASE CmplDone
    <2> DEFINE r == Head(pend_list)
    <2>1. Distinct' /\ Listed' = Listed \ {r} /\ r \in Listed /\ r \in Reqs
        BY <1>2, CmplDoneLists
    <2>2. /\ UNCHANGED <<st, orphans>>
          /\ \A x \in Reqs : x # r => cb'[x] = cb[x]
        BY <1>2, <1>t, <2>1 DEF CmplDone, qctl
    <2>3. cb'[r].done /\ st[r] \notin {"idle", "mapped"}
        BY <1>2, <1>t, <2>1 DEF CmplDone, OnList, Cb
    <2> HIDE DEF r
    <2>4. OnList'
        BY <1>t, <2>1, <2>2 DEF OnList, Stale
    <2>5. OffList'
        BY <1>t, <2>1, <2>2, <2>3 DEF OffList
    <2> QED BY <2>1, <2>4, <2>5
<1>3. ASSUME UNCHANGED <<work_list, pend_list, st, orphans>>, NEW r \in Listed,
             \A x \in Reqs : cb'[x].done = cb[x].done /\ (x # r => cb'[x] = cb[x])
      PROVE  ListInv'
    <2>1. Listed' = Listed /\ Distinct' /\ st[r] \notin {"idle", "mapped"}
        BY <1>3 DEF Listed, Distinct, OnList
    <2> QED BY <1>t, <1>3, <2>1 DEF OnList, OffList, Stale
<1>4. CASE CmplPart
    <2>1. Head(pend_list) \in Listed
        BY <1>4, TailSet DEF Inv, TypeOK, ListType, CmplPart, Distinct, Listed
    <2>2. UNCHANGED <<work_list, pend_list, st, orphans>>
        BY <1>4 DEF CmplPart, lists, qctl
    <2>3. \A x \in Reqs : cb'[x].done = cb[x].done /\ (x # Head(pend_list) => cb'[x] = cb[x])
        BY <1>4, <1>t, <2>1 DEF CmplPart, Cb
    <2> QED BY <1>3, <2>1, <2>2, <2>3
<1>5. CASE PostOne
    <2> DEFINE r == Head(work_list)
    <2>1. Distinct' /\ Listed' = Listed /\ r \in Listed /\ r \in Reqs
        BY <1>5, PostOneLists
    <2>2. UNCHANGED <<st, orphans>>
        BY <1>5 DEF PostOne, qctl
    <2>3. \A x \in Reqs : cb'[x].done = cb[x].done /\ (x # r => cb'[x] = cb[x])
        BY <1>5, <1>t, <2>1 DEF PostOne, UpdateRequest, Cb
    <2>4. st[r] \notin {"idle", "mapped"}
        BY <2>1 DEF OnList
    <2> HIDE DEF r
    <2>5. OnList'
        BY <1>t, <2>1, <2>2, <2>3 DEF OnList, Stale
    <2>6. OffList'
        BY <1>t, <2>1, <2>2, <2>3, <2>4 DEF OffList
    <2> QED BY <2>1, <2>5, <2>6
<1>6. ASSUME NEW r \in Reqs, SubmitMap(r) PROVE ListInv'
    <2>1. cb[r] = EmptyCb /\ r \notin Listed
        BY <1>6, <1>t DEF SubmitMap, OffList, OnList
    <2>2. UNCHANGED <<work_list, pend_list, orphans>> /\ st'[r] \in {"mapped", "returned"}
          /\ \A x \in Reqs : x # r => st'[x] = st[x]
        BY <1>6, <1>t DEF SubmitMap, lists, qctl
    <2>3. cb' = cb
        BY <1>6, <1>t, <2>1 DEF SubmitMap
    <2>4. Listed' = Listed /\ Distinct'
        BY <2>2 DEF Listed, Distinct
    <2> QED BY <1>t, <2>1, <2>2, <2>3, <2>4 DEF OnList, OffList, Stale
<1>7. ASSUME NEW r \in Reqs, SubmitAdd(r) PROVE ListInv'
    <2>1. cb[r] = EmptyCb /\ r \notin Listed /\ UNCHANGED <<cb, orphans>>
        BY <1>7, <1>t DEF SubmitAdd, OffList, OnList, qctl
    <2>2. \A x \in Reqs : x # r => st'[x] = st[x]
        BY <1>7, <1>t DEF SubmitAdd
    <2>3. CASE q_state = "online"
        <3>1. Distinct' /\ Listed' = Listed \cup {r}
            BY <1>7, <2>1, <2>3, AddLists DEF SubmitAdd
        <3>2. st'[r] = "proc"
            BY <1>7, <1>t, <2>3 DEF SubmitAdd
        <3>3. ~cb[r].done
            BY <2>1 DEF EmptyCb
        <3> QED BY <1>t, <2>1, <2>2, <3>1, <3>2, <3>3 DEF OnList, OffList, Stale
    <2>4. CASE q_state # "online"
        <3>1. UNCHANGED <<work_list, pend_list>> /\ st'[r] = "returned"
            BY <1>7, <1>t, <2>4 DEF SubmitAdd, lists
        <3>2. Listed' = Listed /\ Distinct'
            BY <3>1 DEF Listed, Distinct
        <3> QED BY <1>t, <2>1, <2>2, <3>1, <3>2 DEF OnList, OffList, Stale
    <2> QED BY <2>3, <2>4
<1>8. ASSUME NEW r \in Reqs, SubmitProc(r) PROVE ListInv'
    <2>1. /\ UNCHANGED <<work_list, pend_list, cb, orphans>> /\ st[r] = "proc" /\ st'[r] = "wait"
          /\ \A x \in Reqs : x # r => st'[x] = st[x]
        BY <1>8, <1>t DEF SubmitProc, lists, qctl
    <2>2. Listed' = Listed /\ Distinct'
        BY <2>1 DEF Listed, Distinct
    <2> QED BY <1>t, <2>1, <2>2 DEF OnList, OffList, Stale
<1>9. ASSUME NEW r \in Reqs, WaiterWakes(r) PROVE ListInv'
    <2>1. /\ UNCHANGED <<work_list, pend_list, cb, orphans>> /\ st'[r] = "returned"
          /\ \A x \in Reqs : x # r => st'[x] = st[x]
          /\ st[r] = "wait" /\ cb[r].done
        BY <1>9, <1>t DEF WaiterWakes, lists, qctl
    <2>2. Listed' = Listed /\ Distinct'
        BY <2>1 DEF Listed, Distinct
    <2> QED BY <1>t, <2>1, <2>2 DEF OnList, OffList, Stale
<1>10. ASSUME NEW r \in Reqs, WaiterTimesOut(r) PROVE ListInv'
    <2>1. /\ UNCHANGED <<cb, orphans>> /\ st'[r] = "returned"
          /\ \A x \in Reqs : x # r => st'[x] = st[x]
        BY <1>10, <1>t DEF WaiterTimesOut, qctl
    <2>2. Distinct' /\ Listed' = Listed \ {r}
        BY <1>10, DelLists DEF WaiterTimesOut
    <2> QED BY <1>t, <2>1, <2>2 DEF OnList, OffList, Stale
<1>11. CASE StopFinish
    <2>1. /\ UNCHANGED <<work_list, pend_list, st>> /\ orphans' = orphans \cup Listed
          /\ \A x \in Reqs : /\ x \in Listed => cb'[x].done
                             /\ x \notin Listed => cb'[x] = cb[x]
        BY <1>11, <1>t DEF StopFinish, lists, Cb
    <2>2. Listed' = Listed /\ Distinct'
        BY <2>1 DEF Listed, Distinct
    <2> QED BY <1>t, <2>1, <2>2 DEF OnList, OffList, Stale
<1>12. CASE CmplEnd \/ PostEnd \/ IntrWork \/ IntrWorkProc \/ StopBegin \/ StopWaitEnds
            \/ StopClear \/ StopFree \/ Start \/ HwTransfer \/ HwWriteback
    <2>1. UNCHANGED <<work_list, pend_list, cb, st, orphans>>
        BY <1>12 DEF CmplEnd, PostEnd, IntrWork, IntrWorkProc, StopBegin, StopWaitEnds, StopClear,
             StopFree, Start, StartConfig, StartOnline, StartFails, HwTransfer, HwWriteback,
             lists, req, qctl
    <2> QED BY <1>1, <2>1
<1> QED BY <1>2, <1>4, <1>5, <1>6, <1>7, <1>8, <1>9, <1>10, <1>11, <1>12
        DEF Next, Step, Submit, Cmpl, Post, Stop

-----------------------------------------------------------------------------
(***************************************************************************)
(* The credits balance.                                                    *)
(***************************************************************************)
InRing == Dist(pidx, cidx) + credit
BalanceInv ==
    /\ skew \in Int
    /\ ctl = "start" => credit = 0
    /\ hw.valid \/ ctl = "start" => Charged + skew = InRing

\* Charged is the total over the listed requests.
LEMMA ChargedIs == Charged = Total(cb, Listed)
    BY DEF Charged, Total

\* The same in the next state.
LEMMA ChargedNext == Charged' = Total(cb', Listed')
<1>1. (Charged = Total(cb, Listed))'
    BY ChargedIs, PTL
<1> QED BY <1>1

\* Indices, credits and what one request is charged with are numbers.
LEMMA Numbers ==
    TypeOK =>
           /\ pidx \in Slots /\ cidx \in Slots /\ credit \in Nat /\ avail \in Nat
           /\ Dist(pidx, cidx) \in Nat /\ InRing \in Nat
           /\ hw.idx \in Slots /\ hw.wb \in Slots /\ hw.doorbell \in Slots
           /\ cb \in [Reqs -> Cb]
           /\ \A r \in Reqs : cb[r].desc_nr \in Nat /\ cb[r].offset \in Nat
<1> SUFFICES ASSUME TypeOK
             PROVE  /\ pidx \in Slots /\ cidx \in Slots /\ credit \in Nat /\ avail \in Nat
                    /\ Dist(pidx, cidx) \in Nat /\ InRing \in Nat
                    /\ hw.idx \in Slots /\ hw.wb \in Slots /\ hw.doorbell \in Slots
                    /\ cb \in [Reqs -> Cb]
                    /\ \A r \in Reqs : cb[r].desc_nr \in Nat /\ cb[r].offset \in Nat
    OBVIOUS
<1>1. /\ pidx \in Slots /\ cidx \in Slots /\ credit \in Nat /\ avail \in Nat
      /\ hw.idx \in Slots /\ hw.wb \in Slots /\ hw.doorbell \in Slots
    BY RngSzAssumption DEF TypeOK, IdxType, Hw
<1>2. Dist(pidx, cidx) \in Nat
    BY <1>1, DistBounds, RngSzAssumption
<1>3. InRing \in Nat
    BY <1>1, <1>2 DEF InRing
<1> QED BY <1>1, <1>2, <1>3 DEF TypeOK, Cb

\* Taking the credits of a writeback moves descriptors from the ring to the credits.
LEMMA TakeCreditsSame ==
    ASSUME Inv, TakeCredits
    PROVE  InRing' = InRing /\ Dist(hw.wb, cidx) \in Nat
<1>1. /\ pidx \in Slots /\ cidx \in Slots /\ credit \in Nat /\ hw.wb \in Slots
      /\ Dist(pidx, cidx) \in Nat /\ hw.idx \in Slots /\ hw.doorbell \in Slots
    BY Numbers DEF Inv
<1>2. cidx' = hw.wb /\ credit' = credit + Dist(hw.wb, cidx) /\ pidx' = pidx /\ ring = "allocated"
    BY DEF TakeCredits
<1>3. Dist(hw.wb, cidx) <= Dist(pidx, cidx) /\ Dist(hw.wb, cidx) \in Nat
    BY <1>1, <1>2, RngSzAssumption DEF Inv, RingInv, Dist, Slots
<1>4. Dist(pidx, hw.wb) = Dist(pidx, cidx) - Dist(hw.wb, cidx)
    BY <1>1, <1>3, DistFrom
<1>5. InRing' = Dist(pidx, hw.wb) + (credit + Dist(hw.wb, cidx))
    BY <1>2 DEF InRing
<1> QED BY <1>1, <1>3, <1>4, <1>5 DEF InRing

\* The ring holds a natural number of descriptors in the next state.
LEMMA InRingNext == TypeOK' => (InRing \in Nat)'
<1>1. TypeOK => InRing \in Nat
    BY Numbers
<1> QED BY <1>1, PTL

\* Every step keeps the balance of credits and descriptors.
LEMMA BalanceStep ==
    ASSUME Inv, Inv', ListInv, BalanceInv, Next
    PROVE  BalanceInv'
<1>n. /\ cb \in [Reqs -> Cb] /\ cb' \in [Reqs -> Cb] /\ credit \in Nat
      /\ Dist(pidx, cidx) \in Nat /\ InRing \in Nat
      /\ \A r \in Reqs : cb[r].desc_nr \in Nat /\ cb[r].offset \in Nat
      /\ \A r \in Reqs : cb'[r].desc_nr \in Nat
    BY Numbers DEF Inv, TypeOK, Cb
<1>l. /\ Listed \in SUBSET Reqs /\ IsFiniteSet(Listed) /\ Listed' \in SUBSET Reqs
      /\ IsFiniteSet(Listed') /\ Charged \in Nat /\ Charged' = Total(cb', Listed')
      /\ Charged = Total(cb, Listed)
    <2>1. Listed \in SUBSET Reqs /\ IsFiniteSet(Listed)
        BY ListedType DEF Inv
    <2>2. Listed' \in SUBSET Reqs /\ IsFiniteSet(Listed)'
        <3>1. TypeOK'
            BY DEF Inv
        <3> QED BY <3>1, ListedNext
    <2>3. Total(cb, Listed) \in Nat
        BY <1>n, <2>1, TotalOut
    <2>4. Charged' = Total(cb', Listed')
        BY ChargedNext
    <2> QED BY <2>1, <2>2, <2>3, <2>4, ChargedIs
<1>s. /\ skew \in Int
      /\ ctl = "start" => credit = 0
      /\ hw.valid \/ ctl = "start" => Charged + skew = InRing
    BY DEF BalanceInv
<1>d. Distinct
    BY DEF ListInv
<1>1. ASSUME hw'.valid = hw.valid, ctl' = ctl, skew' \in Int, ctl = "start" => credit' = credit,
             Charged' + skew' - InRing' = Charged + skew - InRing,
             InRing' \in Int, Charged' \in Int
      PROVE  BalanceInv'
    <2>1. hw'.valid \/ ctl' = "start" => Charged' + skew' = InRing'
        BY <1>1, <1>n, <1>l, <1>s
    <2> QED BY <1>1, <1>s, <2>1 DEF BalanceInv
<1>p. ctl = "start" => lock = "free"
    BY DEF Inv, CtlInv
<1>t. InRing' \in Int /\ Charged' \in Int
    <2>1. InRing' \in Nat
        <3>1. TypeOK'
            BY DEF Inv
        <3> QED BY <3>1, InRingNext
    <2>2. Total(cb', Listed') \in Nat
        BY <1>n, <1>l, TotalOut
    <2> QED BY <1>l, <2>1, <2>2
<1>2. CASE CmplDone
    <2> DEFINE r == Head(pend_list)
    <2>1. Listed' = Listed \ {r} /\ r \in Listed /\ r \in Reqs
        BY <1>2, <1>d, CmplDoneLists
    <2>2. Charged = cb[r].desc_nr + Total(cb, Listed \ {r})
        BY <1>n, <1>l, <2>1, TotalOut
    <2>3. /\ hw' = hw /\ ctl' = ctl /\ skew' = skew /\ UNCHANGED <<pidx, cidx>>
          /\ credit' = credit - cb[r].desc_nr
          /\ \A x \in Reqs : cb'[x].desc_nr = cb[x].desc_nr
          /\ lock # "free"
        BY <1>2, <1>n, <2>1 DEF CmplDone, qctl, Cb
    <2> HIDE DEF r
    <2>4. Charged' = Total(cb, Listed \ {r})
        <3>1. Total(cb', Listed') = Total(cb, Listed')
            BY <1>n, <1>l, <2>3, TotalSame
        <3> QED BY <1>l, <2>1, <3>1
    <2>5. InRing' = InRing - cb[r].desc_nr
        BY <1>n, <2>1, <2>3 DEF InRing
    <2>6. cb[r].desc_nr \in Nat
        BY <1>n, <2>1
    <2>7. Charged' + skew' - InRing' = Charged + skew - InRing
        BY <1>n, <1>l, <1>s, <1>t, <2>2, <2>3, <2>4, <2>5, <2>6
    <2> QED BY <1>1, <1>p, <1>s, <1>t, <2>3, <2>7
<1>3. ASSUME NEW r \in Listed, NEW k \in Int, Listed' = Listed,
             \A x \in Reqs : x # r => cb'[x] = cb[x],
             cb'[r].desc_nr = cb[r].desc_nr + k
      PROVE  Charged' = Charged + k
    <2>1. r \in Reqs
        BY <1>l
    <2>2. Charged = cb[r].desc_nr + Total(cb, Listed \ {r})
        BY <1>n, <1>l, TotalOut
    <2>3. Charged' = cb'[r].desc_nr + Total(cb', Listed \ {r})
        BY <1>n, <1>l, <1>3, TotalOut
    <2>4. Listed \ {r} \in SUBSET Reqs /\ IsFiniteSet(Listed \ {r})
        BY <1>l, FS_Subset
    <2>5. Total(cb', Listed \ {r}) = Total(cb, Listed \ {r}) /\ Total(cb, Listed \ {r}) \in Nat
        <3> DEFINE R == Listed \ {r}
        <3>1. R \in SUBSET Reqs /\ IsFiniteSet(R) /\ \A x \in R : cb'[x].desc_nr = cb[x].desc_nr
            BY <1>3, <1>l, <2>4
        <3> HIDE DEF R
        <3>2. Total(cb', R) = Total(cb, R) /\ Total(cb, R) \in Nat
            BY <1>n, <3>1, TotalSame, TotalOut
        <3> QED BY <3>2 DEF R
    <2>6. cb[r].desc_nr \in Nat
        BY <1>n, <2>1
    <2> QED BY <1>3, <2>2, <2>3, <2>5, <2>6
<1>4. CASE CmplPart
    <2> DEFINE r == Head(pend_list)
    <2>1. r \in Listed /\ r \in Reqs
        BY <1>4, <1>d, TailSet DEF Inv, TypeOK, ListType, CmplPart, Distinct, Listed
    <2>2. /\ hw' = hw /\ ctl' = ctl /\ skew' = skew /\ UNCHANGED <<pidx, cidx>>
          /\ credit' = 0 /\ Listed' = Listed /\ lock # "free"
          /\ \A x \in Reqs : x # r => cb'[x] = cb[x]
          /\ cb'[r].desc_nr = cb[r].desc_nr - credit
        BY <1>4, <1>n, <2>1 DEF CmplPart, lists, qctl, Cb, Listed
    <2> HIDE DEF r
    <2>3. Charged' = Charged + (-credit)
        <3>1. -credit \in Int /\ cb'[r].desc_nr = cb[r].desc_nr + (-credit)
            BY <1>n, <2>1, <2>2
        <3> QED BY <1>3, <2>1, <2>2, <3>1
    <2>4. InRing' = InRing - credit
        BY <1>n, <2>2 DEF InRing
    <2>5. Charged' + skew' - InRing' = Charged + skew - InRing
        BY <1>n, <1>l, <1>s, <1>t, <2>2, <2>3, <2>4
    <2> QED BY <1>1, <1>p, <1>s, <1>t, <2>2, <2>5
<1>5. CASE PostOne
    <2> DEFINE r == Head(work_list)
               n == Round(r)
    <2>1. Listed' = Listed /\ r \in Listed /\ r \in Reqs
        BY <1>5, <1>d, PostOneLists
    <2>2. n \in Nat /\ n <= avail /\ Need[r] \in Nat
        BY <1>n, <2>1, NeedAssumption, RngSzAssumption
           DEF Inv, OffsetInv, TypeOK, IdxType, Round, Left
    <2>3. /\ hw' = hw /\ ctl' = ctl /\ skew' = skew /\ UNCHANGED <<cidx, credit>>
          /\ pidx' = Adv(pidx, n) /\ lock # "free"
          /\ \A x \in Reqs : x # r => cb'[x] = cb[x]
          /\ cb'[r].desc_nr = cb[r].desc_nr + n
        BY <1>5, <1>n, <2>1 DEF PostOne, UpdateRequest, Round, qctl, Cb
    <2> HIDE DEF n, r
    <2>4. Charged' = Charged + n
        BY <1>3, <2>1, <2>2, <2>3
    <2>5. InRing' = InRing + n
        <3>1. ring = "allocated"
            BY <1>5 DEF PostOne, Inv, CtlInv
        <3>2. Dist(pidx, cidx) + n <= RngSz - 1 /\ pidx \in Slots /\ cidx \in Slots
            BY <1>n, <2>2, <3>1, Numbers, RngSzAssumption DEF Inv, RingInv
        <3>3. Dist(Adv(pidx, n), cidx) = Dist(pidx, cidx) + n
            BY <2>2, <3>2, AdvDist
        <3>4. InRing' = Dist(Adv(pidx, n), cidx) + credit
            BY <2>3 DEF InRing
        <3> QED BY <1>n, <2>2, <3>3, <3>4 DEF InRing
    <2>6. Charged' + skew' - InRing' = Charged + skew - InRing
        BY <1>n, <1>l, <1>s, <1>t, <2>2, <2>3, <2>4, <2>5
    <2> QED BY <1>1, <1>s, <1>t, <2>3, <2>6
<1>6. ASSUME UNCHANGED <<work_list, pend_list, skew, pidx, cidx, credit>>,
             \A x \in Listed : cb'[x].desc_nr = cb[x].desc_nr
      PROVE  /\ InRing' = InRing /\ Charged' = Charged /\ skew' \in Int
             /\ credit' = credit /\ Charged' + skew' - InRing' = Charged + skew - InRing
    <2>1. Listed' = Listed /\ InRing' = InRing
        BY <1>6 DEF Listed, InRing
    <2>2. Charged' = Charged
        <3>1. Total(cb', Listed) = Total(cb, Listed)
            BY <1>n, <1>l, <1>6, TotalSame
        <3> QED BY <1>l, <2>1, <3>1
    <2> QED BY <1>6, <1>s, <2>1, <2>2
<1>7. ASSUME NEW r \in Reqs, SubmitMap(r) PROVE BalanceInv'
    <2>1. r \notin Listed
        BY <1>7 DEF SubmitMap, ListInv, OnList
    <2>2. /\ UNCHANGED <<work_list, pend_list, skew, pidx, cidx, credit, hw, ctl>>
          /\ \A x \in Listed : cb'[x].desc_nr = cb[x].desc_nr
        BY <1>7, <1>n, <1>l, <2>1 DEF SubmitMap, lists, idx, qctl
    <2> QED BY <1>1, <1>6, <1>t, <2>2
<1>8. ASSUME NEW r \in Reqs, SubmitAdd(r) PROVE BalanceInv'
    <2>1. UNCHANGED <<skew, pidx, cidx, credit, hw, ctl, cb>>
        BY <1>8 DEF SubmitAdd, idx, qctl
    <2>2. CASE q_state = "online"
        <3>1. r \notin Listed /\ cb[r].desc_nr = 0
            BY <1>8 DEF SubmitAdd, ListInv, OnList, OffList, EmptyCb
        <3>2. Listed' = Listed \cup {r}
            BY <1>8, <1>d, <2>2, <3>1, AddLists DEF SubmitAdd
        <3>3. Charged' = Charged
            <4>1. r \in Listed' /\ Listed' \ {r} = Listed
                BY <3>1, <3>2
            <4>2. Total(cb, Listed') = cb[r].desc_nr + Total(cb, Listed' \ {r})
                BY <1>n, <1>l, <4>1, TotalOut
            <4> QED BY <1>l, <2>1, <3>1, <4>1, <4>2
        <3>4. InRing' = InRing
            BY <2>1 DEF InRing
        <3>5. Charged' + skew' - InRing' = Charged + skew - InRing
            BY <2>1, <3>3, <3>4
        <3> QED BY <1>1, <1>s, <1>t, <2>1, <3>5
    <2>3. CASE q_state # "online"
        <3>1. UNCHANGED <<work_list, pend_list>>
            BY <1>8, <2>3 DEF SubmitAdd, lists
        <3>2. \A x \in Listed : cb'[x].desc_nr = cb[x].desc_nr
            BY <2>1
        <3> QED BY <1>1, <1>6, <1>t, <2>1, <3>1, <3>2
    <2> QED BY <2>2, <2>3
<1>9. ASSUME UNCHANGED <<work_list, pend_list, skew, hw, ctl, cb>>,
             TakeCredits \/ UNCHANGED <<pidx, cidx, credit>>
      PROVE  BalanceInv'
    <2>1. InRing' = InRing
        BY <1>9, TakeCreditsSame DEF InRing
    <2>2. Listed' = Listed /\ Charged' = Charged
        BY <1>9, <1>l DEF Listed
    <2>3. ctl = "start" => credit' = credit
        <3>1. ctl = "start" => pidx = cidx
            BY DEF Inv, CtlInv
        <3> QED BY <1>9, <3>1 DEF TakeCredits
    <2>4. Charged' + skew' - InRing' = Charged + skew - InRing
        BY <1>9, <2>1, <2>2
    <2> QED BY <1>1, <1>9, <1>s, <1>t, <2>3, <2>4
<1>10. ASSUME NEW r \in Reqs, SubmitProc(r) \/ WaiterWakes(r) PROVE BalanceInv'
    BY <1>9, <1>10 DEF SubmitProc, WaiterWakes, ProcEnter, lists, idx, qctl
<1>11. ASSUME NEW r \in Reqs, WaiterTimesOut(r) PROVE BalanceInv'
    <2>1. Listed' = Listed \ {r}
        BY <1>11, <1>d, DelLists DEF WaiterTimesOut
    <2>2. r \in Listed
        BY <1>11 DEF WaiterTimesOut, ListInv, OffList
    <2>3. /\ UNCHANGED <<pidx, cidx, credit, hw, ctl, cb>>
          /\ skew' = skew + cb[r].desc_nr
        BY <1>11 DEF WaiterTimesOut, idx, qctl
    <2>4. Charged = cb[r].desc_nr + Charged'
        <3>1. Total(cb, Listed) = cb[r].desc_nr + Total(cb, Listed \ {r})
            BY <1>n, <1>l, <2>2, TotalOut
        <3> QED BY <1>l, <2>1, <2>3, <3>1
    <2>5. InRing' = InRing
        BY <2>3 DEF InRing
    <2>6. cb[r].desc_nr \in Nat
        BY <1>n
    <2>7. Charged' + skew' - InRing' = Charged + skew - InRing /\ skew' \in Int
        BY <1>n, <1>l, <1>s, <1>t, <2>3, <2>4, <2>5, <2>6
    <2> QED BY <1>1, <1>t, <2>3, <2>7
<1>12. CASE IntrWork \/ IntrWorkProc
    BY <1>9, <1>12 DEF IntrWork, IntrWorkProc, ProcEnter, lists, idx, req, qctl
<1>13. CASE CmplEnd \/ PostEnd \/ HwTransfer \/ HwWriteback
    <2>1. UNCHANGED <<work_list, pend_list, skew, pidx, cidx, credit, ctl, cb>>
        BY <1>13 DEF CmplEnd, PostEnd, HwTransfer, HwWriteback, lists, idx, req, qctl
    <2>2. hw \in Hw
        BY DEF Inv, TypeOK
    <2>3. hw'.valid = hw.valid
        BY <1>13, <2>2 DEF CmplEnd, PostEnd, HwTransfer, HwWriteback, Doorbell, Hw
    <2> QED BY <1>1, <1>6, <1>t, <2>1, <2>3
<1>14. ASSUME UNCHANGED <<work_list, pend_list, skew, pidx, cidx, credit>>, ctl' # "start",
              hw'.valid => hw.valid \/ ctl = "start",
              \A x \in Listed : cb'[x].desc_nr = cb[x].desc_nr
       PROVE  BalanceInv'
    <2>1. InRing' = InRing /\ Charged' = Charged /\ skew' = skew
        BY <1>6, <1>14
    <2> QED BY <1>14, <1>s, <2>1 DEF BalanceInv
<1>15. CASE Stop \/ StartOnline \/ StartFails
    <2>1. UNCHANGED <<work_list, pend_list, skew, pidx, cidx, credit>> /\ ctl' # "start"
        BY <1>15 DEF Stop, StopBegin, StopWaitEnds, StopFinish, StopClear, StopFree, StartOnline,
                     StartFails, lists, idx
    <2>2. \A x \in Listed : cb'[x].desc_nr = cb[x].desc_nr
        <3>1. CASE StopFinish
            BY <1>n, <1>l, <3>1 DEF StopFinish, Cb
        <3>2. CASE ~StopFinish
            BY <1>15, <3>2 DEF Stop, StopBegin, StopWaitEnds, StopClear, StopFree,
                     StartOnline, StartFails, req
        <3> QED BY <3>1, <3>2
    <2>3. hw \in Hw
        BY DEF Inv, TypeOK
    <2>4. hw'.valid => hw.valid \/ ctl = "start"
        BY <1>15, <2>3 DEF Stop, StopBegin, StopWaitEnds, StopFinish, StopClear, StopFree, StartOnline,
                     StartFails, Hw
    <2> QED BY <1>14, <2>1, <2>2, <2>4
<1>16. CASE StartConfig
    <2>1. /\ UNCHANGED <<work_list, pend_list, cb, hw>> /\ skew' = -Charged /\ credit' = 0
          /\ pidx' = 0 /\ cidx' = 0
        BY <1>16 DEF StartConfig, ConfigComplete, req
    <2>2. Charged' = Charged
        BY <1>l, <2>1 DEF Listed
    <2>3. InRing' = 0
        BY <2>1 DEF InRing, Dist
    <2> QED BY <1>l, <2>1, <2>2, <2>3 DEF BalanceInv
<1> QED BY <1>2, <1>4, <1>5, <1>7, <1>8, <1>10, <1>11, <1>12, <1>13, <1>15, <1>16
        DEF Next, Step, Submit, Cmpl, Post, Start

-----------------------------------------------------------------------------
(***************************************************************************)
(* Requests in line.  The descriptors in descq->credit and in the ring,    *)
(* counted from the oldest credit, belong to the requests of a list one    *)
(* after the other: D[i] of them to the i-th of n requests, from position  *)
(* P[i] on, t in all.                                                      *)
(***************************************************************************)
Run(n, P, D, t) ==
    /\ n = 0 => t = 0
    /\ n # 0 => P[1] = 0 /\ P[n] + D[n] = t
    /\ \A i \in 1 .. n : i # n => P[i + 1] = P[i] + D[i]
    /\ \A i, j \in 1 .. n : i < j => P[i] + D[i] <= P[j]

\* They do not overlap, and t is their end.
LEMMA RunBounds ==
    ASSUME NEW n \in Nat, NEW P \in [1 .. n -> Int], NEW D \in [1 .. n -> Nat], NEW t \in Nat,
           Run(n, P, D, t)
    PROVE  /\ \A i \in 1 .. n : 0 <= P[i] /\ P[i] + D[i] <= t
           /\ \A i, j \in 1 .. n : i = j \/ P[i] + D[i] <= P[j] \/ P[j] + D[j] <= P[i]
    BY DEF Run

\* The first leaves.
LEMMA RunTail ==
    ASSUME NEW n \in Nat, NEW P \in [1 .. n -> Int], NEW D \in [1 .. n -> Nat], NEW t \in Nat,
           Run(n, P, D, t), n # 0,
           NEW O \in [1 .. n - 1 -> Int], NEW E \in [1 .. n - 1 -> Nat],
           \A i \in 1 .. n - 1 : O[i] = P[i + 1] - D[1] /\ E[i] = D[i + 1]
    PROVE  Run(n - 1, O, E, t - D[1])
<1>0. P[1] = 0 /\ P[n] + D[n] = t /\ 1 \in 1 .. n /\ n \in 1 .. n
    BY DEF Run
<1>r. \A i \in 1 .. n : i # n => P[i + 1] = P[i] + D[i]
    BY DEF Run
<1>a. \A i, j \in 1 .. n : i < j => P[i] + D[i] <= P[j]
    BY DEF Run
<1>t. \A i \in 1 .. n : P[i] \in Int /\ D[i] \in Int
    OBVIOUS
<1>k. PICK k \in Nat : k = D[1]
    BY <1>0, <1>t
<1>o. \A i \in 1 .. n - 1 : \E a \in 1 .. n : a = i + 1 /\ O[i] = P[a] - k /\ E[i] = D[a]
    <2> SUFFICES ASSUME NEW i \in 1 .. n - 1
                 PROVE  \E a \in 1 .. n : a = i + 1 /\ O[i] = P[a] - k /\ E[i] = D[a]
        OBVIOUS
    <2>1. PICK a \in 1 .. n : a = i + 1
        OBVIOUS
    <2>2. O[i] = P[i + 1] - D[1] /\ E[i] = D[i + 1]
        OBVIOUS
    <2> QED BY ONLY <1>k, <2>1, <2>2
<1>1. n - 1 = 0 => t - k = 0
    BY <1>0, <1>k
<1>2. ASSUME n - 1 # 0 PROVE O[1] = 0 /\ O[n - 1] + E[n - 1] = t - k
    <2>1. 1 \in 1 .. n - 1 /\ n - 1 \in 1 .. n - 1 /\ 1 # n
        BY <1>2
    <2>2. PICK a \in 1 .. n : a = 1 + 1 /\ O[1] = P[a] - k
        BY <1>o, <2>1
    <2>3. PICK b \in 1 .. n : b = (n - 1) + 1 /\ O[n - 1] = P[b] - k /\ E[n - 1] = D[b]
        BY <1>o, <2>1
    <2>4. P[a] = P[1] + D[1]
        BY <1>0, <1>r, <2>1, <2>2
    <2>5. b = n
        BY <2>3
    <2>6. P[a] \in Int /\ P[b] \in Int /\ D[b] \in Int
        BY <1>t
    <2>7. O[1] = 0
        BY <1>0, <1>k, <2>2, <2>4, <2>6
    <2>8. P[b] + D[b] = t
        BY <1>0, <2>5
    <2>9. (P[b] - k) + D[b] = t - k
        <3> DEFINE x == P[b]
                   y == D[b]
        <3>1. x \in Int /\ y \in Int /\ x + y = t
            BY <2>6, <2>8
        <3> HIDE DEF x, y
        <3>2. (x - k) + y = t - k
            BY ONLY <3>1, k \in Nat, t \in Nat
        <3> QED BY <3>2 DEF x, y
    <2> QED BY ONLY <2>3, <2>7, <2>9
<1>3. ASSUME NEW i \in 1 .. n - 1, i # n - 1 PROVE O[i + 1] = O[i] + E[i]
    <2>1. PICK a \in 1 .. n : a = i + 1 /\ O[i] = P[a] - k /\ E[i] = D[a]
        BY <1>o
    <2>2. a \in 1 .. n - 1 /\ a # n
        BY <1>3, <2>1
    <2>3. PICK b \in 1 .. n : b = a + 1 /\ O[a] = P[b] - k
        BY <1>o, <2>2
    <2>4. P[b] = P[a] + D[a]
        BY <1>r, <2>2, <2>3
    <2>5. P[a] \in Int /\ D[a] \in Int /\ k \in Int
        BY ONLY <1>t, a \in 1 .. n, k \in Nat
    <2>6. O[a] = O[i] + E[i]
        BY ONLY <2>1, <2>3, <2>4, <2>5
    <2> QED BY <2>1, <2>6
<1>4. ASSUME NEW i \in 1 .. n - 1, NEW j \in 1 .. n - 1, i < j PROVE O[i] + E[i] <= O[j]
    <2>1. PICK a \in 1 .. n : a = i + 1 /\ O[i] = P[a] - k /\ E[i] = D[a]
        BY <1>o
    <2>2. PICK b \in 1 .. n : b = j + 1 /\ O[j] = P[b] - k
        BY <1>o
    <2>3. P[a] + D[a] <= P[b]
        BY <1>4, <1>a, <2>1, <2>2
    <2>5. P[a] \in Int /\ D[a] \in Int /\ k \in Int /\ P[b] \in Int
        BY ONLY <1>t, a \in 1 .. n, b \in 1 .. n, k \in Nat
    <2>6. O[i] = P[a] - k /\ E[i] = D[a] /\ O[j] = P[b] - k
        BY <2>1, <2>2
    <2>7. (P[a] - k) + D[a] <= P[b] - k
        BY ONLY <2>3, <2>5
    <2> QED BY ONLY <2>6, <2>7
<1> QED BY <1>1, <1>2, <1>3, <1>4, <1>k DEF Run

\* The first loses k, and all move up.
LEMMA RunTrunc ==
    ASSUME NEW n \in Nat, NEW P \in [1 .. n -> Int], NEW D \in [1 .. n -> Nat], NEW t \in Nat,
           Run(n, P, D, t), n # 0, NEW k \in Nat,
           NEW O \in [1 .. n -> Int], NEW E \in [1 .. n -> Nat],
           \A i \in 1 .. n : O[i] = (IF i = 1 THEN 0 ELSE P[i] - k)
                              /\ E[i] = IF i = 1 THEN D[i] - k ELSE D[i]
    PROVE  Run(n, O, E, t - k)
<1>0. /\ P[1] = 0 /\ P[n] + D[n] = t /\ 1 \in 1 .. n /\ n \in 1 .. n
      /\ \A i \in 1 .. n : P[i] \in Int /\ D[i] \in Nat
      /\ \A i \in 1 .. n : i # n => P[i + 1] = P[i] + D[i]
      /\ \A i, j \in 1 .. n : i < j => P[i] + D[i] <= P[j]
    BY DEF Run
<1>1. O[1] = 0 /\ O[n] + E[n] = t - k
    <2>1. CASE n = 1
        BY <1>0, <2>1
    <2>2. CASE n # 1
        <3>1. O[n] = P[n] - k /\ E[n] = D[n] /\ O[1] = 0
            BY <1>0, <2>2
        <3>2. P[n] \in Int /\ D[n] \in Int /\ P[n] + D[n] = t
            BY <1>0
        <3>3. PICK a \in Int, b \in Int : a = P[n] /\ b = D[n]
            BY <3>2
        <3>4. O[n] = a - k /\ E[n] = b /\ a + b = t
            BY ONLY <3>1, <3>2, <3>3
        <3>5. (a - k) + b = t - k
            BY ONLY <3>4, a \in Int, b \in Int, k \in Nat
        <3> QED BY ONLY <3>1, <3>4, <3>5
    <2> QED BY <2>1, <2>2
<1>2. ASSUME NEW i \in 1 .. n, i # n PROVE O[i + 1] = O[i] + E[i]
    <2>1. i + 1 \in 1 .. n /\ i + 1 # 1 /\ P[i + 1] = P[i] + D[i]
        BY <1>0, <1>2
    <2>2. O[i + 1] = P[i + 1] - k
        BY <2>1
    <2>3. CASE i = 1
        BY <1>0, <2>1, <2>2, <2>3
    <2>4. CASE i # 1
        <3>1. O[i] = P[i] - k /\ E[i] = D[i]
            BY <2>4
        <3>2. P[i] \in Int /\ D[i] \in Int
            BY <1>0
        <3> QED BY ONLY <2>1, <2>2, <3>1, <3>2, k \in Nat
    <2> QED BY <2>3, <2>4
<1>3. ASSUME NEW i \in 1 .. n, NEW j \in 1 .. n, i < j PROVE O[i] + E[i] <= O[j]
    <2>1. j # 1 /\ P[i] + D[i] <= P[j]
        <3>1. j # 1
            BY ONLY <1>3, i \in 1 .. n, j \in 1 .. n, n \in Nat
        <3>2. \A a, b \in 1 .. n : a < b => P[a] + D[a] <= P[b]
            BY <1>0
        <3> QED BY ONLY <1>3, <3>1, <3>2, i \in 1 .. n, j \in 1 .. n
    <2>2. O[j] = P[j] - k
        BY <2>1
    <2>t. P[i] \in Int /\ P[j] \in Int /\ D[i] \in Int /\ k \in Int
        BY <1>0
    <2>3. CASE i = 1
        <3>1. O[i] = 0 /\ E[i] = D[i] - k /\ P[i] = 0
            BY <1>0, <2>3
        <3> QED BY ONLY <2>1, <2>2, <2>t, <3>1
    <2>4. CASE i # 1
        <3>1. O[i] = P[i] - k /\ E[i] = D[i]
            BY <2>4
        <3> QED BY ONLY <2>1, <2>2, <2>t, <3>1
    <2> QED BY <2>3, <2>4
<1> QED BY <1>1, <1>2, <1>3 DEF Run

\* The last gets k more.
LEMMA RunGrow ==
    ASSUME NEW n \in Nat, NEW P \in [1 .. n -> Int], NEW D \in [1 .. n -> Nat], NEW t \in Nat,
           Run(n, P, D, t), n # 0, NEW k \in Nat, NEW E \in [1 .. n -> Nat],
           \A i \in 1 .. n : E[i] = IF i = n THEN D[i] + k ELSE D[i]
    PROVE  Run(n, P, E, t + k)
<1>0. /\ P[1] = 0 /\ P[n] + D[n] = t /\ 1 \in 1 .. n /\ n \in 1 .. n
      /\ \A i \in 1 .. n : P[i] \in Int /\ D[i] \in Nat
      /\ \A i \in 1 .. n : i # n => P[i + 1] = P[i] + D[i]
      /\ \A i, j \in 1 .. n : i < j => P[i] + D[i] <= P[j]
    BY DEF Run
<1>1. P[n] + E[n] = t + k
    <2>1. E[n] = D[n] + k
        BY <1>0
    <2> QED BY <1>0, <2>1
<1>2. ASSUME NEW i \in 1 .. n, i # n PROVE P[i + 1] = P[i] + E[i]
    BY <1>0, <1>2
<1>3. ASSUME NEW i \in 1 .. n, NEW j \in 1 .. n, i < j PROVE P[i] + E[i] <= P[j]
    <2>1. i # n /\ P[i] + D[i] <= P[j]
        BY <1>0, <1>3
    <2> QED BY <2>1
<1> QED BY <1>0, <1>1, <1>2, <1>3 DEF Run

\* One without descriptors joins at the end.
LEMMA RunAppend ==
    ASSUME NEW n \in Nat, NEW P \in [1 .. n -> Int], NEW D \in [1 .. n -> Nat], NEW t \in Nat,
           Run(n, P, D, t), NEW O \in [1 .. n + 1 -> Int], NEW E \in [1 .. n + 1 -> Nat],
           \A i \in 1 .. n : O[i] = P[i] /\ E[i] = D[i], O[n + 1] = t, E[n + 1] = 0
    PROVE  Run(n + 1, O, E, t)
<1>0. /\ n = 0 => t = 0
      /\ n # 0 => P[1] = 0 /\ P[n] + D[n] = t
      /\ \A i \in 1 .. n : P[i] \in Int /\ D[i] \in Nat
      /\ \A i \in 1 .. n : i # n => P[i + 1] = P[i] + D[i]
      /\ \A i, j \in 1 .. n : i < j => P[i] + D[i] <= P[j]
      /\ \A i \in 1 .. n : P[i] + D[i] <= t
    BY RunBounds DEF Run
<1>1. O[1] = 0 /\ O[n + 1] + E[n + 1] = t
    <2>1. CASE n = 0
        BY <1>0, <2>1
    <2>2. CASE n # 0
        BY <1>0, <2>2
    <2> QED BY <2>1, <2>2
<1>2. ASSUME NEW i \in 1 .. n + 1, i # n + 1 PROVE O[i + 1] = O[i] + E[i]
    <2>1. i \in 1 .. n /\ n # 0
        BY <1>2
    <2>2. CASE i = n
        BY <1>0, <2>1, <2>2
    <2>3. CASE i # n
        <3>1. i + 1 \in 1 .. n
            BY <2>1, <2>3
        <3> QED BY <1>0, <2>1, <2>3, <3>1
    <2> QED BY <2>2, <2>3
<1>3. ASSUME NEW i \in 1 .. n + 1, NEW j \in 1 .. n + 1, i < j PROVE O[i] + E[i] <= O[j]
    <2>1. i \in 1 .. n
        BY <1>3
    <2>2. CASE j = n + 1
        BY <1>0, <2>1, <2>2
    <2>3. CASE j # n + 1
        <3>1. j \in 1 .. n
            BY <2>3
        <3> QED BY <1>0, <1>3, <2>1, <3>1
    <2> QED BY <2>2, <2>3
<1>4. n + 1 # 0
    OBVIOUS
<1> QED BY <1>1, <1>2, <1>3, <1>4 DEF Run

\* What f says of the requests of q, by their places.
Along(q, f) == [i \in 1 .. Len(q) |-> f[q[i]]]
Line(q, d, p, t) == Run(Len(q), Along(q, p), Along(q, d), t)

\* Positions taken along a list.
LEMMA AlongInt ==
    ASSUME NEW q \in Seq(Reqs), NEW p \in [Reqs -> Int]
    PROVE  Along(q, p) \in [1 .. Len(q) -> Int] /\ \A i \in 1 .. Len(q) : Along(q, p)[i] = p[q[i]]
    BY DEF Along

\* Numbers of descriptors taken along a list.
LEMMA AlongNat ==
    ASSUME NEW q \in Seq(Reqs), NEW d \in [Reqs -> Nat]
    PROVE  Along(q, d) \in [1 .. Len(q) -> Nat] /\ \A i \in 1 .. Len(q) : Along(q, d)[i] = d[q[i]]
    BY DEF Along

\* A list of requests has requests at its indices.
LEMMA AlongList ==
    ASSUME NEW q \in Seq(Reqs)
    PROVE  /\ Len(q) \in Nat /\ DOMAIN q = 1 .. Len(q) /\ (q = <<>> <=> Len(q) = 0)
           /\ \A i \in 1 .. Len(q) : q[i] \in Reqs
    OBVIOUS

\* Requests in line lie within the line and do not overlap.
LEMMA LineBounds ==
    ASSUME NEW q \in Seq(Reqs), NEW d \in [Reqs -> Nat], NEW p \in [Reqs -> Int],
           NEW t \in Nat, Line(q, d, p, t)
    PROVE  /\ \A r \in ToSet(q) : 0 <= p[r] /\ p[r] + d[r] <= t
           /\ \A r, x \in ToSet(q) : r = x \/ p[r] + d[r] <= p[x] \/ p[x] + d[x] <= p[r]
<1>1. /\ \A i \in 1 .. Len(q) : 0 <= Along(q, p)[i] /\ Along(q, p)[i] + Along(q, d)[i] <= t
      /\ \A i, j \in 1 .. Len(q) : \/ i = j
                                   \/ Along(q, p)[i] + Along(q, d)[i] <= Along(q, p)[j]
                                   \/ Along(q, p)[j] + Along(q, d)[j] <= Along(q, p)[i]
    BY AlongList, AlongInt, AlongNat, RunBounds DEF Line
<1>2. /\ \A i \in 1 .. Len(q) : 0 <= p[q[i]] /\ p[q[i]] + d[q[i]] <= t
      /\ \A i, j \in 1 .. Len(q) : i = j \/ p[q[i]] + d[q[i]] <= p[q[j]]
                                         \/ p[q[j]] + d[q[j]] <= p[q[i]]
    BY ONLY <1>1 DEF Along
<1>3. \A r \in ToSet(q) : \E i \in 1 .. Len(q) : r = q[i]
    BY AlongList DEF ToSet
<1>4. ASSUME NEW r \in ToSet(q) PROVE 0 <= p[r] /\ p[r] + d[r] <= t
    <2>1. PICK i \in 1 .. Len(q) : r = q[i]
        BY <1>3
    <2> QED BY ONLY <1>2, <2>1
<1>5. ASSUME NEW r \in ToSet(q), NEW x \in ToSet(q)
      PROVE  r = x \/ p[r] + d[r] <= p[x] \/ p[x] + d[x] <= p[r]
    <2>1. PICK i \in 1 .. Len(q) : r = q[i]
        BY <1>3
    <2>2. PICK j \in 1 .. Len(q) : x = q[j]
        BY <1>3
    <2>3. i = j \/ p[q[i]] + d[q[i]] <= p[q[j]] \/ p[q[j]] + d[q[j]] <= p[q[i]]
        BY <1>2
    <2> QED BY ONLY <2>1, <2>2, <2>3
<1> QED BY <1>4, <1>5

\* The line after its first request is done.
LEMMA LineTail ==
    ASSUME NEW q \in Seq(Reqs), q # <<>>, NEW d \in [Reqs -> Nat], NEW p \in [Reqs -> Int],
           NEW t \in Nat, Line(q, d, p, t), NEW k \in Nat, k = d[q[1]],
           NEW o \in [Reqs -> Int], \A r \in Reqs : o[r] = p[r] - k
    PROVE  Line(Tail(q), d, o, t - k)
<1> DEFINE u == Tail(q)
           n == Len(q)
<1>1. n \in Nat /\ n # 0 /\ u \in Seq(Reqs) /\ Len(u) = n - 1 /\ \A i \in 1 .. n - 1 : u[i] = q[i + 1]
    OBVIOUS
<1>2. /\ \A i \in 1 .. n : q[i] \in Reqs
      /\ Along(q, p) \in [1 .. n -> Int] /\ Along(q, d) \in [1 .. n -> Nat]
      /\ \A i \in 1 .. n : Along(q, p)[i] = p[q[i]] /\ Along(q, d)[i] = d[q[i]]
    BY AlongList, AlongInt, AlongNat
<1> HIDE DEF u, n
<1>3. /\ Along(u, o) \in [1 .. n - 1 -> Int] /\ Along(u, d) \in [1 .. n - 1 -> Nat]
      /\ \A i \in 1 .. n - 1 : Along(u, o)[i] = o[u[i]] /\ Along(u, d)[i] = d[u[i]]
    <2>1. /\ Along(u, o) \in [1 .. Len(u) -> Int]
          /\ \A i \in 1 .. Len(u) : Along(u, o)[i] = o[u[i]]
        BY <1>1, AlongInt
    <2>2. /\ Along(u, d) \in [1 .. Len(u) -> Nat]
          /\ \A i \in 1 .. Len(u) : Along(u, d)[i] = d[u[i]]
        BY <1>1, AlongNat
    <2> QED BY <1>1, <2>1, <2>2
<1>4. \A i \in 1 .. n - 1 : /\ Along(u, o)[i] = Along(q, p)[i + 1] - k
                             /\ Along(u, d)[i] = Along(q, d)[i + 1]
    <2> SUFFICES ASSUME NEW i \in 1 .. n - 1
                 PROVE  /\ Along(u, o)[i] = Along(q, p)[i + 1] - k
                        /\ Along(u, d)[i] = Along(q, d)[i + 1]
        OBVIOUS
    <2>1. i + 1 \in 1 .. n
        BY <1>1
    <2>2. u[i] = q[i + 1] /\ q[i + 1] \in Reqs
        BY <1>1, <1>2, <2>1
    <2>3. o[q[i + 1]] = p[q[i + 1]] - k
        BY <2>2
    <2>4. Along(q, p)[i + 1] = p[q[i + 1]] /\ Along(q, d)[i + 1] = d[q[i + 1]]
        BY <1>2, <2>1
    <2>5. Along(u, o)[i] = o[u[i]] /\ Along(u, d)[i] = d[u[i]]
        BY <1>3
    <2> QED BY ONLY <2>2, <2>3, <2>4, <2>5
<1>5. Along(q, d)[1] = k
    BY <1>1, <1>2
<1>6. Run(n, Along(q, p), Along(q, d), t)
    BY DEF Line, n
<1>7. Run(n - 1, Along(u, o), Along(u, d), t - k)
    <2> DEFINE P == Along(q, p)
               D == Along(q, d)
               O == Along(u, o)
               E == Along(u, d)
    <2>1. /\ P \in [1 .. n -> Int] /\ D \in [1 .. n -> Nat] /\ Run(n, P, D, t) /\ k = D[1]
          /\ O \in [1 .. n - 1 -> Int] /\ E \in [1 .. n - 1 -> Nat]
          /\ \A i \in 1 .. n - 1 : O[i] = P[i + 1] - D[1] /\ E[i] = D[i + 1]
        BY <1>2, <1>3, <1>4, <1>5, <1>6
    <2> HIDE DEF P, D, O, E
    <2>2. Run(n - 1, O, E, t - D[1])
        BY <1>1, <2>1, RunTail
    <2> QED BY <2>1, <2>2 DEF O, E
<1> QED BY <1>1, <1>7 DEF Line, u

\* The line after k descriptors of its first request are done.
LEMMA LineTrunc ==
    ASSUME NEW q \in Seq(Reqs), q # <<>>, NoDup(q), NEW d \in [Reqs -> Nat],
           NEW p \in [Reqs -> Int], NEW t \in Nat, Line(q, d, p, t),
           NEW k \in Nat,
           NEW e \in [Reqs -> Nat], \A r \in Reqs : e[r] = IF r = q[1] THEN d[r] - k ELSE d[r],
           NEW o \in [Reqs -> Int], \A r \in Reqs : o[r] = IF r = q[1] THEN 0 ELSE p[r] - k
    PROVE  Line(q, e, o, t - k)
<1> DEFINE n == Len(q)
           P == Along(q, p)
           D == Along(q, d)
           O == Along(q, o)
           E == Along(q, e)
<1>0. n \in Nat /\ n # 0 /\ DOMAIN q = 1 .. n /\ \A i \in 1 .. n : q[i] \in Reqs
    BY AlongList
<1>1. /\ P \in [1 .. n -> Int] /\ D \in [1 .. n -> Nat]
      /\ O \in [1 .. n -> Int] /\ E \in [1 .. n -> Nat]
      /\ \A i \in 1 .. n : P[i] = p[q[i]] /\ D[i] = d[q[i]] /\ O[i] = o[q[i]] /\ E[i] = e[q[i]]
    <2>1. P \in [1 .. n -> Int] /\ \A i \in 1 .. n : P[i] = p[q[i]]
        BY AlongInt
    <2>2. D \in [1 .. n -> Nat] /\ \A i \in 1 .. n : D[i] = d[q[i]]
        BY AlongNat
    <2>3. O \in [1 .. n -> Int] /\ \A i \in 1 .. n : O[i] = o[q[i]]
        BY AlongInt
    <2>4. E \in [1 .. n -> Nat] /\ \A i \in 1 .. n : E[i] = e[q[i]]
        BY AlongNat
    <2> HIDE DEF P, D, O, E
    <2> QED BY <2>1, <2>2, <2>3, <2>4
<1>2. \A i \in 1 .. n : q[i] = q[1] <=> i = 1
    <2>1. 1 \in DOMAIN q
        BY <1>0
    <2> QED BY <1>0, <2>1 DEF NoDup
<1>3. Run(n, P, D, t)
    BY DEF Line
<1> HIDE DEF n, P, D, O, E
<1>4. \A i \in 1 .. n : O[i] = (IF i = 1 THEN 0 ELSE P[i] - k)
                         /\ E[i] = IF i = 1 THEN D[i] - k ELSE D[i]
    <2> SUFFICES ASSUME NEW i \in 1 .. n
                 PROVE  /\ O[i] = (IF i = 1 THEN 0 ELSE P[i] - k)
                        /\ E[i] = IF i = 1 THEN D[i] - k ELSE D[i]
        OBVIOUS
    <2>1. P[i] = p[q[i]] /\ D[i] = d[q[i]] /\ O[i] = o[q[i]] /\ E[i] = e[q[i]] /\ q[i] \in Reqs
          /\ (q[i] = q[1] <=> i = 1)
        BY <1>0, <1>1, <1>2
    <2>2. /\ e[q[i]] = IF q[i] = q[1] THEN d[q[i]] - k ELSE d[q[i]]
          /\ o[q[i]] = IF q[i] = q[1] THEN 0 ELSE p[q[i]] - k
        BY <2>1
    <2> QED BY ONLY <2>1, <2>2
<1>5. Run(n, O, E, t - k)
    <2>1. /\ P \in [1 .. n -> Int] /\ D \in [1 .. n -> Nat]
          /\ O \in [1 .. n -> Int] /\ E \in [1 .. n -> Nat]
          /\ n \in Nat /\ n # 0
        BY <1>0, <1>1
    <2> QED BY ONLY <1>3, <1>4, <2>1, k \in Nat, t \in Nat, RunTrunc
<1> QED BY <1>5 DEF Line, n, O, E

\* The line after k more descriptors of its last request were posted.
LEMMA LineGrow ==
    ASSUME NEW q \in Seq(Reqs), q # <<>>, NoDup(q), NEW d \in [Reqs -> Nat],
           NEW p \in [Reqs -> Int], NEW t \in Nat, Line(q, d, p, t), NEW k \in Nat,
           NEW e \in [Reqs -> Nat],
           \A r \in Reqs : e[r] = IF r = q[Len(q)] THEN d[r] + k ELSE d[r]
    PROVE  Line(q, e, p, t + k)
<1> DEFINE n == Len(q)
           P == Along(q, p)
           D == Along(q, d)
           E == Along(q, e)
<1>1. /\ n \in Nat /\ n # 0 /\ \A i \in 1 .. n : q[i] \in Reqs
      /\ P \in [1 .. n -> Int] /\ D \in [1 .. n -> Nat] /\ E \in [1 .. n -> Nat]
      /\ \A i \in 1 .. n : D[i] = d[q[i]] /\ E[i] = e[q[i]]
    BY AlongList, AlongInt, AlongNat
<1>2. \A i \in 1 .. n : q[i] = q[n] <=> i = n
    BY AlongList DEF NoDup
<1>3. Run(n, P, D, t)
    BY DEF Line
<1> HIDE DEF P, D, E
<1>4. \A i \in 1 .. n : E[i] = IF i = n THEN D[i] + k ELSE D[i]
    <2> SUFFICES ASSUME NEW i \in 1 .. n PROVE E[i] = IF i = n THEN D[i] + k ELSE D[i]
        OBVIOUS
    <2>1. D[i] = d[q[i]] /\ E[i] = e[q[i]] /\ q[i] \in Reqs /\ (q[i] = q[n] <=> i = n)
        BY <1>1, <1>2
    <2>2. e[q[i]] = IF q[i] = q[n] THEN d[q[i]] + k ELSE d[q[i]]
        BY <2>1
    <2> QED BY ONLY <2>1, <2>2
<1> HIDE DEF n
<1>5. Run(n, P, E, t + k)
    BY <1>1, <1>3, <1>4, RunGrow
<1> QED BY <1>5 DEF Line, n, P, E

\* The line with a request at its end that has posted nothing.
LEMMA LineAppend ==
    ASSUME NEW q \in Seq(Reqs), NEW x \in Reqs, x \notin ToSet(q), NEW d \in [Reqs -> Nat],
           NEW p \in [Reqs -> Int], NEW t \in Nat, Line(q, d, p, t), d[x] = 0
    PROVE  Line(Append(q, x), d, [p EXCEPT ![x] = t], t)
<1> DEFINE n == Len(q)
           u == Append(q, x)
           o == [p EXCEPT ![x] = t]
           P == Along(q, p)
           D == Along(q, d)
           O == Along(u, o)
           E == Along(u, d)
<1>1. /\ n \in Nat /\ u \in Seq(Reqs) /\ Len(u) = n + 1 /\ u[n + 1] = x
      /\ \A i \in 1 .. n : u[i] = q[i]
    OBVIOUS
<1>2. o \in [Reqs -> Int] /\ o[x] = t /\ \A r \in Reqs : r # x => o[r] = p[r]
    OBVIOUS
<1>3. \A i \in 1 .. n : q[i] # x
    BY AlongList DEF ToSet
<1>4. Run(n, P, D, t)
    BY DEF Line
<1>5. /\ P \in [1 .. n -> Int] /\ D \in [1 .. n -> Nat]
      /\ \A i \in 1 .. n : q[i] \in Reqs /\ P[i] = p[q[i]] /\ D[i] = d[q[i]]
    BY AlongList, AlongInt, AlongNat
<1> HIDE DEF u, o, P, D
<1>6. /\ O \in [1 .. n + 1 -> Int] /\ E \in [1 .. n + 1 -> Nat]
      /\ \A i \in 1 .. n + 1 : O[i] = o[u[i]] /\ E[i] = d[u[i]]
    <2>1. O \in [1 .. Len(u) -> Int] /\ \A i \in 1 .. Len(u) : O[i] = o[u[i]]
        BY <1>1, <1>2, AlongInt
    <2>2. E \in [1 .. Len(u) -> Nat] /\ \A i \in 1 .. Len(u) : E[i] = d[u[i]]
        BY <1>1, AlongNat
    <2> HIDE DEF O, E, n
    <2> QED BY <1>1, <2>1, <2>2
<1> HIDE DEF n, O, E
<1>7. \A i \in 1 .. n : i \in 1 .. n + 1
    BY <1>1
<1>8. \A i \in 1 .. n : O[i] = P[i] /\ E[i] = D[i]
    <2> SUFFICES ASSUME NEW i \in 1 .. n PROVE O[i] = P[i] /\ E[i] = D[i]
        OBVIOUS
    <2>1. O[i] = o[u[i]] /\ E[i] = d[u[i]] /\ u[i] = q[i]
        BY <1>1, <1>6, <1>7
    <2>2. q[i] \in Reqs /\ P[i] = p[q[i]] /\ D[i] = d[q[i]] /\ q[i] # x
        BY <1>3, <1>5
    <2>3. o[q[i]] = p[q[i]]
        BY <1>2, <2>2
    <2> QED BY ONLY <2>1, <2>2, <2>3
<1>9. O[n + 1] = t /\ E[n + 1] = 0
    BY <1>1, <1>2, <1>6
<1>10. Run(n + 1, O, E, t)
    <2>1. P \in [1 .. n -> Int] /\ D \in [1 .. n -> Nat]
        BY <1>5
    <2>2. O \in [1 .. n + 1 -> Int] /\ E \in [1 .. n + 1 -> Nat]
        BY <1>6
    <2>3. n \in Nat
        BY <1>1
    <2> QED BY ONLY <1>4, <1>8, <1>9, <2>1, <2>2, <2>3, t \in Nat, RunAppend
<1> QED BY <1>1, <1>10 DEF Line, u, o, O, E

-----------------------------------------------------------------------------
(***************************************************************************)
(* Undisturbed transfers: no request has timed out and no stop has found   *)
(* one.                                                                    *)
(***************************************************************************)

\* The requests with descriptors in the ring or in descq->credit, oldest first: those of
\* pend_list, and the one whose descriptors are being written.
Chain == IF work_list = <<>> THEN pend_list ELSE Append(pend_list, Head(work_list))

\* How many of d descriptors from position x on the engine, at position h, has still ahead.
Ahead(x, d, h) == IF x + d <= h THEN 0 ELSE IF x >= h THEN d ELSE x + d - h
Reached == credit + Dist(hw.idx, cidx)

\* The slots in use hold the descriptors that the line says they hold, and the engine has
\* transferred just those it has passed.
Filled(q, p) ==
    \A i \in Slots : Dist(i, cidx) < Dist(pidx, cidx) =>
        /\ desc[i] \in ToSet(q)
        /\ p[desc[i]] <= credit + Dist(i, cidx)
        /\ credit + Dist(i, cidx) < p[desc[i]] + cb[desc[i]].desc_nr
Counted(q, p) ==
    \A r \in ToSet(q) :
        moved[r] = cb[r].offset - Ahead(p[r], cb[r].desc_nr, Reached)
LaidOut(q, p) == Line(q, DescNr(cb), p, InRing) /\ Filled(q, p) /\ Counted(q, p)
Layout(p) == LaidOut(Chain, p)

Quiet ==
    /\ fault = "none" /\ ~stray
    /\ q_state = "enabled" => work_list = <<>> /\ pend_list = <<>>
    /\ \A r \in Reqs : st[r] = "mapped" \/ r \in Listed => mapped[r]
    /\ \A r \in Reqs : cb[r].done => moved[r] = Need[r]
    /\ \A r \in Reqs : r \notin ToSet(Chain) /\ ~cb[r].done
            => cb[r].offset = 0 /\ cb[r].desc_nr = 0 /\ moved[r] = 0
    /\ \A r \in ToSet(pend_list) : cb[r].offset = Need[r]

CalmInv == ~Disturbed => Quiet /\ \E p \in [Reqs -> Int] : Layout(p)

\* The chain is the pending requests and then the one at the head of the work list.
LEMMA ChainFacts ==
    TypeOK /\ Distinct =>
        /\ Chain \in Seq(Reqs) /\ NoDup(Chain) /\ ToSet(Chain) \subseteq Listed
        /\ ToSet(Chain) = ToSet(pend_list)
                          \cup (IF work_list = <<>> THEN {} ELSE {Head(work_list)})
        /\ pend_list # <<>> => Chain # <<>> /\ Chain[1] = Head(pend_list)
        /\ work_list # <<>> => /\ Chain # <<>> /\ Chain[Len(Chain)] = Head(work_list)
                               /\ Head(work_list) \in ToSet(work_list)
<1> SUFFICES ASSUME TypeOK, Distinct
             PROVE  /\ Chain \in Seq(Reqs) /\ NoDup(Chain) /\ ToSet(Chain) \subseteq Listed
                    /\ ToSet(Chain) = ToSet(pend_list)
                                      \cup (IF work_list = <<>> THEN {} ELSE {Head(work_list)})
                    /\ pend_list # <<>> => Chain # <<>> /\ Chain[1] = Head(pend_list)
                    /\ work_list # <<>> => /\ Chain # <<>> /\ Chain[Len(Chain)] = Head(work_list)
                                           /\ Head(work_list) \in ToSet(work_list)
    OBVIOUS
<1>1. /\ work_list \in Seq(Reqs) /\ pend_list \in Seq(Reqs) /\ NoDup(pend_list)
      /\ NoDup(work_list) /\ ToSet(work_list) \cap ToSet(pend_list) = {}
    BY DEF TypeOK, ListType, Distinct
<1>2. CASE work_list = <<>>
    BY <1>1, <1>2 DEF Chain, Listed
<1>3. CASE work_list # <<>>
    <2> DEFINE w == Head(work_list)
    <2>1. w \in Reqs /\ w \in ToSet(work_list)
        BY <1>1, <1>3, TailSet
    <2>2. Chain = Append(pend_list, w)
        BY <1>3 DEF Chain
    <2>3. w \notin ToSet(pend_list)
        BY <1>1, <2>1
    <2> HIDE DEF w
    <2>4. /\ Append(pend_list, w) \in Seq(Reqs) /\ NoDup(Append(pend_list, w))
          /\ ToSet(Append(pend_list, w)) = ToSet(pend_list) \cup {w}
        BY <1>1, <2>1, <2>3, AppendSet
    <2>5. /\ Append(pend_list, w) # <<>>
          /\ Append(pend_list, w)[Len(Append(pend_list, w))] = w
          /\ pend_list # <<>> => Append(pend_list, w)[1] = Head(pend_list)
        <3>1. Len(pend_list) \in Nat /\ Len(Append(pend_list, w)) = Len(pend_list) + 1
            BY <1>1, <2>1
        <3>2. Append(pend_list, w)[Len(pend_list) + 1] = w
            BY <1>1, <2>1
        <3>3. \A i \in 1 .. Len(pend_list) : Append(pend_list, w)[i] = pend_list[i]
            BY <1>1, <2>1
        <3>4. pend_list # <<>> => 1 \in 1 .. Len(pend_list) /\ Head(pend_list) = pend_list[1]
            BY <1>1
        <3>5. Append(pend_list, w) # <<>>
            <4> DEFINE a == Append(pend_list, w)
            <4>1. Len(a) = Len(pend_list) + 1 /\ Len(pend_list) \in Nat
                BY <3>1
            <4>2. Len(<<>>) = 0
                OBVIOUS
            <4> HIDE DEF a
            <4>3. a # <<>>
                BY <4>1, <4>2
            <4> QED BY <4>3 DEF a
        <3> QED BY <3>1, <3>2, <3>3, <3>4, <3>5
    <2> QED BY <1>3, <2>1, <2>2, <2>4, <2>5 DEF Listed, w
<1> QED BY <1>2, <1>3

\* The same in the next state.
LEMMA ChainNext ==
    (TypeOK /\ Distinct)' =>
       (/\ Chain \in Seq(Reqs) /\ NoDup(Chain) /\ ToSet(Chain) \subseteq Listed
        /\ ToSet(Chain) = ToSet(pend_list)
                          \cup (IF work_list = <<>> THEN {} ELSE {Head(work_list)})
        /\ pend_list # <<>> => Chain # <<>> /\ Chain[1] = Head(pend_list)
        /\ work_list # <<>> => /\ Chain # <<>> /\ Chain[Len(Chain)] = Head(work_list)
                               /\ Head(work_list) \in ToSet(work_list))'
    BY ChainFacts, PTL

\* How the line changes: its first request leaves, the last one moves to pend_list and the
\* next one joins, or a request joins an idle queue.
LEMMA ChainTail ==
    ASSUME TypeOK, pend_list # <<>>, pend_list' = Tail(pend_list), work_list' = work_list
    PROVE  Chain' = Tail(Chain)
<1>1. work_list \in Seq(Reqs) /\ pend_list \in Seq(Reqs)
    BY DEF TypeOK, ListType
<1>2. CASE work_list = <<>>
    BY <1>2 DEF Chain
<1>3. CASE work_list # <<>>
    <2> DEFINE w == Head(work_list)
    <2>1. w \in Reqs
        BY <1>1, <1>3
    <2>2. Chain' = Append(Tail(pend_list), w) /\ Chain = Append(pend_list, w)
        BY <1>3 DEF Chain
    <2> HIDE DEF w
    <2>3. Append(Tail(pend_list), w) = Tail(Append(pend_list, w))
        BY <1>1, <2>1
    <2> QED BY <2>2, <2>3
<1> QED BY <1>2, <1>3

\* The chain when a request moves to the pending list: the next one joins it.
LEMMA ChainMove ==
    ASSUME TypeOK, work_list # <<>>, work_list' = Tail(work_list),
           pend_list' = Append(pend_list, Head(work_list))
    PROVE  Chain' = IF work_list' = <<>> THEN Chain ELSE Append(Chain, Head(work_list'))
    BY DEF Chain

\* The chain when a request is added to the work list.
LEMMA ChainAdd ==
    ASSUME TypeOK, NEW r \in Reqs, work_list' = Append(work_list, r), pend_list' = pend_list
    PROVE  Chain' = IF work_list = <<>> THEN Append(Chain, r) ELSE Chain
<1>1. work_list \in Seq(Reqs)
    BY DEF TypeOK, ListType
<1>2. /\ Append(work_list, r) # <<>>
      /\ work_list = <<>> => Head(Append(work_list, r)) = r
      /\ work_list # <<>> => Head(Append(work_list, r)) = Head(work_list)
    BY <1>1
<1> QED BY <1>2 DEF Chain

\* How much is ahead of the engine when all positions shift, when the first k descriptors,
\* which it has passed, are taken off, when it takes a step, and when n are added.
LEMMA AheadShift ==
    ASSUME NEW x \in Int, NEW d \in Nat, NEW h \in Int, NEW k \in Nat
    PROVE  Ahead(x - k, d, h - k) = Ahead(x, d, h)
    BY DEF Ahead

\* What lies ahead of the engine does not change when transferred descriptors are taken off.
LEMMA AheadTrunc ==
    ASSUME NEW d \in Nat, NEW h \in Int, NEW k \in Nat, k <= d, k <= h
    PROVE  Ahead(0, d - k, h - k) = Ahead(0, d, h)
    BY DEF Ahead

\* A transfer takes one descriptor from the request it belongs to and none from another.
LEMMA AheadStep ==
    ASSUME NEW x \in Int, NEW d \in Nat, NEW h \in Int
    PROVE  /\ x <= h /\ h < x + d => Ahead(x, d, h + 1) = Ahead(x, d, h) - 1
           /\ h < x \/ x + d <= h => Ahead(x, d, h + 1) = Ahead(x, d, h)
    BY DEF Ahead

\* Posting adds to what lies ahead.
LEMMA AheadGrow ==
    ASSUME NEW x \in Int, NEW d \in Nat, NEW h \in Int, NEW n \in Nat, h <= x + d
    PROVE  Ahead(x, d + n, h) = Ahead(x, d, h) + n
    BY DEF Ahead

\* Where everything is while the line is laid out.
LEMMA LayoutFacts ==
    ASSUME Inv, Distinct, NEW p \in [Reqs -> Int], Layout(p)
    PROVE  /\ DescNr(cb) \in [Reqs -> Nat] /\ InRing \in Nat /\ Reached \in Nat
           /\ Dist(hw.idx, cidx) \in Nat
           /\ \A r \in Reqs : DescNr(cb)[r] = cb[r].desc_nr
           /\ \A r \in ToSet(Chain) : 0 <= p[r] /\ p[r] + cb[r].desc_nr <= InRing
           /\ \A r, x \in ToSet(Chain) : \/ r = x
                                         \/ p[r] + cb[r].desc_nr <= p[x]
                                         \/ p[x] + cb[x].desc_nr <= p[r]
<1>1. /\ cb \in [Reqs -> Cb] /\ InRing \in Nat /\ credit \in Nat
      /\ \A r \in Reqs : cb[r].desc_nr \in Nat
      /\ hw.idx \in Slots /\ cidx \in Slots
    BY Numbers DEF Inv
<1>2. DescNr(cb) \in [Reqs -> Nat] /\ \A r \in Reqs : DescNr(cb)[r] = cb[r].desc_nr
    BY <1>1 DEF DescNr
<1>3. Dist(hw.idx, cidx) \in Nat
    BY <1>1, DistBounds, RngSzAssumption
<1>4. Reached \in Nat
    BY <1>1, <1>3 DEF Reached
<1>5. Chain \in Seq(Reqs) /\ ToSet(Chain) \subseteq Reqs
    <2>1. Chain \in Seq(Reqs) /\ ToSet(Chain) \subseteq Listed
        BY ChainFacts DEF Inv
    <2>2. Listed \subseteq Reqs
        BY ListedType DEF Inv
    <2> QED BY <2>1, <2>2
<1>6. Line(Chain, DescNr(cb), p, InRing)
    BY DEF Layout, LaidOut
<1> DEFINE d == DescNr(cb)
           q == Chain
           t == InRing
<1>7. q \in Seq(Reqs) /\ d \in [Reqs -> Nat] /\ t \in Nat /\ Line(q, d, p, t)
    BY <1>1, <1>2, <1>5, <1>6
<1> HIDE DEF d, q, t
<1>8. /\ \A r \in ToSet(q) : 0 <= p[r] /\ p[r] + d[r] <= t
      /\ \A r, x \in ToSet(q) : r = x \/ p[r] + d[r] <= p[x] \/ p[x] + d[x] <= p[r]
    BY <1>7, LineBounds
<1>9. \A r \in ToSet(q) : d[r] = cb[r].desc_nr
    BY <1>2, <1>5 DEF d, q
<1>10. /\ \A r \in ToSet(q) : 0 <= p[r] /\ p[r] + cb[r].desc_nr <= t
       /\ \A r, x \in ToSet(q) : r = x \/ p[r] + cb[r].desc_nr <= p[x] \/ p[x] + cb[x].desc_nr <= p[r]
    <2>1. ASSUME NEW r \in ToSet(q) PROVE 0 <= p[r] /\ p[r] + cb[r].desc_nr <= t
        BY <1>8, <1>9
    <2>2. ASSUME NEW r \in ToSet(q), NEW x \in ToSet(q)
          PROVE r = x \/ p[r] + cb[r].desc_nr <= p[x] \/ p[x] + cb[x].desc_nr <= p[r]
        <3>1. d[r] = cb[r].desc_nr /\ d[x] = cb[x].desc_nr
            BY <1>9
        <3>2. r = x \/ p[r] + d[r] <= p[x] \/ p[x] + d[x] <= p[r]
            BY <1>8
        <3> QED BY <3>1, <3>2
    <2> QED BY <2>1, <2>2
<1> QED BY <1>1, <1>2, <1>3, <1>4, <1>10 DEF q, t

\* Nothing the line speaks of changes.
LEMMA LayoutSame ==
    ASSUME NEW p, Layout(p), Chain' = Chain, UNCHANGED <<cb, moved, desc, pidx, cidx, credit>>,
           hw'.idx = hw.idx
    PROVE  Layout(p)'
<1>1. InRing' = InRing /\ Reached' = Reached
    BY DEF InRing, Reached
<1> QED BY <1>1 DEF Layout, LaidOut, Filled, Counted, Line

\* No request is listed and the ring is empty.
LEMMA LayoutEmpty ==
    ASSUME TypeOK', work_list' = <<>>, pend_list' = <<>>, InRing' = 0, NEW p
    PROVE  Layout(p)'
<1>1. Chain' = <<>> /\ ToSet(Chain') = {}
    BY DEF Chain, ToSet
<1>2. credit' \in Nat /\ pidx' \in Slots /\ cidx' \in Slots
    BY DEF TypeOK, IdxType
<1>3. Dist(pidx', cidx') \in Nat /\ \A i \in Slots : Dist(i, cidx') \in Nat
    BY <1>2, DistBounds, RngSzAssumption
<1>4. Dist(pidx', cidx') = 0
    BY <1>2, <1>3 DEF InRing
<1>5. \A i \in Slots : ~(Dist(i, cidx') < Dist(pidx', cidx'))
    BY <1>3, <1>4
<1>6. Line(Chain', DescNr(cb'), p, InRing')
    BY <1>1 DEF Line, Run
<1> QED BY <1>1, <1>5, <1>6 DEF Layout, LaidOut, Filled, Counted

\* Credits are taken: descriptors move from the ring to descq->credit.
LEMMA LayoutTake ==
    ASSUME Inv, Distinct, NEW p \in [Reqs -> Int], Layout(p), TakeCredits,
           UNCHANGED <<work_list, pend_list, cb, moved, hw>>
    PROVE  Layout(p)'
<1>1. /\ pidx \in Slots /\ cidx \in Slots /\ credit \in Nat /\ hw.wb \in Slots
      /\ Dist(pidx, cidx) \in Nat /\ hw.idx \in Slots /\ hw.doorbell \in Slots
    BY Numbers DEF Inv
<1>2. /\ cidx' = hw.wb /\ credit' = credit + Dist(hw.wb, cidx) /\ pidx' = pidx /\ desc' = desc
      /\ ring = "allocated"
    BY DEF TakeCredits
<1>3. /\ Dist(hw.wb, cidx) <= Dist(hw.idx, cidx) /\ Dist(hw.wb, cidx) <= Dist(pidx, cidx)
      /\ Dist(hw.wb, cidx) \in Nat
    BY <1>1, <1>2, RngSzAssumption DEF Inv, RingInv, Dist, Slots
<1>4. InRing' = InRing
    BY TakeCreditsSame
<1>5. Dist(hw.idx, hw.wb) = Dist(hw.idx, cidx) - Dist(hw.wb, cidx)
    BY <1>1, <1>3, DistFrom
<1>6. Reached' = Reached
    <2>1. Reached' = (credit + Dist(hw.wb, cidx)) + Dist(hw.idx, hw.wb)
        BY <1>2 DEF Reached
    <2>2. Dist(hw.idx, cidx) \in Nat
        BY <1>1, DistBounds, RngSzAssumption
    <2> QED BY <1>1, <1>3, <1>5, <2>1, <2>2 DEF Reached
<1>7. Chain' = Chain
    BY DEF Chain
<1>8. ASSUME NEW i \in Slots, Dist(i, hw.wb) < Dist(pidx, hw.wb)
      PROVE  /\ Dist(i, cidx) < Dist(pidx, cidx)
             /\ credit' + Dist(i, cidx') = credit + Dist(i, cidx)
    <2>1. Dist(pidx, hw.wb) = Dist(pidx, cidx) - Dist(hw.wb, cidx)
        BY <1>1, <1>3, DistFrom
    <2>2. Dist(i, cidx) = Dist(i, hw.wb) + Dist(hw.wb, cidx)
        BY <1>1, <1>3, <1>8, <2>1, RngSzAssumption DEF Dist, Slots
    <2>3. Dist(i, hw.wb) \in Nat
        BY <1>1, DistBounds, RngSzAssumption
    <2>4. credit' + Dist(i, cidx') = (credit + Dist(hw.wb, cidx)) + Dist(i, hw.wb)
        BY <1>2
    <2> QED BY <1>1, <1>3, <1>8, <2>1, <2>2, <2>3, <2>4
<1>9. Filled(Chain, p)'
    <2> SUFFICES ASSUME NEW i \in Slots, Dist(i, hw.wb) < Dist(pidx, hw.wb)
                 PROVE  /\ desc[i] \in ToSet(Chain)
                        /\ p[desc[i]] <= credit' + Dist(i, cidx')
                        /\ credit' + Dist(i, cidx') < p[desc[i]] + cb[desc[i]].desc_nr
        BY <1>2, <1>7 DEF Filled
    <2>1. /\ Dist(i, cidx) < Dist(pidx, cidx)
          /\ credit' + Dist(i, cidx') = credit + Dist(i, cidx)
        BY <1>8
    <2> QED BY <2>1 DEF Layout, LaidOut, Filled
<1>10. Counted(Chain, p)'
    BY <1>6, <1>7 DEF Layout, LaidOut, Counted
<1> QED BY <1>4, <1>7, <1>9, <1>10 DEF Layout, LaidOut

\* The line begins at position 0 and ends at its end.
LEMMA LineEnds ==
    ASSUME NEW q \in Seq(Reqs), q # <<>>, NEW d, NEW p, NEW t, Line(q, d, p, t)
    PROVE  p[q[1]] = 0 /\ p[q[Len(q)]] + d[q[Len(q)]] = t
<1>1. Len(q) # 0 /\ 1 \in 1 .. Len(q) /\ Len(q) \in 1 .. Len(q)
    BY AlongList
<1>2. Along(q, p)[1] = 0 /\ Along(q, p)[Len(q)] + Along(q, d)[Len(q)] = t
    BY <1>1 DEF Line, Run
<1> QED BY <1>1, <1>2 DEF Along

\* The numbers that the line is about.
LEMMA LayoutNumbers ==
    ASSUME Inv
    PROVE  /\ credit \in Nat /\ InRing \in Nat /\ Reached \in Nat /\ Dist(pidx, cidx) \in Nat
           /\ Dist(hw.idx, cidx) \in Nat /\ \A i \in Slots : Dist(i, cidx) \in Nat
           /\ InRing = Dist(pidx, cidx) + credit /\ Reached = credit + Dist(hw.idx, cidx)
           /\ DescNr(cb) \in [Reqs -> Nat] /\ \A x \in Reqs : DescNr(cb)[x] = cb[x].desc_nr
           /\ \A x \in Reqs : cb[x].desc_nr \in Nat /\ cb[x].offset \in Nat /\ moved[x] \in Nat
<1>1. /\ cb \in [Reqs -> Cb] /\ credit \in Nat /\ InRing \in Nat /\ Dist(pidx, cidx) \in Nat
      /\ \A r \in Reqs : cb[r].desc_nr \in Nat /\ cb[r].offset \in Nat
      /\ hw.idx \in Slots /\ cidx \in Slots
    BY Numbers DEF Inv
<1>2. DescNr(cb) \in [Reqs -> Nat] /\ \A x \in Reqs : DescNr(cb)[x] = cb[x].desc_nr
    BY <1>1 DEF DescNr
<1>3. \A i \in Slots : Dist(i, cidx) \in Nat
    BY <1>1, DistBounds, RngSzAssumption
<1>4. Reached \in Nat
    BY <1>1, <1>3 DEF Reached
<1>5. \A x \in Reqs : moved[x] \in Nat
    BY DEF Inv, TypeOK, SeenType
<1> QED BY <1>1, <1>2, <1>3, <1>4, <1>5 DEF InRing, Reached

\* The first request of pend_list is completed: it has been transferred to its last
\* descriptor, and the line moves up.
LEMMA LayoutDone ==
    ASSUME Inv, Distinct, NEW p \in [Reqs -> Int], Layout(p), CmplDone,
           cb[Head(pend_list)].offset = Need[Head(pend_list)]
    PROVE  /\ moved[Head(pend_list)] = Need[Head(pend_list)]
           /\ \E o \in [Reqs -> Int] : Layout(o)'
<1> DEFINE r == Head(pend_list)
           q == Chain
           d == DescNr(cb)
<1>n. /\ credit \in Nat /\ InRing \in Nat /\ Reached \in Nat /\ Dist(pidx, cidx) \in Nat
      /\ Dist(hw.idx, cidx) \in Nat /\ \A i \in Slots : Dist(i, cidx) \in Nat
      /\ InRing = Dist(pidx, cidx) + credit /\ Reached = credit + Dist(hw.idx, cidx)
      /\ d \in [Reqs -> Nat] /\ \A x \in Reqs : d[x] = cb[x].desc_nr
      /\ \A x \in Reqs : cb[x].desc_nr \in Nat /\ cb[x].offset \in Nat
    BY LayoutNumbers
<1>c. /\ q \in Seq(Reqs) /\ q # <<>> /\ NoDup(q) /\ ToSet(q) \subseteq Reqs /\ q[1] = r
      /\ r \in ToSet(q)
    <2>1. /\ Chain \in Seq(Reqs) /\ NoDup(Chain) /\ ToSet(Chain) \subseteq Listed
          /\ Chain # <<>> /\ Chain[1] = Head(pend_list)
        BY ChainFacts DEF Inv, CmplDone
    <2>2. Listed \subseteq Reqs
        BY ListedType DEF Inv
    <2>3. Head(Chain) \in ToSet(Chain) /\ Head(Chain) = Chain[1]
        BY <2>1, TailSet
    <2> QED BY <2>1, <2>2, <2>3
<1>l. Line(q, d, p, InRing) /\ Filled(q, p) /\ Counted(q, p)
    BY DEF Layout, LaidOut
<1>1. /\ UNCHANGED <<pidx, cidx, desc, moved, hw, work_list>> /\ pend_list' = Tail(pend_list)
      /\ pend_list # <<>> /\ credit' = credit - cb[r].desc_nr /\ cb[r].desc_nr <= credit
      /\ cb' = [cb EXCEPT ![r].done = TRUE, ![r].status = "ok"]
    BY DEF CmplDone, Enough, seen
<1>2. \A x \in Reqs : cb'[x].desc_nr = cb[x].desc_nr /\ cb'[x].offset = cb[x].offset
    <2>1. cb \in [Reqs -> Cb]
        BY DEF Inv, TypeOK
    <2> QED BY <1>1, <2>1 DEF Cb
<1>3. PICK u \in Seq(Reqs) : Chain' = u /\ u = Tail(q) /\ ToSet(u) = ToSet(q) \ {r}
    <2>1. Chain' = Tail(Chain)
        BY <1>1, ChainTail DEF Inv
    <2>2. Head(q) = r
        BY <1>c
    <2> QED BY <1>c, <2>1, <2>2, TailSet
<1>4. PICK k \in Nat : k = cb[r].desc_nr
    BY <1>n, <1>c
<1>5. PICK o \in [Reqs -> Int] : \A x \in Reqs : o[x] = p[x] - k
    <2> DEFINE f == [x \in Reqs |-> p[x] - k]
    <2>1. f \in [Reqs -> Int] /\ \A x \in Reqs : f[x] = p[x] - k
        OBVIOUS
    <2> QED BY <2>1
<1> HIDE DEF r, q, d
<1>6. p[r] = 0
    BY <1>c, <1>l, LineEnds
<1>7. InRing' = InRing - k /\ Reached' = Reached - k /\ credit' = credit - k
    <2>1. /\ InRing' = Dist(pidx, cidx) + (credit - k)
          /\ Reached' = (credit - k) + Dist(hw.idx, cidx)
        BY <1>1, <1>4 DEF InRing, Reached
    <2>2. credit' = credit - k
        BY <1>1, <1>4
    <2>3. /\ credit \in Nat /\ Dist(pidx, cidx) \in Nat /\ Dist(hw.idx, cidx) \in Nat
          /\ InRing = Dist(pidx, cidx) + credit /\ Reached = credit + Dist(hw.idx, cidx)
        BY <1>n
    <2> QED BY ONLY <2>1, <2>2, <2>3, k \in Nat
<1>8. DescNr(cb') = d
    BY <1>2 DEF DescNr, d
<1>9. Line(u, d, o, InRing - k)
    <2>1. k = d[q[1]]
        BY <1>4, <1>c, <1>n
    <2>2. InRing \in Nat /\ d \in [Reqs -> Nat] /\ u = Tail(q)
        BY <1>3, <1>n
    <2>3. q \in Seq(Reqs) /\ q # <<>> /\ Line(q, d, p, InRing)
        BY <1>c, <1>l
    <2> QED BY ONLY <1>5, <2>1, <2>2, <2>3, p \in [Reqs -> Int], o \in [Reqs -> Int], k \in Nat,
                    LineTail
<1>10. \A x \in ToSet(q) : p[x] \in Int
    BY <1>c
<1>11. ASSUME NEW i \in Slots, Dist(i, cidx) < Dist(pidx, cidx)
       PROVE  /\ desc[i] \in ToSet(q) /\ desc[i] # r
              /\ o[desc[i]] <= (credit - k) + Dist(i, cidx)
              /\ (credit - k) + Dist(i, cidx) < o[desc[i]] + cb[desc[i]].desc_nr
    <2>1. /\ desc[i] \in ToSet(q)
          /\ p[desc[i]] <= credit + Dist(i, cidx)
          /\ credit + Dist(i, cidx) < p[desc[i]] + cb[desc[i]].desc_nr
        BY <1>11, <1>l DEF Filled
    <2>2. PICK x \in ToSet(q) : x = desc[i]
        BY <2>1
    <2>3. /\ o[x] = p[x] - k /\ p[x] \in Int /\ cb[x].desc_nr \in Nat /\ Dist(i, cidx) \in Nat
          /\ credit \in Nat /\ k <= credit
        BY <1>1, <1>4, <1>5, <1>c, <1>n
    <2>4. x # r
        BY <1>4, <1>6, <2>1, <2>2, <2>3
    <2>5. o[x] <= (credit - k) + Dist(i, cidx)
          /\ (credit - k) + Dist(i, cidx) < o[x] + cb[x].desc_nr
        <3>1. p[x] <= credit + Dist(i, cidx) /\ credit + Dist(i, cidx) < p[x] + cb[x].desc_nr
            BY ONLY <2>1, <2>2
        <3> QED BY ONLY <2>3, <3>1, k \in Nat
    <2> QED BY <2>2, <2>4, <2>5
<1>12. Filled(u, o)'
    <2>1. ASSUME NEW i \in Slots, Dist(i, cidx) < Dist(pidx, cidx)
          PROVE  /\ desc'[i] \in ToSet(u)
                 /\ o[desc'[i]] <= credit' + Dist(i, cidx')
                 /\ credit' + Dist(i, cidx') < o[desc'[i]] + cb'[desc'[i]].desc_nr
        <3>1. /\ desc[i] \in ToSet(q) /\ desc[i] # r
              /\ o[desc[i]] <= (credit - k) + Dist(i, cidx)
              /\ (credit - k) + Dist(i, cidx) < o[desc[i]] + cb[desc[i]].desc_nr
            BY <1>11, <2>1
        <3>2. cb'[desc[i]].desc_nr = cb[desc[i]].desc_nr
            BY <1>2, <1>c, <3>1
        <3> QED BY <1>1, <1>3, <1>7, <3>1, <3>2
    <2> QED BY <1>1, <2>1, <1>3 DEF Filled
<1>13. Counted(u, o)'
    <2>1. ASSUME NEW x \in ToSet(q)
          PROVE  moved'[x] = cb'[x].offset - Ahead(o[x], cb'[x].desc_nr, Reached')
        <3>1. moved[x] = cb[x].offset - Ahead(p[x], cb[x].desc_nr, Reached)
            BY <1>l DEF Counted
        <3>2. Ahead(p[x] - k, cb[x].desc_nr, Reached - k) = Ahead(p[x], cb[x].desc_nr, Reached)
            <4>1. x \in Reqs /\ Reached \in Int
                BY <1>c, <1>n
            <4>2. p[x] \in Int /\ cb[x].desc_nr \in Nat
                BY <1>n, <4>1
            <4> QED BY ONLY <4>1, <4>2, k \in Nat, AheadShift
        <3>3. x \in Reqs
            BY <1>c
        <3> QED BY <1>1, <1>2, <1>5, <1>7, <3>1, <3>2, <3>3
    <2> QED BY <1>3, <2>1 DEF Counted
<1>14. Layout(o)'
    BY <1>3, <1>7, <1>8, <1>9, <1>12, <1>13 DEF Layout, LaidOut
<1>15. moved[r] = Need[r]
    <2>1. moved[r] = cb[r].offset - Ahead(p[r], cb[r].desc_nr, Reached)
        BY <1>c, <1>l DEF Counted
    <2>2. Ahead(p[r], cb[r].desc_nr, Reached) = 0
        BY <1>1, <1>4, <1>6, <1>n DEF Ahead
    <2>3. cb[r].offset \in Nat /\ cb[r].offset = Need[r]
        BY <1>c, <1>n DEF r
    <2> QED BY <2>1, <2>2, <2>3
<1> QED BY <1>14, <1>15 DEF r

\* The first request of pend_list gets all credits that are left, which are not enough.
LEMMA LayoutPart ==
    ASSUME Inv, Distinct, NEW p \in [Reqs -> Int], Layout(p), CmplPart
    PROVE  \E o \in [Reqs -> Int] : Layout(o)'
<1> DEFINE r == Head(pend_list)
           q == Chain
           d == DescNr(cb)
<1>n. /\ credit \in Nat /\ InRing \in Nat /\ Reached \in Nat /\ Dist(pidx, cidx) \in Nat
      /\ Dist(hw.idx, cidx) \in Nat /\ \A i \in Slots : Dist(i, cidx) \in Nat
      /\ InRing = Dist(pidx, cidx) + credit /\ Reached = credit + Dist(hw.idx, cidx)
      /\ d \in [Reqs -> Nat] /\ \A x \in Reqs : d[x] = cb[x].desc_nr
      /\ \A x \in Reqs : cb[x].desc_nr \in Nat /\ cb[x].offset \in Nat
    BY LayoutNumbers
<1>c. PICK u \in Seq(Reqs) : /\ u = q /\ u # <<>> /\ NoDup(u) /\ ToSet(u) \subseteq Reqs
                             /\ u[1] = r /\ r \in ToSet(u)
    <2>1. /\ Chain \in Seq(Reqs) /\ NoDup(Chain) /\ ToSet(Chain) \subseteq Listed
          /\ Chain # <<>> /\ Chain[1] = Head(pend_list)
        BY ChainFacts DEF Inv, CmplPart
    <2>2. Listed \subseteq Reqs
        BY ListedType DEF Inv
    <2>3. Head(Chain) \in ToSet(Chain) /\ Head(Chain) = Chain[1]
        BY <2>1, TailSet
    <2> QED BY <2>1, <2>2, <2>3
<1>l. Line(u, d, p, InRing) /\ Filled(u, p) /\ Counted(u, p)
    BY <1>c DEF Layout, LaidOut
<1>1. /\ UNCHANGED <<pidx, cidx, desc, moved, hw, work_list, pend_list>>
      /\ credit' = 0 /\ ~(credit >= cb[r].desc_nr)
      /\ cb' = [cb EXCEPT ![r].desc_nr = @ - credit]
    BY DEF CmplPart, Enough, lists, seen
<1>2. /\ \A x \in Reqs : cb'[x].offset = cb[x].offset
      /\ \A x \in Reqs : cb'[x].desc_nr = IF x = r THEN cb[x].desc_nr - credit ELSE cb[x].desc_nr
    <2>1. cb \in [Reqs -> Cb]
        BY DEF Inv, TypeOK
    <2> QED BY <1>1, <2>1 DEF Cb
<1>3. Chain' = u
    BY <1>1, <1>c DEF Chain
<1>4. PICK k \in Nat : k = credit
    BY <1>n
<1>5. PICK o \in [Reqs -> Int] : \A x \in Reqs : o[x] = IF x = u[1] THEN 0 ELSE p[x] - k
    <2> DEFINE f == [x \in Reqs |-> IF x = u[1] THEN 0 ELSE p[x] - k]
    <2>1. f \in [Reqs -> Int] /\ \A x \in Reqs : f[x] = IF x = u[1] THEN 0 ELSE p[x] - k
        OBVIOUS
    <2> QED BY <2>1
<1> HIDE DEF r, q, d
<1>6. p[r] = 0
    BY <1>c, <1>l, LineEnds
<1>7. InRing' = InRing - k /\ Reached' = Reached - k /\ credit' = 0
    <2>1. InRing' = Dist(pidx, cidx) + 0 /\ Reached' = 0 + Dist(hw.idx, cidx)
        BY <1>1 DEF InRing, Reached
    <2>2. /\ credit \in Nat /\ Dist(pidx, cidx) \in Nat /\ Dist(hw.idx, cidx) \in Nat
          /\ InRing = Dist(pidx, cidx) + credit /\ Reached = credit + Dist(hw.idx, cidx)
        BY <1>n
    <2> QED BY ONLY <1>1, <1>4, <2>1, <2>2
<1>8. k <= cb[r].desc_nr /\ cb[r].desc_nr \in Nat
    <2>1. cb[r].desc_nr \in Nat
        BY <1>c, <1>n
    <2>2. credit <= cb[r].desc_nr
        BY <1>1, <1>n, <2>1
    <2> QED BY ONLY <1>4, <2>1, <2>2
<1>9. Line(u, DescNr(cb'), o, InRing - k)
    <2>1. PICK e \in [Reqs -> Nat] : \A x \in Reqs : e[x] = cb'[x].desc_nr
        <3> DEFINE f == [x \in Reqs |-> cb'[x].desc_nr]
        <3>1. \A x \in Reqs : cb'[x].desc_nr \in Nat
            <4> SUFFICES ASSUME NEW x \in Reqs PROVE cb'[x].desc_nr \in Nat
                OBVIOUS
            <4>1. cb'[x].desc_nr = IF x = r THEN cb[x].desc_nr - k ELSE cb[x].desc_nr
                BY <1>2, <1>4
            <4>2. cb[x].desc_nr \in Nat /\ (x = r => k <= cb[x].desc_nr)
                BY <1>8, <1>n
            <4> QED BY ONLY <4>1, <4>2, k \in Nat
        <3>2. f \in [Reqs -> Nat] /\ \A x \in Reqs : f[x] = cb'[x].desc_nr
            BY <3>1
        <3> QED BY <3>2
    <2>2. e = DescNr(cb')
        BY <2>1 DEF DescNr
    <2>3. \A x \in Reqs : e[x] = IF x = u[1] THEN d[x] - k ELSE d[x]
        BY <1>2, <1>4, <1>c, <1>n, <2>1
    <2>4. /\ u # <<>> /\ NoDup(u) /\ d \in [Reqs -> Nat] /\ InRing \in Nat
          /\ Line(u, d, p, InRing)
        BY <1>c, <1>l, <1>n
    <2>5. Line(u, e, o, InRing - k)
        BY <1>5, <2>3, <2>4, LineTrunc
    <2> QED BY <2>2, <2>5
<1>10. ASSUME NEW i \in Slots, Dist(i, cidx) < Dist(pidx, cidx)
       PROVE  /\ desc[i] \in ToSet(u)
              /\ o[desc[i]] <= Dist(i, cidx)
              /\ Dist(i, cidx) < o[desc[i]] + cb'[desc[i]].desc_nr
    <2>1. /\ desc[i] \in ToSet(u)
          /\ p[desc[i]] <= credit + Dist(i, cidx)
          /\ credit + Dist(i, cidx) < p[desc[i]] + cb[desc[i]].desc_nr
        BY <1>10, <1>l DEF Filled
    <2>2. PICK x \in ToSet(u) : x = desc[i]
        BY <2>1
    <2>3. /\ p[x] \in Int /\ cb[x].desc_nr \in Nat /\ Dist(i, cidx) \in Nat /\ x \in Reqs
          /\ credit \in Nat /\ k = credit
        BY <1>4, <1>c, <1>n
    <2>4. CASE x = r
        <3>1. o[x] = 0 /\ cb'[x].desc_nr = cb[x].desc_nr - credit /\ p[x] = 0
            BY <1>2, <1>5, <1>6, <1>c, <2>3, <2>4
        <3>2. o[x] <= Dist(i, cidx) /\ Dist(i, cidx) < o[x] + cb'[x].desc_nr
            BY ONLY <2>1, <2>2, <2>3, <3>1
        <3> QED BY <2>2, <3>2
    <2>5. CASE x # r
        <3>1. o[x] = p[x] - k /\ cb'[x].desc_nr = cb[x].desc_nr
            BY <1>2, <1>5, <1>c, <2>3, <2>5
        <3>2. o[x] <= Dist(i, cidx) /\ Dist(i, cidx) < o[x] + cb'[x].desc_nr
            BY ONLY <2>1, <2>2, <2>3, <3>1
        <3> QED BY <2>2, <3>2
    <2> QED BY <2>4, <2>5
<1>11. Filled(u, o)'
    <2>1. ASSUME NEW i \in Slots, Dist(i, cidx) < Dist(pidx, cidx)
          PROVE  /\ desc'[i] \in ToSet(u)
                 /\ o[desc'[i]] <= credit' + Dist(i, cidx')
                 /\ credit' + Dist(i, cidx') < o[desc'[i]] + cb'[desc'[i]].desc_nr
        <3>1. /\ desc[i] \in ToSet(u)
              /\ o[desc[i]] <= Dist(i, cidx)
              /\ Dist(i, cidx) < o[desc[i]] + cb'[desc[i]].desc_nr
            BY <1>10, <2>1
        <3>2. 0 + Dist(i, cidx) = Dist(i, cidx)
            BY <1>n
        <3> QED BY <1>1, <1>7, <3>1, <3>2
    <2> QED BY <1>1, <2>1 DEF Filled
<1>12. Counted(u, o)'
    <2>1. ASSUME NEW x \in ToSet(u)
          PROVE  moved'[x] = cb'[x].offset - Ahead(o[x], cb'[x].desc_nr, Reached')
        <3>1. moved[x] = cb[x].offset - Ahead(p[x], cb[x].desc_nr, Reached)
            BY <1>l DEF Counted
        <3>2. /\ p[x] \in Int /\ cb[x].desc_nr \in Nat /\ Reached \in Int /\ x \in Reqs
              /\ Reached >= k
            <4>1. x \in Reqs
                BY <1>c
            <4>2. Reached = credit + Dist(hw.idx, cidx) /\ Dist(hw.idx, cidx) \in Nat
                BY <1>n
            <4>3. Reached >= k /\ Reached \in Int
                BY ONLY <1>4, <4>2, k \in Nat
            <4> QED BY <1>n, <4>1, <4>3
        <3>3. Ahead(o[x], cb'[x].desc_nr, Reached - k) = Ahead(p[x], cb[x].desc_nr, Reached)
            <4>1. CASE x = r
                <5>1. o[x] = 0 /\ cb'[x].desc_nr = cb[x].desc_nr - k /\ p[x] = 0
                    BY <1>2, <1>4, <1>5, <1>6, <1>c, <3>2, <4>1
                <5>2. k <= cb[x].desc_nr
                    BY <1>8, <4>1
                <5> QED BY ONLY <3>2, <5>1, <5>2, k \in Nat, AheadTrunc
            <4>2. CASE x # r
                <5>1. o[x] = p[x] - k /\ cb'[x].desc_nr = cb[x].desc_nr
                    BY <1>2, <1>5, <1>c, <3>2, <4>2
                <5> QED BY ONLY <3>2, <5>1, k \in Nat, AheadShift
            <4> QED BY <4>1, <4>2
        <3> QED BY <1>1, <1>2, <1>7, <3>1, <3>2, <3>3
    <2> QED BY <2>1 DEF Counted
<1>13. Layout(o)'
    BY <1>3, <1>7, <1>9, <1>11, <1>12 DEF Layout, LaidOut
<1> QED BY <1>13

\* The engine transfers a descriptor: one of a request in line, which is listed.
LEMMA LayoutTransfer ==
    ASSUME Inv, Distinct, NEW p \in [Reqs -> Int], Layout(p), HwTransfer
    PROVE  /\ desc[hw.idx] \in ToSet(Chain) /\ ToSet(Chain) \subseteq Listed
           /\ Layout(p)'
<1>n. /\ credit \in Nat /\ InRing \in Nat /\ Reached \in Nat /\ Dist(pidx, cidx) \in Nat
      /\ Dist(hw.idx, cidx) \in Nat /\ Reached = credit + Dist(hw.idx, cidx)
      /\ \A x \in Reqs : cb[x].desc_nr \in Nat /\ cb[x].offset \in Nat /\ moved[x] \in Nat
    BY LayoutNumbers
<1>c. PICK u \in Seq(Reqs) : u = Chain /\ ToSet(u) \subseteq Reqs /\ ToSet(u) \subseteq Listed
    <2>1. Chain \in Seq(Reqs) /\ ToSet(Chain) \subseteq Listed
        BY ChainFacts DEF Inv
    <2>2. Listed \subseteq Reqs
        BY ListedType DEF Inv
    <2> QED BY <2>1, <2>2
<1>l. Line(u, DescNr(cb), p, InRing) /\ Filled(u, p) /\ Counted(u, p)
    BY <1>c DEF Layout, LaidOut
<1>1. /\ UNCHANGED <<pidx, cidx, desc, credit, cb, work_list, pend_list>>
      /\ hw.valid /\ hw.idx # hw.doorbell /\ hw' = [hw EXCEPT !.idx = Adv(hw.idx, 1)]
      /\ moved' = [moved EXCEPT ![desc[hw.idx]] = @ + 1]
    BY DEF HwTransfer, lists, idx, req
<1>2. /\ {cidx, pidx, hw.idx, hw.doorbell, hw.wb} \subseteq Slots /\ hw \in Hw
    BY Numbers DEF Inv, TypeOK
<1>3. Dist(hw.idx, cidx) < Dist(hw.doorbell, cidx) /\ Dist(hw.doorbell, cidx) <= Dist(pidx, cidx)
    <2>1. ring = "allocated"
        BY <1>1 DEF Inv, CtlInv
    <2>2. Dist(hw.idx, cidx) <= Dist(hw.doorbell, cidx)
          /\ Dist(hw.doorbell, cidx) <= Dist(pidx, cidx)
        BY <2>1 DEF Inv, RingInv
    <2>3. Dist(hw.idx, cidx) # Dist(hw.doorbell, cidx)
        <3>1. PICK a \in Slots, b \in Slots, c \in Slots : a = hw.idx /\ b = hw.doorbell /\ c = cidx
            BY <1>2
        <3>2. a # b
            BY <1>1, <3>1
        <3>3. Dist(a, c) # Dist(b, c)
            BY ONLY <3>2, RngSzAssumption, a \in Slots, b \in Slots, c \in Slots DEF Dist, Slots
        <3> QED BY <3>1, <3>3
    <2>4. Dist(hw.idx, cidx) \in Int /\ Dist(hw.doorbell, cidx) \in Int
        <3>1. hw.idx \in Slots /\ hw.doorbell \in Slots /\ cidx \in Slots
            BY <1>2
        <3>2. Dist(hw.idx, cidx) \in 0 .. RngSz - 1 /\ Dist(hw.doorbell, cidx) \in 0 .. RngSz - 1
            BY ONLY <3>1, DistBounds
        <3> QED BY ONLY <3>2, RngSzAssumption
    <2> QED BY ONLY <2>2, <2>3, <2>4
<1>4. Dist(hw.idx, cidx) < Dist(pidx, cidx) /\ Dist(hw.idx, cidx) + 1 <= RngSz - 1
    <2>1. Dist(pidx, cidx) \in 0 .. RngSz - 1
        BY <1>2, DistBounds
    <2>2. Dist(hw.doorbell, cidx) \in 0 .. RngSz - 1
        BY <1>2, DistBounds
    <2>3. Dist(hw.idx, cidx) \in Nat /\ RngSz \in Nat
        BY <1>n, RngSzAssumption
    <2> QED BY ONLY <1>3, <2>1, <2>2, <2>3
<1>5. Reached' = Reached + 1
    <2>1. Dist(Adv(hw.idx, 1), cidx) = Dist(hw.idx, cidx) + 1
        BY <1>2, <1>4, AdvDist
    <2>2. hw'.idx = Adv(hw.idx, 1)
        BY <1>1, <1>2 DEF Hw
    <2>3. Reached' = credit + Dist(Adv(hw.idx, 1), cidx)
        BY <1>1, <2>2 DEF Reached
    <2> QED BY ONLY <1>n, <2>1, <2>3
<1>6. PICK y \in Reqs : y = desc[hw.idx] /\ y \in ToSet(u)
                        /\ p[y] <= Reached /\ Reached < p[y] + cb[y].desc_nr
    <2>1. /\ desc[hw.idx] \in ToSet(u)
          /\ p[desc[hw.idx]] <= credit + Dist(hw.idx, cidx)
          /\ credit + Dist(hw.idx, cidx) < p[desc[hw.idx]] + cb[desc[hw.idx]].desc_nr
        BY <1>2, <1>4, <1>l DEF Filled
    <2> QED BY <1>c, <1>n, <2>1
<1>7. /\ moved'[y] = moved[y] + 1
      /\ \A x \in Reqs : x # y => moved'[x] = moved[x]
    BY <1>1, <1>6 DEF Inv, TypeOK, SeenType
<1>8. Counted(u, p)'
    <2>1. ASSUME NEW x \in ToSet(u)
          PROVE  moved'[x] = cb[x].offset - Ahead(p[x], cb[x].desc_nr, Reached')
        <3>1. /\ moved[x] = cb[x].offset - Ahead(p[x], cb[x].desc_nr, Reached)
              /\ x \in Reqs /\ p[x] \in Int /\ cb[x].desc_nr \in Nat /\ cb[x].offset \in Nat
              /\ moved[x] \in Nat
            BY <1>c, <1>l, <1>n DEF Counted
        <3>2. CASE x = y
            <4>1. Ahead(p[x], cb[x].desc_nr, Reached + 1)
                    = Ahead(p[x], cb[x].desc_nr, Reached) - 1
                <5>1. p[x] <= Reached /\ Reached < p[x] + cb[x].desc_nr /\ Reached \in Nat
                    BY <1>6, <1>n, <3>2
                <5>2. PICK a \in Int, b \in Nat, h \in Nat :
                            a = p[x] /\ b = cb[x].desc_nr /\ h = Reached
                    BY <3>1, <5>1
                <5>3. a <= h /\ h < a + b
                    BY <5>1, <5>2
                <5>4. Ahead(a, b, h + 1) = Ahead(a, b, h) - 1
                    BY ONLY <5>3, a \in Int, b \in Nat, h \in Nat, AheadStep
                <5> QED BY <5>2, <5>4
            <4>2. Ahead(p[x], cb[x].desc_nr, Reached) \in Int
                BY <1>n, <3>1 DEF Ahead
            <4>3. moved'[x] = moved[x] + 1
                BY <1>7, <3>2
            <4> QED BY ONLY <1>5, <3>1, <4>1, <4>2, <4>3
        <3>3. CASE x # y
            <4>1. x = y \/ p[x] + cb[x].desc_nr <= p[y] \/ p[y] + cb[y].desc_nr <= p[x]
                BY <1>6, <1>c, LayoutFacts
            <4>2. p[y] \in Int /\ cb[y].desc_nr \in Nat /\ Reached \in Nat
                BY <1>6, <1>n
            <4>3. Reached < p[x] \/ p[x] + cb[x].desc_nr <= Reached
                BY ONLY <1>6, <3>1, <3>3, <4>1, <4>2
            <4>4. Ahead(p[x], cb[x].desc_nr, Reached + 1) = Ahead(p[x], cb[x].desc_nr, Reached)
                BY ONLY <3>1, <4>2, <4>3 DEF Ahead
            <4>5. moved'[x] = moved[x]
                BY <1>7, <3>1, <3>3
            <4> QED BY ONLY <1>5, <3>1, <4>4, <4>5
        <3> QED BY <3>2, <3>3
    <2> QED BY <1>1, <2>1 DEF Counted
<1>9. Filled(u, p)' /\ Line(u, DescNr(cb'), p, InRing') /\ Chain' = u
    <2>1. InRing' = InRing /\ Chain' = u
        BY <1>1, <1>c DEF InRing, Chain
    <2>2. Filled(u, p)'
        BY <1>1, <1>l DEF Filled
    <2> QED BY <1>1, <1>l, <2>1, <2>2
<1>10. Layout(p)'
    BY <1>8, <1>9 DEF Layout, LaidOut
<1> QED BY <1>6, <1>10, <1>c

\* The numbers of the layout are naturals in the next state.
LEMMA LayoutNumbersNext ==
    Inv' => (InRing \in Nat /\ Reached \in Nat /\ DescNr(cb) \in [Reqs -> Nat]
             /\ \A x \in Reqs : DescNr(cb)[x] = cb[x].desc_nr)'
<1>1. Inv => (InRing \in Nat /\ Reached \in Nat /\ DescNr(cb) \in [Reqs -> Nat]
             /\ \A x \in Reqs : DescNr(cb)[x] = cb[x].desc_nr)
    BY LayoutNumbers
<1> QED BY <1>1, PTL

\* A request without descriptors joins the line.
LEMMA LayoutJoin ==
    ASSUME Inv', NEW q \in Seq(Reqs), NEW x \in Reqs, x \notin ToSet(q),
           NEW p \in [Reqs -> Int], LaidOut(q, p)', Chain' = Append(q, x),
           cb'[x].offset = 0, cb'[x].desc_nr = 0, moved'[x] = 0
    PROVE  \E o \in [Reqs -> Int] : Layout(o)'
<1>1. /\ InRing' \in Nat /\ Reached' \in Nat /\ DescNr(cb') \in [Reqs -> Nat]
      /\ \A y \in Reqs : DescNr(cb')[y] = cb'[y].desc_nr
    BY LayoutNumbersNext
<1>2. PICK t \in Nat : t = InRing'
    BY <1>1
<1>3. PICK o \in [Reqs -> Int] : o = [p EXCEPT ![x] = t]
    <2>1. t \in Int
        OBVIOUS
    <2>2. [p EXCEPT ![x] = t] \in [Reqs -> Int]
        BY ONLY <2>1, p \in [Reqs -> Int]
    <2> QED BY ONLY <2>2
<1>4. o[x] = t /\ \A y \in ToSet(q) : o[y] = p[y]
    <2>1. ToSet(q) \subseteq Reqs
        BY FiniteList
    <2> QED BY <1>3, <2>1
<1>5. PICK u \in Seq(Reqs) : u = Append(q, x) /\ ToSet(u) = ToSet(q) \cup {x}
    BY AppendSet
<1>6. Line(u, DescNr(cb'), o, InRing')
    <2>1. PICK d \in [Reqs -> Nat] : d = DescNr(cb') /\ d[x] = 0
        BY <1>1
    <2>2. Line(q, d, p, t)
        BY <1>2, <2>1 DEF LaidOut
    <2>3. Line(Append(q, x), d, [p EXCEPT ![x] = t], t)
        BY <2>1, <2>2, LineAppend
    <2> QED BY <1>2, <1>3, <1>5, <2>1, <2>3
<1>7. Filled(u, o)'
    BY <1>4, <1>5 DEF LaidOut, Filled
<1>8. Counted(u, o)'
    <2>1. ASSUME NEW y \in ToSet(u)
          PROVE  moved'[y] = cb'[y].offset - Ahead(o[y], cb'[y].desc_nr, Reached')
        <3>1. CASE y = x
            <4>1. Ahead(t, 0, Reached') = 0
                <5>1. PICK h \in Nat : h = Reached'
                    BY <1>1
                <5>2. Ahead(t, 0, h) = 0
                    BY ONLY t \in Nat, h \in Nat DEF Ahead
                <5> QED BY <5>1, <5>2
            <4> QED BY <1>4, <3>1, <4>1
        <3>2. CASE y # x
            BY <1>4, <1>5, <2>1, <3>2 DEF LaidOut, Counted
        <3> QED BY <3>1, <3>2
    <2> QED BY <2>1 DEF Counted
<1> QED BY <1>5, <1>6, <1>7, <1>8 DEF Layout, LaidOut

\* Descriptors of the first request of work_list are written to the ring: it is the last in
\* line and grows, and when all its descriptors are written the next one joins.
LEMMA LayoutGrow ==
    ASSUME Inv, Distinct, NEW p \in [Reqs -> Int], Layout(p), PostOne
    PROVE  LaidOut(Chain, p) /\ \A u \in Seq(Reqs) : u = Chain => LaidOut(u, p)'
<1> SUFFICES ASSUME NEW u \in Seq(Reqs), u = Chain
             PROVE  LaidOut(u, p)'
    BY DEF Layout
<1> DEFINE w == Head(work_list)
           d == DescNr(cb)
<1>n. /\ credit \in Nat /\ InRing \in Nat /\ Reached \in Nat /\ Dist(pidx, cidx) \in Nat
      /\ Dist(hw.idx, cidx) \in Nat /\ \A i \in Slots : Dist(i, cidx) \in Nat
      /\ InRing = Dist(pidx, cidx) + credit /\ Reached = credit + Dist(hw.idx, cidx)
      /\ d \in [Reqs -> Nat] /\ \A x \in Reqs : d[x] = cb[x].desc_nr
      /\ \A x \in Reqs : cb[x].desc_nr \in Nat /\ cb[x].offset \in Nat /\ moved[x] \in Nat
    BY LayoutNumbers
<1>c. /\ u # <<>> /\ NoDup(u) /\ ToSet(u) \subseteq Reqs /\ u[Len(u)] = w /\ w \in ToSet(u)
    <2>1. /\ NoDup(u) /\ u # <<>> /\ u[Len(u)] = w
        BY ChainFacts DEF Inv, PostOne
    <2>2. ToSet(u) \subseteq Reqs
        BY FiniteList
    <2>3. Len(u) \in DOMAIN u
        BY <2>1, AlongList
    <2> QED BY <2>1, <2>2, <2>3 DEF ToSet
<1>l. Line(u, d, p, InRing) /\ Filled(u, p) /\ Counted(u, p)
    BY DEF Layout, LaidOut
<1>1. PICK n \in Nat : n = Round(w) /\ n <= avail
    <2>1. PICK x \in Nat, o \in Nat, a \in Nat :
             x = Need[w] /\ o = cb[w].offset /\ a = avail /\ o <= x
        BY <1>c, NeedAssumption, Numbers DEF Inv, OffsetInv
    <2>2. Left(w) = x - o
        BY ONLY <2>1 DEF Left
    <2> QED BY ONLY <2>1, <2>2 DEF Round
<1>2. /\ UNCHANGED <<cidx, credit, moved, hw>> /\ pidx' = Adv(pidx, n)
      /\ desc' = [i \in Slots |-> IF Dist(i, pidx) < n THEN w ELSE desc[i]]
      /\ cb' = [cb EXCEPT ![w].desc_nr = @ + n, ![w].offset = @ + n]
    BY <1>1 DEF PostOne, UpdateRequest, Round, seen
<1>3. /\ \A x \in Reqs : cb'[x].offset = IF x = w THEN cb[x].offset + n ELSE cb[x].offset
      /\ \A x \in Reqs : cb'[x].desc_nr = IF x = w THEN cb[x].desc_nr + n ELSE cb[x].desc_nr
    <2>1. cb \in [Reqs -> Cb]
        BY DEF Inv, TypeOK
    <2> QED BY <1>2, <2>1 DEF Cb
<1> HIDE DEF w, d
<1>4. /\ {cidx, pidx, hw.idx, hw.doorbell} \subseteq Slots /\ avail \in Nat
      /\ avail + Dist(pidx, cidx) = RngSz - 1 /\ Dist(hw.idx, cidx) <= Dist(pidx, cidx)
    <2>1. ring = "allocated"
        BY DEF Inv, CtlInv, PostOne
    <2>2. /\ {cidx, pidx, hw.idx, hw.doorbell} \subseteq Slots /\ avail \in Nat
        BY Numbers DEF Inv
    <2>3. /\ Dist(hw.idx, cidx) <= Dist(hw.doorbell, cidx)
          /\ Dist(hw.doorbell, cidx) <= Dist(pidx, cidx)
          /\ avail + Dist(pidx, cidx) = RngSz - 1
        BY <2>1 DEF Inv, RingInv
    <2>4. Dist(hw.doorbell, cidx) \in Nat
        BY <1>n, <2>2
    <2> QED BY <1>n, <2>2, <2>3, <2>4
<1>5. Dist(pidx', cidx') = Dist(pidx, cidx) + n /\ Dist(pidx, cidx) + n <= RngSz - 1
    <2>1. Dist(pidx, cidx) + n <= RngSz - 1
        BY <1>1, <1>4, <1>n
    <2> QED BY <1>2, <1>4, <2>1, AdvDist
<1>6. InRing' = InRing + n /\ Reached' = Reached
    <2>1. InRing' = (Dist(pidx, cidx) + n) + credit
        BY <1>2, <1>5 DEF InRing
    <2>2. Reached' = Reached
        BY <1>2 DEF Reached
    <2>3. /\ Dist(pidx, cidx) \in Nat /\ credit \in Nat /\ InRing = Dist(pidx, cidx) + credit
        BY <1>n
    <2> QED BY ONLY <2>1, <2>2, <2>3, n \in Nat
<1>7. p[w] + cb[w].desc_nr = InRing /\ w \in Reqs
    <2>1. w \in Reqs
        BY <1>c
    <2>2. p[w] + d[w] = InRing
        BY <1>c, <1>l, LineEnds
    <2> QED BY <1>n, <2>1, <2>2
<1>8. Line(u, DescNr(cb'), p, InRing + n)
    <2>1. \A x \in Reqs : cb'[x].desc_nr \in Nat
        <3> SUFFICES ASSUME NEW x \in Reqs PROVE cb'[x].desc_nr \in Nat
            OBVIOUS
        <3>1. cb'[x].desc_nr = IF x = w THEN cb[x].desc_nr + n ELSE cb[x].desc_nr
            BY <1>3
        <3>2. cb[x].desc_nr \in Nat
            BY <1>n
        <3> QED BY ONLY <3>1, <3>2, n \in Nat
    <2>2. PICK e \in [Reqs -> Nat] : e = DescNr(cb') /\ \A x \in Reqs : e[x] = cb'[x].desc_nr
        <3> DEFINE f == [x \in Reqs |-> cb'[x].desc_nr]
        <3>1. f \in [Reqs -> Nat] /\ \A x \in Reqs : f[x] = cb'[x].desc_nr
            BY <2>1
        <3>2. f = DescNr(cb')
            BY DEF DescNr
        <3> QED BY <3>1, <3>2
    <2>3. \A x \in Reqs : e[x] = IF x = u[Len(u)] THEN d[x] + n ELSE d[x]
        <3> SUFFICES ASSUME NEW x \in Reqs
                     PROVE  e[x] = IF x = u[Len(u)] THEN d[x] + n ELSE d[x]
            OBVIOUS
        <3>1. cb'[x].desc_nr = IF x = w THEN cb[x].desc_nr + n ELSE cb[x].desc_nr
            BY <1>3
        <3>2. d[x] = cb[x].desc_nr /\ e[x] = cb'[x].desc_nr
            BY <1>n, <2>2
        <3> QED BY ONLY <1>c, <3>1, <3>2
    <2>4. /\ u # <<>> /\ NoDup(u) /\ d \in [Reqs -> Nat] /\ InRing \in Nat
          /\ Line(u, d, p, InRing)
        BY <1>c, <1>l, <1>n
    <2>5. Line(u, e, p, InRing + n)
        BY <2>3, <2>4, LineGrow
    <2> QED BY <2>2, <2>5
<1>9. ASSUME NEW i \in Slots, Dist(i, cidx) < Dist(pidx, cidx) + n
      PROVE  /\ desc'[i] \in ToSet(u)
             /\ p[desc'[i]] <= credit + Dist(i, cidx)
             /\ credit + Dist(i, cidx) < p[desc'[i]] + cb'[desc'[i]].desc_nr
    <2>1. CASE Dist(i, cidx) < Dist(pidx, cidx)
        <3>1. ~(Dist(i, pidx) < n)
            <4>1. i \in Slots /\ pidx \in Slots /\ cidx \in Slots
                BY <1>4
            <4> QED BY ONLY <1>5, <2>1, <4>1, n \in Nat, RngSzAssumption DEF Dist, Slots
        <3>2. desc'[i] = desc[i]
            BY <1>2, <3>1
        <3>3. /\ desc[i] \in ToSet(u)
              /\ p[desc[i]] <= credit + Dist(i, cidx)
              /\ credit + Dist(i, cidx) < p[desc[i]] + cb[desc[i]].desc_nr
            BY <1>l, <2>1 DEF Filled
        <3>4. PICK x \in Reqs : x = desc[i]
            BY <1>c, <3>3
        <3>5. /\ cb'[x].desc_nr = IF x = w THEN cb[x].desc_nr + n ELSE cb[x].desc_nr
              /\ cb[x].desc_nr \in Nat /\ p[x] \in Int /\ credit \in Nat /\ Dist(i, cidx) \in Nat
            BY <1>3, <1>n
        <3>6. credit + Dist(i, cidx) < p[x] + cb'[x].desc_nr
            BY ONLY <3>3, <3>4, <3>5, n \in Nat
        <3> QED BY <3>2, <3>3, <3>4, <3>6
    <2>2. CASE ~(Dist(i, cidx) < Dist(pidx, cidx))
        <3>1. Dist(i, pidx) < n
            <4>1. i \in Slots /\ pidx \in Slots /\ cidx \in Slots
                BY <1>4
            <4> QED BY ONLY <1>9, <2>2, <4>1, n \in Nat, RngSzAssumption DEF Dist, Slots
        <3>2. desc'[i] = w
            BY <1>2, <3>1
        <3>3. /\ cb'[w].desc_nr = cb[w].desc_nr + n /\ cb[w].desc_nr \in Nat /\ p[w] \in Int
              /\ credit \in Nat /\ Dist(i, cidx) \in Nat /\ Dist(pidx, cidx) \in Nat
              /\ InRing = Dist(pidx, cidx) + credit
            BY <1>3, <1>7, <1>n
        <3>4. /\ p[w] <= credit + Dist(i, cidx)
              /\ credit + Dist(i, cidx) < p[w] + cb'[w].desc_nr
            <4>1. PICK x \in Int, y \in Nat, z \in Nat, c \in Nat :
                        x = p[w] /\ y = cb[w].desc_nr /\ z = Dist(i, cidx) /\ c = credit
                BY <3>3
            <4>2. PICK a \in Nat : a = Dist(pidx, cidx)
                BY <3>3
            <4>3. x + y = a + c /\ ~(z < a) /\ z < a + n
                BY <1>7, <1>9, <2>2, <3>3, <4>1, <4>2
            <4>4. x <= c + z /\ c + z < x + (y + n)
                BY ONLY <4>3, x \in Int, y \in Nat, z \in Nat, c \in Nat, a \in Nat, n \in Nat
            <4> QED BY <3>3, <4>1, <4>4
        <3> QED BY <1>c, <3>2, <3>4
    <2> QED BY <2>1, <2>2
<1>10. Filled(u, p)'
    BY <1>2, <1>5, <1>9 DEF Filled
<1>11. Counted(u, p)'
    <2>1. ASSUME NEW x \in ToSet(u)
          PROVE  moved'[x] = cb'[x].offset - Ahead(p[x], cb'[x].desc_nr, Reached')
        <3>1. /\ moved[x] = cb[x].offset - Ahead(p[x], cb[x].desc_nr, Reached)
              /\ x \in Reqs /\ p[x] \in Int /\ cb[x].desc_nr \in Nat /\ cb[x].offset \in Nat
              /\ Reached \in Nat
            BY <1>c, <1>l, <1>n DEF Counted
        <3>2. CASE x = w
            <4>1. Reached <= p[x] + cb[x].desc_nr
                <5>1. Reached <= InRing
                    BY <1>4, <1>n
                <5> QED BY <1>7, <3>2, <5>1
            <4>2. PICK a \in Int, b \in Nat, h \in Int : a = p[x] /\ b = cb[x].desc_nr /\ h = Reached
                BY <3>1
            <4>3. Ahead(a, b + n, h) = Ahead(a, b, h) + n
                <5>1. h <= a + b
                    BY ONLY <4>1, <4>2
                <5> QED BY ONLY <5>1, a \in Int, b \in Nat, h \in Int, n \in Nat, AheadGrow
            <4>4. Ahead(a, b, h) \in Int
                BY ONLY a \in Int, b \in Nat, h \in Int DEF Ahead
            <4>5. cb'[x].offset = cb[x].offset + n /\ cb'[x].desc_nr = b + n
                BY <1>3, <3>1, <3>2, <4>2
            <4>6. moved[x] = cb[x].offset - Ahead(a, b, h) /\ cb[x].offset \in Nat
                BY <3>1, <4>2
            <4>7. moved[x] = cb'[x].offset - Ahead(a, b + n, h)
                BY ONLY <4>3, <4>4, <4>5, <4>6, n \in Nat
            <4> QED BY <1>2, <1>6, <4>2, <4>5, <4>7
        <3>3. CASE x # w
            <4>1. cb'[x].offset = cb[x].offset /\ cb'[x].desc_nr = cb[x].desc_nr
                BY <1>3, <3>1, <3>3
            <4> QED BY <1>2, <1>6, <3>1, <4>1
        <3> QED BY <3>2, <3>3
    <2> QED BY <2>1 DEF Counted
<1> QED BY <1>6, <1>8, <1>10, <1>11 DEF LaidOut

\* While nothing is disturbed, a listed request is waited for and mapped.
LEMMA CalmFacts ==
    ASSUME Inv, ListInv, ~Disturbed, Quiet
    PROVE  /\ fault = "none" /\ ~stray /\ orphans = {} /\ timeouts = 0 /\ Listed \subseteq Reqs
           /\ \A r \in Listed : /\ ~cb[r].done /\ ~Stale(r) /\ mapped[r]
                                /\ st[r] \in {"proc", "wait"}
           /\ ring = "freed" => pidx = cidx \/ work_list # <<>> \/ pend_list # <<>>
                                \/ ~\E p \in [Reqs -> Int] : Layout(p)
<1>1. orphans = {} /\ timeouts = 0
    BY DEF Disturbed, Inv, TypeOK, SeenType
<1>2. Listed \subseteq Reqs
    BY ListedType DEF Inv
<1>3. \A r \in Listed : /\ ~cb[r].done /\ ~Stale(r) /\ mapped[r] /\ st[r] \in {"proc", "wait"}
    <2> SUFFICES ASSUME NEW r \in Listed
                 PROVE  /\ ~cb[r].done /\ ~Stale(r) /\ mapped[r] /\ st[r] \in {"proc", "wait"}
        OBVIOUS
    <2>1. ~cb[r].done /\ ~Stale(r) /\ st[r] \in {"proc", "wait", "returned"}
        BY <1>1 DEF ListInv, OnList
    <2>2. mapped[r]
        BY <1>2 DEF Quiet
    <2> QED BY <2>1, <2>2 DEF Stale
<1>4. ASSUME work_list = <<>>, pend_list = <<>>, NEW p \in [Reqs -> Int], Layout(p)
      PROVE  pidx = cidx
    <2>1. Chain = <<>>
        BY <1>4 DEF Chain
    <2>2. InRing = 0
        BY <1>4, <2>1 DEF Layout, LaidOut, Line, Run
    <2>3. Dist(pidx, cidx) \in Nat /\ credit \in Nat /\ InRing = Dist(pidx, cidx) + credit
        BY LayoutNumbers
    <2>4. Dist(pidx, cidx) = 0
        BY ONLY <2>2, <2>3
    <2>5. pidx \in Slots /\ cidx \in Slots
        BY Numbers DEF Inv
    <2> QED BY <2>4, <2>5, DistBounds
<1> QED BY <1>1, <1>2, <1>3, <1>4 DEF Quiet

\* Accesses to control blocks of callers still waiting are no fault.
LEMMA TouchNone ==
    ASSUME fault = "none", NEW S, Touch(S), \A r \in S : ~Stale(r)
    PROVE  fault' = "none"
    BY DEF Touch

\* Quiet, when the lists, the blocks and what the engine has done stay as they are.
LEMMA QuietSame ==
    ASSUME Quiet, UNCHANGED <<work_list, pend_list, cb, moved, stray>>, fault' = "none",
           q_state' = "enabled" => q_state = "enabled" \/ (work_list = <<>> /\ pend_list = <<>>),
           \A r \in Reqs : st'[r] = "mapped" \/ r \in Listed => mapped'[r]
    PROVE  Quiet'
<1>1. Listed' = Listed /\ Chain' = Chain
    BY DEF Listed, Chain
<1> QED BY <1>1 DEF Quiet

\* The steps that only change who waits, the engine's registers or the indices.
LEMMA CalmSame ==
    ASSUME Inv, ListInv, ~Disturbed, Quiet, NEW p \in [Reqs -> Int], Layout(p),
           UNCHANGED <<work_list, pend_list, cb, moved, stray>>,
           fault' = "none",
           q_state' = "enabled" => q_state = "enabled" \/ (work_list = <<>> /\ pend_list = <<>>),
           \A r \in Reqs : st'[r] = "mapped" \/ r \in Listed => mapped'[r],
           hw'.idx = hw.idx,
           UNCHANGED <<pidx, cidx, credit, desc>> \/ (TakeCredits /\ hw' = hw)
    PROVE  CalmInv'
<1>1. Quiet'
    BY QuietSame
<1>2. Layout(p)'
    <2>1. CASE UNCHANGED <<pidx, cidx, credit, desc>>
        <3>1. Chain' = Chain
            BY DEF Chain
        <3> QED BY <2>1, <3>1, LayoutSame
    <2>2. CASE TakeCredits /\ hw' = hw
        BY <2>2, LayoutTake DEF ListInv
    <2> QED BY <2>1, <2>2
<1> QED BY <1>1, <1>2 DEF CalmInv

\* Entering descq_mm_proc_request() reads no freed ring, and does not change the line.
LEMMA CalmEnter ==
    ASSUME Inv, ProcEnter, fault = "none", hw' = hw
    PROVE  /\ fault' = "none"
           /\ UNCHANGED <<pidx, cidx, credit, desc>> \/ (TakeCredits /\ hw' = hw)
<1>1. ~(q_stop_wait /\ ReadFreedRing)
    <2> SUFFICES ASSUME q_stop_wait PROVE ring # "freed"
        BY DEF ReadFreedRing
    <2> QED BY DEF Inv, CtlInv
<1> QED BY <1>1 DEF ProcEnter, idx

\* A request is completed.
LEMMA CalmDone ==
    ASSUME Inv, ListInv, ~Disturbed, Quiet, NEW p \in [Reqs -> Int], Layout(p), CmplDone
    PROVE  CalmInv'
<1> DEFINE r == Head(pend_list)
<1>f. /\ fault = "none" /\ ~stray /\ orphans = {} /\ Listed \subseteq Reqs
      /\ \A x \in Listed : ~cb[x].done /\ ~Stale(x) /\ mapped[x] /\ st[x] \in {"proc", "wait"}
    BY CalmFacts
<1>d. Distinct /\ Distinct' /\ Listed' = Listed \ {r} /\ r \in Listed /\ r \in Reqs
    BY CmplDoneLists DEF ListInv
<1>1. /\ UNCHANGED <<moved, stray, work_list, st, q_state>> /\ pend_list' = Tail(pend_list)
      /\ pend_list # <<>> /\ Touch(FirstN(pend_list, 2))
      /\ cb' = [cb EXCEPT ![r].done = TRUE, ![r].status = "ok"]
      /\ mapped' = [mapped EXCEPT ![r] = FALSE]
    BY DEF CmplDone, seen, qctl, sgl_unmap
<1>2. pend_list \in Seq(Reqs) /\ NoDup(pend_list) /\ r \in ToSet(pend_list)
      /\ ToSet(Tail(pend_list)) = ToSet(pend_list) \ {r}
    <2>1. pend_list \in Seq(Reqs) /\ NoDup(pend_list)
        BY <1>d DEF Inv, TypeOK, ListType, Distinct
    <2> QED BY <1>1, <2>1, TailSet
<1>3. cb[r].offset = Need[r]
    BY <1>2 DEF Quiet
<1>4. moved[r] = Need[r] /\ \E o \in [Reqs -> Int] : Layout(o)'
    BY <1>3, <1>d, LayoutDone
<1>5. Chain' = Tail(Chain) /\ ToSet(Tail(Chain)) = ToSet(Chain) \ {r}
    <2>1. Chain' = Tail(Chain)
        BY <1>1, ChainTail DEF Inv
    <2>2. Chain \in Seq(Reqs) /\ NoDup(Chain) /\ Chain # <<>> /\ Chain[1] = r
        BY <1>1, <1>d, ChainFacts DEF Inv
    <2>3. ToSet(Tail(Chain)) = ToSet(Chain) \ {Head(Chain)}
        BY <2>2, TailSet
    <2>4. Head(Chain) = Chain[1]
        OBVIOUS
    <2> QED BY <2>1, <2>2, <2>3, <2>4
<1> HIDE DEF r
<1>6. /\ cb'[r].done /\ \A x \in Reqs : x # r => cb'[x] = cb[x]
      /\ \A x \in Reqs : cb'[x].offset = cb[x].offset
    <2>1. cb \in [Reqs -> Cb]
        BY DEF Inv, TypeOK
    <2> QED BY <1>1, <1>d, <2>1 DEF Cb
<1>7. fault' = "none"
    <2>1. FirstN(pend_list, 2) \subseteq Listed
        BY <1>2 DEF FirstN, Listed, ToSet
    <2> QED BY <1>1, <1>f, <2>1, TouchNone
<1>8. Quiet'
    <2>1. q_state' = "enabled" => work_list' = <<>> /\ pend_list' = <<>>
        BY <1>1 DEF Quiet
    <2>2. ASSUME NEW x \in Reqs, st'[x] = "mapped" \/ x \in Listed' PROVE mapped'[x]
        <3>1. x # r /\ mapped[x]
            BY <1>1, <1>d, <1>f, <2>2 DEF Quiet
        <3> QED BY <1>1, <3>1 DEF Inv, TypeOK, ReqType
    <2>3. ASSUME NEW x \in Reqs, cb'[x].done PROVE moved'[x] = Need[x]
        BY <1>1, <1>4, <1>6, <2>3 DEF Quiet
    <2>4. ASSUME NEW x \in Reqs, x \notin ToSet(Chain)', ~cb'[x].done
          PROVE  cb'[x].offset = 0 /\ cb'[x].desc_nr = 0 /\ moved'[x] = 0
        <3>1. x # r /\ cb'[x] = cb[x] /\ x \notin ToSet(Chain)
            BY <1>5, <1>6, <2>4
        <3> QED BY <1>1, <2>4, <3>1 DEF Quiet
    <2>5. \A x \in ToSet(pend_list)' : cb'[x].offset = Need[x]
        <3>1. ToSet(pend_list)' \subseteq ToSet(pend_list) /\ ToSet(pend_list) \subseteq Reqs
            BY <1>1, <1>2, FiniteList
        <3> QED BY <1>6, <3>1 DEF Quiet
    <2> QED BY <1>1, <1>7, <1>f, <2>1, <2>2, <2>3, <2>4, <2>5 DEF Quiet
<1> QED BY <1>4, <1>8 DEF CalmInv

\* A request gets the credits that are left.
LEMMA CalmPart ==
    ASSUME Inv, ListInv, ~Disturbed, Quiet, NEW p \in [Reqs -> Int], Layout(p), CmplPart
    PROVE  CalmInv'
<1> DEFINE r == Head(pend_list)
<1>f. /\ fault = "none" /\ ~stray /\ orphans = {} /\ Listed \subseteq Reqs
      /\ \A x \in Listed : ~cb[x].done /\ ~Stale(x) /\ mapped[x] /\ st[x] \in {"proc", "wait"}
    BY CalmFacts
<1>1. /\ UNCHANGED <<moved, stray, work_list, pend_list, st, mapped, q_state>>
      /\ pend_list # <<>> /\ Touch({r})
      /\ cb' = [cb EXCEPT ![r].desc_nr = @ - credit]
    BY DEF CmplPart, seen, qctl, lists
<1>2. r \in Listed /\ r \in ToSet(Chain) /\ r \in Reqs
    <2>1. pend_list \in Seq(Reqs) /\ NoDup(pend_list)
        BY DEF ListInv, Inv, TypeOK, ListType, Distinct
    <2>2. r \in ToSet(pend_list)
        BY <1>1, <2>1, TailSet
    <2>3. ToSet(pend_list) \subseteq ToSet(Chain)
        BY ChainFacts DEF Inv, ListInv
    <2> QED BY <1>f, <2>2, <2>3 DEF Listed
<1>3. \E o \in [Reqs -> Int] : Layout(o)'
    BY LayoutPart DEF ListInv
<1> HIDE DEF r
<1>4. Listed' = Listed /\ Chain' = Chain
    BY <1>1 DEF Listed, Chain
<1>5. /\ \A x \in Reqs : x # r => cb'[x] = cb[x]
      /\ \A x \in Reqs : cb'[x].offset = cb[x].offset /\ cb'[x].done = cb[x].done
    <2>1. cb \in [Reqs -> Cb]
        BY DEF Inv, TypeOK
    <2> QED BY <1>1, <1>2, <2>1 DEF Cb
<1>6. fault' = "none"
    BY <1>1, <1>2, <1>f, TouchNone
<1>7. Quiet'
    <2>1. ASSUME NEW x \in Reqs, x \notin ToSet(Chain)', ~cb'[x].done
          PROVE  cb'[x].offset = 0 /\ cb'[x].desc_nr = 0 /\ moved'[x] = 0
        <3>1. x # r /\ x \notin ToSet(Chain)
            BY <1>2, <1>4, <2>1
        <3> QED BY <1>1, <1>5, <2>1, <3>1 DEF Quiet
    <2>2. ToSet(pend_list)' = ToSet(pend_list) /\ ToSet(pend_list) \subseteq Reqs
        BY <1>1, FiniteList DEF Inv, TypeOK, ListType
    <2> QED BY <1>1, <1>4, <1>5, <1>6, <1>f, <2>1, <2>2 DEF Quiet
<1> QED BY <1>3, <1>7 DEF CalmInv

\* Descriptors of a request are written.
LEMMA CalmPost ==
    ASSUME Inv, Inv', ListInv, ListInv', ~Disturbed, Quiet, NEW p \in [Reqs -> Int], Layout(p),
           PostOne
    PROVE  CalmInv'
<1> DEFINE w == Head(work_list)
           n == Round(w)
<1>f. /\ fault = "none" /\ ~stray /\ orphans = {} /\ Listed \subseteq Reqs
      /\ \A x \in Listed : ~cb[x].done /\ ~Stale(x) /\ mapped[x] /\ st[x] \in {"proc", "wait"}
    BY CalmFacts
<1>d. Distinct /\ Distinct' /\ Listed' = Listed /\ w \in Listed /\ w \in Reqs
    BY PostOneLists DEF ListInv
<1>1. /\ UNCHANGED <<moved, stray, st, mapped, q_state>> /\ work_list # <<>>
      /\ UpdateRequest(w, n) /\ q_state = "online"
      /\ cb' = [cb EXCEPT ![w].desc_nr = @ + n, ![w].offset = @ + n]
    BY DEF PostOne, UpdateRequest, Round, seen, qctl, Inv, CtlInv
<1>t. work_list \in Seq(Reqs) /\ pend_list \in Seq(Reqs) /\ NoDup(work_list)
    BY <1>d DEF Inv, TypeOK, ListType, Distinct
<1>2. PICK u \in Seq(Reqs) : /\ u = Chain /\ NoDup(u) /\ w \in ToSet(u) /\ ToSet(u) \subseteq Listed
                             /\ ToSet(u) = ToSet(pend_list) \cup {w}
    <2>1. /\ Chain \in Seq(Reqs) /\ NoDup(Chain) /\ ToSet(Chain) \subseteq Listed
          /\ ToSet(Chain) = ToSet(pend_list) \cup {w}
        BY <1>1, <1>d, ChainFacts DEF Inv
    <2> QED BY <2>1
<1>3. LaidOut(u, p)'
    BY <1>2, <1>d, LayoutGrow
<1> HIDE DEF w
<1>5. /\ \A x \in Reqs : x # w => cb'[x] = cb[x]
      /\ cb'[w].offset = cb[w].offset + n
      /\ \A x \in Reqs : cb'[x].done = cb[x].done
    <2>1. cb \in [Reqs -> Cb]
        BY DEF Inv, TypeOK
    <2> QED BY <1>1, <1>d, <2>1 DEF Cb
<1> HIDE DEF n
<1>6. fault' = "none"
    <2>1. FirstN(work_list, 2) \subseteq Listed
        BY <1>t DEF FirstN, Listed, ToSet
    <2>2. LastOf(pend_list) \subseteq Listed
        BY <1>t DEF LastOf, Listed, ToSet
    <2>3. Touch(FirstN(work_list, 2) \cup LastOf(pend_list)) \/ Touch({w})
        BY <1>1 DEF UpdateRequest
    <2>4. \A x \in FirstN(work_list, 2) \cup LastOf(pend_list) : ~Stale(x)
        BY <1>f, <2>1, <2>2
    <2>5. \A x \in {w} : ~Stale(x)
        BY <1>d, <1>f
    <2>6. CASE Touch(FirstN(work_list, 2) \cup LastOf(pend_list))
        BY <1>f, <2>4, <2>6, TouchNone
    <2>7. CASE Touch({w})
        BY <1>f, <2>5, <2>7, TouchNone
    <2> QED BY <2>3, <2>6, <2>7
<1>7. \A x \in ToSet(pend_list) : cb'[x].offset = Need[x]
    <2>1. ToSet(pend_list) \subseteq Reqs /\ w \notin ToSet(pend_list)
        <3>1. w \in ToSet(work_list)
            BY <1>1, <1>t, TailSet DEF w
        <3> QED BY <1>d, <1>t, <3>1, FiniteList DEF Distinct
    <2> QED BY <1>5, <2>1 DEF Quiet
<1>8. /\ \A x \in ToSet(pend_list)' : cb'[x].offset = Need[x]
      /\ \/ Chain' = u
         \/ \E v \in Reqs : v \notin ToSet(u) /\ Chain' = Append(u, v) /\ v \in ToSet(work_list)
    <2>1. CASE n = Left(w)
        <3>1. work_list' = Tail(work_list) /\ pend_list' = Append(pend_list, w)
            BY <1>1, <2>1 DEF UpdateRequest, qdma_work_queue_del
        <3>2. ToSet(pend_list)' = ToSet(pend_list) \cup {w}
            <4>1. ToSet(Append(pend_list, w)) = ToSet(pend_list) \cup {w}
                BY <1>d, <1>t, AppendSet
            <4> QED BY <3>1, <4>1
        <3>3. cb'[w].offset = Need[w]
            <4>1. cb[w].offset \in Nat /\ Need[w] \in Nat
                BY <1>d, Numbers, NeedAssumption DEF Inv
            <4> QED BY <1>5, <2>1, <4>1 DEF Left
        <3>4. Chain' = IF work_list' = <<>> THEN u ELSE Append(u, Head(work_list'))
            BY <1>1, <1>2, <3>1, ChainMove DEF w, Inv
        <3>5. ASSUME work_list' # <<>>
              PROVE  \E v \in Reqs : v \notin ToSet(u) /\ Chain' = Append(u, v)
                                     /\ v \in ToSet(work_list)
            <4> DEFINE s == Tail(work_list)
            <4>1. s \in Seq(Reqs) /\ NoDup(s) /\ ToSet(s) = ToSet(work_list) \ {w}
                BY <1>1, <1>t, TailSet DEF w
            <4>2. s # <<>> /\ work_list' = s
                BY <3>1, <3>5
            <4> HIDE DEF s
            <4>3. Head(s) \in ToSet(s) /\ Head(s) \in Reqs
                BY <4>1, <4>2, TailSet
            <4>4. Head(s) \notin ToSet(u)
                BY <1>2, <1>d, <4>1, <4>3 DEF Distinct
            <4>5. Chain' = Append(u, Head(s))
                BY <3>4, <4>2
            <4> QED BY <4>1, <4>3, <4>4, <4>5
        <3> QED BY <1>7, <3>2, <3>3, <3>4, <3>5
    <2>2. CASE n # Left(w)
        <3>1. UNCHANGED <<work_list, pend_list>>
            BY <1>1, <2>2 DEF UpdateRequest, lists
        <3>2. Chain' = u
            BY <1>2, <3>1 DEF Chain
        <3> QED BY <1>7, <3>1, <3>2
    <2> QED BY <2>1, <2>2
<1>9. \E o \in [Reqs -> Int] : Layout(o)'
    <2>1. CASE Chain' = u
        BY <1>3, <2>1 DEF Layout
    <2>2. ASSUME NEW v \in Reqs, v \notin ToSet(u), Chain' = Append(u, v), v \in ToSet(work_list)
          PROVE  \E o \in [Reqs -> Int] : Layout(o)'
        <3>1. ~cb[v].done /\ v \notin ToSet(Chain) /\ v # w
            BY <1>2, <1>f, <2>2 DEF Listed
        <3>2. cb'[v].offset = 0 /\ cb'[v].desc_nr = 0 /\ moved'[v] = 0
            BY <1>1, <1>5, <3>1 DEF Quiet
        <3> QED BY <1>3, <2>2, <3>2, LayoutJoin
    <2> QED BY <1>8, <2>1, <2>2
<1>10. ToSet(u) \subseteq ToSet(Chain)'
    <2>1. CASE Chain' = u
        BY <2>1
    <2>2. ASSUME NEW v \in Reqs, Chain' = Append(u, v) PROVE ToSet(u) \subseteq ToSet(Chain)'
        <3>1. ToSet(Append(u, v)) = ToSet(u) \cup {v}
            BY AppendSet
        <3> QED BY <2>2, <3>1
    <2> QED BY <1>8, <2>1, <2>2
<1>11. Quiet'
    <2>1. ASSUME NEW x \in Reqs, x \notin ToSet(Chain)', ~cb'[x].done
          PROVE  cb'[x].offset = 0 /\ cb'[x].desc_nr = 0 /\ moved'[x] = 0
        <3>1. x # w /\ x \notin ToSet(Chain)
            BY <1>2, <1>10, <2>1
        <3> QED BY <1>1, <1>5, <2>1, <3>1 DEF Quiet
    <2> QED BY <1>1, <1>5, <1>6, <1>8, <1>d, <1>f, <2>1 DEF Quiet
<1> QED BY <1>9, <1>11 DEF CalmInv

\* A request is added to a queue that is online.
LEMMA CalmAdd ==
    ASSUME Inv, Inv', ListInv, ~Disturbed, Quiet, NEW p \in [Reqs -> Int], Layout(p),
           NEW r \in Reqs, SubmitAdd(r), q_state = "online"
    PROVE  CalmInv'
<1>f. /\ fault = "none" /\ ~stray /\ orphans = {} /\ Listed \subseteq Reqs
      /\ \A x \in Listed : ~cb[x].done /\ ~Stale(x) /\ mapped[x] /\ st[x] \in {"proc", "wait"}
    BY CalmFacts
<1>1. /\ UNCHANGED <<moved, stray, mapped, q_state, cb, pend_list, pidx, cidx, credit, desc, hw>>
      /\ work_list' = Append(work_list, r) /\ st[r] = "mapped" /\ qdma_work_queue_add(r)
      /\ Touch(LastOf(work_list)) /\ st' = [st EXCEPT ![r] = "proc"]
    BY DEF SubmitAdd, qdma_work_queue_add, seen, qctl, idx
<1>2. /\ r \notin Listed /\ cb[r] = EmptyCb /\ mapped[r] /\ work_list \in Seq(Reqs)
      /\ \A x \in Reqs : x # r => st'[x] = st[x]
    BY <1>1, <1>f DEF ListInv, OffList, Quiet, Inv, TypeOK, ListType, ReqType
<1>3. Distinct' /\ Listed' = Listed \cup {r}
    BY <1>1, <1>2, AddLists DEF ListInv
<1>4. fault' = "none"
    <2>1. LastOf(work_list) \subseteq Listed
        BY <1>2 DEF LastOf, Listed, ToSet
    <2> QED BY <1>1, <1>f, <2>1, TouchNone
<1>5. PICK u \in Seq(Reqs) : u = Chain /\ ToSet(u) \subseteq Listed
    BY ChainFacts DEF Inv, ListInv
<1>6. Chain' = IF work_list = <<>> THEN Append(u, r) ELSE u
    BY <1>1, <1>5, ChainAdd DEF Inv
<1>7. LaidOut(u, p)'
    <2>1. InRing' = InRing /\ Reached' = Reached
        BY <1>1 DEF InRing, Reached
    <2> QED BY <1>1, <1>5, <2>1 DEF Layout, LaidOut, Filled, Counted
<1>8. cb[r].offset = 0 /\ cb[r].desc_nr = 0 /\ ~cb[r].done /\ moved[r] = 0
    <2>1. cb[r].offset = 0 /\ cb[r].desc_nr = 0 /\ ~cb[r].done
        BY <1>2 DEF EmptyCb
    <2>2. r \notin ToSet(Chain)
        BY <1>2, <1>5
    <2> QED BY <2>1, <2>2 DEF Quiet
<1>9. \E o \in [Reqs -> Int] : Layout(o)'
    <2>1. CASE work_list = <<>>
        <3>1. Chain' = Append(u, r) /\ r \notin ToSet(u)
            BY <1>2, <1>5, <1>6, <2>1
        <3>2. cb'[r].offset = 0 /\ cb'[r].desc_nr = 0 /\ moved'[r] = 0
            BY <1>1, <1>8
        <3> QED BY <1>7, <3>1, <3>2, LayoutJoin
    <2>2. CASE work_list # <<>>
        BY <1>6, <1>7, <2>2 DEF Layout
    <2> QED BY <2>1, <2>2
<1>10. ToSet(Chain) \subseteq ToSet(Chain)'
    <2>1. ToSet(Append(u, r)) = ToSet(u) \cup {r}
        BY AppendSet
    <2> QED BY <1>5, <1>6, <2>1
<1>11. Quiet'
    <2>1. ASSUME NEW x \in Reqs, st'[x] = "mapped" \/ x \in Listed' PROVE mapped'[x]
        <3>1. CASE x = r
            BY <1>1, <1>2, <3>1
        <3>2. CASE x # r
            BY <1>1, <1>2, <1>3, <2>1, <3>2 DEF Quiet
        <3> QED BY <3>1, <3>2
    <2>2. ASSUME NEW x \in Reqs, x \notin ToSet(Chain)', ~cb'[x].done
          PROVE  cb'[x].offset = 0 /\ cb'[x].desc_nr = 0 /\ moved'[x] = 0
        <3>1. x \notin ToSet(Chain)
            BY <1>10, <2>2
        <3> QED BY <1>1, <2>2, <3>1 DEF Quiet
    <2>3. q_state' # "enabled"
        BY <1>1
    <2> QED BY <1>1, <1>4, <1>f, <2>1, <2>2, <2>3 DEF Quiet
<1> QED BY <1>9, <1>11 DEF CalmInv

\* Every step keeps CalmInv.
LEMMA CalmStep ==
    ASSUME Inv, Inv', ListInv, ListInv', CalmInv, Next
    PROVE  CalmInv'
<1> SUFFICES ASSUME ~Disturbed' PROVE CalmInv'
    BY DEF CalmInv
<1>t. /\ timeouts \in Nat /\ hw \in Hw
      /\ st \in [Reqs -> {"idle", "mapped", "proc", "wait", "returned"}]
      /\ mapped \in [Reqs -> BOOLEAN] /\ cb \in [Reqs -> Cb] /\ moved \in [Reqs -> Nat]
      /\ q_state \in {"enabled", "online"}
    BY BoundsAssumption DEF Inv, TypeOK, SeenType, ReqType, CtlType
<1>1. ASSUME NEW r \in Reqs, WaiterTimesOut(r) PROVE FALSE
    <2>1. timeouts' > 0
        BY <1>1, <1>t DEF WaiterTimesOut
    <2> QED BY <2>1 DEF Disturbed
<1>2. ~Disturbed
    <2>1. timeouts' = timeouts
        BY <1>1 DEF Next, Step, Submit, SubmitMap, SubmitAdd, SubmitProc, WaiterWakes, IntrWork,
                    IntrWorkProc, Cmpl, CmplDone, CmplPart, CmplEnd, Post, PostOne, PostEnd, Stop,
                    StopBegin, StopWaitEnds, StopFinish, StopClear, StopFree, Start, StartConfig,
                    StartOnline, StartFails, HwTransfer, HwWriteback
    <2>2. orphans \subseteq orphans'
        BY <1>1 DEF Next, Step, Submit, SubmitMap, SubmitAdd, SubmitProc, WaiterWakes, IntrWork,
                    IntrWorkProc, Cmpl, CmplDone, CmplPart, CmplEnd, Post, PostOne, PostEnd, Stop,
                    StopBegin, StopWaitEnds, StopFinish, StopClear, StopFree, Start, StartConfig,
                    StartOnline, StartFails, HwTransfer, HwWriteback, qctl
    <2> QED BY <2>1, <2>2 DEF Disturbed
<1>3. Quiet
    BY <1>2 DEF CalmInv
<1>4. PICK p \in [Reqs -> Int] : Layout(p)
    BY <1>2 DEF CalmInv
<1>f. /\ fault = "none" /\ ~stray /\ orphans = {} /\ Listed \subseteq Reqs
      /\ \A x \in Listed : ~cb[x].done /\ ~Stale(x) /\ mapped[x] /\ st[x] \in {"proc", "wait"}
    BY <1>2, <1>3, CalmFacts
<1>m. \A r \in Reqs : st[r] = "mapped" \/ r \in Listed => mapped[r]
    BY <1>3 DEF Quiet
<1>s. ASSUME UNCHANGED <<work_list, pend_list, cb, moved, stray>>, fault' = "none",
             q_state' = "enabled" => q_state = "enabled" \/ (work_list = <<>> /\ pend_list = <<>>),
             \A r \in Reqs : st'[r] = "mapped" \/ r \in Listed => mapped'[r],
             hw'.idx = hw.idx,
             UNCHANGED <<pidx, cidx, credit, desc>> \/ (TakeCredits /\ hw' = hw)
      PROVE  CalmInv'
    BY <1>2, <1>3, <1>4, <1>s, CalmSame
<1>5. CASE CmplDone
    BY <1>2, <1>3, <1>4, <1>5, CalmDone
<1>6. CASE CmplPart
    BY <1>2, <1>3, <1>4, <1>6, CalmPart
<1>7. CASE PostOne
    BY <1>2, <1>3, <1>4, <1>7, CalmPost
<1>8. ASSUME NEW r \in Reqs, SubmitMap(r) PROVE CalmInv'
    <2>1. cb[r] = EmptyCb /\ r \notin Listed
        BY <1>8, <1>f DEF SubmitMap, ListInv, OffList
    <2>2. cb' = cb
        BY <1>8, <1>t, <2>1 DEF SubmitMap
    <2>3. /\ UNCHANGED <<work_list, pend_list, moved, stray, fault, q_state, hw, pidx, cidx,
                         credit, desc>>
          /\ \/ mapped' = [mapped EXCEPT ![r] = TRUE] /\ st' = [st EXCEPT ![r] = "mapped"]
             \/ mapped' = mapped /\ st' = [st EXCEPT ![r] = "returned"]
        BY <1>8 DEF SubmitMap, sgl_map, lists, idx, qctl, seen
    <2>4. \A x \in Reqs : st'[x] = "mapped" \/ x \in Listed => mapped'[x]
        BY <1>m, <1>t, <2>1, <2>3
    <2> QED BY <1>s, <1>f, <2>2, <2>3, <2>4
<1>9. ASSUME NEW r \in Reqs, SubmitAdd(r) PROVE CalmInv'
    <2>1. CASE q_state = "online"
        BY <1>2, <1>3, <1>4, <1>9, <2>1, CalmAdd
    <2>2. CASE q_state # "online"
        <3>1. /\ UNCHANGED <<work_list, pend_list, cb, moved, stray, fault, q_state, hw, pidx, cidx,
                             credit, desc>>
              /\ mapped' = [mapped EXCEPT ![r] = FALSE] /\ st' = [st EXCEPT ![r] = "returned"]
              /\ st[r] = "mapped"
            BY <1>9, <2>2 DEF SubmitAdd, sgl_unmap, lists, idx, qctl, seen
        <3>2. r \notin Listed
            BY <1>f, <3>1
        <3>3. \A x \in Reqs : st'[x] = "mapped" \/ x \in Listed => mapped'[x]
            BY <1>m, <1>t, <3>1, <3>2
        <3> QED BY <1>s, <1>f, <3>1, <3>3
    <2> QED BY <2>1, <2>2
<1>10. ASSUME NEW r \in Reqs, SubmitProc(r) PROVE CalmInv'
    <2>1. /\ UNCHANGED <<work_list, pend_list, cb, moved, stray, q_state, hw, mapped>>
          /\ st' = [st EXCEPT ![r] = "wait"] /\ ProcEnter
        BY <1>10 DEF SubmitProc, lists, qctl, seen
    <2>2. fault' = "none" /\ (UNCHANGED <<pidx, cidx, credit, desc>> \/ (TakeCredits /\ hw' = hw))
        BY <1>f, <2>1, CalmEnter
    <2>3. \A x \in Reqs : st'[x] = "mapped" \/ x \in Listed => mapped'[x]
        BY <1>m, <1>t, <2>1
    <2> QED BY <1>s, <2>1, <2>2, <2>3
<1>11. ASSUME NEW r \in Reqs, WaiterWakes(r) PROVE CalmInv'
    <2>1. /\ UNCHANGED <<work_list, pend_list, cb, moved, stray, q_state, hw, fault, pidx, cidx,
                         credit, desc>>
          /\ st' = [st EXCEPT ![r] = "returned"] /\ cb[r].done
          /\ mapped' = mapped \/ mapped' = [mapped EXCEPT ![r] = FALSE]
        BY <1>11 DEF WaiterWakes, sgl_unmap, lists, qctl, seen, idx
    <2>2. r \notin Listed
        BY <1>f, <2>1
    <2>3. \A x \in Reqs : st'[x] = "mapped" \/ x \in Listed => mapped'[x]
        BY <1>m, <1>t, <2>1, <2>2
    <2> QED BY <1>s, <1>f, <2>1, <2>3
<1>12. CASE IntrWork
    <2>1. /\ UNCHANGED <<work_list, pend_list, cb, moved, stray, q_state, hw, mapped, st>>
        BY <1>12 DEF IntrWork, lists, qctl, seen, req
    <2>2. ~ReadFreedRing
        <3> SUFFICES ASSUME ring = "freed" PROVE pidx = cidx
            BY DEF ReadFreedRing
        <3>1. q_state = "enabled"
            BY <1>t DEF Inv, CtlInv
        <3>2. work_list = <<>> /\ pend_list = <<>>
            BY <1>3, <3>1 DEF Quiet
        <3>3. \E o \in [Reqs -> Int] : Layout(o)
            BY <1>4
        <3> QED BY <1>2, <1>3, <3>2, <3>3, CalmFacts
    <2>3. fault' = "none" /\ (UNCHANGED <<pidx, cidx, credit, desc>> \/ (TakeCredits /\ hw' = hw))
        BY <1>12, <1>f, <2>1, <2>2 DEF IntrWork, idx
    <2> QED BY <1>m, <1>s, <2>1, <2>3
<1>13. CASE IntrWorkProc
    <2>1. /\ UNCHANGED <<work_list, pend_list, cb, moved, stray, q_state, hw, mapped, st>>
          /\ ProcEnter
        BY <1>13 DEF IntrWorkProc, lists, qctl, seen, req
    <2>2. fault' = "none" /\ (UNCHANGED <<pidx, cidx, credit, desc>> \/ (TakeCredits /\ hw' = hw))
        BY <1>f, <2>1, CalmEnter
    <2> QED BY <1>m, <1>s, <2>1, <2>2
<1>14. CASE CmplEnd \/ StopBegin \/ StopWaitEnds \/ StopClear \/ StopFree \/ StartFails \/ HwWriteback
    <2>1. UNCHANGED <<work_list, pend_list, cb, moved, stray, mapped, st, fault, pidx, cidx, credit,
                      desc>>
        BY <1>14 DEF CmplEnd, StopBegin, StopWaitEnds, StopClear, StopFree, StartFails, HwWriteback,
                     lists, seen, req, idx
    <2>2. q_state' = q_state
        BY <1>14 DEF CmplEnd, StopBegin, StopWaitEnds, StopClear, StopFree, StartFails, HwWriteback,
                     qctl
    <2>3. hw'.idx = hw.idx
        BY <1>14, <1>t DEF CmplEnd, StopBegin, StopWaitEnds, StopClear, StopFree, StartFails,
                     HwWriteback, Doorbell, Hw
    <2> QED BY <1>f, <1>m, <1>s, <2>1, <2>2, <2>3
<1>15. CASE PostEnd
    <2>1. /\ UNCHANGED <<work_list, pend_list, cb, moved, stray, mapped, st, pidx, cidx, credit,
                         desc, q_state>>
          /\ Touch(FirstN(work_list, 1))
        BY <1>15 DEF PostEnd, lists, seen, req, idx, qctl
    <2>2. hw'.idx = hw.idx
        BY <1>15, <1>t DEF PostEnd, Doorbell, Hw
    <2>3. FirstN(work_list, 1) \subseteq Listed
        BY DEF FirstN, Listed, ToSet, Inv, TypeOK, ListType
    <2>4. fault' = "none"
        BY <1>f, <2>1, <2>3, TouchNone
    <2> QED BY <1>m, <1>s, <2>1, <2>2, <2>4
<1>16. CASE StopFinish
    <2>1. Listed = {}
        BY <1>16, <1>f DEF StopFinish, Disturbed
    <2>2. work_list = <<>> /\ pend_list = <<>>
        <3>1. work_list \in Seq(Reqs) /\ pend_list \in Seq(Reqs)
              /\ ToSet(work_list) = {} /\ ToSet(pend_list) = {}
            BY <2>1 DEF Inv, TypeOK, ListType, Listed
        <3>2. NoDup(work_list) /\ NoDup(pend_list)
            BY DEF ListInv, Distinct
        <3> QED BY <3>1, <3>2, TailSet
    <2>3. cb' = cb
        BY <1>16, <1>t, <2>1 DEF StopFinish
    <2>4. /\ UNCHANGED <<work_list, pend_list, moved, stray, mapped, st, pidx, cidx, credit, desc, hw>>
          /\ Touch({})
        BY <1>16, <2>1 DEF StopFinish, lists, seen, idx
    <2>5. fault' = "none"
        BY <1>f, <2>4, TouchNone
    <2> QED BY <1>m, <1>s, <2>2, <2>3, <2>4, <2>5
<1>17. CASE StartConfig \/ StartOnline
    <2>1. /\ UNCHANGED <<work_list, pend_list, cb, moved, stray, mapped, st, fault>>
          /\ q_state = "enabled"
        BY <1>17 DEF StartConfig, StartOnline, lists, seen, req, Inv, CtlInv
    <2>2. work_list = <<>> /\ pend_list = <<>>
        BY <1>3, <2>1 DEF Quiet
    <2>3. Quiet'
        BY <1>3, <1>f, <1>m, <2>1, <2>2, QuietSame
    <2>4. InRing' = 0
        <3>1. CASE StartConfig
            BY <3>1 DEF StartConfig, ConfigComplete, InRing, Dist
        <3>2. CASE StartOnline
            <4>1. Chain = <<>>
                BY <2>2 DEF Chain
            <4>2. InRing = 0
                BY <1>4, <4>1 DEF Layout, LaidOut, Line, Run
            <4>3. InRing' = InRing
                BY <3>2 DEF StartOnline, InRing
            <4> QED BY <4>2, <4>3
        <3> QED BY <1>17, <3>1, <3>2
    <2>5. Layout(p)'
        <3>1. TypeOK'
            BY DEF Inv
        <3> QED BY <2>1, <2>2, <2>4, <3>1, LayoutEmpty
    <2> QED BY <2>3, <2>5 DEF CalmInv
<1>18. CASE HwTransfer
    <2> DEFINE y == desc[hw.idx]
    <2>1. y \in ToSet(Chain) /\ ToSet(Chain) \subseteq Listed /\ Layout(p)'
        BY <1>4, <1>18, LayoutTransfer DEF ListInv
    <2>2. /\ UNCHANGED <<work_list, pend_list, cb, mapped, st, fault, q_state>>
          /\ moved' = [moved EXCEPT ![y] = @ + 1]
          /\ stray' = (stray \/ ~mapped[y])
        BY <1>18 DEF HwTransfer, lists, req, qctl
    <2> HIDE DEF y
    <2>3. ~stray'
        BY <1>f, <2>1, <2>2
    <2>4. /\ ~cb[y].done /\ y \in Reqs /\ y \in ToSet(Chain)
          /\ \A x \in Reqs : x # y => moved'[x] = moved[x]
        BY <1>f, <1>t, <2>1, <2>2
    <2>5. Listed' = Listed /\ Chain' = Chain
        BY <2>2 DEF Listed, Chain
    <2>6. Quiet'
        <3>1. ASSUME NEW x \in Reqs, cb'[x].done PROVE moved'[x] = Need[x]
            BY <1>3, <2>2, <2>4, <3>1 DEF Quiet
        <3>2. ASSUME NEW x \in Reqs, x \notin ToSet(Chain)', ~cb'[x].done
              PROVE  cb'[x].offset = 0 /\ cb'[x].desc_nr = 0 /\ moved'[x] = 0
            <4>1. x \notin ToSet(Chain) /\ x # y
                BY <2>4, <2>5, <3>2
            <4> QED BY <1>3, <2>2, <2>4, <3>2, <4>1 DEF Quiet
        <3> QED BY <1>3, <1>f, <1>m, <2>2, <2>3, <2>5, <3>1, <3>2 DEF Quiet
    <2> QED BY <2>1, <2>6 DEF CalmInv
<1> QED BY <1>1, <1>5, <1>6, <1>7, <1>8, <1>9, <1>10, <1>11, <1>12, <1>13, <1>14, <1>15, <1>16, <1>17,
           <1>18 DEF Next, Step, Submit, Cmpl, Post, Stop, Start

-----------------------------------------------------------------------------
(***************************************************************************)
(* The invariant of the whole, and the theorem.                            *)
(***************************************************************************)
Served == Inv /\ ListInv /\ BalanceInv /\ CalmInv

\* In the initial state nothing is listed and the ring is empty.
LEMMA InitServed == Init => Served
<1> SUFFICES ASSUME Init PROVE Served
    OBVIOUS
<1>1. Inv
    BY InitInv
<1>2. Chain = <<>> /\ Listed = {} /\ InRing = 0
    BY RngSzAssumption DEF Init, Chain, Listed, ToSet, InRing, Dist
<1>3. ListInv
    BY <1>2 DEF Init, ListInv, Distinct, NoDup, OnList, OffList, EmptyCb, ToSet
<1>4. BalanceInv
    BY DEF Init, BalanceInv, ResetHw
<1>5. Quiet
    BY <1>2 DEF Init, Quiet, ToSet, EmptyCb
<1>6. \E p \in [Reqs -> Int] : Layout(p)
    <2>1. PICK p \in [Reqs -> Int] : p = [r \in Reqs |-> 0]
        <3>1. [r \in Reqs |-> 0] \in [Reqs -> Int]
            OBVIOUS
        <3> QED BY <3>1
    <2>2. Line(Chain, DescNr(cb), p, InRing)
        BY <1>2 DEF Line, Run
    <2>3. Filled(Chain, p)
        <3>1. pidx = 0 /\ cidx = 0
            BY DEF Init
        <3>2. \A i \in Slots : ~(Dist(i, cidx) < Dist(pidx, cidx))
            BY <3>1, RngSzAssumption DEF Dist, Slots
        <3> QED BY <3>2 DEF Filled
    <2>4. Counted(Chain, p)
        BY <1>2 DEF Counted, ToSet
    <2> QED BY <2>2, <2>3, <2>4 DEF Layout, LaidOut
<1> QED BY <1>1, <1>3, <1>4, <1>5, <1>6 DEF Served, CalmInv

\* Every step keeps it.
LEMMA NextServed == Served /\ [Next]_vars => Served'
<1> SUFFICES ASSUME Served, [Next]_vars PROVE Served'
    OBVIOUS
<1>1. Inv /\ ListInv /\ BalanceInv /\ CalmInv /\ Inv'
    BY NextInv DEF Served
<1>2. CASE Next
    BY <1>1, <1>2, ListInvStep, BalanceStep, CalmStep DEF Served
<1>3. CASE UNCHANGED vars
    <2>1. Listed' = Listed /\ Chain' = Chain /\ InRing' = InRing
        BY <1>3 DEF vars, Listed, Chain, InRing
    <2>2. ListInv'
        BY <1>1, <1>3, <2>1 DEF vars, ListInv, Distinct, OnList, OffList, Stale
    <2>3. Charged' = Charged
        BY <1>3, <2>1, ChargedIs, ChargedNext DEF vars
    <2>4. BalanceInv'
        BY <1>1, <1>3, <2>1, <2>3 DEF vars, BalanceInv
    <2>5. CalmInv'
        <3> SUFFICES ASSUME ~Disturbed' PROVE Quiet' /\ \E p \in [Reqs -> Int] : Layout(p)'
            BY DEF CalmInv
        <3>1. ~Disturbed
            BY <1>3 DEF vars, Disturbed
        <3>2. Quiet'
            BY <1>1, <1>3, <2>1, <3>1 DEF vars, CalmInv, Quiet
        <3>3. PICK p \in [Reqs -> Int] : Layout(p)
            BY <1>1, <3>1 DEF CalmInv
        <3>4. UNCHANGED <<cb, moved, desc, pidx, cidx, credit>> /\ hw'.idx = hw.idx
            BY <1>3 DEF vars
        <3> QED BY <2>1, <3>2, <3>3, <3>4, LayoutSame
    <2> QED BY <1>1, <2>2, <2>4, <2>5 DEF Served
<1> QED BY <1>2, <1>3

\* Callers of qdma_request_submit() are served right.  While no wait has timed out and no stop
\* has found a request listed, a request reported as done has been transferred to its last
\* descriptor, no returned control block and no freed ring is touched and the engine accesses
\* only mapped memory.  Always, the descriptors that listed requests are charged with are those
\* in the ring and in descq->credit, but for the skew that timeouts and stops have caused, and a
\* call that has returned is on no list unless a stop found it there.
THEOREM ServedRightHolds == Spec => []ServedRight
<1>1. Served => ServedRight
    <2> SUFFICES ASSUME Served PROVE ServedRight
        OBVIOUS
    <2>1. CompletedIsTransferredIfCalm
        BY DEF Served, CalmInv, Quiet, CompletedIsTransferredIfCalm, CompletedIsTransferred
    <2>2. MemorySafeIfCalm
        BY DEF Served, CalmInv, Quiet, MemorySafeIfCalm
    <2>3. CreditBalance
        BY DEF Served, BalanceInv, CreditBalance, InRing
    <2>4. ReturnedIsUnlisted
        BY DEF Served, ListInv, OnList, ReturnedIsUnlisted
    <2> QED BY <2>1, <2>2, <2>3, <2>4 DEF ServedRight
<1> QED BY <1>1, InitServed, NextServed, PTL DEF Spec
=============================================================================
