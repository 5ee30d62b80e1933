--------------------------- MODULE QueueResources ---------------------------
(***************************************************************************)
(* The queue resource manager of libqdma (qdma_access/qdma_resource_mgmt.c)*)
(* as operators on one master resource.  A master resource owns the        *)
(* hardware queues of a board.  It keeps a free list of chunks in the order*)
(* of their base and one entry for every function, with the chunk of queues*)
(* the function owns and how many of its queues of each type are active.   *)
(* Every operator is the effect of one call, made under resource_lock.     *)
(***************************************************************************)
EXTENDS Integers, Sequences, FiniteSets, SequencesExt, FiniteSetsExt, Functions

CONSTANT CountWidth   \* bits of the master's count of active queues

ASSUME CountWidthAssumption == CountWidth \in Nat /\ 2^CountWidth \in Nat \ {0}

QTypes == {"H2C", "C2H", "CMPT"}

(* A chunk of consecutive queues: struct qdma_resource_entry.              *)
Chunk(qbase, total) == [qbase |-> qbase, total |-> total]

ChunkQueues(c) == c.qbase .. (c.qbase + c.total - 1)

(* An entry that owns no queue, as qdma_dev_entry_create() leaves it.      *)
NoChunk == Chunk(-1, 0)

-----------------------------------------------------------------------------
(* The free list.                                                          *)

(* Chunks that touch are merged into the first of them.                    *)
Defragment(list) ==
    FoldLeft(LAMBDA acc, c :
                IF acc # <<>> /\ Last(acc).qbase + Last(acc).total = c.qbase
                THEN Append(Front(acc),
                            Chunk(Last(acc).qbase, Last(acc).total + c.total))
                ELSE Append(acc, c),
             <<>>, list)

(* The chunk goes before the first one with a larger base.  An empty chunk *)
(* returns at once: the list is not defragmented either.                   *)
qdma_submit_to_free_list(list, c) ==
    LET later == {i \in DOMAIN list : list[i].qbase > c.qbase}
        at    == IF later = {} THEN Len(list) + 1 ELSE Min(later)
    IN  IF c.total = 0 THEN list ELSE Defragment(InsertAt(list, at, c))

(* The node a request is served from and the base it gets there: the first *)
(* node that holds the wanted range, else the smallest node that fits (the *)
(* last of several), at its base.                                          *)
NodesFor(list, qmax, qbase) ==
    LET holds == {i \in DOMAIN list :
                    /\ qbase >= list[i].qbase
                    /\ list[i].qbase + list[i].total >= qbase + qmax}
        fits  == {i \in DOMAIN list : list[i].total >= qmax}
        best  == {i \in fits : \A j \in fits : list[i].total <= list[j].total}
    IN  CASE qbase >= 0 /\ holds # {} -> {<<Min(holds), qbase>>}
          [] ~(qbase >= 0 /\ holds # {}) /\ fits # {} ->
                {<<Max(best), list[Max(best)].qbase>>}
          [] OTHER -> {}

(* What is left of a node on one side, if that is any queue.               *)
Remainder(c) == IF c.total > 0 THEN <<c>> ELSE <<>>

(* (mutant) The queues left of the served range are lost. *)
SplitRightOnly(list, qmax, qbase) ==
    {[taken |-> Chunk(p[2], qmax),
      left  |-> SubSeq(list, 1, p[1] - 1)
                \o Remainder(Chunk(p[2] + qmax,
                        list[p[1]].qbase + list[p[1]].total - p[2] - qmax))
                \o SubSeq(list, p[1] + 1, Len(list))]
        : p \in NodesFor(list, qmax, qbase)}

(* The node is split: what is left of it on either side stays in the list. *)
(* The result is empty when no node fits.                                  *)
qdma_get_resource_node(list, qmax, qbase) ==
    {LET n     == list[p[1]]
         below == Chunk(n.qbase, p[2] - n.qbase)
         above == Chunk(p[2] + qmax, n.qbase + n.total - p[2] - qmax)
     IN  [taken |-> Chunk(p[2], qmax),
          left  |-> SubSeq(list, 1, p[1] - 1)
                    \o Remainder(below) \o Remainder(above)
                    \o SubSeq(list, p[1] + 1, Len(list))]
        : p \in NodesFor(list, qmax, qbase)}

(* (mutant) A refused request does not restore the entry. *)
ForgetOnRefusal(list, old, qmax, qbase) ==
    LET free == qdma_submit_to_free_list(list, old)
        got  == qdma_get_resource_node(free, qmax, qbase)
    IN  IF qmax = 0 \/ got = {}
        THEN [ok |-> qmax = 0, chunk |-> NoChunk, free |-> free]
        ELSE LET g == CHOOSE g \in got : TRUE
             IN  [ok |-> TRUE, chunk |-> g.taken, free |-> g.left]

(* The queues of the entry are given back first.  When the request cannot  *)
(* be served the old queues are requested again, and the call fails.  An   *)
(* entry without queues keeps its old base when it asks for none.          *)
qdma_request_q_resource(list, old, qmax, qbase) ==
    LET free  == qdma_submit_to_free_list(list, old)
        got   == qdma_get_resource_node(free, qmax, qbase)
        again == qdma_get_resource_node(free, old.total, old.qbase)
        Serve(ok, set) == LET g == CHOOSE g \in set : TRUE
                          IN  [ok |-> ok, chunk |-> g.taken, free |-> g.left]
    IN  CASE qmax = 0 ->
                [ok |-> TRUE, free |-> free,
                 chunk |-> IF old.total = 0 THEN old ELSE NoChunk]
          [] qmax > 0 /\ got # {} -> Serve(TRUE, got)
          [] qmax > 0 /\ got = {} /\ again # {} -> Serve(FALSE, again)
          [] OTHER -> [ok |-> FALSE, chunk |-> NoChunk, free |-> free]

-----------------------------------------------------------------------------
(* The master resource: its index, its free list, its entries by function  *)
(* and the number of active queues of all of them.                         *)

NewMaster(idx, total) ==
    [idx |-> idx, free |-> <<Chunk(0, total)>>, act |-> 0, devs |-> <<>>]

HasEntry(m, f) == f \in DOMAIN m.devs

qdma_dev_entry_create(m, f) ==
    [m EXCEPT !.devs =
        [g \in DOMAIN m.devs \union {f} |->
            IF g \in DOMAIN m.devs THEN m.devs[g]
            ELSE [chunk |-> NoChunk, cnt |-> [t \in QTypes |-> 0]]]]

(* The queues go back to the free list; the master's count stays.          *)
qdma_dev_entry_destroy(m, f) ==
    [m EXCEPT !.free = qdma_submit_to_free_list(m.free, m.devs[f].chunk),
              !.devs = Restrict(m.devs, DOMAIN m.devs \ {f})]

(* Refused while a queue of the function is active.                        *)
qdma_dev_update(m, f, qmax, qbase) ==
    LET r == qdma_request_q_resource(m.free, m.devs[f].chunk, qmax, qbase)
    IN  IF \E t \in QTypes : m.devs[f].cnt[t] > 0
        THEN [ok |-> FALSE, m |-> m]
        ELSE [ok |-> r.ok, m |-> [m EXCEPT !.free = r.free,
                                           !.devs[f].chunk = r.chunk]]

qdma_dev_qinfo_get(m, f) == m.devs[f].chunk

qdma_get_device_active_queue_count(m, f, t) == m.devs[f].cnt[t]

qdma_dev_is_queue_in_range(m, f, qid) ==
    HasEntry(m, f) /\ qid \in ChunkQueues(m.devs[f].chunk)

(* Refused when the function would have more active queues than queues.    *)
qdma_dev_increment_active_queue(m, f, t) ==
    IF HasEntry(m, f) /\ m.devs[f].chunk.total >= m.devs[f].cnt[t] + 1
    THEN [ok |-> TRUE, m |-> [m EXCEPT !.devs[f].cnt[t] = @ + 1,
                                       !.act = (@ + 1) % 2^CountWidth]]
    ELSE [ok |-> FALSE, m |-> m]

(* The count of the function stops at zero, the one of the master does not.*)
qdma_dev_decrement_active_queue(m, f, t) ==
    IF ~HasEntry(m, f) THEN m
    ELSE [m EXCEPT !.devs[f].cnt[t] = IF @ > 0 THEN @ - 1 ELSE 0,
                   !.act = (@ - 1) % 2^CountWidth]

-----------------------------------------------------------------------------
(* Every queue of the master is in exactly one place: in the free list,    *)
(* whose chunks are in order and not empty, or in one function's entry.    *)
Partitioned(m, total) ==
    /\ \A i \in DOMAIN m.free : m.free[i].total > 0
    /\ \A i, j \in DOMAIN m.free : i < j =>
            m.free[i].qbase + m.free[i].total <= m.free[j].qbase
    /\ \A f \in DOMAIN m.devs, i \in DOMAIN m.free :
            ChunkQueues(m.devs[f].chunk) \intersect ChunkQueues(m.free[i]) = {}
    /\ \A f, g \in DOMAIN m.devs : f # g =>
            ChunkQueues(m.devs[f].chunk)
                \intersect ChunkQueues(m.devs[g].chunk) = {}
    /\ UNION ({ChunkQueues(m.free[i]) : i \in DOMAIN m.free} \union
              {ChunkQueues(m.devs[f].chunk) : f \in DOMAIN m.devs})
            = 0 .. (total - 1)

=============================================================================
