----------------------------- MODULE QdmaQueues -----------------------------
(***************************************************************************)
(* The life of the queues of the physical functions of one board: opening  *)
(* and closing a function (xdev.c), the range of hardware queues it gets   *)
(* from the resource manager, adding and removing queues                   *)
(* (libqdma_export.c) and the two settings that active queues protect      *)
(* (libqdma_config.c).                                                     *)
(*                                                                         *)
(* Calls on different functions interleave; the calls on one function come *)
(* one after the other (probe, remove and the netdevice calls hold the     *)
(* device's lock).  Opening takes three steps, because another function may*)
(* open or close between the search for the master resource, its creation  *)
(* and the creation of the entry in it.                                    *)
(***************************************************************************)
EXTENDS QueueResources

CONSTANTS Funcs,        \* the physical functions of the board
          TotalQ,       \* QDMA_TOTAL_Q, the hardware queues of the board
          Qmaxes,       \* the numbers of queues a function may ask for
          Qbases,       \* the bases it may ask for, besides -1 (any)
          Indexes,      \* the queue indexes an add may name
          BusNumber,    \* pdev->bus->number of the board
          MaxOpens,     \* bound: calls of qdma_device_open()
          MaxQueues,    \* bound: queues enabled at a time
          RngszOpens,   \* bound: the opens up to which ring sizes are changed
          SerialOpen    \* functions are probed one after the other

(* Bounds without a constant: one register access fails at most, or one    *)
(* automatic index goes astray; a second one adds nothing new.             *)

ASSUME QueuesAssumption ==
    /\ TotalQ \in Nat \ {0} /\ MaxOpens \in Nat /\ MaxQueues \in Nat
    /\ RngszOpens \in Nat
    /\ Qmaxes \subseteq Nat /\ Qbases \subseteq Int
    /\ Indexes \subseteq Nat /\ IsFiniteSet(Indexes) /\ IsFiniteSet(Funcs)
    /\ BusNumber \in Nat /\ SerialOpen \in BOOLEAN

VARIABLES masters,   \* master_resource_list
          index,     \* the static index of the next master
          dev,       \* per function: struct xlnx_dma_dev and its qdma_dev
          opens,     \* the calls of qdma_device_open() so far
          foreign,   \* the enabled descq's that are configured for a queue
                     \* of another type than that of the array they are in
          hwfail,    \* history: a register access has failed in an add
          astray     \* history: an automatic index has enabled another
                     \* descq than the one of the index it counted

(* The index that leaves the choice to the library.                        *)
QDMA_QUEUE_IDX_INVALID == 65535

vars == <<masters, index, dev, opens, foreign, hwfail, astray>>

(* A function that is not open.  The range the hardware keeps for it maps *)
(* no queue that is in use.                                                *)
ClosedDev == [pc |-> "closed", idx |-> 0, qmax |-> 0, qbase |-> 0,
              qrange |-> FALSE, fmap |-> NoChunk, rngsz |-> 0,
              q |-> [t \in QTypes |-> [i \in Indexes |-> "off"]]]

(* The master of the board, as a set of indexes.                           *)
qdma_find_master_resource_entry ==
    IF masters = <<>> THEN {} ELSE {masters[1].idx}

(* The first master with this index, as a set of list positions.           *)
qdma_get_master_resource_entry(idx) ==
    LET found == {i \in DOMAIN masters : masters[i].idx = idx}
    IN  IF found = {} THEN {} ELSE {Min(found)}

Enabled(f, t) == {i \in Indexes : dev[f].q[t][i] # "off"}

EnabledQueues == UNION {{<<f, t, i>> : i \in Enabled(f, t)} :
                            f \in Funcs, t \in QTypes}

Init ==
    /\ masters = <<>>
    /\ index = 0
    /\ dev = [f \in Funcs |-> ClosedDev]
    /\ opens = 0
    /\ foreign = {}
    /\ hwfail = FALSE
    /\ astray = FALSE

-----------------------------------------------------------------------------
(* qdma_device_open() *)

(* The master of the board is looked up; without one the next index is     *)
(* taken for a new master.                                                 *)
qdma_device_open(f) ==
    /\ dev[f].pc = "closed"
    /\ opens < MaxOpens
    /\ opens' = opens + 1
    /\ SerialOpen => \A g \in Funcs : dev[g].pc \in {"closed", "open"}
    /\ IF qdma_find_master_resource_entry # {}
       THEN \E idx \in qdma_find_master_resource_entry :
                dev' = [dev EXCEPT ![f].pc = "created", ![f].idx = idx]
       ELSE dev' = [dev EXCEPT ![f].pc = "creating", ![f].idx = index]
    /\ UNCHANGED <<masters, index, foreign, hwfail, astray>>

qdma_master_resource_create(f) ==
    /\ dev[f].pc = "creating"
    /\ masters' = Append(masters, NewMaster(index, TotalQ))
    /\ index' = index + 1
    /\ dev' = [dev EXCEPT ![f].pc = "created"]
    /\ UNCHANGED <<opens, foreign, hwfail, astray>>

(* The book-keeping of the queues is allocated anew, all of them disabled. *)
qdma_device_init(f, c) ==
    [ClosedDev EXCEPT !.pc = "open", !.idx = dev[f].idx,
                      !.qmax = c.total, !.qbase = c.qbase,
                      !.rngsz = dev[f].rngsz]

(* An entry left by an open that failed is used again with the number of   *)
(* queues it has, not the number asked for.  A failure of any later part of*)
(* the open leaves the entry in place.                                     *)
DeviceOnline(f, qmax, qbase, online) ==
    /\ dev[f].pc = "created"
    /\ LET at == qdma_get_master_resource_entry(dev[f].idx)
       IN  IF at = {}
           THEN /\ dev' = [dev EXCEPT ![f] = ClosedDev]
                /\ UNCHANGED masters
           ELSE LET i    == CHOOSE i \in at : TRUE
                    old  == HasEntry(masters[i], f)
                    m    == qdma_dev_entry_create(masters[i], f)
                    want == IF old THEN qdma_dev_qinfo_get(m, f)
                            ELSE Chunk(qbase, qmax)
                    r    == qdma_dev_update(m, f, want.total, want.qbase)
                    got  == Chunk(qdma_dev_qinfo_get(r.m, f).qbase, want.total)
                IN  /\ masters' = [masters EXCEPT ![i] = r.m]
                    /\ dev' = [dev EXCEPT ![f] = IF r.ok /\ online
                                                 THEN qdma_device_init(f, got)
                                                 ELSE ClosedDev]
    /\ UNCHANGED <<index, opens, foreign, hwfail, astray>>

-----------------------------------------------------------------------------
(* qdma_queue_add() and qdma_queue_remove() *)

(* The index may hold at most one queue of each type, the two directions   *)
(* in the same mode, and a separate completion queue only in memory-mapped *)
(* mode.                                                                   *)
is_usable_queue(f, t, mode, i) ==
    LET q    == dev[f].q
        st   == "ST" \in {q["H2C"][i], q["C2H"][i]}
        pair == IF t = "H2C" THEN "C2H" ELSE "H2C"
    IN  IF t = "CMPT"
        THEN q["CMPT"][i] = "off" /\ ~st
        ELSE /\ mode = "ST" => q["CMPT"][i] = "off"
             /\ q[pair][i] # "off" => (st <=> mode = "ST")
             /\ q[t][i] = "off"

(* The types an added or removed queue is counted under.                   *)
Counted(t, mode) ==
    IF t = "C2H" /\ mode = "ST" THEN <<"C2H", "CMPT">> ELSE <<t>>

(* The conditions on which the call goes on: the index is within the       *)
(* function's queues and not all queues of the type are active.            *)
AddAllowed(m, f, t, i) ==
    /\ dev[f].pc = "open"
    /\ i < dev[f].qmax
    /\ qdma_get_device_active_queue_count(m, f, t) < dev[f].qmax

(* The hardware learns the range the function works with.                  *)
device_set_qrange(f) == Chunk(dev[f].qbase, dev[f].qmax)

(* The range goes to the hardware with the first queue.                    *)
qdma_device_prep_q_resource(f, d) ==
    IF dev[f].qrange THEN d
    ELSE [d EXCEPT !.qrange = TRUE, !.fmap = device_set_qrange(f)]

(* A failure to count the completion queue takes the first count back.     *)
CountAdded(m, f, t, mode) ==
    LET first == qdma_dev_increment_active_queue(m, f, t)
        both  == qdma_dev_increment_active_queue(first.m, f, "CMPT")
    IN  CASE ~first.ok -> m
          [] first.ok /\ Len(Counted(t, mode)) = 1 -> first.m
          [] first.ok /\ Len(Counted(t, mode)) = 2 /\ both.ok -> both.m
          [] OTHER -> qdma_dev_decrement_active_queue(first.m, f, t)

(* The index the new queue gets: the one named, or else the first usable.  *)
QueueIndex(f, t, mode, qidx) ==
    LET usable == {i \in Indexes :
                    i < dev[f].qmax /\ is_usable_queue(f, t, mode, i)}
    IN  IF qidx # QDMA_QUEUE_IDX_INVALID THEN usable \intersect {qidx}
        ELSE IF usable = {} THEN {} ELSE {Min(usable)}

(* The place of a descq in the one array that holds those of all types.    *)
Place(f, t, i) ==
    CASE t = "H2C" -> i
      [] t = "C2H" -> i + dev[f].qmax
      [] OTHER     -> i + 2 * dev[f].qmax

(* The descq's an add enables.  A named index is added to the start of the *)
(* type's array.  The search for a usable index i has already moved the    *)
(* pointer on by i when it adds i to it, so it ends i places too far: in   *)
(* the same array, in that of the next type, or behind them all, where the *)
(* write hits none of them (the memory it destroys there is not modelled). *)
EnabledFor(f, t, i, ahead) ==
    {p \in QTypes \X Indexes :
        p[2] < dev[f].qmax /\ Place(f, p[1], p[2]) = Place(f, t, i) + ahead}

SetEnabled(f, at, mode) ==
    [dev[f] EXCEPT !.q =
        [u \in QTypes |-> [j \in Indexes |->
            IF <<u, j>> \in at THEN mode ELSE dev[f].q[u][j]]]]

(* The configuration goes to the descq's the add has enabled.              *)
qdma_descq_config(f, at, t) ==
    {x \in foreign : x[1] # f \/ <<x[2], x[3]>> \notin at}
        \union {<<f, p[1], p[2], t>> : p \in {p \in at : p[1] # t}}

(* conf.q_type of an enabled descq of the array of type t.                 *)
q_type(f, t, i) ==
    LET other == {u \in QTypes : <<f, t, i, u>> \in foreign}
    IN  CHOOSE u \in QTypes : IF other = {} THEN u = t ELSE u \in other

(* The descq's of a function are freed, or allocated anew.                 *)
Unconfigured(f) == {x \in foreign : x[1] # f}

(* The queue is enabled first, and stays so when the range cannot be       *)
(* written (its old configuration then stays in place too; the model takes *)
(* the new one for it) or the queue cannot be counted.  What is counted is *)
(* the index, whichever descq has been enabled.                            *)
qdma_queue_add(f, t, mode, qidx, hwok) ==
    \E k \in qdma_get_master_resource_entry(dev[f].idx),
       i \in QueueIndex(f, t, mode, qidx) :
        LET ahead == IF qidx = QDMA_QUEUE_IDX_INVALID THEN i ELSE 0
            at      == EnabledFor(f, t, i, ahead)
            enabled == SetEnabled(f, at, mode)
        IN
        /\ AddAllowed(masters[k], f, t, i)
        /\ IF dev[f].qrange \/ hwok
           THEN /\ dev' = [dev EXCEPT ![f] =
                            qdma_device_prep_q_resource(f, enabled)]
                /\ masters' = [masters EXCEPT ![k] = CountAdded(@, f, t, mode)]
                /\ foreign' = qdma_descq_config(f, at, t)
                /\ UNCHANGED hwfail
           ELSE /\ dev' = [dev EXCEPT ![f] = enabled]
                /\ hwfail' = TRUE
                /\ UNCHANGED <<masters, foreign>>
        /\ astray' = (astray \/ ahead > 0)
        /\ UNCHANGED <<index, opens>>

(* (mutant) A streaming receive queue gives back only its own count. *)
UncountOne(m, f, t, mode) == qdma_dev_decrement_active_queue(m, f, t)

(* The counts a removed queue gives back.                                  *)
Uncount(m, f, t, mode) ==
    FoldLeft(LAMBDA mm, c : qdma_dev_decrement_active_queue(mm, f, c),
             m, Counted(t, mode))

qdma_queue_remove(f, t, i) ==
    \E k \in qdma_get_master_resource_entry(dev[f].idx) :
        /\ dev[f].pc = "open"
        /\ i < dev[f].qmax
        /\ dev[f].q[t][i] # "off"
        /\ masters' = [masters EXCEPT ![k] = Uncount(@, f, q_type(f, t, i), dev[f].q[t][i])]
        /\ dev' = [dev EXCEPT ![f].q[t][i] = "off"]
        /\ foreign' = {x \in foreign : ~(x[1] = f /\ x[2] = t /\ x[3] = i)}
        /\ UNCHANGED <<index, opens, hwfail, astray>>

(* The queues of the two directions are removed one by one.  The separate  *)
(* completion queues are not.                                              *)
qdma_device_cleanup(m, f) ==
    LET queues == SetToSeq({q \in {"H2C", "C2H"} \X Indexes :
                                dev[f].q[q[1]][q[2]] # "off"})
    IN  FoldLeft(LAMBDA mm, q : Uncount(mm, f, q_type(f, q[1], q[2]),
                                        dev[f].q[q[1]][q[2]]),
                 m, queues)

-----------------------------------------------------------------------------
(* qdma_set_qmax(), qdma_set_intr_rngsz() and qdma_device_close() *)

qdma_set_qmax(f, qmax, qbase) ==
    \E k \in qdma_get_master_resource_entry(dev[f].idx) :
        /\ dev[f].pc = "open"
        /\ LET r == qdma_dev_update(masters[k], f, qmax, qbase)
               c == qdma_device_cleanup(r.m, f)
           IN  IF r.ok
               THEN /\ masters' = [masters EXCEPT ![k] = c]
                    /\ dev' = [dev EXCEPT ![f] =
                                qdma_device_init(f, qdma_dev_qinfo_get(c, f))]
                    /\ foreign' = Unconfigured(f)
               ELSE /\ masters' = [masters EXCEPT ![k] = r.m]
                    /\ UNCHANGED <<dev, foreign>>
        /\ UNCHANGED <<index, opens, hwfail, astray>>

(* The number of active queues of the master with this index, zero when    *)
(* there is none.                                                          *)
qdma_get_active_queue_count(idx) ==
    LET at == qdma_get_master_resource_entry(idx)
    IN  IF at = {} THEN 0 ELSE masters[CHOOSE i \in at : TRUE].act

(* The interrupt rings are torn down and set up again with the new size.   *)
(* The guard asks for the queues of the master whose index is the bus      *)
(* number.                                                                 *)
qdma_set_intr_rngsz(f, sz) ==
    /\ dev[f].pc = "open"
    /\ sz # dev[f].rngsz
    /\ qdma_get_active_queue_count(BusNumber) = 0
    /\ dev' = [dev EXCEPT ![f].rngsz = sz]
    /\ UNCHANGED <<masters, index, opens, foreign, hwfail, astray>>

(* The master goes with its last entry.                                    *)
qdma_master_resource_destroy(list, k) ==
    IF DOMAIN list[k].devs = {} THEN RemoveAt(list, k) ELSE list

qdma_device_close(f) ==
    \E k \in qdma_get_master_resource_entry(dev[f].idx) :
        /\ dev[f].pc = "open"
        /\ masters' = qdma_master_resource_destroy(
                        [masters EXCEPT ![k] = qdma_dev_entry_destroy(
                                            qdma_device_cleanup(@, f), f)], k)
        /\ dev' = [dev EXCEPT ![f] = ClosedDev]
        /\ foreign' = Unconfigured(f)
        /\ UNCHANGED <<index, opens, hwfail, astray>>

-----------------------------------------------------------------------------
Next ==
    \E f \in Funcs :
        \/ qdma_device_open(f)
        \/ qdma_master_resource_create(f)
        \/ \E qmax \in Qmaxes, qbase \in Qbases \union {-1}, online \in BOOLEAN :
                DeviceOnline(f, qmax, qbase, online)
        \/ /\ Cardinality(EnabledQueues) < MaxQueues
           /\ \E t \in QTypes, mode \in {"MM", "ST"},
                 qidx \in Indexes \union {QDMA_QUEUE_IDX_INVALID}, hwok \in BOOLEAN :
                /\ t = "CMPT" => mode = "MM"
                /\ ~hwok => ~dev[f].qrange
                /\ hwfail \/ astray => hwok /\ qidx # QDMA_QUEUE_IDX_INVALID
                /\ qdma_queue_add(f, t, mode, qidx, hwok)
        \/ \E t \in QTypes, i \in Indexes : qdma_queue_remove(f, t, i)
        \/ \E qmax \in Qmaxes \union {0}, qbase \in Qbases \union {-1} :
                qdma_set_qmax(f, qmax, qbase)
        \/ \E sz \in 0 .. 1 :
                /\ opens <= RngszOpens
                /\ qdma_set_intr_rngsz(f, sz)
        \/ qdma_device_close(f)

Symmetry == Permutations(Funcs)

Spec == Init /\ [][Next]_vars

-----------------------------------------------------------------------------
(* Every hardware queue of the board is either free or owned by exactly one*)
(* function, and the free list stays ordered, whatever sequence of opens,  *)
(* failed opens, range changes and closes has happened                     *)
(* (qdma_request_q_resource(), qdma_submit_to_free_list()).                *)
QueuesPartitioned ==
    /\ Len(masters) <= 1
    /\ \A k \in DOMAIN masters : Partitioned(masters[k], TotalQ)

(* The range of queues an open function works with is the range it owns in *)
(* the resource manager, after a refused request too ("Restore the         *)
(* dev_entry", qdma_request_q_resource()), and once a queue has been added *)
(* the hardware maps exactly that range to the function                    *)
(* (device_set_qrange() writes what qdma_dev keeps).                       *)
RangeOwned ==
    \A f \in Funcs : dev[f].pc = "open" =>
        /\ dev[f].qmax > 0 =>
            \E k \in DOMAIN masters :
                /\ masters[k].idx = dev[f].idx
                /\ HasEntry(masters[k], f)
                /\ masters[k].devs[f].chunk = Chunk(dev[f].qbase, dev[f].qmax)
        /\ dev[f].qrange => dev[f].fmap = Chunk(dev[f].qbase, dev[f].qmax)

(* As long as no register access has failed in an add, and no automatic    *)
(* index above zero has been given (the search of qdma_queue_add() enables *)
(* another descq than it counts, and leaves the counted index usable), a   *)
(* function's active queues are counted exactly, a streaming receive queue *)
(* under its completion queue too, so that no add is refused after it has  *)
(* enabled its queue; and the count of the board is never below their sum, *)
(* so that it cannot wrap.                                                 *)
CountsTrue ==
    ~hwfail /\ ~astray =>
        \A k \in DOMAIN masters :
            /\ \A f \in DOMAIN masters[k].devs, t \in QTypes :
                  masters[k].devs[f].cnt[t] =
                    Cardinality(Enabled(f, t)) +
                    (IF t = "CMPT"
                     THEN Cardinality({i \in Indexes : dev[f].q["C2H"][i] = "ST"})
                     ELSE 0)
            /\ masters[k].act >=
                  MapThenSumSet(LAMBDA p : masters[k].devs[p[1]].cnt[p[2]],
                                (DOMAIN masters[k].devs) \X QTypes)

(* "If qdma_get_active_queue_count() > 0, intr_rngsz is not allowed to     *)
(* change" (qdma_set_intr_rngsz()).                                        *)
IntrRingSettled ==
    [][\A f \in Funcs :
        (dev[f].pc = "open" /\ dev'[f].pc = "open"
            /\ qdma_get_active_queue_count(dev[f].idx) > 0)
        => dev'[f].rngsz = dev[f].rngsz]_vars

=============================================================================
