----------------------------- MODULE VfMailbox ------------------------------
(***************************************************************************)
(* The mailbox between a physical function and its virtual functions:      *)
(* qdma_mbox.c (message lists, the work queue, waiting callers),           *)
(* qdma_mbox_protocol.c (the hardware mailbox and the messages' handlers), *)
(* qdma_sriov.c, and the calls of a virtual function that send messages    *)
(* (libqdma_export.c, qdma_device.c, qdma_context.c, xdev.c).              *)
(*                                                                         *)
(* The hardware holds one outgoing message for every function, until its   *)
(* receiver acknowledges it.  A function's work queue has one thread, which*)
(* either sends or receives.  A caller queues its request and sleeps until *)
(* the reply has been matched or its time is up.  The calls of a virtual   *)
(* function come one after the other, each a sequence of messages.         *)
(***************************************************************************)
EXTENDS QueueResources

CONSTANTS Vfs,          \* the virtual functions
          Pf,           \* the physical function
          NoVf,         \* QDMA_FUNC_ID_INVALID
          TotalQ,       \* hardware queues that are left for virtual functions
          Qmaxes,       \* the numbers of queues a virtual function asks for
          Retries,      \* retry_cnt of a message nobody waits for
          MaxCalls,     \* bound: calls of the virtual functions
          FaultCost,    \* bound: calls a fault counts for
          TriggerCost   \* bound: calls qdma_pf_trigger_vf_offline() counts for

ASSUME MailboxAssumption ==
    /\ Pf \notin Vfs /\ NoVf \notin Vfs /\ Pf # NoVf
    /\ IsFiniteSet(Vfs)
    /\ TotalQ \in Nat \ {0} /\ Qmaxes \subseteq Nat
    /\ Retries \in Nat \ {0} /\ MaxCalls \in Nat
    /\ FaultCost \in Nat \ {0} /\ TriggerCost \in Nat

Funcs == Vfs \union {Pf}

Slots == 1 .. Cardinality(Vfs)

VARIABLES master,    \* the board's queue resources, kept by the PF driver
          hw,        \* fmap of every VF, function that owns every context
          online,    \* vf_count_online and the vf_info slots
          vf,        \* per VF: its device
          call,      \* per function: the thread that sends and waits
          todo,      \* per function: tx_todo_list
          pend,      \* per function: rx_pend_list
          work,      \* per function: what its work queue is doing
          out,       \* per function: the message in its hardware mailbox
          trigger,   \* the PF's call of qdma_pf_trigger_vf_offline()
          calls,     \* per VF: the calls so far
          faults     \* time-outs and dropped messages so far, and calls that
                     \* went on before their reply was copied

vars == <<master, hw, online, vf, call, todo, pend, work, out, trigger,
          calls, faults>>

(* The bound: what has happened so far, in calls.                          *)
Spent == MapThenSumSet(LAMBDA v : calls[v], Vfs) + FaultCost * faults
         + (IF trigger.pc = "idle" THEN 0 ELSE TriggerCost)

Fault == /\ Spent + FaultCost <= MaxCalls
         /\ faults' = faults + 1

-----------------------------------------------------------------------------
(* Messages: a request or reply, its two functions, its status and its     *)
(* argument.  tag, the number of the sender's call, is not in the code: it *)
(* tells which request a reply answers.                                    *)

Message(op, resp, from, to, ok, arg, tag) ==
    [op |-> op, resp |-> resp, from |-> from, to |-> to, ok |-> ok,
     arg |-> arg, tag |-> tag]

NoMessage == Message("none", FALSE, NoVf, NoVf, FALSE, NoChunk, 0)

(* A message in a list: whether its sender waits, and the retries left.    *)
Item(m, wait) == [m |-> m, wait |-> wait, retry |-> Retries]

Idle == [pc |-> "idle", plan |-> <<>>, force |-> FALSE,
         matched |-> FALSE, ans |-> NoMessage]

IdleWork == [at |-> "idle", m |-> NoMessage, stale |-> FALSE]

DownVf == [st |-> "down", chunk |-> Chunk(0, 0), qrange |-> FALSE,
           q |-> "off", bye |-> FALSE]

Init ==
    /\ master = NewMaster(0, TotalQ)
    /\ hw = [fmap |-> [v \in Vfs |-> Chunk(0, 0)],
             ctx |-> [q \in 0 .. (TotalQ - 1) |-> NoVf]]
    /\ online = [count |-> 0, slot |-> [i \in Slots |-> NoVf]]
    /\ vf = [v \in Vfs |-> DownVf]
    /\ call = [f \in Funcs |-> Idle]
    /\ todo = [f \in Funcs |-> <<>>]
    /\ pend = [f \in Funcs |-> <<>>]
    /\ work = [f \in Funcs |-> IdleWork]
    /\ out = [f \in Funcs |-> NoMessage]
    /\ trigger = [pc |-> "idle", i |-> 0, n |-> 0, asked |-> {}, were |-> {}]
    /\ calls = [v \in Vfs |-> 0]
    /\ faults = 0

-----------------------------------------------------------------------------
(* qdma_mbox_msg_send() *)

(* A plan is the sequence of the messages a call sends, with the argument  *)
(* of each.  The caller queues the first of them.  It waits for the reply  *)
(* to every message except the farewell.                                   *)
Submit(v, tag, plan, force) ==
    LET op == Head(plan)[1]
        m  == Message(op, FALSE, v, Pf, TRUE, Head(plan)[2], tag)
    IN  /\ todo' = [todo EXCEPT ![v] = Append(@, Item(m, op # "BYE"))]
        /\ call' = [call EXCEPT ![v] =
                     IF op = "BYE" THEN Idle
                     ELSE [pc |-> "queued", plan |-> plan, force |-> force,
                           matched |-> FALSE, ans |-> m]]

(* The condition is looked at before the caller sleeps.  It is the mark,   *)
(* which is set before the reply is copied over the request.               *)
Sleep(f) ==
    /\ call[f].pc = "queued"
    /\ call' = [call EXCEPT ![f].pc = IF call[f].matched THEN "woken"
                                      ELSE "asleep"]
    /\ UNCHANGED <<master, hw, online, vf, todo, pend, work, out, trigger,
                   calls, faults>>

(* The time is up.  A reply matched meanwhile counts; otherwise the message*)
(* leaves the list it is in, and the caller frees it, also when the work   *)
(* queue still holds it.                                                   *)
TimeOut(f) ==
    /\ call[f].pc = "asleep"
    /\ IF call[f].matched
       THEN /\ call' = [call EXCEPT ![f].pc = "woken"]
            /\ UNCHANGED <<todo, pend, work, faults>>
       ELSE /\ Fault
            /\ call' = [call EXCEPT ![f].pc = "late"]
            /\ todo' = [todo EXCEPT ![f] = SelectSeq(@, LAMBDA e : ~e.wait)]
            /\ pend' = [pend EXCEPT ![f] = SelectSeq(@, LAMBDA e : e.stale)]
            /\ work' = [work EXCEPT ![f].stale = (@ \/ work[f].at # "idle")]
    /\ UNCHANGED <<master, hw, online, vf, out, trigger, calls>>

-----------------------------------------------------------------------------
(* The hardware mailbox *)

(* Refused while the last message has not been acknowledged.               *)
qdma_mbox_send(f, m) ==
    /\ out[f] = NoMessage
    /\ out' = [out EXCEPT ![f] = m]

(* The message of the function is read and acknowledged.                   *)
qdma_mbox_rcv(from) == out' = [out EXCEPT ![from] = NoMessage]

(* A message that was left for the function is acknowledged unread.        *)
qdma_mbox_hw_init(v) ==
    out' = IF out[Pf].to = v THEN [out EXCEPT ![Pf] = NoMessage] ELSE out

-----------------------------------------------------------------------------
(* mbox_tx_work() *)

(* The head of the list goes to the hardware mailbox when it is empty.  A  *)
(* message nobody waits for is then taken off the list and freed.          *)
TxSend(f) ==
    /\ work[f].at = "idle"
    /\ todo[f] # <<>>
    /\ qdma_mbox_send(f, Head(todo[f]).m)
    /\ IF Head(todo[f]).wait
       THEN /\ work' = [work EXCEPT ![f] = [at |-> "sent", stale |-> FALSE,
                                            m |-> Head(todo[f]).m]]
            /\ UNCHANGED todo
       ELSE /\ todo' = [todo EXCEPT ![f] = Tail(@)]
            /\ UNCHANGED work
    /\ UNCHANGED <<master, hw, online, vf, call, pend, trigger, calls, faults>>

(* The sent request moves from the head of the list to the list of those   *)
(* that expect a reply.  When its caller has given up it has left its list *)
(* and is freed memory that is linked into the other one: the model keeps  *)
(* it there, as the memory still holds the request.                        *)
TxMove(f) ==
    /\ work[f].at = "sent"
    /\ todo' = IF work[f].stale THEN todo
               ELSE [todo EXCEPT ![f] = Tail(@)]
    /\ pend' = [pend EXCEPT ![f] = Append(@, work[f])]
    /\ work' = [work EXCEPT ![f] = IdleWork]
    /\ UNCHANGED <<master, hw, online, vf, call, out, trigger, calls, faults>>

(* The hardware mailbox is still full.  A request is tried again by the    *)
(* timer until its caller gives up; a message nobody waits for only so     *)
(* many times.                                                             *)
TxBusy(f) ==
    /\ work[f].at = "idle"
    /\ todo[f] # <<>> /\ ~Head(todo[f]).wait
    /\ out[f] # NoMessage
    /\ IF Head(todo[f]).retry > 1
       THEN /\ todo' = [todo EXCEPT ![f][1].retry = @ - 1]
            /\ UNCHANGED faults
       ELSE /\ Fault
            /\ todo' = [todo EXCEPT ![f] = Tail(@)]
    /\ UNCHANGED <<master, hw, online, vf, call, pend, work, out, trigger,
                   calls>>

-----------------------------------------------------------------------------
(* mbox_rx_work() of a virtual function *)

(* (mutant) Any message of the PF completes the request. *)
AnyIsResponse(request, m) == TRUE

(* A reply is told by its operation only.                                  *)
qdma_mbox_is_msg_response(request, m) == m.resp /\ m.op = request.op

(* Positions of pend[f] that the message answers; the first is taken.      *)
Answered(f, m) ==
    {i \in DOMAIN pend[f] : qdma_mbox_is_msg_response(pend[f][i].m, m)}

(* The reply to a message of the PF.                                       *)
qdma_mbox_vf_rcv_msg_handler(m) ==
    Message(m.op, TRUE, m.to, m.from, TRUE, NoChunk, 0)

(* The message is read and acknowledged.  A request that it answers is     *)
(* marked under the lock.  A message of the PF is only looked at when no   *)
(* request is pending; the reply goes out and the device will be taken     *)
(* offline by the reset work.                                              *)
VfReceive(v) ==
    LET m == out[Pf]
    IN  /\ work[v].at = "idle"
        /\ vf[v].st # "down"
        /\ m.to = v
        /\ qdma_mbox_rcv(Pf)
        /\ IF Answered(v, m) # {}
           THEN LET i == Min(Answered(v, m))
                IN  /\ work' = [work EXCEPT ![v] = [at |-> "matched", m |-> m,
                                            stale |-> pend[v][i].stale]]
                    /\ call' = IF pend[v][i].stale THEN call
                               ELSE [call EXCEPT ![v].matched = TRUE]
                    /\ UNCHANGED <<todo, vf>>
           ELSE IF pend[v] = <<>> /\ m.op = "PF_BYE"
           THEN /\ todo' = [todo EXCEPT ![v] = Append(@,
                     Item(qdma_mbox_vf_rcv_msg_handler(m), FALSE))]
                /\ vf' = [vf EXCEPT ![v].bye = TRUE]
                /\ UNCHANGED <<call, work>>
           ELSE UNCHANGED <<todo, vf, call, work>>
        /\ UNCHANGED <<master, hw, online, pend, trigger, calls, faults>>

(* The request leaves the list, the reply is copied over it and its caller *)
(* is woken.                                                               *)
VfWake(v) ==
    LET m == work[v].m
    IN  /\ work[v].at = "matched"
        /\ pend' = [pend EXCEPT ![v] = IF Answered(v, m) = {} THEN @
                                       ELSE RemoveAt(@, Min(Answered(v, m)))]
        /\ call' = IF work[v].stale THEN call
                   ELSE [call EXCEPT ![v].ans = m,
                            ![v].pc = IF @ = "asleep" THEN "woken" ELSE @]
        /\ work' = [work EXCEPT ![v] = IdleWork]
        /\ UNCHANGED <<master, hw, online, vf, todo, out, trigger, calls,
                       faults>>

-----------------------------------------------------------------------------
(* The calls of a virtual function *)

Queue(v) == Chunk(vf[v].chunk.qbase, 1)

(* The queue is stopped and removed: the messages of qdma_device_cleanup().*)
Cleanup(v) ==
    (IF vf[v].q = "online" THEN <<<<"CLR", Queue(v)>>>> ELSE <<>>) \o
    (IF vf[v].q # "off" THEN <<<<"QDEL", Queue(v)>>>> ELSE <<>>)

Call(v, plan, force) ==
    /\ call[v] = Idle
    /\ Spent < MaxCalls \/ (vf[v].bye /\ force)
    /\ calls' = [calls EXCEPT ![v] = @ + 1]
    /\ Submit(v, calls[v] + 1, plan, force)
    /\ UNCHANGED <<master, hw, online, work, trigger, faults>>

(* The mailbox is set up, which acknowledges a message that was left there,*)
(* and the PF is greeted.                                                  *)
qdma_device_online(v) ==
    /\ vf[v].st = "down"
    /\ Call(v, <<<<"HELLO", NoChunk>>>>, FALSE)
    /\ vf' = [vf EXCEPT ![v].st = "coming"]
    /\ pend' = [pend EXCEPT ![v] = <<>>]
    /\ qdma_mbox_hw_init(v)

qdma_vf_qconf(v, qmax) ==
    /\ vf[v].st = "up"
    /\ Call(v, <<<<"QREQ", Chunk(-1, qmax)>>>>, FALSE)
    /\ UNCHANGED <<vf, pend, out>>

(* The queue is enabled first.  The first queue also fetches the registers *)
(* and has the range written.  (The count of active queues the call asks   *)
(* for at its start changes nothing; its failure is ignored.)              *)
qdma_queue_add(v) ==
    /\ vf[v].st = "up" /\ vf[v].q = "off" /\ vf[v].chunk.total > 0
    /\ vf' = [vf EXCEPT ![v].q = "enabled"]
    /\ Call(v, (IF vf[v].qrange THEN <<>>
                ELSE <<<<"CSR", NoChunk>>, <<"FMAP", vf[v].chunk>>>>)
               \o <<<<"QADD", Queue(v)>>>>, FALSE)
    /\ UNCHANGED <<pend, out>>

qdma_queue_start(v) ==
    /\ vf[v].st = "up" /\ vf[v].q = "enabled"
    /\ Call(v, <<<<"WRT", Queue(v)>>>>, FALSE)
    /\ UNCHANGED <<vf, pend, out>>

qdma_queue_stop(v) ==
    /\ vf[v].st = "up" /\ vf[v].q = "online"
    /\ Call(v, <<<<"CLR", Queue(v)>>>>, FALSE)
    /\ UNCHANGED <<vf, pend, out>>

qdma_queue_remove(v) ==
    /\ vf[v].st = "up" /\ vf[v].q = "enabled"
    /\ Call(v, <<<<"QDEL", Queue(v)>>>>, FALSE)
    /\ UNCHANGED <<vf, pend, out>>

(* Called by the user or, after PF_BYE, by the reset work.  Its clean-up   *)
(* ignores failures.                                                       *)
qdma_device_offline(v) ==
    /\ vf[v].st = "up"
    /\ Call(v, Cleanup(v) \o <<<<"BYE", NoChunk>>>>, TRUE)
    /\ vf' = [vf EXCEPT ![v].st = "leaving"]
    /\ UNCHANGED <<pend, out>>

(* What a call makes of the reply to one of its messages.                  *)
AfterReply(v, op, ok, arg) ==
    LET d == vf[v]
    IN  CASE op = "HELLO" -> [d EXCEPT !.st = IF ok THEN "up" ELSE "leaving"]
          [] op = "QREQ" /\ ok -> [d EXCEPT !.chunk = arg, !.qrange = FALSE,
                                            !.q = "off"]
          [] op \in {"CSR", "FMAP"} /\ ~ok -> [d EXCEPT !.q = "off"]
          [] op = "FMAP" /\ ok -> [d EXCEPT !.qrange = TRUE]
          [] op = "WRT" /\ ok -> [d EXCEPT !.q = "online"]
          [] op = "CLR" /\ d.q = "online" -> [d EXCEPT !.q = "enabled"]
          [] op = "QDEL" /\ ok -> [d EXCEPT !.q = "off"]
          [] OTHER -> d

(* The messages that follow.  An open that failed says farewell; a new     *)
(* range is taken into use after the old queues have been cleaned up.      *)
NextPlan(v, op, ok) ==
    CASE op = "HELLO" /\ ~ok -> <<<<"BYE", NoChunk>>>>
      [] op = "QREQ" /\ ok -> Cleanup(v)
      [] ~(op \in {"HELLO", "QREQ"}) /\ (ok \/ call[v].force) ->
            Tail(call[v].plan)
      [] OTHER -> <<>>

(* The reply has been matched and is not copied yet.                       *)
Uncopied(v) == work[v].at = "matched" /\ ~work[v].stale

(* The caller has a reply, or has given up, and goes on.  When the reply   *)
(* has not been copied yet it takes its own request for it, and frees the  *)
(* memory the work queue is about to write to.                             *)
Return(v) ==
    LET op == Head(call[v].plan)[1]
        ok == call[v].pc = "woken" /\ call[v].ans.ok
    IN  /\ call[v].pc \in {"woken", "late"}
        /\ IF Uncopied(v)
           THEN Fault /\ work' = [work EXCEPT ![v].stale = TRUE]
           ELSE UNCHANGED <<work, faults>>
        /\ vf' = [vf EXCEPT ![v] = AfterReply(v, op, ok, call[v].ans.arg)]
        /\ IF NextPlan(v, op, ok) = <<>>
           THEN /\ call' = [call EXCEPT ![v] = Idle]
                /\ UNCHANGED todo
           ELSE Submit(v, calls[v], NextPlan(v, op, ok),
                       call[v].force \/ op = "QREQ")
        /\ UNCHANGED <<master, hw, online, pend, out, trigger, calls>>

(* qdma_mbox_stop() waits until the list is empty, and a second for the    *)
(* message in the hardware.                                                *)
qdma_mbox_stop(v) ==
    /\ vf[v].st = "leaving"
    /\ call[v] = Idle /\ todo[v] = <<>> /\ work[v].at = "idle"
    /\ vf' = [vf EXCEPT ![v] = DownVf]
    /\ UNCHANGED <<master, hw, online, call, todo, pend, work, out, trigger,
                   calls, faults>>

-----------------------------------------------------------------------------
(* mbox_rx_work() of the physical function *)

(* The PF has a message of this operation and acknowledges it.             *)
PfTakes(v, op) ==
    /\ work[Pf].at = "idle"
    /\ out[v].op = op
    /\ qdma_mbox_rcv(v)
    /\ UNCHANGED <<vf, work, trigger, calls, faults>>

Reply(v, ok, arg) ==
    /\ todo' = [todo EXCEPT ![Pf] = Append(@,
            Item(Message(out[v].op, TRUE, Pf, v, ok, arg, out[v].tag), FALSE))]
    /\ UNCHANGED <<call, pend>>

Unmapped(v) == [hw EXCEPT !.fmap[v] = Chunk(0, 0)]

(* The first free slot of vf_info takes the function.                      *)
xdev_sriov_vf_online(v) ==
    LET free == {i \in Slots : online.slot[i] = NoVf}
    IN  [count |-> online.count + 1,
         slot |-> IF free = {} THEN online.slot
                  ELSE [online.slot EXCEPT ![Min(free)] = v]]

(* (mutant) The slot of a function that leaves is not freed. *)
OfflineKeepsSlot(v) == [online EXCEPT !.count = @ - 1]

xdev_sriov_vf_offline(v) ==
    [count |-> online.count - 1,
     slot |-> [i \in Slots |-> IF online.slot[i] = v THEN NoVf
                               ELSE online.slot[i]]]

PfHello(v) ==
    /\ PfTakes(v, "HELLO")
    /\ master' = IF HasEntry(master, v) THEN master
                 ELSE qdma_dev_entry_create(master, v)
    /\ hw' = Unmapped(v)
    /\ online' = xdev_sriov_vf_online(v)
    /\ Reply(v, TRUE, NoChunk)

PfBye(v) ==
    /\ PfTakes(v, "BYE")
    /\ master' = IF HasEntry(master, v) THEN qdma_dev_entry_destroy(master, v)
                 ELSE master
    /\ hw' = Unmapped(v)
    /\ online' = xdev_sriov_vf_offline(v)
    /\ UNCHANGED <<call, todo, pend>>

(* The range is written as the message gives it.                           *)
PfFmap(v) ==
    /\ PfTakes(v, "FMAP")
    /\ hw' = [hw EXCEPT !.fmap[v] = out[v].arg]
    /\ Reply(v, TRUE, NoChunk)
    /\ UNCHANGED <<master, online>>

PfCsr(v) ==
    /\ PfTakes(v, "CSR")
    /\ Reply(v, TRUE, NoChunk)
    /\ UNCHANGED <<master, hw, online>>

(* (mutant) The old range stays mapped when the function gets a new one. *)
QreqKeepsMap(v) ==
    LET r == IF HasEntry(master, v)
             THEN qdma_dev_update(master, v, out[v].arg.total, out[v].arg.qbase)
             ELSE [ok |-> FALSE, m |-> master]
    IN  /\ PfTakes(v, "QREQ")
        /\ master' = r.m
        /\ Reply(v, r.ok, IF r.ok THEN qdma_dev_qinfo_get(r.m, v) ELSE NoChunk)
        /\ UNCHANGED <<hw, online>>

PfQreq(v) ==
    LET r == IF HasEntry(master, v)
             THEN qdma_dev_update(master, v, out[v].arg.total, out[v].arg.qbase)
             ELSE [ok |-> FALSE, m |-> master]
    IN  /\ PfTakes(v, "QREQ")
        /\ master' = r.m
        /\ hw' = IF r.ok THEN Unmapped(v) ELSE hw
        /\ Reply(v, r.ok, IF r.ok THEN qdma_dev_qinfo_get(r.m, v) ELSE NoChunk)
        /\ UNCHANGED online

PfQueueAdd(v) ==
    LET r == qdma_dev_increment_active_queue(master, v, "H2C")
        in == qdma_dev_is_queue_in_range(master, v, out[v].arg.qbase)
    IN  /\ PfTakes(v, "QADD")
        /\ master' = IF in THEN r.m ELSE master
        /\ Reply(v, in /\ r.ok, NoChunk)
        /\ UNCHANGED <<hw, online>>

PfQueueDel(v) ==
    LET in == qdma_dev_is_queue_in_range(master, v, out[v].arg.qbase)
    IN  /\ PfTakes(v, "QDEL")
        /\ master' = IF in THEN qdma_dev_decrement_active_queue(master, v, "H2C")
                     ELSE master
        /\ Reply(v, in, NoChunk)
        /\ UNCHANGED <<hw, online>>

(* A queue out of the function's range is left alone.                      *)
SetContext(v, owner) ==
    LET q == out[v].arg.qbase
    IN  IF qdma_dev_is_queue_in_range(master, v, q)
        THEN [hw EXCEPT !.ctx[q] = owner] ELSE hw

mbox_write_queue_contexts(v) == SetContext(v, v)

mbox_clear_queue_contexts(v) == SetContext(v, NoVf)

(* The status says success also when the queue was out of range.           *)
PfContext(v, op) ==
    /\ PfTakes(v, op)
    /\ hw' = IF op = "WRT" THEN mbox_write_queue_contexts(v)
             ELSE mbox_clear_queue_contexts(v)
    /\ Reply(v, HasEntry(master, v), NoChunk)
    /\ UNCHANGED <<master, online>>

(* The reply to PF_BYE.  The waiting thread is woken, and the message it is*)
(* about to look at is freed.                                              *)
PfByeReply(v) ==
    LET hit == Answered(Pf, out[v])
    IN  /\ PfTakes(v, "PF_BYE")
        /\ pend' = IF hit = {} THEN pend
                   ELSE [pend EXCEPT ![Pf] = RemoveAt(@, Min(hit))]
        /\ call' = IF hit = {} THEN call
                   ELSE [call EXCEPT ![Pf].matched = TRUE,
                            ![Pf].ans = out[v],
                            ![Pf].pc = IF @ = "asleep" THEN "woken" ELSE @]
        /\ UNCHANGED <<master, hw, online, todo>>

-----------------------------------------------------------------------------
(* qdma_pf_trigger_vf_offline() *)

(* The number of functions to ask is read once.                            *)
qdma_pf_trigger_vf_offline ==
    /\ trigger.pc = "idle"
    /\ Spent + TriggerCost <= MaxCalls
    /\ trigger' = [pc |-> IF online.count > 0 THEN "loop" ELSE "done", i |-> 1,
                   n |-> online.count, asked |-> {},
                   were |-> {v \in Vfs : HasEntry(master, v)}]
    /\ UNCHANGED <<master, hw, online, vf, call, todo, pend, work, out, calls,
                   faults>>

TriggerAsk ==
    LET to == online.slot[trigger.i]
        m  == Message("PF_BYE", FALSE, Pf, to, TRUE, NoChunk, 0)
    IN  /\ trigger.pc = "loop"
        /\ trigger' = [trigger EXCEPT !.pc = "asked", !.asked = @ \union {to}]
        /\ todo' = [todo EXCEPT ![Pf] = Append(@, Item(m, TRUE))]
        /\ call' = [call EXCEPT ![Pf] = [Idle EXCEPT !.pc = "queued"]]
        /\ UNCHANGED <<master, hw, online, vf, pend, work, out, calls, faults>>

NextVf == [trigger EXCEPT !.i = @ + 1,
              !.pc = IF trigger.i < Min({trigger.n, Cardinality(Vfs)})
                     THEN "loop" ELSE "done"]

(* The flag that says whether there was a reply is read from freed memory  *)
(* after a wake-up: its value is any.                                      *)
TriggerWoken(rv) ==
    /\ trigger.pc = "asked"
    /\ call[Pf].pc \in {"woken", "late"}
    /\ call[Pf].pc = "late" => ~rv
    /\ call' = [call EXCEPT ![Pf] = Idle]
    /\ trigger' = IF rv THEN [trigger EXCEPT !.pc = "bye"] ELSE NextVf
    /\ UNCHANGED <<master, hw, online, vf, todo, pend, work, out, calls, faults>>

(* The function has said farewell, or has not in time.                     *)
TriggerBye ==
    /\ trigger.pc = "bye"
    /\ \/ online.slot[trigger.i] = NoVf /\ UNCHANGED faults
       \/ Fault
    /\ trigger' = NextVf
    /\ UNCHANGED <<master, hw, online, vf, call, todo, pend, work, out, calls>>

-----------------------------------------------------------------------------
Next ==
    \/ \E f \in Funcs : Sleep(f) \/ TimeOut(f) \/ TxSend(f) \/ TxMove(f)
                        \/ TxBusy(f)
    \/ \E v \in Vfs :
        \/ VfReceive(v) \/ VfWake(v) \/ Return(v) \/ qdma_mbox_stop(v)
        \/ qdma_device_online(v) \/ qdma_device_offline(v)
        \/ \E qmax \in Qmaxes : qdma_vf_qconf(v, qmax)
        \/ qdma_queue_add(v) \/ qdma_queue_remove(v)
        \/ qdma_queue_start(v) \/ qdma_queue_stop(v)
        \/ PfHello(v) \/ PfBye(v) \/ PfFmap(v) \/ PfCsr(v) \/ PfQreq(v)
        \/ PfQueueAdd(v) \/ PfQueueDel(v) \/ PfByeReply(v)
        \/ \E op \in {"WRT", "CLR"} : PfContext(v, op)
    \/ qdma_pf_trigger_vf_offline \/ TriggerAsk \/ TriggerBye
    \/ \E rv \in BOOLEAN : TriggerWoken(rv)

Symmetry == Permutations(Vfs)

Spec == Init /\ [][Next]_vars

-----------------------------------------------------------------------------
(* The three properties hold until a call times out, a message is dropped, *)
(* or a call has gone on before its reply was copied: it has freed memory  *)
(* that the lists and the work queue still use.                            *)

(* The hardware maps a virtual function only to queues that the PF has     *)
(* given to it, so no two functions ever share a queue, and a context is   *)
(* programmed only for a queue of its function (the FMAP handler writes    *)
(* what the message says).                                                 *)
FmapOwned ==
    faults = 0 =>
        \A v \in Vfs :
            LET mine == IF HasEntry(master, v)
                        THEN ChunkQueues(master.devs[v].chunk) ELSE {}
            IN  /\ ChunkQueues(hw.fmap[v]) \subseteq mine
                /\ {q \in DOMAIN hw.ctx : hw.ctx[q] = v} \subseteq mine

(* The reply to the very request the call has sent                         *)
IsReplyTo(v, m) ==
    m.resp /\ m.op = Head(call[v].plan)[1] /\ m.to = v /\ m.tag = calls[v]

(* A call that may go on has the reply to the very request it sent ("wake  *)
(* up anyone waiting on the response", mbox_rcv_one_msg(); replies are told*)
(* by their operation).  The one exception is the call that was not asleep,*)
(* or whose time was up, between the mark and the copy of the reply: it may*)
(* go on with its own request, nobody else's message, and the reply that is*)
(* about to be copied is its own.                                          *)
ReplyIsOwn ==
    faults = 0 =>
        \A v \in Vfs : call[v].pc = "woken" =>
            IF Uncopied(v)
            THEN /\ call[v].ans = Message(Head(call[v].plan)[1], FALSE, v, Pf,
                                  TRUE, Head(call[v].plan)[2], calls[v])
                 /\ IsReplyTo(v, work[v].m)
            ELSE IsReplyTo(v, call[v].ans)

(* The PF's count and slots of online functions are those that have an     *)
(* entry in the resource manager, and between two calls the PF's count of  *)
(* active queues is the VF's own.                                          *)
PfKnowsVfs ==
    faults = 0 =>
        LET there == {v \in Vfs : HasEntry(master, v)}
        IN  /\ online.count = Cardinality(there)
            /\ {online.slot[i] : i \in Slots} \ {NoVf} = there
            /\ \A v \in there : call[v] = Idle /\ vf[v].st = "up" =>
                    master.devs[v].cnt["H2C"] = (IF vf[v].q = "off" THEN 0 ELSE 1)

(* qdma_pf_trigger_vf_offline(): "Function to trigger offline of all the   *)
(* VFs".  When it has come to the last function it will ask, every function*)
(* that was online has been asked to leave, or has left.                   *)
AllVfsAsked ==
    (trigger.pc \in {"asked", "bye", "done"} /\ trigger.i >= trigger.n
        /\ faults = 0)
    => \A v \in trigger.were : v \in trigger.asked \/ ~HasEntry(master, v)

=============================================================================
