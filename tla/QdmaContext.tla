---------------------------- MODULE QdmaContext ----------------------------
(***************************************************************************)
(* Queue contexts of the QDMA hardware and the indirect registers through  *)
(* which libqdma programs, clears and reads them (qdma_context.c and the   *)
(* three xxx_access.c variants).  An access takes hw_prg_lock, writes the  *)
(* data and mask registers (for a write) and then the command register,    *)
(* polls the busy bit, reads the data back (for a read) and releases the   *)
(* lock.  When the poll times out the lock is released with the command    *)
(* still pending in the hardware.                                          *)
(*                                                                         *)
(* One hardware queue id is modelled, with its H2C and C2H directions and  *)
(* (memory-mapped queues) its completion queue, next to one interrupt      *)
(* ring and the function map.  A context's contents are abstracted to the  *)
(* number of the call that wrote it, 0 when it is cleared; how the fields  *)
(* are laid out in the registers is QdmaLayouts.  The vector map of the    *)
(* Versal variant holds one half for each direction, so a context is a     *)
(* pair of halves, equal for every other context.                          *)
(***************************************************************************)
EXTENDS QdmaLayouts, FiniteSets

CONSTANTS Configs,      \* the devices looked at, see conf
          Threads,      \* threads that call the context functions
          MaxCalls,     \* bound on the calls made
          MaxTimeOuts   \* bound on the polls that time out

VARIABLES
  conf,      \* the variant, streaming or memory-mapped, the interrupt mode
  store,     \* the contexts in the hardware, by command selector
  lock,      \* holder of hw_prg_lock
  cmd,       \* command register: selector, operation, busy bit
  data,      \* data registers
  entries,   \* the static tables a dump is printed from
  thr,       \* the call each thread is in
  calls,     \* calls begun
  timeOuts,  \* polls that timed out
  last,      \* ghost: the last call that wrote a queue's contexts
  clobbered, \* ghost: registers overwritten under a pending command
  lost       \* ghost: directions whose vector map write did not take effect

ASSUME ConfigsAssumption ==
  Configs \subseteq [ip : {"eqdma", "soft", "s80"}, st : BOOLEAN,
                     mode : {"poll", "direct", "indirect"}]
ASSUME ThreadsAssumption == "none" \notin Threads

vars == <<conf, store, lock, cmd, data, entries, thr, calls, timeOuts, last,
          clobbered, lost>>

None == "none"
QTypes == {"h2c", "c2h", "cmpt"}
Targets == QTypes \cup {"intr", "fmap"}
Halves(c, h) == [c2h |-> c, h2c |-> h]
Cleared == Halves(0, 0)
Selectors == {"SW_C2H", "SW_H2C", "HW_C2H", "HW_H2C", "CR_C2H", "CR_H2C",
              "CMPT", "PFTCH", "INT_COAL", "FMAP", "TRQ_FMAP"}

-----------------------------------------------------------------------------
(* The command selector each xxx_ctx_conf() passes on, by queue type.        *)

PerDirection(c2h, h2c) == [t \in Targets |-> IF t = "c2h" THEN c2h ELSE h2c]
Same(sel) == [t \in Targets |-> sel]

eqdma_sw_ctx_conf == PerDirection("SW_C2H", "SW_H2C")
eqdma_hw_ctx_conf == PerDirection("HW_C2H", "HW_H2C")
eqdma_credit_ctx_conf == PerDirection("CR_C2H", "CR_H2C")
eqdma_pfetch_ctx_conf == Same("PFTCH")
eqdma_cmpt_ctx_conf == Same("CMPT")
eqdma_indirect_intr_ctx_conf == Same("INT_COAL")

qdma_sw_ctx_conf == PerDirection("SW_C2H", "SW_H2C")
qdma_hw_ctx_conf == PerDirection("HW_C2H", "HW_H2C")
qdma_credit_ctx_conf == PerDirection("CR_C2H", "CR_H2C")
qdma_pfetch_ctx_conf == Same("PFTCH")
qdma_cmpt_ctx_conf == Same("CMPT")
qdma_indirect_intr_ctx_conf == Same("INT_COAL")
qdma_fmap_conf == Same("FMAP")

qdma_s80_hard_sw_ctx_conf == PerDirection("SW_C2H", "SW_H2C")
qdma_s80_hard_hw_ctx_conf == PerDirection("HW_C2H", "HW_H2C")
qdma_s80_hard_credit_ctx_conf == PerDirection("CR_C2H", "CR_H2C")
qdma_s80_hard_pfetch_ctx_conf == Same("PFTCH")
qdma_s80_hard_cmpt_ctx_conf == Same("CMPT")
qdma_s80_hard_indirect_intr_ctx_conf == Same("INT_COAL")
qdma_s80_hard_qid2vec_conf == Same("FMAP")
qdma_s80_hard_fmap_conf == Same("TRQ_FMAP")   \* a register of its own

qdma_hw_access_init ==
  [eqdma |-> [sw |-> eqdma_sw_ctx_conf, hw |-> eqdma_hw_ctx_conf,
              credit |-> eqdma_credit_ctx_conf,
              pfetch |-> eqdma_pfetch_ctx_conf, cmpt |-> eqdma_cmpt_ctx_conf,
              intr |-> eqdma_indirect_intr_ctx_conf,
              fmap |-> qdma_fmap_conf],
   soft  |-> [sw |-> qdma_sw_ctx_conf, hw |-> qdma_hw_ctx_conf,
              credit |-> qdma_credit_ctx_conf,
              pfetch |-> qdma_pfetch_ctx_conf, cmpt |-> qdma_cmpt_ctx_conf,
              intr |-> qdma_indirect_intr_ctx_conf,
              fmap |-> qdma_fmap_conf],
   s80   |-> [sw |-> qdma_s80_hard_sw_ctx_conf,
              hw |-> qdma_s80_hard_hw_ctx_conf,
              credit |-> qdma_s80_hard_credit_ctx_conf,
              pfetch |-> qdma_s80_hard_pfetch_ctx_conf,
              cmpt |-> qdma_s80_hard_cmpt_ctx_conf,
              intr |-> qdma_s80_hard_indirect_intr_ctx_conf,
              qid2vec |-> qdma_s80_hard_qid2vec_conf,
              fmap |-> qdma_s80_hard_fmap_conf]]

Sel(ctx, t) == qdma_hw_access_init[conf.ip][ctx][t]

\* The command of each indirect operation.  "fetch" is the read inside
\* qdma_s80_hard_qid2vec_write().
eqdma_indirect_reg ==
  [write |-> "WR", read |-> "RD", fetch |-> "RD", clear |-> "CLR",
   invalidate |-> "INV"]
qdma_indirect_reg ==
  [write |-> "WR", read |-> "RD", fetch |-> "RD", clear |-> "CLR",
   invalidate |-> "INV"]
qdma_s80_hard_indirect_reg ==
  [write |-> "WR", read |-> "RD", fetch |-> "RD", clear |-> "CLR",
   invalidate |-> "INV"]

Opcode(op) ==
  CASE conf.ip = "eqdma" -> eqdma_indirect_reg[op]
    [] conf.ip = "soft"  -> qdma_indirect_reg[op]
    [] conf.ip = "s80"   -> qdma_s80_hard_indirect_reg[op]

-----------------------------------------------------------------------------
(* Calls, as the accesses they make in order.  An access is a pair of a      *)
(* context and an operation.                                                 *)

HasPfetch(t) == conf.st /\ t = "c2h"
HasCmpt(t) == (conf.st /\ t = "c2h") \/ (~conf.st /\ t = "cmpt")
Seq01(b, s) == IF b THEN s ELSE <<>>

\* (mutant) clears the hardware context while the queue is still enabled
ClearHwFirst(t, op) ==
  Seq01(t # "cmpt", <<<<"hw", op>>, <<"credit", op>>, <<"sw", op>>>>
                      \o Seq01(HasPfetch(t), <<<<"pfetch", op>>>>))
    \o Seq01(HasCmpt(t), <<<<"cmpt", op>>>>)

(* Clearing and invalidating (op) a queue's contexts.                        *)
qdma_descq_context_clear(t, op) ==
  Seq01(t # "cmpt", <<<<"sw", op>>, <<"hw", op>>, <<"credit", op>>>>
                      \o Seq01(HasPfetch(t), <<<<"pfetch", op>>>>))
    \o Seq01(HasCmpt(t), <<<<"cmpt", op>>>>)

\* qdma_s80_hard_qid2vec_write(): read the map, replace one half, write it.
qdma_s80_hard_qid2vec_write ==
  <<<<"qid2vec", "fetch">>, <<"qid2vec", "write">>>>

UsesQid2vec == conf.ip = "s80" /\ conf.mode # "poll"

qdma_descq_context_program(t) ==
  qdma_descq_context_clear(t, "clear")
    \o Seq01(t # "cmpt", <<<<"sw", "write">>>>
               \o Seq01(UsesQid2vec, qdma_s80_hard_qid2vec_write)
               \o Seq01(HasPfetch(t), <<<<"pfetch", "write">>>>))
    \o Seq01(HasCmpt(t), <<<<"cmpt", "write">>>>)

\* The Versal variant's software context read also reads the vector map.
SwRead ==
  <<<<"sw", "read">>>> \o Seq01(conf.ip = "s80", <<<<"qid2vec", "read">>>>)

QueueReads(t, afterHw) ==
  Seq01(t # "cmpt", SwRead \o <<<<"hw", "read">>>> \o afterHw
                      \o <<<<"credit", "read">>>>
                      \o Seq01(HasPfetch(t), <<<<"pfetch", "read">>>>))
    \o Seq01(HasCmpt(t), <<<<"cmpt", "read">>>>)

qdma_descq_context_read(t) == QueueReads(t, <<>>)
eqdma_read_dump_queue_context(t) == QueueReads(t, <<>>)
qdma_soft_read_dump_queue_context(t) == QueueReads(t, <<>>)
qdma_s80_hard_read_dump_queue_context(t) ==
  QueueReads(t, <<<<"qid2vec", "read">>>>)

\* What dump_xxx_context() does with what was read: it copies it into the
\* static tables, then prints the tables.  dump_s80_hard_context() refuses
\* a completion queue.
FillAndPrint(t) ==
  IF conf.ip = "s80" /\ t = "cmpt" THEN <<<<"queue", "reject">>>>
  ELSE <<<<"queue", "fill">>, <<"queue", "print">>>>

qdma_descq_context_dump(t) ==
  (CASE conf.ip = "eqdma" -> eqdma_read_dump_queue_context(t)
     [] conf.ip = "soft"  -> qdma_soft_read_dump_queue_context(t)
     [] conf.ip = "s80"   -> qdma_s80_hard_read_dump_queue_context(t))
    \o FillAndPrint(t)
    \o Seq01(conf.mode = "indirect",
             <<<<"intr", "read">>, <<"intr", "fill">>, <<"intr", "print">>>>)

qdma_intr_context_setup == <<<<"intr", "clear">>, <<"intr", "write">>>>
qdma_prog_intr_context == <<<<"intr", "write">>>>
qdma_intr_context_read == <<<<"intr", "read">>>>

\* The calls on a target.
Script(op, t) ==
  CASE t \in QTypes /\ op = "program" -> qdma_descq_context_program(t)
    [] t \in QTypes /\ op \in {"clear", "invalidate"} ->
         qdma_descq_context_clear(t, op)
    [] t \in QTypes /\ op = "read" -> qdma_descq_context_read(t)
    [] t \in QTypes /\ op = "dump" -> qdma_descq_context_dump(t)
    [] t = "intr" /\ op = "program" -> qdma_intr_context_setup
    [] t = "intr" /\ op = "write" -> qdma_prog_intr_context
    [] t = "intr" /\ op = "read" -> qdma_intr_context_read
    [] t = "fmap" /\ op \in {"write", "read", "clear"} -> <<<<"fmap", op>>>>

Ops(t) ==
  CASE t = "cmpt" /\ conf.st -> {}
    [] t \in QTypes /\ ~(t = "cmpt" /\ conf.st) ->
         {"program", "clear", "invalidate", "read", "dump"}
    [] t = "intr" -> IF conf.mode = "indirect"
                     THEN {"program", "write", "read"} ELSE {}
    [] t = "fmap" -> {"write", "read", "clear"}

IsWriter(op) == op \notin {"read", "dump"}

-----------------------------------------------------------------------------
(* Error codes: the access layer's number to the errno returned.             *)
EPERM == 1
EIO == 5
ENOMEM == 12
EBUSY == 16
EINVAL == 22

qdma_get_err_code(n) ==
  <<EINVAL, ENOMEM, EBUSY, EINVAL, EINVAL, EINVAL, EINVAL, EPERM, EINVAL,
    EPERM, EINVAL, EPERM, EPERM, EIO, EINVAL, EINVAL, EINVAL, EINVAL, EINVAL,
    EINVAL, EINVAL, EBUSY, EINVAL, EIO, EINVAL>>[n]

INV_PARAM == 1
BUSY_TIMEOUT == 3

-----------------------------------------------------------------------------
Idle ==
  [pc |-> "idle", op |-> None, t |-> None, tag |-> 0, todo |-> <<>>,
   got |-> <<>>, err |-> 0, clean |-> FALSE]

Init ==
  /\ conf \in Configs
  /\ store = [s \in Selectors |-> Cleared]
  /\ lock = None
  /\ cmd = [sel |-> None, op |-> None, busy |-> FALSE]
  /\ data = Cleared
  /\ entries = <<>>
  /\ thr = [th \in Threads |-> Idle]
  /\ calls = 0 /\ timeOuts = 0
  /\ last = [t \in Targets |-> [tag |-> 0, ok |-> TRUE]]
  /\ clobbered = FALSE /\ lost = {}

\* Threads that are changing the contexts of target t.
Writers(t) ==
  {th \in Threads : /\ thr[th].pc # "idle" /\ thr[th].t = t
                    /\ IsWriter(thr[th].op)}

\* The targets whose contexts a call reads.
Reads(op, t) ==
  {t} \cup IF op = "dump" /\ conf.mode = "indirect" THEN {"intr"} ELSE {}

\* f with the value of x set to v, x added if it is new.
Set(f, x, v) == [y \in DOMAIN f \cup {x} |-> IF y = x THEN v ELSE f[y]]

Item(th) == thr[th].todo[1]
NextItem(th) == Tail(thr[th].todo)

\* Threads are alike, so the next call is made by one fixed idle thread.
Caller == CHOOSE th \in Threads : thr[th].pc = "idle"

(* A thread begins a call.  Set-up and tear-down of one queue follow one     *)
(* another (the queue's state decides which is allowed); reads and dumps     *)
(* come at any time.                                                         *)
Begin(th, op, t) ==
  /\ thr[th].pc = "idle" /\ th = Caller /\ calls < MaxCalls
  /\ op \in Ops(t)
  /\ IsWriter(op) => Writers(t) = {}
  /\ calls' = calls + 1
  /\ thr' = [u \in Threads |->
       IF u = th
       THEN [Idle EXCEPT !.pc = "next", !.op = op, !.t = t,
                         !.tag = IF op \in {"program", "write"}
                                 THEN calls + 1 ELSE 0,
                         !.todo = Script(op, t),
                         !.clean = \A r \in Reads(op, t) :
                                      Writers(r) = {} /\ last[r].ok]
       ELSE [thr[u] EXCEPT !.clean =
               @ /\ ~(IsWriter(op) /\ t \in Reads(thr[u].op, thr[u].t))]]
  /\ UNCHANGED <<conf, store, lock, cmd, data, entries, timeOuts, last,
                 clobbered, lost>>

\* (mutant) writes the vector map without keeping the other half
WriteWhole(th) == Halves(thr[th].tag, thr[th].tag)

\* The value an access writes: the vector map keeps the other half.
WriteValue(th) ==
  LET c == thr[th] IN
    IF Item(th)[1] = "qid2vec" THEN [c.got["fetched"] EXCEPT ![c.t] = c.tag]
    ELSE Halves(c.tag, c.tag)

\* The direction whose half of the vector map a write puts back as it was
\* before that direction's own write.
Overwritten(th) ==
  IF Item(th)[1] # "qid2vec" THEN {}
  ELSE {d \in {"c2h", "h2c"} \ {thr[th].t} :
          store["FMAP"][d] # thr[th].got["fetched"][d]}

IsIndirect(th) ==
  /\ thr[th].pc = "next" /\ thr[th].todo # <<>>
  /\ Item(th)[2] \in {"read", "fetch", "write", "clear", "invalidate"}
  /\ Sel(Item(th)[1], thr[th].t) # "TRQ_FMAP"

Commanded(th) ==
  [sel |-> Sel(Item(th)[1], thr[th].t), op |-> Opcode(Item(th)[2]),
   busy |-> TRUE]

\* (mutant) lets the lock go once the command is written
LoadUnlocked(th) ==
  /\ IsIndirect(th) /\ lock = None
  /\ data' = IF Item(th)[2] = "write" THEN WriteValue(th) ELSE data
  /\ cmd' = Commanded(th)
  /\ thr' = [thr EXCEPT ![th].pc = "poll"]
  /\ UNCHANGED <<conf, store, lock, entries, calls, timeOuts, last, clobbered,
                 lost>>

(* qdma_reg_access_lock(), then for a write the data and mask registers,     *)
(* then the command register, whereupon the hardware starts.  With no        *)
(* command pending nothing happens between the register writes, so they are  *)
(* one step.                                                                 *)
Load(th) ==
  /\ IsIndirect(th) /\ lock = None
  /\ lock' = th
  /\ IF Item(th)[2] = "write"
     THEN /\ data' = WriteValue(th)
          /\ clobbered' = (clobbered \/ cmd.busy)
          /\ lost' = lost \cup Overwritten(th)
     ELSE UNCHANGED <<data, clobbered, lost>>
  /\ \/ /\ cmd.busy
        /\ thr' = [thr EXCEPT ![th].pc = "command"]
        /\ UNCHANGED cmd
     \/ /\ ~cmd.busy
        /\ thr' = [thr EXCEPT ![th].pc = "poll"]
        /\ cmd' = Commanded(th)
  /\ UNCHANGED <<conf, store, entries, calls, timeOuts, last>>

(* The command register is written after a late command was found pending.   *)
Command(th) ==
  /\ thr[th].pc = "command"
  /\ cmd' = Commanded(th)
  /\ clobbered' = (clobbered \/ cmd.busy)
  /\ thr' = [thr EXCEPT ![th].pc = "poll"]
  /\ UNCHANGED <<conf, store, lock, data, entries, calls, timeOuts, last, lost>>

(* The hardware carries the pending command out on the registers as they     *)
(* are now.                                                                  *)
Execute ==
  /\ cmd.busy
  /\ cmd' = [cmd EXCEPT !.busy = FALSE]
  /\ CASE cmd.op = "WR" -> /\ store' = [store EXCEPT ![cmd.sel] = data]
                            /\ UNCHANGED data
       [] cmd.op = "RD" -> /\ data' = store[cmd.sel]
                            /\ UNCHANGED store
       [] OTHER          -> /\ store' = [store EXCEPT ![cmd.sel] = Cleared]
                            /\ UNCHANGED data
  /\ UNCHANGED <<conf, lock, entries, thr, calls, timeOuts, last, clobbered,
                 lost>>

\* The name under which the value of a read is kept.
GotName(th) == IF Item(th)[2] = "fetch" THEN "fetched" ELSE Item(th)[1]

(* hw_monitor_reg() finds the busy bit clear; a read takes the data, the     *)
(* lock is released.                                                         *)
Done(th) ==
  /\ thr[th].pc = "poll" /\ ~cmd.busy
  /\ lock' = None
  /\ LET op == Item(th)[2] IN
       thr' = [thr EXCEPT ![th].pc = "next", ![th].todo = NextItem(th),
                          ![th].got = IF op \in {"read", "fetch"}
                                      THEN Set(@, GotName(th), data) ELSE @]
  /\ UNCHANGED <<conf, store, cmd, data, entries, calls, timeOuts, last,
                 clobbered>>
  /\ lost' = IF Item(th) = <<"qid2vec", "write">>
             THEN lost \ {thr[th].t} ELSE lost

\* The code a call returns when an access fails with n: the errors of the
\* clear inside qdma_descq_context_program() are mapped twice.
Returned(th, n) ==
  LET code == qdma_get_err_code(n) IN
    IF thr[th].op = "program" /\ thr[th].t \in QTypes /\ Item(th)[2] = "clear"
    THEN qdma_get_err_code(code) ELSE code

\* (mutant) leaves with the lock held when the poll times out
TimeOutLocked(th) ==
  /\ thr[th].pc = "poll" /\ cmd.busy /\ timeOuts < MaxTimeOuts
  /\ timeOuts' = timeOuts + 1
  /\ thr' = [thr EXCEPT ![th].pc = "next", ![th].todo = <<>>,
                        ![th].err = Returned(th, BUSY_TIMEOUT)]
  /\ UNCHANGED <<conf, store, lock, cmd, data, entries, calls, last, clobbered,
                 lost>>

(* The poll times out: the lock is released, the command stays pending.      *)
(* The call fails, except that qdma_descq_context_program() does not look    *)
(* at what writing the vector map returned.                                  *)
TimeOut(th) ==
  /\ thr[th].pc = "poll" /\ cmd.busy /\ timeOuts < MaxTimeOuts
  /\ timeOuts' = timeOuts + 1
  /\ lock' = None
  /\ IF Item(th)[1] = "qid2vec" /\ Item(th)[2] \in {"fetch", "write"}
     THEN /\ thr' = [thr EXCEPT ![th].pc = "next",
                ![th].todo = IF Item(th)[2] = "fetch" THEN Tail(NextItem(th))
                             ELSE NextItem(th)]
          /\ lost' = lost \cup {thr[th].t}
     ELSE /\ thr' = [thr EXCEPT ![th].pc = "next", ![th].todo = <<>>,
                                ![th].err = Returned(th, BUSY_TIMEOUT)]
          /\ UNCHANGED lost
  /\ UNCHANGED <<conf, store, cmd, data, entries, calls, last, clobbered>>

(* The Versal variant's function map is a register of its own.               *)
DirectAccess(th) ==
  /\ thr[th].pc = "next" /\ thr[th].todo # <<>>
  /\ Item(th)[1] = "fmap" /\ Sel("fmap", "fmap") = "TRQ_FMAP"
  /\ LET op == Item(th)[2]
         v == IF op = "write" THEN thr[th].tag ELSE 0 IN
       /\ store' = IF op = "read" THEN store
                   ELSE [store EXCEPT !["TRQ_FMAP"] = Halves(v, v)]
       /\ thr' = [thr EXCEPT ![th].todo = NextItem(th),
                             ![th].got = IF op = "read"
                                         THEN Set(@, "fmap", store["TRQ_FMAP"])
                                         ELSE @]
  /\ UNCHANGED <<conf, lock, cmd, data, entries, calls, timeOuts, last,
                 clobbered, lost>>

\* The contexts of one item of a dump.
Shown(th) ==
  IF Item(th)[1] = "intr" THEN {"intr"} ELSE DOMAIN thr[th].got \ {"intr"}

(* xxx_fill_xxx_ctxt(): what was read goes into the static tables.           *)
Fill(th) ==
  /\ thr[th].pc = "next" /\ thr[th].todo # <<>> /\ Item(th)[2] = "fill"
  /\ entries' = [c \in DOMAIN entries \cup Shown(th) |->
                   IF c \in Shown(th) THEN thr[th].got[c] ELSE entries[c]]
  /\ thr' = [u \in Threads |->
       IF u = th THEN [thr[u] EXCEPT !.todo = NextItem(th)]
       ELSE [thr[u] EXCEPT !.clean =
               @ /\ (thr[u].todo = <<>> \/ Item(u) # <<Item(th)[1], "print">>)]]
  /\ UNCHANGED <<conf, store, lock, cmd, data, calls, timeOuts, last, clobbered,
                 lost>>

(* dump_xxx_context(): the tables are printed; s80 refuses some.             *)
PrintTables(th) ==
  /\ thr[th].pc = "next" /\ thr[th].todo # <<>>
  /\ \/ /\ Item(th)[2] = "print"
        /\ thr' = [thr EXCEPT ![th].todo = NextItem(th),
             ![th].got = [c \in DOMAIN @ |->
                            IF c \in Shown(th) THEN entries[c] ELSE @[c]]]
     \/ /\ Item(th)[2] = "reject"
        /\ thr' = [thr EXCEPT ![th].todo = <<>>,
                              ![th].err = qdma_get_err_code(INV_PARAM)]
  /\ UNCHANGED <<conf, store, lock, cmd, data, entries, calls, timeOuts, last,
                 clobbered, lost>>

(* The call returns.                                                         *)
Return(th) ==
  /\ thr[th].pc = "next" /\ thr[th].todo = <<>>
  /\ thr' = [thr EXCEPT ![th] = Idle]
  /\ last' = IF IsWriter(thr[th].op)
             THEN [last EXCEPT ![thr[th].t] = [tag |-> thr[th].tag,
                                               ok |-> thr[th].err = 0]]
             ELSE last
  /\ UNCHANGED <<conf, store, lock, cmd, data, entries, calls, timeOuts,
                 clobbered, lost>>

(* The hardware runs an enabled queue: its hardware and credit contexts are  *)
(* then those of that use of the queue.                                      *)
Run(t) ==
  /\ t \in {"h2c", "c2h"}
  /\ LET sw == store[Sel("sw", t)] IN
       /\ sw # Cleared /\ store[Sel("hw", t)] # sw
       /\ store' = [store EXCEPT ![Sel("hw", t)] = sw, ![Sel("credit", t)] = sw]
  /\ UNCHANGED <<conf, lock, cmd, data, entries, thr, calls, timeOuts, last,
                 clobbered, lost>>

Step(th) ==
  \/ Load(th) \/ Command(th) \/ Done(th) \/ DirectAccess(th) \/ Fill(th)
  \/ PrintTables(th) \/ Return(th)

Next ==
  \/ \E th \in Threads, t \in Targets,
        op \in {"program", "clear", "invalidate", "write", "read", "dump"} :
       Begin(th, op, t)
  \/ \E th \in Threads :
       \/ Load(th) \/ Command(th) \/ Done(th) \/ TimeOut(th)
       \/ DirectAccess(th) \/ Fill(th) \/ PrintTables(th) \/ Return(th)
  \/ Execute
  \/ \E t \in {"h2c", "c2h"} : Run(t)

Spec == Init /\ [][Next]_vars

(* The hardware finishes the command it has; a thread in a call goes on; a   *)
(* thread that spins on hw_prg_lock gets it when it keeps becoming free.     *)
FairSpec ==
  /\ Spec
  /\ WF_vars(Execute)
  /\ \A th \in Threads : WF_vars(Step(th)) /\ SF_vars(Load(th))

-----------------------------------------------------------------------------
(* Properties.                                                               *)

\* The contexts a target's set-up writes.
Held(t) ==
  CASE t = "intr" -> {"intr"}
    [] t = "fmap" -> {"fmap"}
    [] t \in QTypes -> (IF t # "cmpt" THEN {"sw"} ELSE {})
                        \cup (IF HasPfetch(t) THEN {"pfetch"} ELSE {})
                        \cup (IF HasCmpt(t) THEN {"cmpt"} ELSE {})

\* The direction's half of the vector map is the one its last set-up wrote.
VectorKept(t, map) ==
  t \in {"h2c", "c2h"} /\ UsesQid2vec /\ last[t].tag # 0 /\ t \notin lost
    => map[t] = last[t].tag

\* The fields the reads are known to take from the wrong bits.
Misread(ip, c) ==
  CASE ip = "eqdma" /\ c = "sw"   -> {"virtio_dsc_base"}
    [] ip = "eqdma" /\ c = "intr" -> {"pasid"}
    [] ip = "eqdma" /\ c = "hw"   -> {"fetch_pnd"}
    [] OTHER -> {}

(* In every context every field is read from the register bits it is         *)
(* written to (the read-only contexts: the bits the register description     *)
(* gives it), but for the three fields the EQDMA variant misreads: the top   *)
(* of virtio_dsc_base, one bit of an interrupt ring's pasid and fetch_pnd;   *)
(* and no two fields share a bit.                                            *)
LayoutsMatch ==
  /\ \A c \in DOMAIN Misplaced[conf.ip] :
       Misplaced[conf.ip][c] = Misread(conf.ip, c)
  /\ Overlapping[conf.ip] = {}

(* What a dump prints: each table's values fill exactly its labels; every    *)
(* value shown is one the read set, but for evt_pnd, which the Versal        *)
(* variant shows and never reads; and every table and line fits the least    *)
(* buffer that xxx_context_buf_len() lets through.                           *)
DumpComplete ==
  /\ Unequal[conf.ip] = {}
  /\ NeverRead[conf.ip] = IF conf.ip = "s80" THEN {"evt_pnd"} ELSE {}
  /\ Truncated[conf.ip] = {}

\* The tables of register fields are right: what is written is read back from the same bits,
\* and a dump shows all of it, within its buffer.
LayoutsSound == LayoutsMatch /\ DumpComplete

(* Once a call that set up, cleared or invalidated a queue's contexts has    *)
(* returned without error, the hardware holds for every one of them what     *)
(* that call wrote, whatever other threads did through the same indirect     *)
(* registers meanwhile.  Two cases are left out: registers written over a    *)
(* command that had timed out but was still pending (clobbered), and a       *)
(* vector map whose other half was read and written back around this         *)
(* direction's own write, or whose write failed unnoticed (lost).            *)
ContextsKept ==
  \A t \in Targets :
    Ops(t) # {} /\ Writers(t) = {} /\ last[t].ok /\ ~clobbered =>
      /\ \A c \in Held(t) : store[Sel(c, t)] = Halves(last[t].tag, last[t].tag)
      /\ VectorKept(t, store["FMAP"])

(* A queue never runs on the hardware state of an earlier use of its queue   *)
(* id: while its software context is that of one set-up, its hardware and    *)
(* credit contexts are cleared or of that same set-up.  It rests on the      *)
(* software context, which enables the queue, being cleared first and        *)
(* written after all others were cleared.                                    *)
FreshStart ==
  \A t \in {"h2c", "c2h"} :
    LET sw == store[Sel("sw", t)] IN
      sw # Cleared /\ ~clobbered =>
        {store[Sel("hw", t)], store[Sel("credit", t)]} \subseteq {Cleared, sw}

(* A read or a dump that returns without error, and during which no call    *)
(* changed what it reads, returns the contexts as they were last written -   *)
(* although every value passes through data registers shared by all calls    *)
(* and, for a dump, through tables shared by all dumps (a dump whose tables  *)
(* another dump filled before it printed them is left out).                  *)
ReadBack ==
  \A th \in Threads :
    LET c == thr[th] IN
      /\ c.pc = "next" /\ c.todo = <<>> /\ c.err = 0 /\ c.clean
      /\ ~IsWriter(c.op) /\ ~clobbered
      => /\ \A x \in DOMAIN c.got \cap (Held(c.t) \cup {"intr"}) :
              LET v == last[IF x = "intr" THEN x ELSE c.t].tag IN
                c.got[x] = Halves(v, v)
         /\ "qid2vec" \in DOMAIN c.got => VectorKept(c.t, c.got["qid2vec"])

(* Every call returns: no thread is left spinning on hw_prg_lock, not even   *)
(* after another's poll timed out.  (Calls are bounded, so that every call   *)
(* returns is that in the end no thread is in one.)                          *)
CallsReturn == <>[](\A th \in Threads : thr[th].pc = "idle")
=============================================================================
