------------------------------ MODULE HwErrors ------------------------------
(***************************************************************************)
(* Hardware errors of the DMA engine: the enabling of the leaf and global  *)
(* error masks (xxx_hw_error_enable()), the reading, naming and clearing   *)
(* of the status registers (xxx_hw_error_process()), and the two users of  *)
(* it: the delayed work qdma_err_mon() of poll mode, with its start in     *)
(* qdma_device_online() and its cancellation in qdma_device_offline(), and *)
(* error_intr_handler() of the interrupt modes, which re-arms the          *)
(* interrupt.  A device is driven in one of the two modes.                 *)
(*                                                                         *)
(* The registers are external: an error sets its leaf status bit; if the   *)
(* leaf mask and the global mask let it through it also sets the global    *)
(* bit of its aggregator; writing ones to a status register clears them;   *)
(* an armed interrupt fires while a global bit is set and disarms itself.  *)
(***************************************************************************)
EXTENDS HwErrorTables, FiniteSets

CONSTANTS
  MaxRaise,   \* how many errors the hardware raises
  Probed      \* the position in a group of the errors raised more than once

ASSUME RaiseAssumption == MaxRaise \in Nat \ {0} /\ Probed \in Nat \ {0}

VARIABLES
  ip,       \* the access layer in use: "eqdma", "soft" or "s80"
  st_en,    \* dev_cap.st_en: the bitstream has a streaming engine
  mode,     \* "poll" or "intr": xdev->conf.qdma_drv_mode
  mask,     \* the leaf mask registers
  gmask,    \* the global mask register
  stat,     \* the leaf status registers
  gstat,    \* the global status register
  armed,    \* the arm bit of the error interrupt
  run,      \* the running hw_error_process(): its step, group, values read
  work,     \* the delayed work of qdma_err_mon()
  err_lock, \* the holder of xdev->err_lock
  err_mon_cancel,
  dev,      \* how far the device is with coming up or going down
  raised,   \* ghost: <<group, error, bit>> still set in a leaf register
  excused,  \* ghost: <<group, bit>> whose raise left no global bit behind
  left      \* errors the hardware may still raise

hw     == <<mask, gmask, stat, gstat, armed>>
ghosts == <<raised, excused, left>>
vars   == <<ip, st_en, mode, hw, run, work, err_lock, err_mon_cancel, dev,
            ghosts>>

Errs == CASE ip = "eqdma" -> EqdmaErrs
          [] ip = "soft"  -> SoftErrs
          [] ip = "s80"   -> S80Errs

(* The groups whose registers the bitstream has. *)
Present == {g \in DOMAIN Errs : st_en \/ ~Errs[g].st}

Idle == [pc |-> "idle", i |-> 0, seen |-> {}, err_stat |-> {}, named |-> {}]

(* Nothing is enabled before qdma_device_online(). *)
Init ==
  /\ ip \in {"eqdma", "soft", "s80"} /\ st_en \in BOOLEAN
  /\ mode \in {"poll", "intr"}
  /\ mask = [g \in DOMAIN Errs |-> {}] /\ gmask = {}
  /\ stat = [g \in DOMAIN Errs |-> {}] /\ gstat = {}
  /\ armed = FALSE /\ run = Idle
  /\ work = "none" /\ err_lock = "free" /\ err_mon_cancel = FALSE
  /\ dev = "off"
  /\ raised = {} /\ excused = {} /\ left = MaxRaise
-----------------------------------------------------------------------------
(* The hardware.                                                           *)

(* The running process has read group g, and will clear its global bit.    *)
Passed(g) ==
  /\ \/ run.pc \in {"leaf", "clear"} /\ g < run.i
     \/ run.pc = "clear" /\ g = run.i
     \/ run.pc = "glbl"
  /\ Errs[g].glbl \in run.seen

(* Error k of group g is raised through bit b of its mask.                 *)
RaiseBit(g, k, b) ==
  LET through == b \in mask[g] /\ Errs[g].glbl \in gmask IN
  /\ stat' = [stat EXCEPT ![g] = @ \cup {b}]
  /\ gstat' = IF through THEN gstat \cup {Errs[g].glbl} ELSE gstat
  /\ raised' = raised \cup {<<g, k, b>>}
  /\ excused' = IF through /\ ~Passed(g) THEN excused \ {<<g, b>>}
                                         ELSE excused \cup {<<g, b>>}
  /\ UNCHANGED <<ip, st_en, mode, mask, gmask, armed, run, work, err_lock,
                 err_mon_cancel, dev>>

(* Any listed error once, or the probed ones up to MaxRaise times.         *)
Raise ==
  \E g \in Present : \E k \in DOMAIN Errs[g].errs :
    \E b \in Errs[g].errs[k] :
      /\ RaiseBit(g, k, b)
      /\ \/ left = MaxRaise /\ left' = 0
         \/ left > 0 /\ k = Probed /\ left' = left - 1

(* The interrupt fires: error_intr_handler() starts.                       *)
Fire ==
  /\ armed /\ gstat # {} /\ run.pc = "idle" /\ mode = "intr"
  /\ armed' = FALSE
  /\ run' = [Idle EXCEPT !.pc = "start"]
  /\ UNCHANGED <<ip, st_en, mode, mask, gmask, stat, gstat, work, err_lock,
                 err_mon_cancel, dev, ghosts>>
-----------------------------------------------------------------------------
(* hw_error_enable(QDMA_ERRS_ALL): every group's ..._ERR_ALL mask goes to   *)
(* its leaf mask register and its bit into the global mask.               *)
EnableTo(table) ==
  /\ mask' = [g \in DOMAIN table |->
                IF g \in Present THEN table[g].all ELSE mask[g]]
  /\ gmask' = gmask \cup {table[g].glbl : g \in Present}

eqdma_hw_error_enable == ip = "eqdma" /\ EnableTo(EqdmaErrs)

qdma_hw_error_enable == ip = "soft" /\ EnableTo(SoftErrs)

qdma_s80_hard_hw_error_enable == ip = "s80" /\ EnableTo(S80Errs)

hw_error_enable ==
  \/ eqdma_hw_error_enable
  \/ qdma_hw_error_enable
  \/ qdma_s80_hard_hw_error_enable

(* qdma_device_interrupt_setup() of the master PF, or the start of the     *)
(* monitor in qdma_device_online().                                        *)
qdma_device_online ==
  /\ dev = "off" /\ run.pc = "idle"
  /\ hw_error_enable
  /\ \/ /\ mode = "intr" /\ armed' = TRUE
        /\ UNCHANGED <<work, err_lock, err_mon_cancel>>
     \/ /\ mode = "poll" /\ work' = "queued"
        /\ err_lock' = "free" /\ err_mon_cancel' = FALSE
        /\ UNCHANGED armed
  /\ dev' = "on"
  /\ UNCHANGED <<ip, st_en, mode, stat, gstat, run, ghosts>>

(* hw_error_process(): the global register is read; nothing set ends it.   *)
ReadGlobal ==
  /\ run.pc = "start"
  /\ run' = IF gstat = {} THEN [run EXCEPT !.pc = "done"]
            ELSE [run EXCEPT !.pc = "leaf", !.i = 1, !.seen = gstat]
  /\ UNCHANGED <<ip, st_en, mode, hw, work, err_lock, err_mon_cancel, dev,
                 ghosts>>

(* The walk goes on with the next aggregator, or with the global register. *)
Onward(r, table) ==
  IF r.i = Len(table) THEN [r EXCEPT !.pc = "glbl", !.err_stat = {}]
  ELSE [r EXCEPT !.pc = "leaf", !.i = @ + 1, !.err_stat = {}]

(* (mutant) The names start one entry late.                                *)
NamesLate(table, g, bits) ==
  {k \in 2 .. Len(table[g].errs) : table[g].errs[k] \cap bits # {}}

(* The errors hw_error_process() reports for the value of a leaf register. *)
Names(table, g, bits) ==
  {k \in DOMAIN table[g].errs : table[g].errs[k] \cap bits # {}}

(* One aggregator: skipped when absent or clear, else read, its debug      *)
(* registers dumped and its errors named, ...                              *)
ReadLeaf(table) ==
  /\ run.pc = "leaf"
  /\ run' = IF run.i \notin Present \/ stat[run.i] = {}
            THEN Onward(run, table)
            ELSE [run EXCEPT !.pc = "clear", !.err_stat = stat[run.i],
                             !.named = Names(table, run.i, stat[run.i])]
  /\ UNCHANGED <<ip, st_en, mode, hw, work, err_lock, err_mon_cancel, dev,
                 ghosts>>

(* ... and what was read is written back to clear it.                      *)
ClearLeaf(table) ==
  /\ run.pc = "clear"
  /\ stat' = [stat EXCEPT ![run.i] = @ \ run.err_stat]
  /\ raised' = {r \in raised : r[1] # run.i \/ r[3] \notin run.err_stat}
  /\ excused' = {r \in excused : r[1] # run.i \/ r[2] \notin run.err_stat}
  /\ run' = [Onward(run, table) EXCEPT !.named = {}]
  /\ UNCHANGED <<ip, st_en, mode, mask, gmask, gstat, armed, work, err_lock,
                 err_mon_cancel, dev, left>>

eqdma_hw_error_process ==
  ip = "eqdma" /\ (ReadLeaf(EqdmaErrs) \/ ClearLeaf(EqdmaErrs))

qdma_hw_error_process ==
  ip = "soft" /\ (ReadLeaf(SoftErrs) \/ ClearLeaf(SoftErrs))

qdma_s80_hard_hw_error_process ==
  ip = "s80" /\ (ReadLeaf(S80Errs) \/ ClearLeaf(S80Errs))

(* (mutant) Every global bit is cleared, not only the ones read.           *)
ClearAllGlobal ==
  /\ run.pc = "glbl"
  /\ gstat' = {}
  /\ run' = [run EXCEPT !.pc = "done"]
  /\ UNCHANGED <<ip, st_en, mode, mask, gmask, stat, armed, work, err_lock,
                 err_mon_cancel, dev, ghosts>>

(* The global bits read at the start are cleared.                          *)
ClearGlobal ==
  /\ run.pc = "glbl"
  /\ gstat' = gstat \ run.seen
  /\ run' = [run EXCEPT !.pc = "done"]
  /\ UNCHANGED <<ip, st_en, mode, mask, gmask, stat, armed, work, err_lock,
                 err_mon_cancel, dev, ghosts>>

(* (mutant) The handler returns without re-arming.                         *)
HandlerForgets ==
  /\ mode = "intr" /\ run.pc = "done"
  /\ run' = Idle
  /\ UNCHANGED <<ip, st_en, mode, hw, work, err_lock, err_mon_cancel, dev,
                 ghosts>>

(* error_intr_handler(): qdma_hw_error_intr_rearm(), and return.           *)
error_intr_handler ==
  /\ mode = "intr" /\ run.pc = "done"
  /\ armed' = TRUE
  /\ run' = Idle
  /\ UNCHANGED <<ip, st_en, mode, mask, gmask, stat, gstat, work, err_lock,
                 err_mon_cancel, dev, ghosts>>

(* qdma_err_mon(): the timer runs out and the work waits for err_lock.     *)
MonStart ==
  /\ work = "queued"
  /\ work' = "spin"
  /\ UNCHANGED <<ip, st_en, mode, hw, run, err_lock, err_mon_cancel, dev,
                 ghosts>>

(* It has the lock: cancelled, it lets go and is not queued again.         *)
MonLock ==
  /\ work = "spin" /\ err_lock = "free"
  /\ \/ err_mon_cancel /\ work' = "none" /\ UNCHANGED <<err_lock, run>>
     \/ /\ ~err_mon_cancel
        /\ work' = "locked" /\ err_lock' = "work"
        /\ run' = [Idle EXCEPT !.pc = "start"]
  /\ UNCHANGED <<ip, st_en, mode, hw, err_mon_cancel, dev, ghosts>>

(* It schedules itself again after a second, and unlocks.                  *)
MonDone ==
  /\ mode = "poll" /\ work = "locked" /\ run.pc = "done"
  /\ work' = "queued" /\ err_lock' = "free"
  /\ run' = Idle
  /\ UNCHANGED <<ip, st_en, mode, hw, err_mon_cancel, dev, ghosts>>

(* qdma_device_offline(): under err_lock the monitor is marked cancelled.  *)
OfflineCall ==
  /\ dev = "on" /\ mode = "poll"
  /\ dev' = "want"
  /\ UNCHANGED <<ip, st_en, mode, hw, run, work, err_lock, err_mon_cancel,
                 ghosts>>

OfflineLock ==
  /\ dev = "want" /\ err_lock = "free"
  /\ err_lock' = "offline" /\ err_mon_cancel' = TRUE
  /\ dev' = "sync"
  /\ UNCHANGED <<ip, st_en, mode, hw, run, work, ghosts>>

(* cancel_delayed_work_sync(), still under the lock: queued work is taken  *)
(* off the timer, running work is waited for.                              *)
OfflineSync ==
  /\ dev = "sync" /\ work \in {"queued", "none"}
  /\ work' = "none" /\ err_lock' = "free" /\ dev' = "off"
  /\ UNCHANGED <<ip, st_en, mode, hw, run, err_mon_cancel, ghosts>>

Handler ==
  \/ ReadGlobal
  \/ eqdma_hw_error_process
  \/ qdma_hw_error_process
  \/ qdma_s80_hard_hw_error_process
  \/ ClearGlobal
  \/ error_intr_handler
  \/ Fire
  \/ MonStart \/ MonLock \/ MonDone

Next ==
  \/ Raise
  \/ qdma_device_online
  \/ OfflineCall \/ OfflineLock \/ OfflineSync
  \/ Handler

(* The timer, the interrupt and the handlers run on, and a spinning thread *)
(* gets a lock that keeps coming free (the kernel's spinlocks are fair);   *)
(* errors and going up or down are the environment's choice.               *)
Spec ==
  /\ Init /\ [][Next]_vars
  /\ WF_vars(Handler) /\ SF_vars(OfflineLock) /\ WF_vars(OfflineSync)
-----------------------------------------------------------------------------
(* An error set in a leaf register has its global bit set, so that the     *)
(* next round of the process finds it; the only exceptions are errors that *)
(* the masks held back and errors raised in the window after the process   *)
(* read their group and before it cleared the global bit they share.       *)
NoErrorLost ==
  \A g \in DOMAIN Errs : \A b \in stat[g] :
    <<g, b>> \in excused \/ Errs[g].glbl \in gstat

(* Two entries of these groups have the same bit in the tables.            *)
Twin(g) == CASE ip = "eqdma" /\ g = 8 -> {4, 5}
             [] ip = "s80" /\ g = 3 -> {8, 9}
             [] OTHER -> {}

(* hw_error_process() reports exactly the errors that were raised, but for *)
(* the twins, which are always reported together.                          *)
NamedRight ==
  run.pc = "clear" =>
    LET truly == {r[2] : r \in {x \in raised : x[1] = run.i
                                               /\ x[3] \in run.err_stat}}
    IN  /\ truly \subseteq run.named
        /\ run.named \ truly \subseteq
             IF truly \cap Twin(run.i) = {} THEN {} ELSE Twin(run.i)

(* The bits of listed errors that no ..._ERR_ALL mask holds.               *)
NeverEnabled == CASE ip = "eqdma" -> {<<2, 3>>, <<3, 18>>} \cup ({4} \X (5 .. 7))
                  [] ip = "s80" -> {<<2, 2>>, <<2, 3>>, <<4, 13>>}
                                   \cup ({4} \X (5 .. 7))
                  [] ip = "soft" -> {}

(* Once the device is up every listed error of the bitstream is let        *)
(* through to the global register, but for the bits above.                 *)
ErrorsEnabled ==
  dev = "on" =>
    \A g \in Present : \A k \in DOMAIN Errs[g].errs :
      \A b \in Errs[g].errs[k] :
        \/ b \in mask[g] /\ Errs[g].glbl \in gmask
        \/ <<g, b>> \in NeverEnabled

\* The tables of errors are right, with two exceptions: every error but those no mask holds
\* (NeverEnabled) is let through to the interrupt, and reported under its own name or, where two
\* share a bit, under both (Twin).
ErrorTablesRight == NamedRight /\ ErrorsEnabled

Pending == \E g \in DOMAIN Errs : \E b \in stat[g] : <<g, b>> \notin excused

(* Every error that is not excused is read, reported and cleared, unless   *)
(* the device is taken down.                                               *)
ErrorReported == Pending ~> (~Pending \/ dev # "on")

(* xdev.c: "Canceling the error poll thread which was started in the poll  *)
(* mode": going offline comes to an end.                                   *)
OfflineReturns == dev = "want" ~> dev = "off"
=============================================================================
