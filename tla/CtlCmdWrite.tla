---------------------------- MODULE CtlCmdWrite ----------------------------
(***************************************************************************)
(* How the words of a compute command get from the host's AXI-Lite bus     *)
(* into the command FIFO: the write half of control_command_processor.sv,  *)
(* cycle by cycle of axil_aclk, with the FIFO's writer side.               *)
(*                                                                         *)
(* issue_ctl_cmd() writes one word after the other to the same register.   *)
(* The bus master that carries the writes is external: it issues one write *)
(* at a time, keeps valid up until ready, and may present the data with    *)
(* the address or later.  Its bready is either always up or up only while  *)
(* it waits for an answer and sees one, as the master of the test bench    *)
(* does (sim/src/axil_reg_control.sv).                                     *)
(***************************************************************************)
EXTENDS AsyncFifo, FiniteSets

CONSTANTS
    BReadyModes,  \* TRUE: the master keeps bready up all the time
    MaxWords      \* bound: writes of the host to CTL_CMD

ASSUME WriteAssumption == BReadyModes \in (SUBSET BOOLEAN) \ {{}} /\ MaxWords \in Nat

VARIABLES
    axil_write_state,
    awready, wready, bvalid,   \* s_axil_awready, s_axil_wready, s_axil_bvalid
    awaddr,                    \* the latched address
    ctl_cmd_data, ctl_cmd_wr_en,
    ctl_cmd_afifo,             \* the command FIFO
    ctl_cmd_wr_rst_busy,       \* the FIFO's writer side is still in reset
    held, m,                   \* the bus master: its mode, and its write
    issued,                    \* words the host has begun to write to CTL_CMD
    acked,                     \* words whose write has been answered
    popped,                    \* words read from the FIFO
    lost,                      \* a word was offered to the FIFO in reset
    spurious                   \* the master took an answer to no write

slave == <<axil_write_state, awready, wready, bvalid, awaddr, ctl_cmd_data,
           ctl_cmd_wr_en>>
master == <<held, m, issued, acked, spurious>>
ctlVars == <<axil_write_state, awready, wready, bvalid, awaddr, ctl_cmd_data,
           ctl_cmd_wr_en, ctl_cmd_afifo, ctl_cmd_wr_rst_busy, held, m, issued,
           acked, popped, lost, spurious>>

Addrs == {"CTL_CMD", "TEMPLATE_REG"}

\* The master between two writes
Quiet == [aw |-> FALSE, w |-> "none", b |-> FALSE, addr |-> "CTL_CMD"]

CtlInit ==
    /\ axil_write_state = "IDLE"
    /\ awready = TRUE /\ wready = FALSE /\ bvalid = FALSE
    /\ awaddr = "none" /\ ctl_cmd_data = 0 /\ ctl_cmd_wr_en = FALSE
    /\ ctl_cmd_afifo = EmptyFifo
    /\ ctl_cmd_wr_rst_busy = TRUE
    /\ held \in BReadyModes /\ m = Quiet /\ issued = 0 /\ acked = 0 /\ popped = 0
    /\ lost = FALSE /\ spurious = FALSE

-----------------------------------------------------------------------------
(***************************************************************************)
(* The bus master (external).                                              *)
(***************************************************************************)
bready == held \/ (m.b /\ ~m.aw /\ m.w = "none" /\ bvalid)
wvalid == m.w = "valid"

\* A new write: address and data together, or the data later
Issue ==
    /\ m = Quiet
    /\ \E a \in Addrs, w \in {"valid", "later"} :
          /\ a = "CTL_CMD" => issued < MaxWords
          /\ m' = [aw |-> TRUE, w |-> w, b |-> TRUE, addr |-> a]
          /\ issued' = IF a = "CTL_CMD" THEN issued + 1 ELSE issued
    /\ spurious' = (spurious \/ (bvalid /\ bready))
    /\ UNCHANGED acked

\* One cycle of a write in progress, or of none
Continue ==
    /\ LET answered == m.b /\ ~m.aw /\ m.w = "none" /\ bvalid /\ bready IN
       \/ /\ answered
          /\ m' = Quiet
          /\ acked' = IF m.addr = "CTL_CMD" THEN acked + 1 ELSE acked
          /\ UNCHANGED spurious
       \/ /\ ~answered
          /\ \E w \in IF m.w = "later" THEN {"later", "valid"}
                      ELSE {IF wvalid /\ wready THEN "none" ELSE m.w} :
                m' = [m EXCEPT !.aw = @ /\ ~awready, !.w = w]
          /\ spurious' = (spurious \/ (bvalid /\ bready))
          /\ UNCHANGED acked
    /\ UNCHANGED issued

-----------------------------------------------------------------------------
(***************************************************************************)
(* The write state machine, one action per branch.  What a cycle does with *)
(* a word for the FIFO: offer it if there is room, or wait.                *)
(***************************************************************************)
Blocked == full(ctl_cmd_afifo) \/ ctl_cmd_wr_rst_busy
BlockedNever == FALSE                                         \* (mutant)
BlockedInWait == Blocked

OfferAlways(blocked) ==                                       \* (mutant)
    /\ ctl_cmd_data' = issued
    /\ ctl_cmd_wr_en' = TRUE
    /\ axil_write_state' = "RESP"
OfferOrDrop(blocked) ==                                       \* (mutant)
    /\ ctl_cmd_data' = issued
    /\ ctl_cmd_wr_en' = ~blocked
    /\ axil_write_state' = "RESP"
Offer(blocked) ==
    /\ ctl_cmd_data' = issued
    /\ ctl_cmd_wr_en' = ~blocked
    /\ axil_write_state' = IF blocked THEN "WAIT" ELSE "RESP"

IdleNone ==
    /\ axil_write_state = "IDLE" /\ ~(m.aw /\ awready)
    /\ bvalid' = FALSE /\ ctl_cmd_wr_en' = FALSE
    /\ UNCHANGED <<axil_write_state, awready, wready, awaddr, ctl_cmd_data>>

IdleWrite ==
    /\ axil_write_state = "IDLE" /\ m.aw /\ awready /\ wvalid
    /\ bvalid' = FALSE /\ awready' = FALSE /\ awaddr' = m.addr
    /\ \/ /\ m.addr = "CTL_CMD"
          /\ Offer(Blocked)
          /\ wready' = ~wready
       \/ /\ m.addr = "TEMPLATE_REG"
          /\ axil_write_state' = "RESP"
          /\ wready' = TRUE /\ ctl_cmd_wr_en' = FALSE
          /\ UNCHANGED ctl_cmd_data

IdleAddr ==
    /\ axil_write_state = "IDLE" /\ m.aw /\ awready /\ ~wvalid
    /\ bvalid' = FALSE /\ awready' = FALSE /\ awaddr' = m.addr
    /\ wready' = TRUE /\ ctl_cmd_wr_en' = FALSE
    /\ axil_write_state' = "WREADY"
    /\ UNCHANGED ctl_cmd_data

\* Here only the full flag is looked at.
Wready ==
    /\ axil_write_state = "WREADY"
    /\ \/ /\ wvalid /\ awaddr = "CTL_CMD"
          /\ wready' = FALSE
          /\ Offer(full(ctl_cmd_afifo))
       \/ /\ wvalid /\ awaddr # "CTL_CMD"
          /\ wready' = FALSE
          /\ axil_write_state' = "RESP" /\ ctl_cmd_wr_en' = FALSE
          /\ UNCHANGED ctl_cmd_data
       \/ /\ ~wvalid
          /\ ctl_cmd_wr_en' = FALSE
          /\ UNCHANGED <<axil_write_state, wready, ctl_cmd_data>>
    /\ UNCHANGED <<awready, bvalid, awaddr>>

Wait ==
    /\ axil_write_state = "WAIT"
    /\ ctl_cmd_wr_en' = ~BlockedInWait
    /\ bvalid' = (bvalid \/ ~BlockedInWait)
    /\ axil_write_state' = IF BlockedInWait THEN "WAIT" ELSE "RESP"
    /\ UNCHANGED <<awready, wready, awaddr, ctl_cmd_data>>

RespLeavesBvalid ==                                           \* (mutant)
    /\ axil_write_state = "RESP"
    /\ awready' = TRUE /\ wready' = FALSE
    /\ ctl_cmd_wr_en' = FALSE /\ awaddr' = "none"
    /\ axil_write_state' = IF bready THEN "IDLE" ELSE "RESP"
    /\ UNCHANGED <<bvalid, ctl_cmd_data>>
Resp ==
    /\ axil_write_state = "RESP"
    /\ bvalid' = TRUE /\ awaddr' = "none"
    /\ awready' = TRUE /\ wready' = FALSE
    /\ ctl_cmd_wr_en' = FALSE
    /\ axil_write_state' = IF bready THEN "IDLE" ELSE "RESP"
    /\ UNCHANGED ctl_cmd_data

\* The FIFO's writer side in the same cycle
FifoWrite ==
    /\ ctl_cmd_afifo' = IF ctl_cmd_wr_en /\ ~ctl_cmd_wr_rst_busy
                        THEN Push(ctl_cmd_afifo, ctl_cmd_data)
                        ELSE ctl_cmd_afifo
    /\ lost' = (lost \/ (ctl_cmd_wr_en /\ ctl_cmd_wr_rst_busy))

\* posedge axil_aclk
Clock ==
    /\ IdleNone \/ IdleWrite \/ IdleAddr \/ Wready \/ Wait \/ Resp
    /\ FifoWrite
    /\ Issue \/ Continue
    /\ UNCHANGED <<ctl_cmd_wr_rst_busy, held, popped>>

-----------------------------------------------------------------------------
(***************************************************************************)
(* The other clock (external here): the FIFO leaves reset, words are read, *)
(* and each side learns of the other.                                      *)
(***************************************************************************)
RstDone ==
    /\ ctl_cmd_wr_rst_busy
    /\ ctl_cmd_wr_rst_busy' = FALSE
    /\ UNCHANGED <<slave, master, ctl_cmd_afifo, popped, lost>>

Read ==
    /\ ~empty(ctl_cmd_afifo)
    /\ ctl_cmd_afifo' = Pop(ctl_cmd_afifo)
    /\ popped' = popped + 1
    /\ UNCHANGED <<slave, master, ctl_cmd_wr_rst_busy, lost>>

CtlSynchronise ==
    /\ \/ /\ ctl_cmd_afifo.unseen > 0
          /\ ctl_cmd_afifo' = SeeWrite(ctl_cmd_afifo)
       \/ /\ ctl_cmd_afifo.freed > 0
          /\ ctl_cmd_afifo' = SeeRead(ctl_cmd_afifo)
    /\ UNCHANGED <<slave, master, ctl_cmd_wr_rst_busy, popped, lost>>

CtlNext == Clock \/ RstDone \/ Read \/ CtlSynchronise

CtlSpec == CtlInit /\ [][CtlNext]_ctlVars

\* Both clocks run, the FIFO leaves reset, its synchronisers work and cl_box
\* reads what it is given; the master presents the data of a write it began.
CtlFairSpec ==
    /\ CtlSpec
    /\ WF_ctlVars(Clock) /\ WF_ctlVars(RstDone) /\ WF_ctlVars(Read) /\ WF_ctlVars(CtlSynchronise)
    /\ WF_ctlVars(Clock /\ m.w = "later" /\ m'.w = "valid")

-----------------------------------------------------------------------------
Masters == [aw : BOOLEAN, w : {"none", "later", "valid"}, b : BOOLEAN, addr : Addrs]

CtlTypeOK ==
    /\ axil_write_state \in {"IDLE", "WREADY", "WAIT", "RESP"}
    /\ {awready, wready, bvalid, ctl_cmd_wr_en, ctl_cmd_wr_rst_busy, held,
        lost, spurious} \subseteq BOOLEAN
    /\ awaddr \in Addrs \cup {"none"}
    /\ ctl_cmd_data \in 0 .. MaxWords
    /\ ctl_cmd_afifo \in [mem : Seq(1 .. MaxWords), unseen : Nat, freed : Nat]
    /\ FifoOK(ctl_cmd_afifo)
    /\ m \in Masters
    /\ {issued, acked, popped} \subseteq 0 .. MaxWords

\* The words the host writes enter the FIFO once each and in order, however
\* long the FIFO stays full, unless one arrived after its address while the
\* FIFO was in reset.
WordsInOrder ==
    ~lost => \A i \in DOMAIN ctl_cmd_afifo.mem : ctl_cmd_afifo.mem[i] = popped + i

\* A word is offered to the FIFO only in a cycle in which there is room for it,
\* though the flag was looked at a cycle before.
NoOverflow == ctl_cmd_wr_en => ~full(ctl_cmd_afifo)

\* A write that has been answered is in the FIFO: the host may rely on it.
AckedIsPushed == ~lost => acked <= popped + Len(ctl_cmd_afifo.mem)

\* Every write gets one answer.
OneResponse == ~spurious

\* Every write is answered.
WriteAnswered == m.b ~> ~m.b
=============================================================================
