-------------------------- MODULE ComputeDispatch --------------------------
(***************************************************************************)
(* From the command FIFO to the status FIFO: the lookaside compute logic.  *)
(*                                                                         *)
(* In the clock domain of axis_aclk, the dispatcher of                     *)
(* control_command_processor.sv starts cl_box, which parses a command, and *)
(* compute_logic_wrapper.sv then starts the kernel mmult, which writes the *)
(* work id to the status FIFO when it is done.  In the domain of axil_aclk *)
(* the read half of control_command_processor.sv serves the host, which    *)
(* issues commands (issue_ctl_cmd()), polls the number of finished ones    *)
(* (wait_compute()) and fetches a work id.                                 *)
(*                                                                         *)
(* A command is known by its work id; its words are numbered.  That words  *)
(* reach the command FIFO in order is CtlCmdWrite.  The FIFOs are out of   *)
(* reset, and reads of the other registers, which change only rdata, are   *)
(* left out.                                                               *)
(***************************************************************************)
EXTENDS AsyncFifo, Integers

CONSTANTS
    Jobs,        \* bound: commands the host issues
    CmdWords,    \* words of a command, the size included
    MaxAhead     \* commands the host has under way before it waits for one

ASSUME DispatchAssumption ==
    Jobs \in Nat /\ CmdWords \in Nat \ {0, 1} /\ MaxAhead \in Nat \ {0}

VARIABLES
    kernel_state, cl_box_start,     \* the dispatcher
    comp_state, ap_start,           \* compute_logic_wrapper
    work_id_reg,
    box,                            \* cl_box: where it is, words taken, work id
    mm,                             \* mmult: where it is, and its work id
    cmd, sts,                       \* ctl_cmd_afifo, ker_status_afifo
    axil_read_state, ker_status_rd_en, rdata,
    host,                           \* where the host program is
    ar,                             \* the address it is reading, if any
    pushed, got                     \* words it has written, statuses it has read

axis == <<kernel_state, cl_box_start, comp_state, ap_start, work_id_reg, box, mm>>
axil == <<axil_read_state, ker_status_rd_en, rdata>>
prog == <<host, ar, pushed, got>>
dispatchVars == <<kernel_state, cl_box_start, comp_state, ap_start, work_id_reg, box, mm,
                  cmd, sts, axil_read_state, ker_status_rd_en, rdata, host, ar, pushed,
                  got>>

DEFAULT_VALUE == -1

\* The command a word belongs to
JobOf(w) == (w - 1) \div CmdWords + 1

DispatchInit ==
    /\ kernel_state = "CL_IDLE" /\ cl_box_start = FALSE
    /\ comp_state = "IDLE" /\ ap_start = FALSE
    /\ work_id_reg = 0
    /\ box = [pc |-> "idle", words |-> 0, work_id |-> 0]
    /\ mm = [pc |-> "idle", work_id |-> 0]
    /\ cmd = EmptyFifo /\ sts = EmptyFifo
    /\ axil_read_state = "IDLE" /\ ker_status_rd_en = FALSE /\ rdata = 0
    /\ host = "free" /\ ar = "none" /\ pushed = 0 /\ got = 0

-----------------------------------------------------------------------------
(***************************************************************************)
(* cl_box and mmult, as their sources say and with the block-level         *)
(* handshake that high-level synthesis gives them: idle while not started, *)
(* done (and ready) in the last cycle.                                     *)
(***************************************************************************)
cl_box_idle == box.pc = "idle" /\ ~cl_box_start
cl_box_done == box.pc = "done"
cl_kernel_idle == mm.pc = "idle" /\ ~ap_start
cl_kernel_done == mm.pc = "write" /\ ~full(sts)

\* The last word has been read
LastWord == box.words + 1 = CmdWords

\* The work id is in the last word; the words before it are read and kept.
parse_ctl_cmd ==
    \/ /\ box.pc = "idle"
       /\ box' = IF cl_box_start THEN [box EXCEPT !.pc = "read", !.words = 0] ELSE box
       /\ UNCHANGED cmd
    \/ /\ box.pc = "read" /\ ~empty(cmd)
       /\ box' = [pc |-> IF LastWord THEN "done" ELSE "read",
                  words |-> box.words + 1,
                  work_id |-> JobOf(dout(cmd))]
       /\ cmd' = Pop(cmd)
    \/ /\ box.pc = "read" /\ empty(cmd)
       /\ UNCHANGED <<box, cmd>>
    \/ /\ box.pc = "done"
       /\ box' = [box EXCEPT !.pc = "idle"]
       /\ UNCHANGED cmd

mmult ==
    \/ /\ mm.pc = "idle"
       /\ mm' = IF ap_start THEN [pc |-> "run", work_id |-> work_id_reg] ELSE mm
       /\ UNCHANGED sts
    \/ /\ mm.pc = "run"
       /\ \/ mm' = [mm EXCEPT !.pc = "write"]
          \/ UNCHANGED mm
       /\ UNCHANGED sts
    \/ /\ cl_kernel_done
       /\ mm' = [mm EXCEPT !.pc = "idle"]
       /\ sts' = Push(sts, mm.work_id)
    \/ /\ mm.pc = "write" /\ full(sts)
       /\ UNCHANGED <<mm, sts>>

-----------------------------------------------------------------------------
DispatchReady == cl_box_idle /\ cl_kernel_idle /\ ~empty(cmd)

DispatchAhead ==                                              \* (mutant)
    \/ /\ kernel_state = "CL_IDLE"
       /\ cl_box_start' = (cl_box_idle /\ ~empty(cmd))
       /\ kernel_state' = IF cl_box_start' THEN "CL_BOX_ACTIVE" ELSE "CL_IDLE"
    \/ /\ kernel_state = "CL_BOX_ACTIVE"
       /\ cl_box_start' = ~cl_box_done
       /\ kernel_state' = IF cl_box_done THEN "CL_IDLE" ELSE "CL_BOX_ACTIVE"
Dispatch ==
    \/ /\ kernel_state = "CL_IDLE"
       /\ cl_box_start' = DispatchReady
       /\ kernel_state' = IF DispatchReady THEN "CL_BOX_ACTIVE" ELSE "CL_IDLE"
    \/ /\ kernel_state = "CL_BOX_ACTIVE"
       /\ cl_box_start' = ~cl_box_done
       /\ kernel_state' = IF ~cl_box_done THEN "CL_BOX_ACTIVE"
                          ELSE IF cl_kernel_done THEN "CL_IDLE"
                          ELSE "CL_KERNEL_ACTIVE"
    \/ /\ kernel_state = "CL_KERNEL_ACTIVE"
       /\ cl_box_start' = FALSE
       /\ kernel_state' = IF cl_kernel_done THEN "CL_IDLE" ELSE "CL_KERNEL_ACTIVE"

StartKernelStaysBusy ==                                       \* (mutant)
    /\ work_id_reg' = IF cl_box_done THEN box.work_id ELSE work_id_reg
    /\ \/ /\ comp_state = "IDLE"
          /\ ap_start' = (cl_kernel_idle /\ cl_box_done)
          /\ comp_state' = IF cl_kernel_idle /\ cl_box_done THEN "BUSY" ELSE "IDLE"
       \/ /\ comp_state = "BUSY"
          /\ ap_start' = (ap_start /\ ~cl_kernel_done)
          /\ UNCHANGED comp_state
\* new_req is cl_box_done
StartKernel ==
    /\ work_id_reg' = IF cl_box_done THEN box.work_id ELSE work_id_reg
    /\ \/ /\ comp_state = "IDLE"
          /\ ap_start' = (cl_kernel_idle /\ cl_box_done)
          /\ comp_state' = IF cl_kernel_idle /\ cl_box_done THEN "BUSY" ELSE "IDLE"
       \/ /\ comp_state = "BUSY"
          /\ ap_start' = ~cl_kernel_done
          /\ comp_state' = IF cl_kernel_done THEN "IDLE" ELSE "BUSY"

\* posedge axis_aclk
AxisClock ==
    /\ Dispatch /\ StartKernel /\ parse_ctl_cmd /\ mmult
    /\ UNCHANGED <<axil, prog>>

-----------------------------------------------------------------------------
(***************************************************************************)
(* The read state machine.  A work id is taken from the FIFO in the cycle  *)
(* after its read was accepted.                                            *)
(***************************************************************************)
StatusPopHeld ==                                              \* (mutant)
    sts' = IF axil_read_state = "RESP" /\ host = "fetch" THEN Pop(sts) ELSE sts
StatusPop == sts' = IF ker_status_rd_en THEN Pop(sts) ELSE sts

ReadIdle ==
    /\ axil_read_state = "IDLE" /\ ar = "none"
    /\ ker_status_rd_en' = FALSE
    /\ UNCHANGED <<axil_read_state, rdata, prog>>

ReadAccept ==
    /\ axil_read_state = "IDLE" /\ ar # "none"
    /\ \/ /\ ar = "KER_STS"
          /\ rdata' = IF empty(sts) THEN DEFAULT_VALUE ELSE dout(sts)
          /\ ker_status_rd_en' = ~empty(sts)
       \/ /\ ar = "JOB_COMPLETED_NOT_READ"
          /\ rdata' = rd_data_count(sts)
          /\ ker_status_rd_en' = FALSE
    /\ axil_read_state' = "RESP"
    /\ ar' = "none"
    /\ UNCHANGED <<host, pushed, got>>

\* wait_compute() polls until the count is not 0; then one work id is read.
Answer ==
    \/ /\ host = "poll"
       /\ host' = IF rdata = 0 THEN "wait" ELSE "ready"
       /\ UNCHANGED got
    \/ /\ host = "fetch"
       /\ host' = "free"
       /\ got' = got + 1

ReadResp ==
    /\ axil_read_state = "RESP"
    /\ ker_status_rd_en' = FALSE
    /\ \/ /\ axil_read_state' = "IDLE"          \* rready
          /\ Answer
       \/ /\ UNCHANGED <<axil_read_state, host, got>>
    /\ UNCHANGED <<rdata, ar, pushed>>

\* posedge axil_aclk
AxilClock ==
    /\ ReadIdle \/ ReadAccept \/ ReadResp
    /\ StatusPop
    /\ UNCHANGED <<axis, cmd>>

-----------------------------------------------------------------------------
(***************************************************************************)
(* The host program.                                                       *)
(***************************************************************************)
Finished == pushed \div CmdWords

\* gen_ctl_cmd(): the program makes up its mind to issue a command; from then
\* on it does nothing else before the last word has been written.
gen_ctl_cmd ==
    /\ host = "free" /\ Finished < Jobs /\ Finished - got < MaxAhead
    /\ host' = "write"
    /\ UNCHANGED <<axis, axil, cmd, sts, ar, pushed, got>>

\* issue_ctl_cmd(): one word after the other
issue_ctl_cmd ==
    /\ host = "write"
    /\ ~full(cmd)
    /\ cmd' = Push(cmd, pushed + 1)
    /\ pushed' = pushed + 1
    /\ host' = IF (pushed + 1) % CmdWords = 0 THEN "free" ELSE "write"
    /\ UNCHANGED <<axis, axil, sts, ar, got>>

wait_compute ==
    /\ \/ host = "free" /\ Finished > got
       \/ host = "wait"
    /\ host' = "poll"
    /\ ar' = "JOB_COMPLETED_NOT_READ"
    /\ UNCHANGED <<axis, axil, cmd, sts, pushed, got>>

FetchStatus ==
    /\ host = "ready"
    /\ host' = "fetch"
    /\ ar' = "KER_STS"
    /\ UNCHANGED <<axis, axil, cmd, sts, pushed, got>>

\* The FIFOs' synchronisers (external)
DispatchSynchronise ==
    /\ \/ cmd.unseen > 0 /\ cmd' = SeeWrite(cmd) /\ UNCHANGED sts
       \/ cmd.freed > 0 /\ cmd' = SeeRead(cmd) /\ UNCHANGED sts
       \/ sts.unseen > 0 /\ sts' = SeeWrite(sts) /\ UNCHANGED cmd
       \/ sts.freed > 0 /\ sts' = SeeRead(sts) /\ UNCHANGED cmd
    /\ UNCHANGED <<axis, axil, prog>>

Program == gen_ctl_cmd \/ issue_ctl_cmd \/ wait_compute \/ FetchStatus
DispatchNext == AxisClock \/ AxilClock \/ Program \/ DispatchSynchronise

DispatchSpec == DispatchInit /\ [][DispatchNext]_dispatchVars

\* Both clocks run, the kernel's computation ends, the host takes an answer
\* and its program goes on, and the synchronisers work.
DispatchFairSpec ==
    /\ DispatchSpec
    /\ WF_dispatchVars(AxisClock) /\ WF_dispatchVars(AxisClock /\ mm.pc = "run" /\ mm'.pc = "write")
    /\ WF_dispatchVars(AxilClock)
    /\ WF_dispatchVars(AxilClock /\ axil_read_state = "RESP" /\ axil_read_state' = "IDLE")
    /\ WF_dispatchVars(Program) /\ WF_dispatchVars(DispatchSynchronise)

-----------------------------------------------------------------------------
DispatchTypeOK ==
    /\ kernel_state \in {"CL_IDLE", "CL_BOX_ACTIVE", "CL_KERNEL_ACTIVE"}
    /\ comp_state \in {"IDLE", "BUSY"}
    /\ {cl_box_start, ap_start, ker_status_rd_en} \subseteq BOOLEAN
    /\ work_id_reg \in 0 .. Jobs
    /\ box \in [pc : {"idle", "read", "done"}, words : 0 .. CmdWords,
               work_id : 0 .. Jobs]
    /\ mm \in [pc : {"idle", "run", "write"}, work_id : 0 .. Jobs]
    /\ \A i \in DOMAIN cmd.mem : cmd.mem[i] \in 1 .. Jobs * CmdWords
    /\ \A i \in DOMAIN sts.mem : sts.mem[i] \in 1 .. Jobs
    /\ FifoOK(cmd) /\ FifoOK(sts)
    /\ axil_read_state \in {"IDLE", "RESP"}
    /\ rdata \in {DEFAULT_VALUE} \cup 0 .. Jobs
    /\ host \in {"free", "write", "wait", "poll", "ready", "fetch"}
    /\ ar \in {"none", "KER_STS", "JOB_COMPLETED_NOT_READ"}
    /\ pushed \in 0 .. Jobs * CmdWords
    /\ got \in 0 .. Jobs

\* cl_box, whenever it is not reading, is between two commands: a word is
\* never taken for a word of another command.
CommandsWhole ==
    box.pc # "read" => (pushed - Len(cmd.mem)) % CmdWords = 0

\* The parameter registers keep the command that the kernel is working on:
\* mmult uses its base addresses until it has written the result.
ParamsStable == mm.pc # "idle" => work_id_reg = mm.work_id

\* The kernel always works on one whole command: cl_box never takes a word of another one, and
\* the registers keep the parameters until the kernel has written its result.
OneWholeCommand == CommandsWhole /\ ParamsStable

\* Once wait_compute() has returned, the status register holds the work id of
\* the oldest command not yet reported, never DEFAULT_VALUE, and each command
\* is reported once and in the order of issue.
FetchedInOrder ==
    host = "fetch" /\ axil_read_state = "RESP" => rdata = got + 1

\* Every command that has been issued is reported to the host, unless the host
\* began one more when as many were under way as the status FIFO and the
\* kernel hold: then the host waits for the command FIFO, and everyone for the
\* host.
JobReported ==
    \A j \in 1 .. Jobs :
        pushed = j * CmdWords ~> \/ got >= j
                                 \/ host = "write" /\ Finished - got > Depth
=============================================================================
