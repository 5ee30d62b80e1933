---------------------------- MODULE RecoNicProof ----------------------------
(***************************************************************************)
(* Proofs about what RecoNIC adds to the network card and about the error  *)
(* monitor beside it: the compute control logic, which takes commands from *)
(* the host (CtlCmdWrite) and hands them to the kernel (ComputeDispatch),  *)
(* the user library that drives the RDMA core (RdmaQp), and the driver's   *)
(* handling of hardware errors (HwErrors).  Each part is proved for every  *)
(* value of its constants: FIFOs of any depth, any number of words,        *)
(* commands, requests, messages, timeouts, buffers and lives of a queue    *)
(* pair, and errors in any order and at any moment.                        *)
(***************************************************************************)
EXTENDS CtlCmdWrite, ComputeDispatch, RdmaQp, HwErrors, TLAPS

-----------------------------------------------------------------------------
(* CtlCmdWrite: the write path of the compute control logic                *)

\* What the state machine's state says about the write in progress
CtlInv ==
    /\ ~m.b => m = Quiet /\ axil_write_state = "IDLE"
    /\ axil_write_state = "IDLE" =>
          /\ awready /\ ~wready /\ ~ctl_cmd_wr_en
          /\ m.b => IF m.aw THEN m.w # "none" ELSE bvalid /\ m.w = "none"
    /\ axil_write_state # "IDLE" => m.b /\ ~m.aw
    /\ axil_write_state = "WREADY" =>
          wready /\ ~bvalid /\ ~ctl_cmd_wr_en /\ m.w # "none" /\ awaddr = m.addr
    /\ axil_write_state = "WAIT" =>
          /\ m.addr = "CTL_CMD" /\ ctl_cmd_data = issued
          /\ ~bvalid /\ ~ctl_cmd_wr_en
    /\ axil_write_state = "RESP" /\ ctl_cmd_wr_en =>
          m.addr = "CTL_CMD" /\ ctl_cmd_data = issued
    /\ axil_write_state \in {"WAIT", "RESP"} =>
          m.w = "none" \/ (m.w = "valid" /\ wready /\ ~bvalid)

\* The word of the write in progress has not reached the FIFO yet.
WordPending ==
    /\ m.b /\ m.addr = "CTL_CMD"
    /\ m.aw \/ axil_write_state \in {"WREADY", "WAIT"} \/ ctl_cmd_wr_en

\* The words issued have been read, are in the FIFO, or are on their way; some
\* may be lost in the FIFO's reset.
WordsInv ==
    LET here == popped + Len(ctl_cmd_afifo.mem) + (IF WordPending THEN 1 ELSE 0) IN
    /\ here <= issued
    /\ ~lost => here = issued
    /\ acked + (IF m.b /\ m.addr = "CTL_CMD" THEN 1 ELSE 0) = issued

CtlAllInv == CtlTypeOK /\ CtlInv /\ WordsInv /\ WordsInOrder /\ NoOverflow

-----------------------------------------------------------------------------
CtlFifos == [mem : Seq(1 .. MaxWords), unseen : Nat, freed : Nat]

\* The types of all but the FIFO
SlaveType ==
    /\ axil_write_state \in {"IDLE", "WREADY", "WAIT", "RESP"}
    /\ awready \in BOOLEAN /\ wready \in BOOLEAN /\ bvalid \in BOOLEAN
    /\ ctl_cmd_wr_en \in BOOLEAN /\ ctl_cmd_wr_rst_busy \in BOOLEAN
    /\ awaddr \in Addrs \cup {"none"}
    /\ ctl_cmd_data \in 0 .. MaxWords
MasterType ==
    /\ held \in BOOLEAN /\ lost \in BOOLEAN /\ spurious \in BOOLEAN
    /\ m \in Masters
    /\ issued \in 0 .. MaxWords /\ acked \in 0 .. MaxWords /\ popped \in 0 .. MaxWords

\* The type invariant in parts
LEMMA TypeParts ==
    CtlTypeOK <=> /\ SlaveType /\ MasterType
                  /\ ctl_cmd_afifo \in CtlFifos /\ FifoOK(ctl_cmd_afifo)
  BY DEF CtlTypeOK, SlaveType, MasterType, CtlFifos

\* A word that is offered is appended, unless the FIFO is in reset; it is the
\* next one in order.
LEMMA FifoStep ==
    ASSUME CtlAllInv, FifoWrite, popped' = popped
    PROVE  /\ ctl_cmd_afifo' \in CtlFifos /\ FifoOK(ctl_cmd_afifo')
           /\ lost' \in BOOLEAN
           /\ Len(ctl_cmd_afifo'.mem) = Len(ctl_cmd_afifo.mem)
                 + (IF ctl_cmd_wr_en /\ ~ctl_cmd_wr_rst_busy THEN 1 ELSE 0)
           /\ WordsInOrder'
           /\ ~ctl_cmd_wr_en => ctl_cmd_afifo' = ctl_cmd_afifo /\ lost' = lost
           /\ lost' = (lost \/ (ctl_cmd_wr_en /\ ctl_cmd_wr_rst_busy))
<1> DEFINE f == ctl_cmd_afifo
<1>1. /\ f \in CtlFifos /\ FifoOK(f) /\ SlaveType /\ MasterType
      /\ CtlInv /\ WordsInv /\ WordsInOrder /\ NoOverflow
  BY TypeParts DEF CtlAllInv
<1>2. lost' \in BOOLEAN /\ lost' = (lost \/ (ctl_cmd_wr_en /\ ctl_cmd_wr_rst_busy))
  BY <1>1, Zenon DEF FifoWrite, MasterType
<1>3. CASE ~(ctl_cmd_wr_en /\ ~ctl_cmd_wr_rst_busy)
  <2>1. f' = f
    BY <1>3 DEF FifoWrite
  <2>2. ~ctl_cmd_wr_en => lost' = lost
    BY <1>1, <1>2, Zenon DEF MasterType
  <2>3. WordsInOrder'
    BY <1>1, <1>2, <2>1 DEF WordsInOrder
  <2> QED BY <1>1, <1>2, <1>3, <2>1, <2>2, <2>3 DEF CtlFifos
<1>4. CASE ctl_cmd_wr_en /\ ~ctl_cmd_wr_rst_busy
  <2>1. axil_write_state = "RESP" /\ ctl_cmd_data = issued /\ WordPending
    BY <1>1, <1>4 DEF CtlInv, SlaveType, WordPending
  <2>2. f' = [f EXCEPT !.mem = Append(@, ctl_cmd_data), !.unseen = @ + 1]
    BY <1>1, <1>4 DEF FifoWrite, Push, NoOverflow
  <2>3. popped + Len(f.mem) + 1 <= issued /\ (~lost => popped + Len(f.mem) + 1 = issued)
    BY <1>1, <2>1 DEF WordsInv
  <2>4. ctl_cmd_data \in 1 .. MaxWords
    BY <1>1, <2>1, <2>3 DEF MasterType, CtlFifos
  <2>5. f'.mem = Append(f.mem, ctl_cmd_data) /\ f'.unseen = f.unseen + 1
        /\ f'.freed = f.freed /\ f' \in CtlFifos
    <3>1. f = [mem |-> f.mem, unseen |-> f.unseen, freed |-> f.freed]
          /\ f.mem \in Seq(1 .. MaxWords) /\ f.unseen \in Nat /\ f.freed \in Nat
      BY <1>1 DEF CtlFifos
    <3>2. f' = [mem |-> Append(f.mem, ctl_cmd_data), unseen |-> f.unseen + 1,
                freed |-> f.freed]
      BY <2>2, <3>1
    <3>3. Append(f.mem, ctl_cmd_data) \in Seq(1 .. MaxWords)
      BY <2>4, <3>1
    <3> QED BY <3>1, <3>2, <3>3 DEF CtlFifos
  <2>6. Len(f'.mem) = Len(f.mem) + 1
    BY <1>1, <2>4, <2>5 DEF CtlFifos
  <2>7. FifoOK(f')
    BY <1>1, <1>4, <2>5, <2>6, DepthAssumption DEF FifoOK, NoOverflow, full, CtlFifos
  <2>8. WordsInOrder'
    <3>1. SUFFICES ASSUME ~lost', NEW i \in DOMAIN f'.mem
                   PROVE  f'.mem[i] = popped + i
      BY DEF WordsInOrder
    <3>2. ~lost
      BY <1>1, <1>2, <3>1, Zenon DEF MasterType
    <3>3. i \in 1 .. Len(f.mem) + 1
      BY <1>1, <2>5, <2>6 DEF CtlFifos
    <3>4. CASE i = Len(f.mem) + 1
      BY <1>1, <2>1, <2>3, <2>4, <2>5, <3>2, <3>4 DEF CtlFifos, MasterType
    <3>5. CASE i \in 1 .. Len(f.mem)
      BY <1>1, <2>4, <2>5, <3>2, <3>5 DEF CtlFifos, WordsInOrder
    <3> QED BY <1>1, <3>3, <3>4, <3>5 DEF CtlFifos
  <2> QED BY <1>2, <1>4, <2>5, <2>6, <2>7, <2>8
<1> QED BY <1>3, <1>4

-----------------------------------------------------------------------------
(***************************************************************************)
(* One lemma per branch of the write state machine.  What each has to show *)
(* is that the branch and the master's cycle keep the invariant; the FIFO  *)
(* is FifoStep's.                                                          *)
(***************************************************************************)
CtlStep == (SlaveType /\ MasterType /\ CtlInv /\ WordsInv /\ NoOverflow)'

\* The facts about the state before the cycle and the FIFO's part of it, as
\* the lemmas below use them
CycleFacts ==
    /\ SlaveType /\ MasterType /\ CtlInv /\ WordsInv /\ NoOverflow
    /\ Len(ctl_cmd_afifo.mem) \in Nat /\ Len(ctl_cmd_afifo'.mem) \in Nat
    /\ Len(ctl_cmd_afifo'.mem) = Len(ctl_cmd_afifo.mem)
          + (IF ctl_cmd_wr_en /\ ~ctl_cmd_wr_rst_busy THEN 1 ELSE 0)
    /\ ~ctl_cmd_wr_en => ctl_cmd_afifo' = ctl_cmd_afifo /\ lost' = lost
    /\ lost' \in BOOLEAN
    /\ lost' = (lost \/ (ctl_cmd_wr_en /\ ctl_cmd_wr_rst_busy))
    /\ popped' = popped /\ held' = held
    /\ ctl_cmd_wr_rst_busy' = ctl_cmd_wr_rst_busy

\* The master takes the answer to its write, ...
AnswerTaken ==
    /\ m.b /\ ~m.aw /\ m.w = "none" /\ bvalid /\ bready
    /\ m' = Quiet /\ m' \in Masters
    /\ acked' = (IF m.addr = "CTL_CMD" THEN acked + 1 ELSE acked)
    /\ issued' = issued /\ spurious' \in BOOLEAN
\* ... or goes on with the write it has, if any.
GoesOn ==
    /\ ~(m.b /\ ~m.aw /\ m.w = "none" /\ bvalid /\ bready)
    /\ m' \in Masters /\ m'.b = m.b /\ m'.addr = m.addr
    /\ m'.aw = (m.aw /\ ~awready)
    /\ m.w = "later" => m'.w \in {"later", "valid"}
    /\ m.w = "valid" => m'.w = IF wready THEN "none" ELSE "valid"
    /\ m.w = "none" => m'.w = "none"
    /\ m = Quiet => m' = Quiet
    /\ acked' = acked /\ issued' = issued /\ spurious' \in BOOLEAN

\* The master's cycle is one of these.
LEMMA ContinueStep ==
    ASSUME SlaveType, MasterType, Continue
    PROVE  AnswerTaken \/ GoesOn
<1> DEFINE answered == m.b /\ ~m.aw /\ m.w = "none" /\ bvalid /\ bready
<1>1. bready \in BOOLEAN /\ bvalid \in BOOLEAN /\ awready \in BOOLEAN
      /\ wready \in BOOLEAN /\ spurious \in BOOLEAN /\ m \in Masters
  BY Zenon DEF SlaveType, MasterType, bready
<1>2. CASE answered
  <2>1. m' = Quiet /\ issued' = issued /\ spurious' = spurious
        /\ acked' = (IF m.addr = "CTL_CMD" THEN acked + 1 ELSE acked)
    BY <1>2 DEF Continue
  <2>2. Quiet \in Masters
    BY DEF Quiet, Masters, Addrs
  <2> QED BY <1>1, <1>2, <2>1, <2>2 DEF AnswerTaken
<1>3. CASE ~answered
  <2>1. PICK w \in IF m.w = "later" THEN {"later", "valid"}
                   ELSE {IF wvalid /\ wready THEN "none" ELSE m.w} :
              m' = [m EXCEPT !.aw = @ /\ ~awready, !.w = w]
    BY <1>3 DEF Continue
  <2>2. spurious' = (spurious \/ (bvalid /\ bready)) /\ acked' = acked /\ issued' = issued
    BY <1>3 DEF Continue
  <2>3. spurious' \in BOOLEAN
    BY <1>1, <2>2, Zenon
  <2>4. m.aw \in BOOLEAN /\ m.b \in BOOLEAN /\ m.addr \in Addrs
        /\ m.w \in {"none", "later", "valid"}
        /\ m = [aw |-> m.aw, w |-> m.w, b |-> m.b, addr |-> m.addr]
    BY <1>1 DEF Masters
  <2>5. w \in {"none", "later", "valid"}
    BY <2>1, <2>4
  <2>6. m' = [aw |-> (m.aw /\ ~awready), w |-> w, b |-> m.b, addr |-> m.addr]
    BY <2>1, <2>4
  <2>7. (m.aw /\ ~awready) \in BOOLEAN
    BY <1>1, <2>4, Zenon
  <2>8. m' \in Masters /\ m'.b = m.b /\ m'.addr = m.addr
        /\ m'.aw = (m.aw /\ ~awready) /\ m'.w = w
    BY <2>4, <2>5, <2>6, <2>7 DEF Masters
  <2>9. /\ m.w = "later" => m'.w \in {"later", "valid"}
        /\ m.w = "valid" => m'.w = IF wready THEN "none" ELSE "valid"
        /\ m.w = "none" => m'.w = "none"
    BY <2>1, <2>4, <2>8 DEF wvalid
  <2>10. ASSUME m = Quiet PROVE m' = Quiet
    <3>1. m.aw = FALSE /\ m.w = "none" /\ m.b = FALSE /\ m.addr = "CTL_CMD"
      BY <2>10 DEF Quiet
    <3>2. w = "none"
      BY <2>8, <2>9, <3>1
    <3> QED BY <2>6, <3>1, <3>2 DEF Quiet
  <2> QED BY <1>3, <2>2, <2>3, <2>8, <2>9, <2>10 DEF GoesOn
<1> QED BY <1>2, <1>3

\* A new write begins only when the state machine is idle and sees none.
LEMMA IssueStep ==
    ASSUME CycleFacts, Issue, IdleNone
    PROVE  CtlStep
<1> USE WriteAssumption DEF IdleNone
<1>0. PICK a \in Addrs, w \in {"valid", "later"} :
          /\ a = "CTL_CMD" => issued < MaxWords
          /\ m' = [aw |-> TRUE, w |-> w, b |-> TRUE, addr |-> a]
          /\ issued' = IF a = "CTL_CMD" THEN issued + 1 ELSE issued
  BY DEF Issue
<1>m. /\ m'.aw = TRUE /\ m'.w = w /\ m'.b = TRUE /\ m'.addr = a /\ m' \in Masters
      /\ m.b = FALSE /\ acked' = acked /\ spurious' \in BOOLEAN
  <2>1. m' \in Masters
    BY <1>0 DEF Masters
  <2>2. m.b = FALSE
    BY DEF Issue, Quiet
  <2>3. spurious' = (spurious \/ (bvalid /\ bready)) /\ spurious \in BOOLEAN
        /\ acked' = acked
    BY DEF Issue, CycleFacts, MasterType
  <2>4. spurious' \in BOOLEAN
    BY <2>3, Zenon
  <2> QED BY <1>0, <2>1, <2>2, <2>3, <2>4
<1>1. SlaveType'
  BY <1>0, <1>m DEF CycleFacts, SlaveType, MasterType, CtlInv, Addrs
<1>2. MasterType'
  BY <1>0, <1>m DEF CycleFacts, SlaveType, MasterType, CtlInv, WordsInv, WordPending, Masters, Addrs
<1>3. CtlInv'
  BY <1>0, <1>m DEF CycleFacts, SlaveType, MasterType, CtlInv, Quiet, Masters, Addrs
<1>4. WordsInv'
  <2>1. ~WordPending /\ (WordPending' <=> a = "CTL_CMD")
    BY <1>0, <1>m DEF CycleFacts, SlaveType, CtlInv, WordPending, Quiet
  <2>2. /\ popped \in Nat /\ Len(ctl_cmd_afifo.mem) \in Nat /\ issued \in Nat
        /\ popped' = popped /\ issued' = IF a = "CTL_CMD" THEN issued + 1 ELSE issued
    BY <1>0, <1>m DEF CycleFacts, MasterType
  <2>3. ~lost' => ~lost /\ ~(ctl_cmd_wr_en /\ ctl_cmd_wr_rst_busy)
    BY Zenon DEF CycleFacts
  <2>4. acked + (IF m.b /\ m.addr = "CTL_CMD" THEN 1 ELSE 0) = issued
    BY DEF CycleFacts, WordsInv
  <2>5. (acked + (IF m.b /\ m.addr = "CTL_CMD" THEN 1 ELSE 0) = issued)'
    BY <1>0, <1>m, <2>4 DEF CycleFacts, MasterType, CtlInv, Quiet
  <2>6. Len(ctl_cmd_afifo.mem)' = Len(ctl_cmd_afifo.mem)
    BY <1>0, <1>m DEF CycleFacts, CtlInv, SlaveType
  <2>7. /\ popped + Len(ctl_cmd_afifo.mem) <= issued
        /\ ~lost => popped + Len(ctl_cmd_afifo.mem) = issued
    BY <2>1, <2>2 DEF CycleFacts, WordsInv
  <2>8. CASE a = "CTL_CMD"
    BY <2>1, <2>2, <2>3, <2>5, <2>6, <2>7, <2>8 DEF WordsInv
  <2>9. CASE a # "CTL_CMD"
    <3>1. ~WordPending' /\ issued' = issued
      BY <2>1, <2>2, <2>9
    <3> QED BY <2>2, <2>3, <2>5, <2>6, <2>7, <3>1 DEF WordsInv
  <2> QED BY <2>8, <2>9
<1>5. NoOverflow'
  BY <1>0, <1>m DEF CycleFacts, SlaveType, MasterType, CtlInv, NoOverflow
<1> QED BY <1>1, <1>2, <1>3, <1>4, <1>5 DEF CtlStep

\* No address is offered.
LEMMA IdleNoneStep ==
    ASSUME CycleFacts, Continue, IdleNone
    PROVE  CtlStep
<1> USE WriteAssumption DEF IdleNone
<1>1. CASE AnswerTaken
  <2>1. SlaveType'
    BY <1>1 DEF AnswerTaken, CycleFacts, SlaveType, MasterType, CtlInv, Addrs
  <2>2. MasterType'
    BY <1>1 DEF AnswerTaken, CycleFacts, SlaveType, MasterType, CtlInv, WordsInv, WordPending, Masters, Addrs
  <2>3. CtlInv'
    BY <1>1 DEF AnswerTaken, CycleFacts, SlaveType, MasterType, CtlInv, Quiet, Masters, Addrs
  <2>4. WordsInv'
    <3>1. ~WordPending /\ ~WordPending'
      BY <1>1 DEF AnswerTaken, CycleFacts, SlaveType, CtlInv, WordPending, Quiet
    <3>2. /\ popped \in Nat /\ Len(ctl_cmd_afifo.mem) \in Nat /\ issued \in Nat
          /\ popped' = popped /\ issued' = issued
      BY <1>1 DEF AnswerTaken, CycleFacts, MasterType
    <3>3. ~lost' => ~lost /\ ~(ctl_cmd_wr_en /\ ctl_cmd_wr_rst_busy)
      BY Zenon DEF CycleFacts
    <3>4. acked + (IF m.b /\ m.addr = "CTL_CMD" THEN 1 ELSE 0) = issued
      BY DEF CycleFacts, WordsInv
    <3>5. (acked + (IF m.b /\ m.addr = "CTL_CMD" THEN 1 ELSE 0) = issued)'
      BY <1>1, <3>4 DEF AnswerTaken, CycleFacts, MasterType, CtlInv, Quiet
    <3>6. Len(ctl_cmd_afifo.mem)' = Len(ctl_cmd_afifo.mem)
      BY <1>1 DEF AnswerTaken, CycleFacts, CtlInv, SlaveType
    <3>7. /\ popped + Len(ctl_cmd_afifo.mem) <= issued
          /\ ~lost => popped + Len(ctl_cmd_afifo.mem) = issued
      BY <3>1, <3>2 DEF CycleFacts, WordsInv
    <3> QED BY <3>1, <3>2, <3>3, <3>5, <3>6, <3>7 DEF WordsInv
  <2>5. NoOverflow'
    BY <1>1 DEF AnswerTaken, CycleFacts, SlaveType, MasterType, CtlInv, NoOverflow
  <2> QED BY <2>1, <2>2, <2>3, <2>4, <2>5 DEF CtlStep
<1>2. CASE GoesOn
  <2>0. ~m.b /\ m = Quiet /\ m' = Quiet
    BY <1>2 DEF GoesOn, CycleFacts, SlaveType, CtlInv, bready
  <2>1. SlaveType'
    BY <1>2 DEF GoesOn, CycleFacts, SlaveType, MasterType, CtlInv, Addrs
  <2>2. MasterType'
    BY <1>2 DEF GoesOn, CycleFacts, SlaveType, MasterType, CtlInv, WordsInv, WordPending, Masters, Addrs
  <2>3. CtlInv'
    BY <1>2, <2>0 DEF GoesOn, CycleFacts, SlaveType, MasterType, CtlInv, Quiet, Masters, Addrs
  <2>4. WordsInv'
    BY <1>2 DEF GoesOn, CycleFacts, SlaveType, MasterType, CtlInv, WordPending, Quiet, Masters, Addrs, WordsInv
  <2>5. NoOverflow'
    BY <1>2 DEF GoesOn, CycleFacts, SlaveType, MasterType, CtlInv, NoOverflow
  <2> QED BY <2>1, <2>2, <2>3, <2>4, <2>5 DEF CtlStep
<1> QED BY <1>1, <1>2, ContinueStep DEF CycleFacts

\* Address and data arrive together.
LEMMA IdleWriteStep ==
    ASSUME CycleFacts, Continue, IdleWrite
    PROVE  CtlStep
<1> USE WriteAssumption DEF IdleWrite, Offer, Blocked, wvalid
<1>0. GoesOn
  BY ContinueStep DEF AnswerTaken, CycleFacts, SlaveType, MasterType, CtlInv
<1>1. SlaveType'
  BY <1>0 DEF GoesOn, CycleFacts, SlaveType, MasterType, CtlInv, Addrs
<1>2. MasterType'
  BY <1>0 DEF GoesOn, CycleFacts, SlaveType, MasterType, CtlInv, WordsInv, WordPending, Masters, Addrs
<1>3. CtlInv'
  BY <1>0 DEF GoesOn, CycleFacts, SlaveType, MasterType, CtlInv, Quiet, Masters, Addrs
<1>4. WordsInv'
  BY <1>0 DEF GoesOn, CycleFacts, SlaveType, MasterType, CtlInv, WordPending, Quiet, Masters, Addrs, WordsInv
<1>5. NoOverflow'
  BY <1>0 DEF GoesOn, CycleFacts, SlaveType, MasterType, CtlInv, NoOverflow
<1> QED BY <1>1, <1>2, <1>3, <1>4, <1>5 DEF CtlStep

\* The address arrives before the data.
LEMMA IdleAddrStep ==
    ASSUME CycleFacts, Continue, IdleAddr
    PROVE  CtlStep
<1> USE WriteAssumption DEF IdleAddr, wvalid
<1>0. GoesOn
  BY ContinueStep DEF AnswerTaken, CycleFacts, SlaveType, MasterType, CtlInv
<1>1. SlaveType'
  BY <1>0 DEF GoesOn, CycleFacts, SlaveType, MasterType, CtlInv, Masters, Addrs
<1>2. MasterType'
  BY <1>0 DEF GoesOn, CycleFacts, SlaveType, MasterType, CtlInv, WordsInv, WordPending, Masters, Addrs
<1>3. CtlInv'
  BY <1>0 DEF GoesOn, CycleFacts, SlaveType, MasterType, CtlInv, Quiet, Masters, Addrs
<1>4. WordsInv'
  BY <1>0 DEF GoesOn, CycleFacts, SlaveType, MasterType, CtlInv, WordPending, Quiet, Masters, Addrs, WordsInv
<1>5. NoOverflow'
  BY <1>0 DEF GoesOn, CycleFacts, SlaveType, MasterType, CtlInv, NoOverflow
<1> QED BY <1>1, <1>2, <1>3, <1>4, <1>5 DEF CtlStep

\* The data of an accepted address arrives, or not.
LEMMA WreadyStep ==
    ASSUME CycleFacts, Continue, Wready
    PROVE  CtlStep
<1> USE WriteAssumption DEF Wready, Offer, wvalid
<1>0. GoesOn
  BY ContinueStep DEF AnswerTaken, CycleFacts, SlaveType, MasterType, CtlInv
<1>1. SlaveType'
  BY <1>0 DEF GoesOn, CycleFacts, SlaveType, MasterType, CtlInv, Addrs
<1>2. MasterType'
  BY <1>0 DEF GoesOn, CycleFacts, SlaveType, MasterType, CtlInv, WordsInv, WordPending, Masters, Addrs
<1>3. CtlInv'
  BY <1>0 DEF GoesOn, CycleFacts, SlaveType, MasterType, CtlInv, Quiet, Masters, Addrs
<1>4. WordsInv'
  BY <1>0 DEF GoesOn, CycleFacts, SlaveType, MasterType, CtlInv, WordPending, Quiet, Masters, Addrs, WordsInv
<1>5. NoOverflow'
  BY <1>0 DEF GoesOn, CycleFacts, SlaveType, MasterType, CtlInv, NoOverflow
<1> QED BY <1>1, <1>2, <1>3, <1>4, <1>5 DEF CtlStep

\* The word waits for room in the FIFO.
LEMMA WaitStep ==
    ASSUME CycleFacts, Continue, Wait
    PROVE  CtlStep
<1> USE WriteAssumption DEF Wait, BlockedInWait, Blocked
<1>0. GoesOn
  BY ContinueStep DEF AnswerTaken, CycleFacts, SlaveType, MasterType, CtlInv
<1>1. SlaveType'
  BY <1>0 DEF GoesOn, CycleFacts, SlaveType, MasterType, CtlInv, Addrs
<1>2. MasterType'
  BY <1>0 DEF GoesOn, CycleFacts, SlaveType, MasterType, CtlInv, WordsInv, WordPending, Masters, Addrs
<1>3. CtlInv'
  BY <1>0 DEF GoesOn, CycleFacts, SlaveType, MasterType, CtlInv, Quiet, Masters, Addrs
<1>4. WordsInv'
  BY <1>0 DEF GoesOn, CycleFacts, SlaveType, MasterType, CtlInv, WordPending, Quiet, Masters, Addrs, WordsInv
<1>5. NoOverflow'
  BY <1>0 DEF GoesOn, CycleFacts, SlaveType, MasterType, CtlInv, NoOverflow
<1> QED BY <1>1, <1>2, <1>3, <1>4, <1>5 DEF CtlStep

\* The write is answered.
LEMMA RespStep ==
    ASSUME CycleFacts, Continue, Resp
    PROVE  CtlStep
<1> USE WriteAssumption DEF Resp, bready
<1>1. CASE AnswerTaken
  <2>1. SlaveType'
    BY <1>1 DEF AnswerTaken, CycleFacts, SlaveType, MasterType, CtlInv, Addrs
  <2>2. MasterType'
    BY <1>1 DEF AnswerTaken, CycleFacts, SlaveType, MasterType, CtlInv, WordsInv, WordPending, Masters, Addrs
  <2>3. CtlInv'
    BY <1>1 DEF AnswerTaken, CycleFacts, SlaveType, MasterType, CtlInv, Quiet, Masters, Addrs
  <2>4. WordsInv'
    <3>1. (WordPending <=> ctl_cmd_wr_en) /\ ~WordPending'
      BY <1>1 DEF AnswerTaken, CycleFacts, SlaveType, CtlInv, WordPending, Quiet
    <3>2. /\ popped \in Nat /\ Len(ctl_cmd_afifo.mem) \in Nat /\ issued \in Nat
          /\ popped' = popped /\ issued' = issued
      BY <1>1 DEF AnswerTaken, CycleFacts, MasterType
    <3>3. ~lost' => ~lost /\ ~(ctl_cmd_wr_en /\ ctl_cmd_wr_rst_busy)
      BY Zenon DEF CycleFacts
    <3>4. acked + (IF m.b /\ m.addr = "CTL_CMD" THEN 1 ELSE 0) = issued
      BY DEF CycleFacts, WordsInv
    <3>5. (acked + (IF m.b /\ m.addr = "CTL_CMD" THEN 1 ELSE 0) = issued)'
      BY <1>1, <3>4 DEF AnswerTaken, CycleFacts, MasterType, CtlInv, Quiet
    <3>6. CASE ctl_cmd_wr_en
      <4>1. /\ popped + Len(ctl_cmd_afifo.mem) + 1 <= issued
            /\ ~lost => popped + Len(ctl_cmd_afifo.mem) + 1 = issued
        BY <3>1, <3>2, <3>6 DEF CycleFacts, WordsInv
      <4>2. CASE ctl_cmd_wr_rst_busy
        <5>1. Len(ctl_cmd_afifo.mem)' = Len(ctl_cmd_afifo.mem)
          BY <3>2, <4>2 DEF CycleFacts
        <5> QED BY <3>1, <3>2, <3>3, <3>5, <3>6, <4>1, <4>2, <5>1 DEF WordsInv
      <4>3. CASE ~ctl_cmd_wr_rst_busy
        <5>1. Len(ctl_cmd_afifo.mem)' = Len(ctl_cmd_afifo.mem) + 1
          BY <3>2, <3>6, <4>3 DEF CycleFacts
        <5> QED BY <3>1, <3>2, <3>3, <3>5, <4>1, <5>1 DEF WordsInv
      <4> QED BY <4>2, <4>3
    <3>7. CASE ~ctl_cmd_wr_en
      <4>1. Len(ctl_cmd_afifo.mem)' = Len(ctl_cmd_afifo.mem)
        BY <3>7 DEF CycleFacts
      <4>2. /\ popped + Len(ctl_cmd_afifo.mem) <= issued
            /\ ~lost => popped + Len(ctl_cmd_afifo.mem) = issued
        <5>1. ~WordPending
          BY <3>1, <3>7
        <5> QED BY <3>2, <5>1 DEF CycleFacts, WordsInv
      <4> QED BY <3>1, <3>2, <3>3, <3>5, <4>1, <4>2 DEF WordsInv
    <3> QED BY <3>6, <3>7
  <2>5. NoOverflow'
    BY <1>1 DEF AnswerTaken, CycleFacts, SlaveType, MasterType, CtlInv, NoOverflow
  <2> QED BY <2>1, <2>2, <2>3, <2>4, <2>5 DEF CtlStep
<1>2. CASE GoesOn
  <2>1. SlaveType'
    BY <1>2 DEF GoesOn, CycleFacts, SlaveType, MasterType, CtlInv, Addrs
  <2>2. MasterType'
    BY <1>2 DEF GoesOn, CycleFacts, SlaveType, MasterType, CtlInv, WordsInv, WordPending, Masters, Addrs
  <2>3. CtlInv'
    BY <1>2 DEF GoesOn, CycleFacts, SlaveType, MasterType, CtlInv, Quiet, Masters, Addrs
  <2>4. WordsInv'
    <3>1. (WordPending <=> ctl_cmd_wr_en) /\ ~WordPending'
      BY <1>2 DEF GoesOn, CycleFacts, SlaveType, CtlInv, WordPending, Quiet
    <3>2. /\ popped \in Nat /\ Len(ctl_cmd_afifo.mem) \in Nat /\ issued \in Nat
          /\ popped' = popped /\ issued' = issued
      BY <1>2 DEF GoesOn, CycleFacts, MasterType
    <3>3. ~lost' => ~lost /\ ~(ctl_cmd_wr_en /\ ctl_cmd_wr_rst_busy)
      BY Zenon DEF CycleFacts
    <3>4. acked + (IF m.b /\ m.addr = "CTL_CMD" THEN 1 ELSE 0) = issued
      BY DEF CycleFacts, WordsInv
    <3>5. (acked + (IF m.b /\ m.addr = "CTL_CMD" THEN 1 ELSE 0) = issued)'
      BY <1>2, <3>4 DEF GoesOn, CycleFacts, MasterType, CtlInv, Quiet
    <3>6. CASE ctl_cmd_wr_en
      <4>1. /\ popped + Len(ctl_cmd_afifo.mem) + 1 <= issued
            /\ ~lost => popped + Len(ctl_cmd_afifo.mem) + 1 = issued
        BY <3>1, <3>2, <3>6 DEF CycleFacts, WordsInv
      <4>2. CASE ctl_cmd_wr_rst_busy
        <5>1. Len(ctl_cmd_afifo.mem)' = Len(ctl_cmd_afifo.mem)
          BY <3>2, <4>2 DEF CycleFacts
        <5> QED BY <3>1, <3>2, <3>3, <3>5, <3>6, <4>1, <4>2, <5>1 DEF WordsInv
      <4>3. CASE ~ctl_cmd_wr_rst_busy
        <5>1. Len(ctl_cmd_afifo.mem)' = Len(ctl_cmd_afifo.mem) + 1
          BY <3>2, <3>6, <4>3 DEF CycleFacts
        <5> QED BY <3>1, <3>2, <3>3, <3>5, <4>1, <5>1 DEF WordsInv
      <4> QED BY <4>2, <4>3
    <3>7. CASE ~ctl_cmd_wr_en
      <4>1. Len(ctl_cmd_afifo.mem)' = Len(ctl_cmd_afifo.mem)
        BY <3>7 DEF CycleFacts
      <4>2. /\ popped + Len(ctl_cmd_afifo.mem) <= issued
            /\ ~lost => popped + Len(ctl_cmd_afifo.mem) = issued
        <5>1. ~WordPending
          BY <3>1, <3>7
        <5> QED BY <3>2, <5>1 DEF CycleFacts, WordsInv
      <4> QED BY <3>1, <3>2, <3>3, <3>5, <4>1, <4>2 DEF WordsInv
    <3> QED BY <3>6, <3>7
  <2>5. NoOverflow'
    BY <1>2 DEF GoesOn, CycleFacts, SlaveType, MasterType, CtlInv, NoOverflow
  <2> QED BY <2>1, <2>2, <2>3, <2>4, <2>5 DEF CtlStep
<1> QED BY <1>1, <1>2, ContinueStep DEF CycleFacts

-----------------------------------------------------------------------------
(***************************************************************************)
(* A cycle of axil_aclk, and what happens on the other side of the FIFO.   *)
(***************************************************************************)

\* The cycle's facts follow from the invariant and the FIFO's write.
LEMMA CycleStep ==
    ASSUME CtlAllInv, Clock
    PROVE  CycleFacts /\ ctl_cmd_afifo' \in CtlFifos /\ FifoOK(ctl_cmd_afifo')
           /\ WordsInOrder'
<1>1. FifoWrite /\ popped' = popped /\ held' = held
      /\ ctl_cmd_wr_rst_busy' = ctl_cmd_wr_rst_busy
  BY DEF Clock
<1>2. /\ SlaveType /\ MasterType /\ CtlInv /\ WordsInv /\ NoOverflow
      /\ ctl_cmd_afifo \in CtlFifos
  BY TypeParts DEF CtlAllInv
<1>3. ctl_cmd_afifo' \in CtlFifos
  BY <1>1, FifoStep
<1>4. Len(ctl_cmd_afifo.mem) \in Nat /\ Len(ctl_cmd_afifo'.mem) \in Nat
  BY <1>2, <1>3 DEF CtlFifos
<1> QED BY <1>1, <1>2, <1>4, FifoStep DEF CycleFacts

\* A cycle keeps the invariant.
LEMMA ClockStep ==
    ASSUME CtlAllInv, Clock
    PROVE  CtlAllInv'
<1>1. CycleFacts /\ ctl_cmd_afifo' \in CtlFifos /\ FifoOK(ctl_cmd_afifo') /\ WordsInOrder'
  BY CycleStep
<1>2. CtlStep
  <2>1. CASE Issue
    <3>1. axil_write_state = "IDLE" /\ ~m.b /\ ~m.aw
      BY <1>1, <2>1 DEF Issue, CycleFacts, CtlInv, Quiet
    <3>2. IdleNone
      BY <3>1 DEF Clock, IdleWrite, IdleAddr, Wready, Wait, Resp
    <3> QED BY <1>1, <2>1, <3>2, IssueStep
  <2>2. CASE Continue
    BY <1>1, <2>2, IdleNoneStep, IdleWriteStep, IdleAddrStep, WreadyStep, WaitStep,
       RespStep DEF Clock
  <2> QED BY <2>1, <2>2 DEF Clock
<1>3. CtlTypeOK'
  <2>1. (SlaveType /\ MasterType)'
    BY <1>2 DEF CtlStep
  <2> QED BY <1>1, <2>1 DEF CtlTypeOK, SlaveType, MasterType, CtlFifos
<1> QED BY <1>1, <1>2, <1>3 DEF CtlAllInv, CtlStep

\* The FIFO leaves reset.
LEMMA RstDoneStep ==
    ASSUME CtlAllInv, RstDone
    PROVE  CtlAllInv'
<1>1. UNCHANGED <<slave, master, ctl_cmd_afifo, popped, lost>>
      /\ ctl_cmd_wr_rst_busy' = FALSE
  BY DEF RstDone
<1>2. CtlTypeOK'
  BY <1>1 DEF CtlAllInv, CtlTypeOK, slave, master
<1>3. CtlInv' /\ WordsInv' /\ WordsInOrder' /\ NoOverflow'
  BY <1>1 DEF CtlAllInv, slave, master, CtlInv, WordsInv, WordPending, WordsInOrder, NoOverflow
<1> QED BY <1>2, <1>3 DEF CtlAllInv

\* A word is read: the oldest one leaves the FIFO.
LEMMA ReadStep ==
    ASSUME CtlAllInv, Read
    PROVE  CtlAllInv'
<1> DEFINE f == ctl_cmd_afifo
<1>1. /\ f \in CtlFifos /\ FifoOK(f) /\ SlaveType /\ MasterType
      /\ CtlInv /\ WordsInv /\ WordsInOrder /\ NoOverflow
  BY TypeParts DEF CtlAllInv
<1>2. /\ ~empty(f) /\ popped' = popped + 1
      /\ f' = [f EXCEPT !.mem = Tail(@), !.freed = @ + 1]
      /\ UNCHANGED <<slave, master, ctl_cmd_wr_rst_busy, lost>>
  BY DEF Read, Pop
<1>3. /\ f = [mem |-> f.mem, unseen |-> f.unseen, freed |-> f.freed]
      /\ f.mem \in Seq(1 .. MaxWords) /\ f.unseen \in Nat /\ f.freed \in Nat
  BY <1>1 DEF CtlFifos
<1>4. Len(f.mem) \in Nat /\ Len(f.mem) > 0 /\ f.mem # <<>>
  BY <1>1, <1>2, <1>3 DEF FifoOK, empty
<1>5. f'.mem = Tail(f.mem) /\ f'.unseen = f.unseen /\ f'.freed = f.freed + 1
  BY <1>2, <1>3
<1>6. Tail(f.mem) \in Seq(1 .. MaxWords) /\ Len(f'.mem) = Len(f.mem) - 1
  BY <1>3, <1>4, <1>5
<1>7. f' = [mem |-> Tail(f.mem), unseen |-> f.unseen, freed |-> f.freed + 1]
  BY <1>2, <1>3
<1>8. f' \in CtlFifos
  BY <1>3, <1>6, <1>7 DEF CtlFifos
<1>9. FifoOK(f')
  BY <1>1, <1>2, <1>3, <1>4, <1>5, <1>6, DepthAssumption DEF FifoOK, empty
<1>10. popped + Len(f.mem) <= issued
  <2>1. popped \in Nat /\ issued \in Nat
    BY <1>1 DEF MasterType
  <2>2. CASE WordPending
    BY <1>1, <1>4, <2>1, <2>2 DEF WordsInv
  <2>3. CASE ~WordPending
    BY <1>1, <1>4, <2>1, <2>3 DEF WordsInv
  <2> QED BY <2>2, <2>3
<1>11. (SlaveType /\ MasterType /\ CtlInv)'
  <2>1. popped' \in 0 .. MaxWords
    BY <1>1, <1>2, <1>4, <1>10, WriteAssumption DEF MasterType
  <2> QED BY <1>1, <1>2, <2>1 DEF SlaveType, MasterType, CtlInv, slave, master
<1>12. WordsInv'
  <2>1. (WordPending' <=> WordPending) /\ issued' = issued /\ lost' = lost
        /\ (acked + (IF m.b /\ m.addr = "CTL_CMD" THEN 1 ELSE 0) = issued)'
    BY <1>1, <1>2 DEF WordPending, slave, master, WordsInv
  <2>2. popped' + Len(f'.mem) = popped + Len(f.mem)
    BY <1>1, <1>2, <1>4, <1>6 DEF MasterType
  <2> QED BY <1>1, <2>1, <2>2 DEF WordsInv
<1>13. WordsInOrder'
  <2>1. SUFFICES ASSUME ~lost', NEW i \in DOMAIN f'.mem
                 PROVE  f'.mem[i] = popped' + i
    BY DEF WordsInOrder
  <2>2. i \in 1 .. Len(f.mem) - 1
    BY <1>3, <1>4, <1>5, <1>6
  <2>3. f'.mem[i] = f.mem[i + 1]
    BY <1>3, <1>4, <1>5, <2>2
  <2>4. f.mem[i + 1] = popped + (i + 1)
    BY <1>1, <1>2, <1>3, <1>4, <2>1, <2>2 DEF WordsInOrder, master
  <2> QED BY <1>1, <1>2, <2>2, <2>3, <2>4 DEF MasterType
<1>14. NoOverflow'
  BY <1>1, <1>2, <1>3, <1>4, <1>5, <1>6 DEF NoOverflow, full, slave
<1>15. CtlTypeOK'
  BY <1>8, <1>9, <1>11 DEF CtlTypeOK, SlaveType, MasterType, CtlFifos
<1> QED BY <1>11, <1>12, <1>13, <1>14, <1>15 DEF CtlAllInv

\* One side of the FIFO learns of the other: the words stay as they are.
LEMMA CtlSynchroniseStep ==
    ASSUME CtlAllInv, CtlSynchronise
    PROVE  CtlAllInv'
<1> DEFINE f == ctl_cmd_afifo
<1>1. /\ f \in CtlFifos /\ FifoOK(f) /\ SlaveType /\ MasterType
      /\ CtlInv /\ WordsInv /\ WordsInOrder /\ NoOverflow
  BY TypeParts DEF CtlAllInv
<1>2. UNCHANGED <<slave, master, ctl_cmd_wr_rst_busy, popped, lost>>
  BY DEF CtlSynchronise
<1>3. /\ f = [mem |-> f.mem, unseen |-> f.unseen, freed |-> f.freed]
      /\ f.mem \in Seq(1 .. MaxWords) /\ f.unseen \in Nat /\ f.freed \in Nat
  BY <1>1 DEF CtlFifos
<1>4. /\ f' \in CtlFifos /\ FifoOK(f') /\ f'.mem = f.mem
      /\ full(f') => full(f)
  <2>1. CASE f.unseen > 0 /\ f' = SeeWrite(f)
    <3>1. f' = [mem |-> f.mem, unseen |-> f.unseen - 1, freed |-> f.freed]
      BY <1>3, <2>1 DEF SeeWrite
    <3> QED BY <1>1, <1>3, <2>1, <3>1 DEF CtlFifos, FifoOK, full
  <2>2. CASE f.freed > 0 /\ f' = SeeRead(f)
    <3>1. f' = [mem |-> f.mem, unseen |-> f.unseen, freed |-> f.freed - 1]
      BY <1>3, <2>2 DEF SeeRead
    <3>2. Len(f.mem) \in Nat
      BY <1>3
    <3> QED BY <1>1, <1>3, <2>2, <3>1, <3>2, DepthAssumption DEF CtlFifos, FifoOK, full
  <2> QED BY <2>1, <2>2 DEF CtlSynchronise
<1>5. (SlaveType /\ MasterType /\ CtlInv)'
  BY <1>1, <1>2 DEF SlaveType, MasterType, CtlInv, slave, master
<1>6. WordsInv'
  BY <1>1, <1>2, <1>4 DEF WordsInv, WordPending, slave, master
<1>7. WordsInOrder'
  BY <1>1, <1>2, <1>4 DEF WordsInOrder
<1>8. NoOverflow'
  BY <1>1, <1>2, <1>4 DEF NoOverflow, slave
<1>9. CtlTypeOK'
  BY <1>4, <1>5 DEF CtlTypeOK, SlaveType, MasterType, CtlFifos
<1> QED BY <1>5, <1>6, <1>7, <1>8, <1>9 DEF CtlAllInv

-----------------------------------------------------------------------------
\* The state after reset satisfies the invariant.
LEMMA CtlInitInv == CtlInit => CtlAllInv
<1> SUFFICES ASSUME CtlInit PROVE CtlAllInv
  OBVIOUS
<1>1. CtlTypeOK
  <2>0. 0 \in 0 .. MaxWords
    BY WriteAssumption
  <2>1. SlaveType
    BY <2>0, Zenon DEF CtlInit, SlaveType
  <2>2. Quiet \in Masters
    BY DEF Quiet, Masters, Addrs
  <2>3. held \in BOOLEAN
    BY WriteAssumption DEF CtlInit
  <2>4. MasterType
    BY <2>0, <2>2, <2>3, Zenon DEF CtlInit, MasterType
  <2>5. EmptyFifo \in CtlFifos
    BY DEF EmptyFifo, CtlFifos
  <2>6. FifoOK(EmptyFifo)
    BY DepthAssumption DEF EmptyFifo, FifoOK
  <2>7. ctl_cmd_afifo = EmptyFifo
    BY DEF CtlInit
  <2> QED BY <2>1, <2>4, <2>5, <2>6, <2>7, TypeParts
<1>2. CtlInv
  BY DEF CtlInit, CtlInv, Quiet
<1>3. WordsInv
  BY DEF CtlInit, WordsInv, WordPending, EmptyFifo, Quiet
<1>4. WordsInOrder /\ NoOverflow
  BY DEF CtlInit, WordsInOrder, NoOverflow, EmptyFifo
<1> QED BY <1>1, <1>2, <1>3, <1>4 DEF CtlAllInv

\* Every step keeps the invariant.
LEMMA CtlNextInv == CtlAllInv /\ [CtlNext]_ctlVars => CtlAllInv'
<1> SUFFICES ASSUME CtlAllInv, [CtlNext]_ctlVars PROVE CtlAllInv'
  OBVIOUS
<1>1. CASE Clock
  BY <1>1, ClockStep
<1>2. CASE RstDone
  BY <1>2, RstDoneStep
<1>3. CASE Read
  BY <1>3, ReadStep
<1>4. CASE CtlSynchronise
  BY <1>4, CtlSynchroniseStep
<1>5. CASE UNCHANGED ctlVars
  BY <1>5 DEF ctlVars, CtlAllInv, CtlTypeOK, CtlInv, WordsInv, WordPending, WordsInOrder, NoOverflow
<1> QED BY <1>1, <1>2, <1>3, <1>4, <1>5 DEF CtlNext

\* The invariant holds in every reachable state.
THEOREM CtlInvariance == CtlSpec => []CtlAllInv
  BY CtlInitInv, CtlNextInv, PTL DEF CtlSpec

\* The registers, the bus master and the FIFO keep their types: neither side
\* of the FIFO is ever out of step with its memory.
THEOREM CtlTypeCorrect == CtlSpec => []CtlTypeOK
<1>1. CtlAllInv => CtlTypeOK
  BY DEF CtlAllInv
<1> QED BY <1>1, CtlInvariance, PTL

\* The words of issue_ctl_cmd() enter the command FIFO once each and in order,
\* whatever its depth, unless one was lost in the FIFO's reset.
THEOREM WordsInOrderHolds == CtlSpec => []WordsInOrder
<1>1. CtlAllInv => WordsInOrder
  BY DEF CtlAllInv
<1> QED BY <1>1, CtlInvariance, PTL

\* The state machine never pushes into a full FIFO, although it looks at the
\* flag one cycle before.
THEOREM NoOverflowHolds == CtlSpec => []NoOverflow
<1>1. CtlAllInv => NoOverflow
  BY DEF CtlAllInv
<1> QED BY <1>1, CtlInvariance, PTL

\* A write to CTL_CMD that has been answered has put its word into the FIFO.
THEOREM AckedIsPushedHolds == CtlSpec => []AckedIsPushed
<1>1. CtlAllInv => AckedIsPushed
  <2> SUFFICES ASSUME CtlAllInv, ~lost
               PROVE  acked <= popped + Len(ctl_cmd_afifo.mem)
    BY DEF AckedIsPushed
  <2>1. /\ MasterType /\ WordsInv /\ ctl_cmd_afifo \in CtlFifos
    BY TypeParts DEF CtlAllInv
  <2>2. Len(ctl_cmd_afifo.mem) \in Nat
    BY <2>1 DEF CtlFifos
  <2>3. WordPending => m.b /\ m.addr = "CTL_CMD"
    BY DEF WordPending
  <2>4. popped \in Nat /\ issued \in Nat /\ acked \in Nat
    BY <2>1 DEF MasterType
  <2>5. CASE WordPending
    <3>1. acked + 1 = issued
      BY <2>1, <2>3, <2>5 DEF WordsInv
    <3>2. popped + Len(ctl_cmd_afifo.mem) + 1 = issued
      BY <2>1, <2>5 DEF WordsInv
    <3> QED BY <2>2, <2>4, <3>1, <3>2
  <2>6. CASE ~WordPending
    <3>1. acked <= issued
      BY <2>1, <2>4 DEF WordsInv
    <3>2. popped + Len(ctl_cmd_afifo.mem) = issued
      BY <2>1, <2>2, <2>4, <2>6 DEF WordsInv
    <3> QED BY <2>2, <2>4, <3>1, <3>2
  <2> QED BY <2>5, <2>6
<1> QED BY <1>1, CtlInvariance, PTL

-----------------------------------------------------------------------------
(* ComputeDispatch: dispatch of commands and the status read path          *)

DispatchFifos == [mem : Seq(Nat), unseen : Nat, freed : Nat]

Types ==
    /\ cl_box_start \in BOOLEAN /\ ap_start \in BOOLEAN /\ ker_status_rd_en \in BOOLEAN
    /\ work_id_reg \in 0 .. Jobs
    /\ box \in [pc : {"idle", "read", "done"}, words : 0 .. CmdWords, work_id : 0 .. Jobs]
    /\ mm \in [pc : {"idle", "run", "write"}, work_id : 0 .. Jobs]
    /\ cmd \in DispatchFifos /\ FifoOK(cmd)
    /\ sts \in DispatchFifos /\ FifoOK(sts)
    /\ rdata \in -1 .. Jobs
    /\ pushed \in Nat /\ got \in Nat

\* Words cl_box has taken
Taken == pushed - Len(cmd.mem)
\* Work ids taken from the status FIFO, and work ids written to it
Fetched ==
    IF host = "fetch" /\ axil_read_state = "RESP" /\ ~ker_status_rd_en
    THEN got + 1 ELSE got
Reported == Fetched + Len(sts.mem)

\* What the parts in the kernel's clock domain do, from the dispatch of a
\* command to its last cycle
BoxPhase ==
    /\ kernel_state = "CL_BOX_ACTIVE" /\ cl_box_start
    /\ comp_state = "IDLE" /\ ~ap_start /\ mm.pc = "idle"
KernelPhase ==
    /\ kernel_state = "CL_KERNEL_ACTIVE" /\ ~cl_box_start /\ box.pc = "idle"
    /\ comp_state = "BUSY" /\ ap_start
Waiting ==
    /\ kernel_state = "CL_IDLE" /\ ~cl_box_start /\ box.pc = "idle"
    /\ comp_state = "IDLE" /\ ~ap_start /\ mm.pc = "idle"
Starting == BoxPhase /\ box.pc = "idle"
Parsing == BoxPhase /\ box.pc = "read"
Parsed == BoxPhase /\ box.pc = "done"
Launching == KernelPhase /\ mm.pc = "idle"
Running == KernelPhase /\ mm.pc \in {"run", "write"}

\* In each phase, how many words have been taken and which work id is where.
OnePhase ==
    \/ Waiting /\ Taken = CmdWords * Reported
    \/ Starting /\ Taken = CmdWords * Reported
    \/ /\ Parsing /\ box.words < CmdWords
       /\ Taken = CmdWords * Reported + box.words
    \/ /\ Parsed /\ box.work_id = Reported + 1
       /\ Taken = CmdWords * Reported + CmdWords
    \/ /\ Launching /\ work_id_reg = Reported + 1
       /\ Taken = CmdWords * Reported + CmdWords
    \/ /\ Running /\ work_id_reg = Reported + 1 /\ mm.work_id = Reported + 1
       /\ Taken = CmdWords * Reported + CmdWords

\* Words and work ids lie in the FIFOs in order.
CommandsQueued == \A i \in 1 .. Len(cmd.mem) : cmd.mem[i] = Taken + i
StatusesQueued == \A i \in 1 .. Len(sts.mem) : sts.mem[i] = Fetched + i

\* Where the read in progress is.  A host that was told of a finished command
\* finds its work id: nobody else takes it.
ReadInv ==
    \/ /\ host \in {"free", "write", "wait"}
       /\ axil_read_state = "IDLE" /\ ar = "none" /\ ~ker_status_rd_en
    \/ /\ host = "poll" /\ axil_read_state = "IDLE"
       /\ ar = "JOB_COMPLETED_NOT_READ" /\ ~ker_status_rd_en
    \/ /\ host = "poll" /\ axil_read_state = "RESP" /\ ar = "none" /\ ~ker_status_rd_en
       /\ rdata \in 0 .. rd_data_count(sts)
    \/ /\ host = "ready" /\ axil_read_state = "IDLE" /\ ar = "none" /\ ~ker_status_rd_en
       /\ ~empty(sts)
    \/ /\ host = "fetch" /\ axil_read_state = "IDLE" /\ ar = "KER_STS" /\ ~ker_status_rd_en
       /\ ~empty(sts)
    \/ /\ host = "fetch" /\ axil_read_state = "RESP" /\ ar = "none"
       /\ rdata = got + 1
       /\ ker_status_rd_en => ~empty(sts)

\* The host writes no more commands than it means to.
IssueInv ==
    /\ pushed <= CmdWords * Jobs
    /\ host = "write" => pushed < CmdWords * Jobs

DispatchInv ==
    Types /\ OnePhase /\ CommandsQueued /\ StatusesQueued /\ ReadInv /\ IssueInv

-----------------------------------------------------------------------------
(***************************************************************************)
(* Multiples of the length of a command.                                   *)
(***************************************************************************)
LEMMA DispatchConstants ==
    Jobs \in Nat /\ CmdWords \in Nat /\ CmdWords > 1 /\ Depth \in Nat /\ Depth > 0
  BY DispatchAssumption, DepthAssumption

\* Multiples are at least a command apart.
LEMMA CommandsApart ==
    ASSUME NEW p \in Nat, NEW q \in Nat, p < q
    PROVE  CmdWords * p + CmdWords <= CmdWords * q
<1>1. q - p \in Nat /\ q - p >= 1
  OBVIOUS
<1>2. CmdWords * (q - p) >= CmdWords
  BY <1>1, DispatchConstants
<1>. QED BY <1>2, DispatchConstants

\* Quotient and remainder are the only ones.
LEMMA DispatchDivUnique ==
    ASSUME NEW q \in Nat, NEW r \in 0 .. CmdWords - 1, NEW a \in Nat,
           a = CmdWords * q + r
    PROVE  a \div CmdWords = q /\ a % CmdWords = r
<1>. DEFINE p == a \div CmdWords
            s == a % CmdWords
<1>1. p \in Nat /\ s \in 0 .. CmdWords - 1 /\ a = CmdWords * p + s
  BY DispatchConstants
<1>. HIDE DEF p, s
<1>2. CmdWords * p \in Nat /\ CmdWords * q \in Nat
  BY <1>1, DispatchConstants
<1>3. CASE p < q
  <2>1. CmdWords * p + CmdWords <= CmdWords * q
    BY <1>1, <1>3, CommandsApart
  <2>. QED BY <1>1, <1>2, <2>1, DispatchConstants
<1>4. CASE q < p
  <2>1. CmdWords * q + CmdWords <= CmdWords * p
    BY <1>1, <1>4, CommandsApart
  <2>. QED BY <1>1, <1>2, <2>1, DispatchConstants
<1>5. CASE p = q
  BY <1>1, <1>2, <1>5, DispatchConstants DEF p, s
<1>. QED BY <1>1, <1>3, <1>4, <1>5

-----------------------------------------------------------------------------
(***************************************************************************)
(* What the operations of a FIFO do to its contents and its counts.        *)
(***************************************************************************)
LEMMA FifoFields ==
    ASSUME NEW f \in DispatchFifos
    PROVE  /\ f.mem \in Seq(Nat) /\ Len(f.mem) \in Nat
           /\ f.unseen \in Nat /\ f.freed \in Nat
           /\ f = [mem |-> f.mem, unseen |-> f.unseen, freed |-> f.freed]
  BY DEF DispatchFifos

\* What the reader's side counts is at most what the memory holds, and zero when it says empty.
LEMMA CountIs ==
    ASSUME NEW f \in DispatchFifos, FifoOK(f)
    PROVE  /\ rd_data_count(f) \in 0 .. Len(f.mem)
           /\ empty(f) <=> rd_data_count(f) = 0
  BY FifoFields DEF FifoOK, rd_data_count, empty

\* A push adds a word behind the others, which the reader does not see yet.
LEMMA PushIs ==
    ASSUME NEW f \in DispatchFifos, FifoOK(f), ~full(f), NEW x \in Nat,
           NEW g, g = Push(f, x)
    PROVE  /\ g \in DispatchFifos /\ FifoOK(g)
           /\ Len(g.mem) = Len(f.mem) + 1
           /\ \A i \in 1 .. Len(f.mem) : g.mem[i] = f.mem[i]
           /\ g.mem[Len(f.mem) + 1] = x
           /\ rd_data_count(g) = rd_data_count(f)
<1>1. g = [mem |-> Append(f.mem, x), unseen |-> f.unseen + 1, freed |-> f.freed]
  <2>1. g = [f EXCEPT !.mem = Append(@, x), !.unseen = @ + 1]
    BY DEF Push
  <2>2. f = [mem |-> f.mem, unseen |-> f.unseen, freed |-> f.freed]
    BY FifoFields
  <2>. QED BY <2>1, <2>2
<1>2. Append(f.mem, x) \in Seq(Nat) /\ Len(Append(f.mem, x)) = Len(f.mem) + 1
  BY FifoFields
<1>3. g \in DispatchFifos
  BY <1>1, <1>2, FifoFields DEF DispatchFifos
<1>4. FifoOK(g) /\ rd_data_count(g) = rd_data_count(f)
  <2>1. Len(g.mem) = Len(f.mem) + 1 /\ g.unseen = f.unseen + 1 /\ g.freed = f.freed
    BY <1>1, <1>2
  <2>2. Len(f.mem) \in Nat /\ f.unseen \in Nat /\ f.freed \in Nat
    BY FifoFields
  <2>3. Len(f.mem) + f.freed < Depth /\ f.unseen <= Len(f.mem) /\ f.freed <= Depth
    BY <2>2, DispatchConstants DEF full, FifoOK
  <2>4. FifoOK(g)
    BY <2>1, <2>2, <2>3, DispatchConstants DEF FifoOK
  <2>5. rd_data_count(g) = rd_data_count(f)
    BY <2>1, <2>2 DEF rd_data_count
  <2>. QED BY <2>4, <2>5
<1>5. /\ \A i \in 1 .. Len(f.mem) : g.mem[i] = f.mem[i]
      /\ g.mem[Len(f.mem) + 1] = x
  BY <1>1, FifoFields
<1>. QED BY <1>1, <1>2, <1>3, <1>4, <1>5

\* A pop takes the first word, which is the one shown by dout.
LEMMA PopIs ==
    ASSUME NEW f \in DispatchFifos, FifoOK(f), ~empty(f), NEW g, g = Pop(f)
    PROVE  /\ g \in DispatchFifos /\ FifoOK(g)
           /\ Len(f.mem) >= 1 /\ Len(g.mem) = Len(f.mem) - 1
           /\ \A i \in 1 .. Len(g.mem) : g.mem[i] = f.mem[i + 1]
           /\ dout(f) = f.mem[1]
           /\ rd_data_count(g) = rd_data_count(f) - 1
<1>1. g = [mem |-> Tail(f.mem), unseen |-> f.unseen, freed |-> f.freed + 1]
  <2>1. g = [f EXCEPT !.mem = Tail(@), !.freed = @ + 1]
    BY DEF Pop
  <2>2. f = [mem |-> f.mem, unseen |-> f.unseen, freed |-> f.freed]
    BY FifoFields
  <2>. QED BY <2>1, <2>2
<1>2. Len(f.mem) >= 1 /\ f.unseen <= Len(f.mem) - 1 /\ f.mem # <<>>
  BY FifoFields DEF FifoOK, empty
<1>3. Tail(f.mem) \in Seq(Nat) /\ Len(Tail(f.mem)) = Len(f.mem) - 1
  BY <1>2, FifoFields
<1>4. g \in DispatchFifos
  BY <1>1, <1>3, FifoFields DEF DispatchFifos
<1>5. FifoOK(g) /\ rd_data_count(g) = rd_data_count(f) - 1
  BY <1>1, <1>2, <1>3, FifoFields, DispatchConstants DEF FifoOK, rd_data_count
<1>6. \A i \in 1 .. Len(g.mem) : g.mem[i] = f.mem[i + 1]
  BY <1>1, <1>2, <1>3, FifoFields
<1>7. dout(f) = f.mem[1]
  BY <1>2, FifoFields DEF dout
<1>. QED BY <1>1, <1>2, <1>3, <1>4, <1>5, <1>6, <1>7

\* When a flag is synchronised the words stay and the reader sees at least as many.
LEMMA SeeIs ==
    ASSUME NEW f \in DispatchFifos, FifoOK(f), NEW g,
           \/ f.unseen > 0 /\ g = SeeWrite(f)
           \/ f.freed > 0 /\ g = SeeRead(f)
    PROVE  /\ g \in DispatchFifos /\ FifoOK(g)
           /\ g.mem = f.mem
           /\ rd_data_count(g) >= rd_data_count(f)
<1>1. CASE f.unseen > 0 /\ g = SeeWrite(f)
  <2>1. g = [mem |-> f.mem, unseen |-> f.unseen - 1, freed |-> f.freed]
        /\ f.unseen - 1 \in Nat
    BY <1>1, FifoFields DEF SeeWrite
  <2>. QED BY <2>1, FifoFields, DispatchConstants DEF DispatchFifos, FifoOK, rd_data_count
<1>2. CASE f.freed > 0 /\ g = SeeRead(f)
  <2>1. g = [mem |-> f.mem, unseen |-> f.unseen, freed |-> f.freed - 1]
        /\ f.freed - 1 \in Nat
    BY <1>2, FifoFields DEF SeeRead
  <2>. QED BY <2>1, FifoFields, DispatchConstants DEF DispatchFifos, FifoOK, rd_data_count
<1>. QED BY <1>1, <1>2

-----------------------------------------------------------------------------
\* The sizes in play are numbers, and the host has asked for every work id.
LEMMA Sizes ==
    ASSUME DispatchInv
    PROVE  /\ Len(cmd.mem) \in Nat /\ Len(sts.mem) \in Nat
           /\ Fetched \in Nat /\ Reported \in Nat /\ Taken \in Nat
           /\ CmdWords * Reported \in Nat
           /\ CmdWords * (Reported + 1) = CmdWords * Reported + CmdWords
           /\ CmdWords * Reported <= Taken /\ Taken <= pushed
           /\ Reported <= Jobs
           /\ CmdWords * Reported < pushed => Reported < Jobs
<1>1. Len(cmd.mem) \in Nat /\ Len(sts.mem) \in Nat /\ pushed \in Nat /\ got \in Nat
  BY FifoFields DEF DispatchInv, Types
<1>2. Fetched \in Nat
  BY <1>1 DEF Fetched
<1>3. Reported \in Nat
  BY <1>1, <1>2 DEF Reported
<1>4. CmdWords * Reported \in Nat
      /\ CmdWords * (Reported + 1) = CmdWords * Reported + CmdWords
  BY <1>3, DispatchConstants
<1>5. CmdWords * Reported <= Taken
  <2>1. box.words \in Nat
    BY DispatchConstants DEF DispatchInv, Types
  <2>. HIDE DEF Taken, Reported
  <2>. QED BY <1>4, <2>1, DispatchConstants DEF DispatchInv, OnePhase
<1>6. Taken \in Nat /\ Taken <= pushed
  BY <1>1, <1>4, <1>5 DEF Taken
<1>7. pushed <= CmdWords * Jobs
  BY DEF DispatchInv, IssueInv
<1>8. Reported <= Jobs
  <2>1. SUFFICES ASSUME Jobs < Reported PROVE FALSE
    BY <1>3, DispatchConstants
  <2>2. CmdWords * Jobs + CmdWords <= CmdWords * Reported
    BY <1>3, <2>1, CommandsApart, DispatchConstants
  <2>. QED BY <1>1, <1>4, <1>5, <1>6, <1>7, <2>2, DispatchConstants
<1>9. CmdWords * Reported < pushed => Reported < Jobs
  <2>1. Reported = Jobs => pushed <= CmdWords * Reported
    BY <1>7
  <2>. QED BY <1>1, <1>3, <1>4, <1>8, <2>1, DispatchConstants
<1>. QED BY <1>1, <1>2, <1>3, <1>4, <1>5, <1>6, <1>8, <1>9

\* The initial state satisfies the invariant.
LEMMA InvInit == DispatchInit => DispatchInv
<1>. SUFFICES ASSUME DispatchInit PROVE DispatchInv
  OBVIOUS
<1>1. cmd = EmptyFifo /\ sts = EmptyFifo /\ Len(cmd.mem) = 0 /\ Len(sts.mem) = 0
  BY DEF DispatchInit, EmptyFifo
<1>2. EmptyFifo \in DispatchFifos /\ FifoOK(EmptyFifo)
  BY DispatchConstants DEF EmptyFifo, DispatchFifos, FifoOK
<1>3. Types
  <2>1. 0 \in 0 .. Jobs /\ 0 \in 0 .. CmdWords /\ 0 \in -1 .. Jobs /\ 0 \in Nat
    BY DispatchConstants
  <2>. HIDE DEF EmptyFifo
  <2>. QED BY <1>1, <1>2, <2>1 DEF DispatchInit, Types
<1>4. Taken = 0 /\ Fetched = 0 /\ Reported = 0
  BY <1>1 DEF DispatchInit, Taken, Fetched, Reported
<1>5. OnePhase
  BY <1>4, DispatchConstants DEF DispatchInit, OnePhase, Waiting
<1>6. CommandsQueued /\ StatusesQueued
  BY <1>1 DEF CommandsQueued, StatusesQueued
<1>7. ReadInv
  BY DEF DispatchInit, ReadInv
<1>8. IssueInv
  <2>1. CmdWords * Jobs \in Nat
    BY DispatchConstants
  <2>. QED BY <2>1 DEF DispatchInit, IssueInv
<1>. QED BY <1>3, <1>5, <1>6, <1>7, <1>8 DEF DispatchInv

-----------------------------------------------------------------------------
\* The host program's own steps
LEMMA ProgramStep == DispatchInv /\ Program => DispatchInv'
<1>. SUFFICES ASSUME DispatchInv, Program PROVE DispatchInv'
  OBVIOUS
<1>. USE DEF axis, axil, prog
<1>1. Types /\ OnePhase /\ CommandsQueued /\ StatusesQueued /\ ReadInv /\ IssueInv
  BY DEF DispatchInv
<1>2. ASSUME host' \in {"write", "poll", "fetch"}, host \in {"free", "wait", "ready"},
             axil_read_state = "IDLE",
             UNCHANGED <<axis, axil, cmd, sts, pushed, got>>
      PROVE  Types' /\ OnePhase' /\ CommandsQueued' /\ StatusesQueued'
  <2>1. UNCHANGED <<Taken, Fetched, Reported>>
    BY <1>2 DEF Taken, Fetched, Reported
  <2>. HIDE DEF Taken, Fetched, Reported
  <2>2. Types'
    BY <1>1, <1>2 DEF Types
  <2>3. OnePhase'
    BY <1>1, <1>2, <2>1 DEF OnePhase, Waiting, Starting, Parsing, Parsed, Launching,
                            Running, BoxPhase, KernelPhase
  <2>4. CommandsQueued' /\ StatusesQueued'
    BY <1>1, <1>2, <2>1 DEF CommandsQueued, StatusesQueued
  <2>. QED BY <2>2, <2>3, <2>4
<1>3. CASE gen_ctl_cmd
  <2>1. axil_read_state = "IDLE"
    BY <1>1, <1>3 DEF gen_ctl_cmd, ReadInv
  <2>2. ReadInv'
    BY <1>1, <1>3 DEF gen_ctl_cmd, ReadInv
  <2>3. IssueInv'
    <3>. DEFINE d == Finished
    <3>1. pushed \in Nat /\ pushed' = pushed
      BY <1>1, <1>3 DEF Types, gen_ctl_cmd
    <3>2. d \in Nat /\ pushed < CmdWords * d + CmdWords
      BY <3>1, DispatchConstants DEF Finished
    <3>3. d < Jobs
      BY <1>3 DEF gen_ctl_cmd
    <3>. HIDE DEF d
    <3>4. CmdWords * d + CmdWords <= CmdWords * Jobs
      BY <3>2, <3>3, CommandsApart, DispatchConstants
    <3>5. CmdWords * d \in Nat /\ CmdWords * Jobs \in Nat
      BY <3>2, DispatchConstants
    <3>. QED BY <3>1, <3>2, <3>4, <3>5, DispatchConstants DEF IssueInv
  <2>. QED BY <1>2, <1>3, <2>1, <2>2, <2>3 DEF gen_ctl_cmd, DispatchInv
<1>4. CASE wait_compute
  <2>1. axil_read_state = "IDLE" /\ host \in {"free", "wait"}
    BY <1>1, <1>4 DEF wait_compute, ReadInv
  <2>2. ReadInv'
    BY <1>1, <1>4 DEF wait_compute, ReadInv
  <2>3. IssueInv'
    BY <1>1, <1>4 DEF wait_compute, IssueInv
  <2>. QED BY <1>2, <1>4, <2>1, <2>2, <2>3 DEF wait_compute, DispatchInv
<1>5. CASE FetchStatus
  <2>1. axil_read_state = "IDLE"
    BY <1>1, <1>5 DEF FetchStatus, ReadInv
  <2>2. ReadInv'
    BY <1>1, <1>5 DEF FetchStatus, ReadInv
  <2>3. IssueInv'
    BY <1>1, <1>5 DEF FetchStatus, IssueInv
  <2>. QED BY <1>2, <1>5, <2>1, <2>2, <2>3 DEF FetchStatus, DispatchInv
<1>6. CASE issue_ctl_cmd
  <2>1. /\ host = "write" /\ ~full(cmd) /\ cmd' = Push(cmd, pushed + 1)
        /\ pushed' = pushed + 1 /\ host' \in {"free", "write"}
        /\ UNCHANGED <<axis, axil, sts, ar, got>>
    BY <1>6 DEF issue_ctl_cmd
  <2>2. /\ cmd \in DispatchFifos /\ FifoOK(cmd) /\ pushed \in Nat
        /\ Len(cmd.mem) \in Nat /\ Len(sts.mem) \in Nat
    BY <1>1, Sizes DEF Types
  <2>3. /\ cmd' \in DispatchFifos /\ FifoOK(cmd') /\ Len(cmd'.mem) = Len(cmd.mem) + 1
        /\ \A i \in 1 .. Len(cmd.mem) : cmd'.mem[i] = cmd.mem[i]
        /\ cmd'.mem[Len(cmd.mem) + 1] = pushed + 1
    <3>1. pushed + 1 \in Nat
      BY <2>2
    <3>. QED BY <2>1, <2>2, <3>1, PushIs
  <2>4. UNCHANGED <<Taken, Fetched, Reported>>
    <3>1. Taken' = Taken
      <4>1. pushed' = pushed + 1 /\ Len(cmd'.mem) = Len(cmd.mem) + 1
        BY <2>1, <2>3
      <4>. QED BY <2>2, <4>1 DEF Taken
    <3>2. Fetched' = Fetched
      BY <2>1 DEF Fetched
    <3>. QED BY <2>1, <3>1, <3>2 DEF Reported
  <2>5. Types'
    BY <1>1, <2>1, <2>2, <2>3 DEF Types
  <2>6. OnePhase'
    <3>. HIDE DEF Taken, Fetched, Reported
    <3>. QED BY <1>1, <2>1, <2>4 DEF OnePhase, Waiting, Starting, Parsing, Parsed,
                                     Launching, Running, BoxPhase, KernelPhase
  <2>7. CommandsQueued'
    <3>1. SUFFICES ASSUME NEW i \in 1 .. Len(cmd'.mem) PROVE cmd'.mem[i] = Taken + i
      BY <2>4 DEF CommandsQueued
    <3>2. CASE i \in 1 .. Len(cmd.mem)
      BY <1>1, <2>3, <3>2 DEF CommandsQueued
    <3>3. CASE i = Len(cmd.mem) + 1
      BY <2>2, <2>3, <3>3 DEF Taken
    <3>. QED BY <2>2, <2>3, <3>2, <3>3
  <2>8. StatusesQueued'
    BY <1>1, <2>1, <2>4 DEF StatusesQueued
  <2>9. ReadInv'
    BY <1>1, <2>1 DEF ReadInv
  <2>10. IssueInv'
    <3>1. CmdWords * Jobs \in Nat /\ pushed < CmdWords * Jobs
      BY <1>1, <2>1, DispatchConstants DEF IssueInv
    <3>2. CASE pushed + 1 = CmdWords * Jobs
      <4>. DEFINE n == pushed + 1
      <4>1. n \in Nat /\ 0 \in 0 .. CmdWords - 1 /\ n = CmdWords * Jobs + 0
        BY <2>2, <3>1, <3>2, DispatchConstants
      <4>2. host' = IF n % CmdWords = 0 THEN "free" ELSE "write"
        BY <1>6 DEF issue_ctl_cmd
      <4>. HIDE DEF n
      <4>3. n % CmdWords = 0
        BY <4>1, DispatchDivUnique, DispatchConstants
      <4>4. host' = "free"
        BY <4>2, <4>3
      <4>. QED BY <2>1, <2>2, <3>1, <3>2, <4>4 DEF IssueInv
    <3>3. CASE pushed + 1 # CmdWords * Jobs
      BY <2>1, <2>2, <3>1, <3>3 DEF IssueInv
    <3>. QED BY <3>2, <3>3
  <2>. QED BY <2>5, <2>6, <2>7, <2>8, <2>9, <2>10 DEF DispatchInv
<1>. QED BY <1>3, <1>4, <1>5, <1>6 DEF Program

\* A step of the read side that leaves the kernel's domain and the sizes alone
LEMMA QuietKernel ==
    ASSUME DispatchInv, UNCHANGED <<axis, cmd, pushed>>, Reported' = Reported
    PROVE  OnePhase' /\ CommandsQueued'
<1>1. UNCHANGED <<kernel_state, cl_box_start, comp_state, ap_start, work_id_reg, box, mm>>
  BY DEF axis
<1>2. Taken' = Taken
  BY DEF Taken
<1>. HIDE DEF Taken, Reported
<1>3. OnePhase'
  BY <1>1, <1>2 DEF DispatchInv, OnePhase, Waiting, Starting, Parsing, Parsed, Launching,
                    Running, BoxPhase, KernelPhase
<1>4. CommandsQueued'
  BY <1>2 DEF DispatchInv, CommandsQueued
<1>. QED BY <1>3, <1>4

\* The synchronisers show a side of a FIFO more words or more room, never less.
LEMMA DispatchSynchroniseStep == DispatchInv /\ DispatchSynchronise => DispatchInv'
<1>. SUFFICES ASSUME DispatchInv, DispatchSynchronise PROVE DispatchInv'
  OBVIOUS
<1>1. Types /\ OnePhase /\ CommandsQueued /\ StatusesQueued /\ ReadInv /\ IssueInv
  BY DEF DispatchInv
<1>2. UNCHANGED <<kernel_state, cl_box_start, comp_state, ap_start, work_id_reg, box, mm,
                  axil_read_state, ker_status_rd_en, rdata, host, ar, pushed, got>>
  BY DEF DispatchSynchronise, axis, axil, prog
<1>3. /\ cmd' \in DispatchFifos /\ FifoOK(cmd') /\ cmd'.mem = cmd.mem
      /\ sts' \in DispatchFifos /\ FifoOK(sts') /\ sts'.mem = sts.mem
      /\ rd_data_count(sts') >= rd_data_count(sts)
  <2>1. cmd \in DispatchFifos /\ FifoOK(cmd) /\ sts \in DispatchFifos /\ FifoOK(sts)
    BY <1>1 DEF Types
  <2>2. rd_data_count(sts) \in Nat
    BY <2>1, CountIs, FifoFields
  <2>3. CASE \/ cmd.unseen > 0 /\ cmd' = SeeWrite(cmd) /\ UNCHANGED sts
             \/ cmd.freed > 0 /\ cmd' = SeeRead(cmd) /\ UNCHANGED sts
    <3>1. cmd' \in DispatchFifos /\ FifoOK(cmd') /\ cmd'.mem = cmd.mem
      BY <2>1, <2>3, SeeIs
    <3>. QED BY <2>1, <2>2, <2>3, <3>1
  <2>4. CASE \/ sts.unseen > 0 /\ sts' = SeeWrite(sts) /\ UNCHANGED cmd
             \/ sts.freed > 0 /\ sts' = SeeRead(sts) /\ UNCHANGED cmd
    <3>1. /\ sts' \in DispatchFifos /\ FifoOK(sts') /\ sts'.mem = sts.mem
          /\ rd_data_count(sts') >= rd_data_count(sts)
      BY <2>1, <2>4, SeeIs
    <3>. QED BY <2>1, <2>4, <3>1
  <2>. QED BY <2>3, <2>4 DEF DispatchSynchronise
<1>4. UNCHANGED <<Taken, Fetched, Reported>>
  BY <1>2, <1>3 DEF Taken, Fetched, Reported
<1>5. Types'
  BY <1>1, <1>2, <1>3 DEF Types
<1>6. OnePhase'
  <2>. HIDE DEF Taken, Reported
  <2>. QED BY <1>1, <1>2, <1>4 DEF OnePhase, Waiting, Starting, Parsing, Parsed, Launching,
                                   Running, BoxPhase, KernelPhase
<1>7. CommandsQueued' /\ StatusesQueued'
  BY <1>1, <1>3, <1>4 DEF CommandsQueued, StatusesQueued
<1>8. ReadInv'
  <2>1. /\ rd_data_count(sts) \in Nat /\ rd_data_count(sts') \in Nat
        /\ empty(sts) <=> rd_data_count(sts) = 0
        /\ empty(sts') <=> rd_data_count(sts') = 0
    BY <1>1, <1>3, CountIs, FifoFields DEF Types
  <2>2. (~empty(sts) => ~empty(sts'))
        /\ (rdata \in 0 .. rd_data_count(sts) => rdata \in 0 .. rd_data_count(sts'))
    BY <1>3, <2>1
  <2>. QED BY <1>1, <1>2, <2>2 DEF ReadInv
<1>9. IssueInv'
  BY <1>1, <1>2 DEF IssueInv
<1>. QED BY <1>5, <1>6, <1>7, <1>8, <1>9 DEF DispatchInv

-----------------------------------------------------------------------------
\* A cycle of the read side that takes no work id
LEMMA NoPopStep ==
    ASSUME DispatchInv, ~ker_status_rd_en, sts' = sts, Fetched' = Fetched,
           UNCHANGED <<axis, cmd, pushed>>
    PROVE  OnePhase' /\ CommandsQueued' /\ StatusesQueued'
<1>1. Reported' = Reported
  BY DEF Reported
<1>2. StatusesQueued'
  <2>. HIDE DEF Fetched
  <2>. QED BY DEF DispatchInv, StatusesQueued
<1>. QED BY <1>1, <1>2, QuietKernel

\* A cycle of axil_aclk keeps the invariant.
LEMMA AxilStep == DispatchInv /\ AxilClock => DispatchInv'
<1>. SUFFICES ASSUME DispatchInv, AxilClock PROVE DispatchInv'
  OBVIOUS
<1>1. Types /\ OnePhase /\ CommandsQueued /\ StatusesQueued /\ ReadInv /\ IssueInv
  BY DEF DispatchInv
<1>2. /\ UNCHANGED <<kernel_state, cl_box_start, comp_state, ap_start, work_id_reg, box, mm,
                     cmd>>
      /\ UNCHANGED axis
  BY DEF AxilClock, axis
<1>3. sts \in DispatchFifos /\ FifoOK(sts) /\ got \in Nat /\ Len(sts.mem) \in Nat
  BY <1>1, FifoFields DEF Types
<1>4. rd_data_count(sts) \in 0 .. Len(sts.mem) /\ (empty(sts) <=> rd_data_count(sts) = 0)
  BY <1>3, CountIs
<1>5. CASE ReadIdle
  <2>1. /\ axil_read_state = "IDLE" /\ ~ker_status_rd_en /\ ker_status_rd_en' = FALSE
        /\ UNCHANGED <<axil_read_state, rdata, host, ar, pushed, got>>
    BY <1>1, <1>5 DEF ReadIdle, ReadInv, prog
  <2>2. sts' = sts
    BY <2>1 DEF AxilClock, StatusPop
  <2>3. Fetched' = Fetched
    BY <2>1 DEF Fetched
  <2>4. Types'
    BY <1>1, <1>2, <2>1, <2>2 DEF Types
  <2>5. ReadInv' /\ IssueInv'
    BY <1>1, <2>1, <2>2 DEF ReadInv, IssueInv
  <2>. QED BY <1>2, <2>1, <2>2, <2>3, <2>4, <2>5, NoPopStep DEF DispatchInv
<1>6. CASE ReadAccept
  <2>1. /\ axil_read_state = "IDLE" /\ ~ker_status_rd_en
        /\ axil_read_state' = "RESP" /\ ar' = "none"
        /\ UNCHANGED <<host, pushed, got>>
    BY <1>1, <1>6 DEF ReadAccept, ReadInv
  <2>2. sts' = sts
    BY <2>1 DEF AxilClock, StatusPop
  <2>3. CASE ar = "KER_STS"
    <3>1. host = "fetch" /\ ~empty(sts)
      BY <1>1, <2>1, <2>3 DEF ReadInv
    <3>2. rdata' = dout(sts) /\ ker_status_rd_en' = TRUE
      BY <1>6, <2>3, <3>1 DEF ReadAccept
    <3>3. Fetched = got /\ Fetched' = Fetched
      BY <2>1, <3>2 DEF Fetched
    <3>4. Len(sts.mem) >= 1 /\ dout(sts) = sts.mem[1]
      <4>. DEFINE g == Pop(sts)
      <4>. QED BY <1>3, <3>1, PopIs
    <3>5. rdata' = got + 1
      <4>1. 1 \in 1 .. Len(sts.mem)
        BY <1>3, <3>4
      <4>. QED BY <1>1, <3>2, <3>3, <3>4, <4>1 DEF StatusesQueued
    <3>6. rdata' \in -1 .. Jobs
      <4>1. Reported <= Jobs /\ Reported = got + Len(sts.mem)
        BY <3>3, Sizes DEF Reported
      <4>. QED BY <1>3, <3>4, <3>5, <4>1, DispatchConstants
    <3>7. Types'
      BY <1>1, <1>2, <2>1, <2>2, <3>2, <3>6 DEF Types
    <3>8. ReadInv' /\ IssueInv'
      BY <1>1, <2>1, <2>2, <3>1, <3>5 DEF ReadInv, IssueInv
    <3>. QED BY <1>2, <2>1, <2>2, <3>3, <3>7, <3>8, NoPopStep DEF DispatchInv
  <2>4. CASE ar = "JOB_COMPLETED_NOT_READ"
    <3>1. host = "poll"
      BY <1>1, <2>1, <2>4 DEF ReadInv
    <3>2. rdata' = rd_data_count(sts) /\ ker_status_rd_en' = FALSE
      BY <1>6, <2>4 DEF ReadAccept
    <3>3. Fetched' = Fetched
      BY <2>1, <3>1 DEF Fetched
    <3>4. rdata' \in -1 .. Jobs
      <4>1. Reported <= Jobs /\ Reported = Fetched + Len(sts.mem) /\ Fetched \in Nat
        BY Sizes DEF Reported
      <4>. HIDE DEF Fetched, Reported
      <4>. QED BY <1>3, <1>4, <3>2, <4>1, DispatchConstants
    <3>5. Types'
      BY <1>1, <1>2, <2>1, <2>2, <3>2, <3>4 DEF Types
    <3>6. ReadInv' /\ IssueInv'
      BY <1>1, <1>3, <1>4, <2>1, <2>2, <3>1, <3>2 DEF ReadInv, IssueInv
    <3>. QED BY <1>2, <2>1, <2>2, <3>3, <3>5, <3>6, NoPopStep DEF DispatchInv
  <2>. QED BY <1>6, <2>3, <2>4 DEF ReadAccept
<1>7. CASE ReadResp
  <2>1. /\ axil_read_state = "RESP" /\ ker_status_rd_en' = FALSE
        /\ UNCHANGED <<rdata, ar, pushed>> /\ ar = "none"
    BY <1>1, <1>7 DEF ReadResp, ReadInv
  <2>2. \/ axil_read_state' = "IDLE" /\ Answer
        \/ UNCHANGED <<axil_read_state, host, got>>
    BY <1>7 DEF ReadResp
  <2>3. CASE host = "poll"
    <3>1. ~ker_status_rd_en /\ rdata \in 0 .. rd_data_count(sts)
      BY <1>1, <2>1, <2>3 DEF ReadInv
    <3>2. sts' = sts
      BY <3>1 DEF AxilClock, StatusPop
    <3>3. \/ /\ axil_read_state' = "IDLE" /\ got' = got
             /\ host' = IF rdata = 0 THEN "wait" ELSE "ready"
          \/ UNCHANGED <<axil_read_state, host, got>>
      BY <2>2, <2>3 DEF Answer
    <3>4. Fetched' = Fetched
      BY <2>1, <2>3, <3>3 DEF Fetched
    <3>5. Types'
      BY <1>1, <1>2, <2>1, <3>2, <3>3 DEF Types
    <3>6. ReadInv' /\ IssueInv'
      <4>1. rdata = 0 \/ ~empty(sts)
        BY <1>3, <1>4, <3>1
      <4>. QED BY <1>1, <2>1, <2>3, <3>1, <3>2, <3>3, <4>1 DEF ReadInv, IssueInv
    <3>. QED BY <1>2, <2>1, <3>1, <3>2, <3>4, <3>5, <3>6, NoPopStep DEF DispatchInv
  <2>4. CASE host = "fetch"
    <3>1. rdata = got + 1 /\ (ker_status_rd_en => ~empty(sts))
      BY <1>1, <2>1, <2>4 DEF ReadInv
    <3>2. \/ axil_read_state' = "IDLE" /\ got' = got + 1 /\ host' = "free"
          \/ UNCHANGED <<axil_read_state, host, got>>
      BY <2>2, <2>4 DEF Answer
    <3>3. Fetched' = got + 1 /\ got' \in Nat
      BY <1>3, <2>1, <2>4, <3>2 DEF Fetched
    <3>4. IssueInv'
      BY <1>1, <2>1, <2>4, <3>2 DEF IssueInv
    <3>5. ReadInv'
      BY <2>1, <2>4, <3>1, <3>2 DEF ReadInv
    <3>6. CASE ~ker_status_rd_en
      <4>1. sts' = sts
        BY <3>6 DEF AxilClock, StatusPop
      <4>2. Fetched' = Fetched
        BY <2>1, <2>4, <3>3, <3>6 DEF Fetched
      <4>3. Types'
        BY <1>1, <1>2, <2>1, <3>3, <4>1 DEF Types
      <4>. QED BY <1>2, <2>1, <3>4, <3>5, <3>6, <4>1, <4>2, <4>3, NoPopStep DEF DispatchInv
    <3>7. CASE ker_status_rd_en
      <4>1. sts' = Pop(sts) /\ ~empty(sts)
        BY <3>1, <3>7 DEF AxilClock, StatusPop
      <4>2. /\ sts' \in DispatchFifos /\ FifoOK(sts')
            /\ Len(sts.mem) >= 1 /\ Len(sts'.mem) = Len(sts.mem) - 1
            /\ \A i \in 1 .. Len(sts'.mem) : sts'.mem[i] = sts.mem[i + 1]
        BY <1>3, <4>1, PopIs
      <4>3. Fetched = got
        BY <3>7 DEF Fetched
      <4>4. Reported' = Reported
        <5>. DEFINE l == Len(sts.mem)
        <5>1. Reported = got + l /\ Reported' = (got + 1) + (l - 1)
          BY <3>3, <4>2, <4>3 DEF Reported
        <5>2. got \in Nat /\ l \in Nat
          BY <1>3
        <5>. HIDE DEF l
        <5>. QED BY <5>1, <5>2
      <4>5. OnePhase' /\ CommandsQueued'
        BY <1>2, <2>1, <4>4, QuietKernel
      <4>6. StatusesQueued'
        <5>1. SUFFICES ASSUME NEW i \in 1 .. Len(sts'.mem)
                       PROVE  sts'.mem[i] = got + 1 + i
          BY <3>3 DEF StatusesQueued
        <5>2. i + 1 \in 1 .. Len(sts.mem) /\ i \in Nat
          BY <1>3, <4>2
        <5>3. sts'.mem[i] = sts.mem[i + 1] /\ sts.mem[i + 1] = got + (i + 1)
          BY <1>1, <4>2, <4>3, <5>2 DEF StatusesQueued
        <5>. QED BY <1>3, <5>2, <5>3
      <4>7. Types'
        BY <1>1, <1>2, <2>1, <3>3, <4>2 DEF Types
      <4>. QED BY <3>4, <3>5, <4>5, <4>6, <4>7 DEF DispatchInv
    <3>. QED BY <3>6, <3>7
  <2>. QED BY <1>1, <2>1, <2>3, <2>4 DEF ReadInv
<1>. QED BY <1>5, <1>6, <1>7 DEF AxilClock

-----------------------------------------------------------------------------
(***************************************************************************)
(* A cycle of the kernel's clock, phase by phase.                          *)
(***************************************************************************)
\* While nothing is written to the status FIFO and no word is taken, only the
\* phase and the work ids change.
LEMMA AxisQuiet ==
    ASSUME DispatchInv, UNCHANGED <<axil, prog, cmd, sts>>,
           cl_box_start' \in BOOLEAN, ap_start' \in BOOLEAN,
           work_id_reg' \in 0 .. Jobs,
           box' \in [pc : {"idle", "read", "done"}, words : 0 .. CmdWords,
                     work_id : 0 .. Jobs],
           mm' \in [pc : {"idle", "run", "write"}, work_id : 0 .. Jobs],
           OnePhase'
    PROVE  DispatchInv'
<1>1. UNCHANGED <<axil_read_state, ker_status_rd_en, rdata, host, ar, pushed, got>>
  BY DEF axil, prog
<1>2. Types'
  BY <1>1 DEF DispatchInv, Types
<1>3. UNCHANGED <<Taken, Fetched>>
  BY <1>1 DEF Taken, Fetched
<1>4. CommandsQueued' /\ StatusesQueued'
  <2>. HIDE DEF Taken, Fetched
  <2>. QED BY <1>3 DEF DispatchInv, CommandsQueued, StatusesQueued
<1>5. ReadInv' /\ IssueInv'
  BY <1>1 DEF DispatchInv, ReadInv, IssueInv
<1>. QED BY <1>2, <1>4, <1>5 DEF DispatchInv

\* A cycle of axis_aclk keeps the invariant.
LEMMA AxisStep == DispatchInv /\ AxisClock => DispatchInv'
<1>. SUFFICES ASSUME DispatchInv, AxisClock PROVE DispatchInv'
  OBVIOUS
<1>1. Types /\ OnePhase /\ CommandsQueued /\ StatusesQueued /\ ReadInv /\ IssueInv
  BY DEF DispatchInv
<1>2. /\ Dispatch /\ StartKernel /\ parse_ctl_cmd /\ mmult
      /\ UNCHANGED <<axil, prog>>
      /\ UNCHANGED <<axil_read_state, ker_status_rd_en, rdata, host, ar, pushed, got>>
  BY DEF AxisClock, axil, prog
<1>3. /\ cl_box_start \in BOOLEAN /\ ap_start \in BOOLEAN
      /\ work_id_reg \in 0 .. Jobs
      /\ box \in [pc : {"idle", "read", "done"}, words : 0 .. CmdWords, work_id : 0 .. Jobs]
      /\ mm \in [pc : {"idle", "run", "write"}, work_id : 0 .. Jobs]
      /\ cmd \in DispatchFifos /\ FifoOK(cmd) /\ sts \in DispatchFifos /\ FifoOK(sts)
      /\ pushed \in Nat
  BY <1>1 DEF Types
<1>4. Fetched' = Fetched
  BY <1>2 DEF Fetched
<1>5. UNCHANGED sts => Reported' = Reported
  BY <1>4 DEF Reported
<1>6. UNCHANGED cmd => Taken' = Taken
  BY <1>2 DEF Taken
<1>. HIDE DEF Taken, Fetched, Reported
<1>7. CASE Waiting /\ Taken = CmdWords * Reported
  <2>1. ~cl_box_done /\ ~cl_kernel_done
    BY <1>7 DEF Waiting, cl_box_done, cl_kernel_done
  <2>2. box' = box /\ cmd' = cmd
    BY <1>2, <1>7 DEF Waiting, parse_ctl_cmd
  <2>3. mm' = mm /\ sts' = sts
    BY <1>2, <1>7 DEF Waiting, mmult, cl_kernel_done
  <2>4. work_id_reg' = work_id_reg /\ comp_state' = "IDLE" /\ ap_start' = FALSE
    BY <1>2, <1>7, <2>1, Zenon DEF Waiting, StartKernel
  <2>5. \/ cl_box_start' = FALSE /\ kernel_state' = "CL_IDLE"
        \/ cl_box_start' = TRUE /\ kernel_state' = "CL_BOX_ACTIVE"
    BY <1>2, <1>7 DEF Waiting, Dispatch
  <2>6. OnePhase'
    BY <1>5, <1>6, <1>7, <2>2, <2>3, <2>4, <2>5
       DEF OnePhase, Waiting, Starting, BoxPhase
  <2>. QED BY <1>2, <1>3, <2>2, <2>3, <2>4, <2>5, <2>6, AxisQuiet
<1>8. CASE Starting /\ Taken = CmdWords * Reported
  <2>1. ~cl_box_done /\ ~cl_kernel_done
    BY <1>8 DEF Starting, BoxPhase, cl_box_done, cl_kernel_done
  <2>2. box' = [box EXCEPT !.pc = "read", !.words = 0] /\ cmd' = cmd
    BY <1>2, <1>8 DEF Starting, BoxPhase, parse_ctl_cmd
  <2>3. mm' = mm /\ sts' = sts
    BY <1>2, <1>8 DEF Starting, BoxPhase, mmult, cl_kernel_done
  <2>4. work_id_reg' = work_id_reg /\ comp_state' = "IDLE" /\ ap_start' = FALSE
    BY <1>2, <1>8, <2>1, Zenon DEF Starting, BoxPhase, StartKernel
  <2>5. cl_box_start' = TRUE /\ kernel_state' = "CL_BOX_ACTIVE"
    BY <1>2, <1>8, <2>1 DEF Starting, BoxPhase, Dispatch
  <2>6. /\ box'.pc = "read" /\ box'.words = 0
        /\ box' \in [pc : {"idle", "read", "done"}, words : 0 .. CmdWords, work_id : 0 .. Jobs]
    <3>1. 0 \in 0 .. CmdWords
      BY DispatchConstants
    <3>. QED BY <1>3, <2>2, <3>1
  <2>7. CmdWords * Reported \in Nat
    BY Sizes
  <2>8. OnePhase'
    BY <1>5, <1>6, <1>8, <2>2, <2>3, <2>4, <2>5, <2>6, <2>7, DispatchConstants
       DEF OnePhase, Starting, Parsing, BoxPhase
  <2>. QED BY <1>2, <1>3, <2>2, <2>3, <2>4, <2>5, <2>6, <2>8, AxisQuiet
<1>9. CASE /\ Parsing /\ box.words < CmdWords
           /\ Taken = CmdWords * Reported + box.words
  <2>1. ~cl_box_done /\ ~cl_kernel_done
    BY <1>9 DEF Parsing, BoxPhase, cl_box_done, cl_kernel_done
  <2>2. mm' = mm /\ sts' = sts
    BY <1>2, <1>9 DEF Parsing, BoxPhase, mmult, cl_kernel_done
  <2>3. work_id_reg' = work_id_reg /\ comp_state' = "IDLE" /\ ap_start' = FALSE
    BY <1>2, <1>9, <2>1, Zenon DEF Parsing, BoxPhase, StartKernel
  <2>4. cl_box_start' = TRUE /\ kernel_state' = "CL_BOX_ACTIVE"
    BY <1>2, <1>9, <2>1 DEF Parsing, BoxPhase, Dispatch
  <2>5. CASE empty(cmd)
    <3>1. box' = box /\ cmd' = cmd
      BY <1>2, <1>9, <2>5 DEF Parsing, BoxPhase, parse_ctl_cmd
    <3>2. OnePhase'
      BY <1>5, <1>6, <1>9, <2>2, <2>3, <2>4, <3>1 DEF OnePhase, Parsing, BoxPhase
    <3>. QED BY <1>2, <1>3, <2>2, <2>3, <2>4, <3>1, <3>2, AxisQuiet
  <2>6. CASE ~empty(cmd)
    <3>1. /\ box' = [pc |-> IF LastWord THEN "done" ELSE "read",
                     words |-> box.words + 1, work_id |-> JobOf(dout(cmd))]
          /\ cmd' = Pop(cmd)
      BY <1>2, <1>9, <2>6 DEF Parsing, BoxPhase, parse_ctl_cmd
    <3>2. /\ cmd' \in DispatchFifos /\ FifoOK(cmd')
          /\ Len(cmd.mem) >= 1 /\ Len(cmd'.mem) = Len(cmd.mem) - 1
          /\ \A i \in 1 .. Len(cmd'.mem) : cmd'.mem[i] = cmd.mem[i + 1]
          /\ dout(cmd) = cmd.mem[1]
      BY <1>3, <2>6, <3>1, PopIs
    <3>3. /\ Len(cmd.mem) \in Nat /\ Taken \in Nat /\ Reported \in Nat
          /\ CmdWords * Reported \in Nat /\ box.words \in Nat /\ Taken <= pushed
          /\ CmdWords * (Reported + 1) = CmdWords * Reported + CmdWords
          /\ CmdWords * Reported < pushed => Reported < Jobs
      BY <1>3, Sizes, DispatchConstants
    <3>4. Taken' = Taken + 1 /\ Taken < pushed
      <4>. DEFINE l == Len(cmd.mem)
      <4>1. Taken = pushed - l /\ Taken' = pushed - (l - 1) /\ l >= 1
        BY <1>2, <3>2 DEF Taken
      <4>2. l \in Nat /\ pushed \in Nat
        BY <1>3, <3>3
      <4>. HIDE DEF l
      <4>. QED BY <4>1, <4>2
    <3>5. Reported' = Reported
      BY <1>5, <2>2
    <3>6. dout(cmd) = Taken + 1
      <4>1. 1 \in 1 .. Len(cmd.mem)
        BY <3>2, <3>3
      <4>. QED BY <1>1, <3>2, <4>1 DEF CommandsQueued
    <3>7. JobOf(dout(cmd)) = Reported + 1
      <4>. DEFINE w == dout(cmd) - 1
      <4>1. /\ box.words \in 0 .. CmdWords - 1 /\ w \in Nat
            /\ w = CmdWords * Reported + box.words
        BY <1>9, <3>3, <3>6, DispatchConstants
      <4>2. JobOf(dout(cmd)) = w \div CmdWords + 1
        BY DEF JobOf
      <4>. HIDE DEF w
      <4>3. w \div CmdWords = Reported
        BY <3>3, <4>1, DispatchDivUnique
      <4>. QED BY <4>2, <4>3
    <3>8. Reported + 1 \in 0 .. Jobs
      <4>1. CmdWords * Reported < pushed
        BY <1>3, <1>9, <3>3, <3>4
      <4>. QED BY <3>3, <4>1, DispatchConstants
    <3>9. /\ box'.pc = (IF LastWord THEN "done" ELSE "read")
          /\ box'.words = box.words + 1 /\ box'.work_id = Reported + 1
          /\ box' \in [pc : {"idle", "read", "done"}, words : 0 .. CmdWords,
                       work_id : 0 .. Jobs]
      <4>1. box.words + 1 \in 0 .. CmdWords
        BY <1>9, <3>3, DispatchConstants
      <4>2. (IF LastWord THEN "done" ELSE "read") \in {"idle", "read", "done"}
        OBVIOUS
      <4>. QED BY <3>1, <3>7, <3>8, <4>1, <4>2
    <3>10. OnePhase'
      <4>1. BoxPhase'
        BY <1>9, <2>2, <2>3, <2>4 DEF Parsing, BoxPhase
      <4>2. CASE LastWord
        <5>1. box.words + 1 = CmdWords
          BY <4>2 DEF LastWord
        <5>2. Taken' = CmdWords * Reported + CmdWords
          BY <1>9, <3>3, <3>4, <5>1, DispatchConstants
        <5>. QED BY <3>5, <3>9, <4>1, <4>2, <5>2 DEF OnePhase, Parsed
      <4>3. CASE ~LastWord
        <5>1. box.words + 1 < CmdWords
          BY <1>9, <3>3, <4>3, DispatchConstants DEF LastWord
        <5>2. Taken' = CmdWords * Reported + (box.words + 1)
          BY <1>9, <3>3, <3>4, DispatchConstants
        <5>. QED BY <3>5, <3>9, <4>1, <4>3, <5>1, <5>2 DEF OnePhase, Parsing
      <4>. QED BY <4>2, <4>3
    <3>11. CommandsQueued'
      <4>1. SUFFICES ASSUME NEW i \in 1 .. Len(cmd'.mem)
                     PROVE  cmd'.mem[i] = Taken + 1 + i
        BY <3>4 DEF CommandsQueued
      <4>2. i + 1 \in 1 .. Len(cmd.mem) /\ i \in Nat
        BY <3>2, <3>3
      <4>3. cmd'.mem[i] = cmd.mem[i + 1] /\ cmd.mem[i + 1] = Taken + (i + 1)
        BY <1>1, <3>2, <4>2 DEF CommandsQueued
      <4>. QED BY <3>3, <4>2, <4>3
    <3>12. StatusesQueued'
      BY <1>1, <1>4, <2>2 DEF StatusesQueued
    <3>13. ReadInv' /\ IssueInv'
      BY <1>1, <1>2, <2>2 DEF ReadInv, IssueInv
    <3>14. Types'
      BY <1>1, <1>2, <2>2, <2>3, <2>4, <3>2, <3>9 DEF Types
    <3>. QED BY <3>10, <3>11, <3>12, <3>13, <3>14 DEF DispatchInv
  <2>. QED BY <2>5, <2>6
<1>10. CASE /\ Parsed /\ box.work_id = Reported + 1
            /\ Taken = CmdWords * Reported + CmdWords
  <2>1. cl_box_done /\ ~cl_kernel_done /\ cl_kernel_idle
    BY <1>10 DEF Parsed, BoxPhase, cl_box_done, cl_kernel_done, cl_kernel_idle
  <2>2. box' = [box EXCEPT !.pc = "idle"] /\ cmd' = cmd
    BY <1>2, <1>10 DEF Parsed, BoxPhase, parse_ctl_cmd
  <2>3. mm' = mm /\ sts' = sts
    BY <1>2, <1>10 DEF Parsed, BoxPhase, mmult, cl_kernel_done
  <2>4. work_id_reg' = box.work_id /\ comp_state' = "BUSY" /\ ap_start' = TRUE
    BY <1>2, <1>10, <2>1, Zenon DEF Parsed, BoxPhase, StartKernel
  <2>5. cl_box_start' = FALSE /\ kernel_state' = "CL_KERNEL_ACTIVE"
    BY <1>2, <1>10, <2>1 DEF Parsed, BoxPhase, Dispatch
  <2>6. /\ box'.pc = "idle" /\ box.work_id \in 0 .. Jobs
        /\ box' \in [pc : {"idle", "read", "done"}, words : 0 .. CmdWords, work_id : 0 .. Jobs]
    BY <1>3, <2>2
  <2>7. OnePhase'
    BY <1>5, <1>6, <1>10, <2>2, <2>3, <2>4, <2>5, <2>6
       DEF OnePhase, Parsed, Launching, BoxPhase, KernelPhase
  <2>. QED BY <1>2, <1>3, <2>2, <2>3, <2>4, <2>5, <2>6, <2>7, AxisQuiet
<1>11. CASE /\ Launching /\ work_id_reg = Reported + 1
            /\ Taken = CmdWords * Reported + CmdWords
  <2>1. ~cl_box_done /\ ~cl_kernel_done
    BY <1>11 DEF Launching, KernelPhase, cl_box_done, cl_kernel_done
  <2>2. box' = box /\ cmd' = cmd
    BY <1>2, <1>11 DEF Launching, KernelPhase, parse_ctl_cmd
  <2>3. mm' = [pc |-> "run", work_id |-> work_id_reg] /\ sts' = sts
    BY <1>2, <1>11 DEF Launching, KernelPhase, mmult, cl_kernel_done
  <2>4. work_id_reg' = work_id_reg /\ comp_state' = "BUSY" /\ ap_start' = TRUE
    BY <1>2, <1>11, <2>1, Zenon DEF Launching, KernelPhase, StartKernel
  <2>5. cl_box_start' = FALSE /\ kernel_state' = "CL_KERNEL_ACTIVE"
    BY <1>2, <1>11, <2>1 DEF Launching, KernelPhase, Dispatch
  <2>6. OnePhase'
    BY <1>5, <1>6, <1>11, <2>2, <2>3, <2>4, <2>5
       DEF OnePhase, Launching, Running, KernelPhase
  <2>. QED BY <1>2, <1>3, <2>2, <2>3, <2>4, <2>5, <2>6, AxisQuiet
<1>12. CASE /\ Running /\ work_id_reg = Reported + 1 /\ mm.work_id = Reported + 1
            /\ Taken = CmdWords * Reported + CmdWords
  <2>1. ~cl_box_done
    BY <1>12 DEF Running, KernelPhase, cl_box_done
  <2>2. box' = box /\ cmd' = cmd
    BY <1>2, <1>12 DEF Running, KernelPhase, parse_ctl_cmd
  <2>3. CASE ~cl_kernel_done
    <3>1. sts' = sts /\ mm'.pc \in {"run", "write"} /\ mm'.work_id = mm.work_id
          /\ mm' \in [pc : {"idle", "run", "write"}, work_id : 0 .. Jobs]
      BY <1>2, <1>3, <1>12, <2>3 DEF Running, KernelPhase, mmult
    <3>2. work_id_reg' = work_id_reg /\ comp_state' = "BUSY" /\ ap_start' = TRUE
      BY <1>2, <1>12, <2>1, <2>3, Zenon DEF Running, KernelPhase, StartKernel
    <3>3. cl_box_start' = FALSE /\ kernel_state' = "CL_KERNEL_ACTIVE"
      BY <1>2, <1>12, <2>1, <2>3 DEF Running, KernelPhase, Dispatch
    <3>4. OnePhase'
      BY <1>5, <1>6, <1>12, <2>2, <3>1, <3>2, <3>3 DEF OnePhase, Running, KernelPhase
    <3>. QED BY <1>2, <1>3, <2>2, <3>1, <3>2, <3>3, <3>4, AxisQuiet
  <2>4. CASE cl_kernel_done
    <3>1. mm' = [mm EXCEPT !.pc = "idle"] /\ sts' = Push(sts, mm.work_id) /\ ~full(sts)
      BY <1>2, <1>12, <2>4 DEF Running, KernelPhase, mmult, cl_kernel_done
    <3>2. work_id_reg' = work_id_reg /\ comp_state' = "IDLE" /\ ap_start' = FALSE
      BY <1>2, <1>12, <2>1, <2>4, Zenon DEF Running, KernelPhase, StartKernel
    <3>3. cl_box_start' = FALSE /\ kernel_state' = "CL_IDLE"
      BY <1>2, <1>12, <2>1, <2>4 DEF Running, KernelPhase, Dispatch
    <3>4. /\ Len(sts.mem) \in Nat /\ Fetched \in Nat /\ Reported \in Nat
          /\ CmdWords * (Reported + 1) = CmdWords * Reported + CmdWords
          /\ Reported = Fetched + Len(sts.mem)
      BY Sizes DEF Reported
    <3>5. /\ sts' \in DispatchFifos /\ FifoOK(sts') /\ Len(sts'.mem) = Len(sts.mem) + 1
          /\ \A i \in 1 .. Len(sts.mem) : sts'.mem[i] = sts.mem[i]
          /\ sts'.mem[Len(sts.mem) + 1] = Reported + 1
          /\ rd_data_count(sts') = rd_data_count(sts)
      <4>1. mm.work_id \in Nat
        BY <1>12, <3>4
      <4>. QED BY <1>3, <1>12, <3>1, <4>1, PushIs
    <3>6. Reported' = Reported + 1
      <4>. DEFINE l == Len(sts.mem)
      <4>1. Reported = Fetched + l /\ Reported' = Fetched + (l + 1)
        BY <1>4, <3>4, <3>5 DEF Reported
      <4>2. l \in Nat
        BY <3>4
      <4>. HIDE DEF l
      <4>. QED BY <3>4, <4>1, <4>2
    <3>7. mm'.pc = "idle" /\ mm' \in [pc : {"idle", "run", "write"}, work_id : 0 .. Jobs]
      BY <1>3, <3>1
    <3>8. OnePhase'
      BY <1>6, <1>12, <2>2, <3>2, <3>3, <3>4, <3>6, <3>7
         DEF OnePhase, Waiting, Running, KernelPhase
    <3>9. CommandsQueued'
      BY <1>1, <1>6, <2>2 DEF CommandsQueued
    <3>10. StatusesQueued'
      <4>1. SUFFICES ASSUME NEW i \in 1 .. Len(sts'.mem) PROVE sts'.mem[i] = Fetched + i
        BY <1>4 DEF StatusesQueued
      <4>2. CASE i \in 1 .. Len(sts.mem)
        BY <1>1, <3>5, <4>2 DEF StatusesQueued
      <4>3. CASE i = Len(sts.mem) + 1
        BY <3>4, <3>5, <4>3
      <4>. QED BY <3>4, <3>5, <4>2, <4>3
    <3>11. ReadInv'
      <4>1. /\ empty(sts) <=> rd_data_count(sts) = 0
            /\ empty(sts') <=> rd_data_count(sts') = 0
        BY <1>3, <3>5, CountIs
      <4>. QED BY <1>1, <1>2, <3>5, <4>1 DEF ReadInv
    <3>12. IssueInv'
      BY <1>1, <1>2 DEF IssueInv
    <3>13. Types'
      BY <1>1, <1>2, <2>2, <3>2, <3>3, <3>5, <3>7 DEF Types
    <3>. QED BY <3>8, <3>9, <3>10, <3>11, <3>12, <3>13 DEF DispatchInv
  <2>. QED BY <2>3, <2>4
<1>. QED BY <1>1, <1>7, <1>8, <1>9, <1>10, <1>11, <1>12 DEF OnePhase

-----------------------------------------------------------------------------
\* Every step keeps the invariant.
LEMMA InvStep == DispatchInv /\ [DispatchNext]_dispatchVars => DispatchInv'
<1>1. ASSUME DispatchInv, UNCHANGED dispatchVars PROVE DispatchInv'
  BY <1>1 DEF DispatchInv, dispatchVars, Types, OnePhase, CommandsQueued, StatusesQueued, ReadInv,
              IssueInv, Taken, Fetched, Reported, Waiting, Starting, Parsing, Parsed,
              Launching, Running, BoxPhase, KernelPhase
<1>. QED BY <1>1, AxisStep, AxilStep, ProgramStep, DispatchSynchroniseStep DEF DispatchNext

\* The invariant holds in every behaviour.
LEMMA InvHolds == DispatchSpec => []DispatchInv
<1>. QED BY InvInit, InvStep, PTL DEF DispatchSpec

\* The invariant implies that a command is taken whole.
LEMMA InvWholeCommand == DispatchInv => OneWholeCommand
<1>. SUFFICES ASSUME DispatchInv PROVE OneWholeCommand
  OBVIOUS
<1>1. OnePhase
  BY DEF DispatchInv
<1>2. /\ Reported \in Nat /\ Taken \in Nat
      /\ CmdWords * (Reported + 1) = CmdWords * Reported + CmdWords
  BY Sizes
<1>3. CommandsWhole
  <2>. DEFINE t == Taken
  <2>1. SUFFICES ASSUME box.pc # "read" PROVE t % CmdWords = 0
    BY DEF CommandsWhole, Taken
  <2>2. PICK n \in Nat : t = CmdWords * n
    <3>1. t = CmdWords * Reported \/ t = CmdWords * Reported + CmdWords
      BY <1>1, <2>1 DEF OnePhase, Parsing
    <3>2. Reported + 1 \in Nat
      BY <1>2
    <3>. QED BY <1>2, <3>1, <3>2
  <2>3. t \in Nat /\ 0 \in 0 .. CmdWords - 1 /\ t = CmdWords * n + 0
    BY <1>2, <2>2, DispatchConstants
  <2>. HIDE DEF t
  <2>. QED BY <2>3, DispatchDivUnique
<1>4. ParamsStable
  <2>1. SUFFICES ASSUME mm.pc # "idle" PROVE work_id_reg = mm.work_id
    BY DEF ParamsStable
  <2>. QED BY <1>1, <2>1 DEF OnePhase, Waiting, Starting, Parsing, Parsed, Launching,
                             BoxPhase
<1>. QED BY <1>3, <1>4 DEF OneWholeCommand

\* cl_box, whenever it is not reading, has taken whole commands, and the
\* parameter registers of compute_logic_wrapper keep the command the kernel
\* works on: for FIFOs smaller than a command, and however far the host runs
\* ahead.
THEOREM OneWholeCommandHolds == DispatchSpec => []OneWholeCommand
<1>. QED BY InvHolds, InvWholeCommand, PTL

\* The work id that the host reads after wait_compute() is that of the oldest
\* command not reported yet: never DEFAULT_VALUE, none twice, none skipped.
THEOREM FetchedInOrderHolds == DispatchSpec => []FetchedInOrder
<1>1. DispatchInv => FetchedInOrder
  BY DEF DispatchInv, ReadInv, FetchedInOrder
<1>. QED BY <1>1, InvHolds, PTL

\* Every register and count of the dispatcher, the wrapper and the read side
\* keeps to its type, and the FIFOs never hold more than their depth.
THEOREM DispatchTypeCorrect == DispatchSpec => []DispatchTypeOK
<1>1. ASSUME DispatchInv PROVE DispatchTypeOK
  <2>1. Types /\ OnePhase /\ CommandsQueued /\ StatusesQueued /\ ReadInv /\ IssueInv
    BY <1>1 DEF DispatchInv
  <2>2. /\ kernel_state \in {"CL_IDLE", "CL_BOX_ACTIVE", "CL_KERNEL_ACTIVE"}
        /\ comp_state \in {"IDLE", "BUSY"}
    BY <2>1 DEF OnePhase, Waiting, Starting, Parsing, Parsed, Launching, Running,
                BoxPhase, KernelPhase
  <2>3. {cl_box_start, ap_start, ker_status_rd_en} \subseteq BOOLEAN
    BY <2>1, Zenon DEF Types
  <2>4. /\ pushed \in Nat /\ got \in Nat /\ Taken \in Nat /\ Taken <= pushed
        /\ Fetched \in Nat /\ Reported <= Jobs
        /\ cmd \in DispatchFifos /\ sts \in DispatchFifos
        /\ Len(cmd.mem) \in Nat /\ Len(sts.mem) \in Nat
    BY <1>1, <2>1, Sizes DEF Types
  <2>5. pushed \in 0 .. Jobs * CmdWords
    <3>1. Jobs * CmdWords = CmdWords * Jobs /\ CmdWords * Jobs \in Nat
      BY DispatchConstants
    <3>2. pushed <= CmdWords * Jobs /\ pushed \in Nat
      BY <2>1, <2>4 DEF IssueInv
    <3>3. PICK p \in Nat : p = Jobs * CmdWords /\ p = CmdWords * Jobs
      BY <3>1
    <3>4. pushed \in 0 .. p
      BY ONLY <3>2, <3>3, p \in Nat
    <3>. QED BY ONLY <3>3, <3>4
  <2>6. ASSUME NEW i \in DOMAIN cmd.mem PROVE cmd.mem[i] \in 1 .. Jobs * CmdWords
    <3>. DEFINE l == Len(cmd.mem)
    <3>1. i \in 1 .. l /\ cmd.mem[i] = Taken + i /\ Taken = pushed - l /\ l \in Nat
      <4>1. PICK s \in Seq(Nat) : s = cmd.mem /\ l = Len(s) /\ i \in DOMAIN s
        BY <2>4, <2>6, FifoFields
      <4>2. i \in 1 .. l /\ l \in Nat
        BY ONLY <4>1
      <4>3. \A k \in 1 .. l : cmd.mem[k] = Taken + k
        BY <2>1 DEF CommandsQueued
      <4>4. Taken = pushed - l
        BY DEF Taken
      <4>. QED BY ONLY <4>2, <4>3, <4>4
    <3>2. Jobs * CmdWords \in Nat
      BY DispatchConstants
    <3>. HIDE DEF l, Taken
    <3>. QED BY <2>4, <2>5, <3>1, <3>2
  <2>7. ASSUME NEW i \in DOMAIN sts.mem PROVE sts.mem[i] \in 1 .. Jobs
    <3>. DEFINE l == Len(sts.mem)
    <3>1. i \in 1 .. l /\ sts.mem[i] = Fetched + i /\ Reported = Fetched + l /\ l \in Nat
      BY <2>1, <2>4, <2>7, FifoFields DEF StatusesQueued, Reported
    <3>. HIDE DEF l, Fetched, Reported
    <3>. QED BY <2>4, <3>1, DispatchConstants
  <2>8. got \in 0 .. Jobs
    <3>. DEFINE l == Len(sts.mem)
    <3>1. got <= Fetched
      BY <2>4 DEF Fetched
    <3>2. Reported = Fetched + l /\ l \in Nat
      BY <2>4 DEF Reported
    <3>. HIDE DEF l, Fetched, Reported
    <3>. QED BY <2>4, <3>1, <3>2, DispatchConstants
  <2>9. rdata \in {DEFAULT_VALUE} \cup 0 .. Jobs
    BY <2>1, DispatchConstants DEF Types, DEFAULT_VALUE
  <2>10. /\ axil_read_state \in {"IDLE", "RESP"}
         /\ host \in {"free", "write", "wait", "poll", "ready", "fetch"}
         /\ ar \in {"none", "KER_STS", "JOB_COMPLETED_NOT_READ"}
    BY <2>1 DEF ReadInv
  <2>. QED BY <2>1, <2>2, <2>3, <2>5, <2>6, <2>7, <2>8, <2>9, <2>10 DEF Types, DispatchTypeOK
<1>. QED BY <1>1, InvHolds, PTL

-----------------------------------------------------------------------------
(* RdmaQp: queue pairs and buffers of the user library                     *)

\* The constants' assumptions, spelled out for the provers.
LEMMA RdmaConstants ==
    /\ PageSize \in Nat /\ PageSize > 0 /\ HugePage \in Nat /\ HugePage > 0
    /\ Hugepages \in Nat /\ Hugepages > 0 /\ WindowSize \in Nat /\ WindowSize > 0
    /\ DeviceMemSize \in Nat
    /\ qdepth \in Nat /\ qdepth > 1
    /\ SqSize \in Nat /\ SqSize > 0 /\ CqSize \in Nat /\ CqSize > 0
    /\ RqSize \in Nat /\ RqSize > 0
    /\ MaxMessages \in Nat /\ MaxLives \in Nat /\ MaxTimeouts \in Nat
  BY BufferAssumption, QpAssumption

-----------------------------------------------------------------------------
(***************************************************************************)
(* Sending: the library's indices and the core's registers.                *)
(***************************************************************************)
\* The program is in the library or between two calls, the queue pair alive.
Alive == pc \in {"idle", "post_send", "batch", "poll_rq", "drain", "drained", "reset"}

\* The core's three indices follow one another; what it has completed are the
\* elements up to CQHEAD; a queue pair that is being set up is switched off
\* and its registers are at 0.
CoreInOrder ==
    /\ SQPI \in Nat /\ CQHEAD \in Nat /\ STATCURSQPTR \in Nat
    /\ CQHEAD <= STATCURSQPTR /\ STATCURSQPTR <= SQPI
    /\ pc # "setup" => done = 1 .. CQHEAD
    /\ pc = "setup" => ~enabled /\ SQPI = 0 /\ CQHEAD = 0 /\ STATCURSQPTR = 0

\* What the library has posted is what the doorbell says.
PostedIsRung ==
    /\ sq_pidb \in Nat /\ sq_cidb \in Int
    /\ Alive => SQPI = sq_pidb
    /\ pc = "post_send" => sq_pidb > 0

\* While no single send has timed out, the index that a poll compares with
\* is the number of completed elements between two calls, and one less than
\* the number of posted ones during a send.
PollsInStep ==
    /\ Alive /\ ~late /\ pc \notin {"post_send", "batch"} =>
          sq_cidb = CQHEAD /\ CQHEAD = sq_pidb
    /\ pc = "post_send" /\ ~late => sq_cidb = sq_pidb - 1 /\ CQHEAD >= sq_cidb

SendInv == CoreInOrder /\ PostedIsRung /\ PollsInStep /\ SendReported

\* The invariant holds when the device is created.
LEMMA SendInit == RdmaInit => SendInv
  BY DEF RdmaInit, SendInv, CoreInOrder, PostedIsRung, PollsInStep, SendReported, Alive

\* Every step keeps it.
LEMMA SendStep == SendInv /\ [RdmaNext]_rdmaVars => SendInv'
<1>. SUFFICES ASSUME SendInv, [RdmaNext]_rdmaVars PROVE SendInv'
  OBVIOUS
<1>. USE RdmaConstants DEF SendInv, CoreInOrder, PostedIsRung, PollsInStep, SendReported, Alive,
                   bufVars, sw, core, history
<1>1. CASE AllocateData
  BY <1>1 DEF AllocateData
<1>2. CASE allocate_rdma_qp
  BY <1>2 DEF allocate_rdma_qp
<1>3. CASE create_a_wqe
  BY <1>3 DEF create_a_wqe
<1>4. CASE rdma_post_send
  BY <1>4 DEF rdma_post_send
<1>5. CASE SendReturns
  <2>1. late \/ CQHEAD = sq_pidb
    BY <1>5 DEF SendReturns, PolledSend
  <2>2. ~late => Posted(1) \subseteq done
    BY <1>5, <2>1 DEF SendReturns, Posted
  <2>. QED BY <1>5, <2>1, <2>2 DEF SendReturns
<1>6. CASE SendTimesOut
  BY <1>6 DEF SendTimesOut
<1>7. CASE rdma_post_batch_send
  BY <1>7 DEF rdma_post_batch_send
<1>8. CASE BatchPoll
  <2>1. BatchComplete(CQHEAD) => CQHEAD = sq_pidb /\ Posted(sq_pidb) \subseteq done
    BY <1>8 DEF BatchPoll, BatchComplete, Posted
  <2>. QED BY <1>8, <2>1 DEF BatchPoll
<1>9. CASE BatchTimesOut
  BY <1>9 DEF BatchTimesOut
<1>10. CASE rdma_post_receive
  BY <1>10 DEF rdma_post_receive
<1>11. CASE poll_rq_pidb
  BY <1>11 DEF poll_rq_pidb
<1>12. CASE rdma_release_rq_consumed
  BY <1>12 DEF rdma_release_rq_consumed
<1>13. CASE destroy_rdma_qp
  BY <1>13 DEF destroy_rdma_qp
<1>14. CASE rdma_qp_fatal_recovery
  BY <1>14 DEF rdma_qp_fatal_recovery
<1>15. CASE Drained
  BY <1>15 DEF Drained
<1>16. CASE Reset
  BY <1>16 DEF Reset, CoreReset
<1>17. CASE Fetch
  BY <1>17 DEF Fetch
<1>18. CASE Complete
  <2>1. pc # "setup" /\ done' = 1 .. CQHEAD'
    BY <1>18 DEF Complete
  <2>. QED BY <1>18, <2>1 DEF Complete
<1>19. CASE Receive
  BY <1>19 DEF Receive
<1>20. CASE Fatal
  BY <1>20 DEF Fatal
<1>21. CASE UNCHANGED rdmaVars
  BY <1>21 DEF rdmaVars
<1>. QED
  BY <1>1, <1>2, <1>3, <1>4, <1>5, <1>6, <1>7, <1>8, <1>9, <1>10, <1>11, <1>12, <1>13,
     <1>14, <1>15, <1>16, <1>17, <1>18, <1>19, <1>20, <1>21 DEF RdmaNext, Library

\* A request that rdma_post_send() or rdma_post_batch_send() reports as done
\* was completed by the core, whatever timed out inside batches, and through
\* any number of destructions and re-allocations of the queue pair.
THEOREM SendReportedHolds == RdmaSpec => []SendReported
<1>1. SendInv => SendReported
  BY DEF SendInv
<1>. QED BY <1>1, SendInit, SendStep, PTL DEF RdmaSpec

-----------------------------------------------------------------------------
(***************************************************************************)
(* Receiving: the ring of the receive queue.                               *)
(***************************************************************************)
\* Once around the ring at most, the remainder is a subtraction.
LEMMA Wrap ==
    ASSUME NEW x \in Nat, x < 2 * qdepth
    PROVE  x % qdepth = IF x < qdepth THEN x ELSE x - qdepth
<1>1. CASE x < qdepth
  BY <1>1, RdmaConstants
<1>2. CASE x >= qdepth
  <2>1. x = qdepth * 1 + (x - qdepth) /\ x - qdepth \in 0 .. qdepth - 1
    BY <1>2, RdmaConstants
  <2>. QED BY <1>2, <2>1, RdmaConstants, SMT
<1>. QED BY <1>1, <1>2, RdmaConstants

\* Entries from a up to b, around the ring.
Ahead(a, b) == IF b >= a THEN b - a ELSE b - a + qdepth

\* The messages not seen yet lie between the index of the last poll and the
\* core's producer index, and with the entries not given back yet they fill
\* at most all entries but one.
RqInStep ==
    /\ RQCI \in 0 .. qdepth - 1 /\ STATRQPIDB \in 0 .. qdepth - 1
    /\ rq \in [0 .. qdepth - 1 -> Nat]
    /\ arrived \in Nat /\ seen \in Nat /\ rq_pidb \in 0 .. qdepth - 1
    /\ pc = "setup" => ~enabled /\ RQCI = 0 /\ STATRQPIDB = 0
    /\ pc # "setup" =>
          /\ seen <= arrived
          /\ arrived - seen + Ahead(RQCI, rq_pidb) < qdepth
          /\ STATRQPIDB = (rq_pidb + (arrived - seen)) % qdepth

ReceiveInv == RqInStep /\ UnseenKept

\* It holds when the device is created.
LEMMA ReceiveInit == RdmaInit => ReceiveInv
  BY RdmaConstants DEF RdmaInit, ReceiveInv, RqInStep, UnseenKept

\* The core stores a message in the entry behind the unseen ones.
LEMMA ReceiveKeeps == ReceiveInv /\ Receive => ReceiveInv'
<1>. SUFFICES ASSUME ReceiveInv, Receive PROVE ReceiveInv'
  OBVIOUS
<1>. USE RdmaConstants DEF ReceiveInv, RqInStep
<1>. DEFINE n == arrived - seen
<1>1. /\ enabled /\ pc # "setup"
      /\ arrived' = arrived + 1 /\ seen' = seen
      /\ rq' = [rq EXCEPT ![STATRQPIDB] = arrived + 1]
      /\ STATRQPIDB' = (STATRQPIDB + 1) % qdepth
      /\ (STATRQPIDB + 1) % qdepth # RQCI
      /\ UNCHANGED <<pc, rq_pidb, RQCI, enabled>>
  BY DEF Receive, sw
<1>2. n \in Nat /\ n < qdepth /\ n + Ahead(RQCI, rq_pidb) < qdepth
  BY <1>1 DEF Ahead
<1>3. STATRQPIDB = IF rq_pidb + n < qdepth THEN rq_pidb + n ELSE rq_pidb + n - qdepth
  <2>. DEFINE x == rq_pidb + n
  <2>1. x \in Nat /\ x < 2 * qdepth /\ STATRQPIDB = x % qdepth
    BY <1>1, <1>2
  <2>2. STATRQPIDB = IF x < qdepth THEN x ELSE x - qdepth
    <3>. HIDE DEF x
    <3>. QED BY <2>1, Wrap
  <2>. QED BY <2>2
<1>4. STATRQPIDB' = IF STATRQPIDB + 1 < qdepth THEN STATRQPIDB + 1 ELSE 0
  <2>. DEFINE x == STATRQPIDB + 1
  <2>1. x \in Nat /\ x < 2 * qdepth /\ x <= qdepth
    OBVIOUS
  <2>2. x % qdepth = IF x < qdepth THEN x ELSE x - qdepth
    <3>. HIDE DEF x
    <3>. QED BY <2>1, Wrap
  <2>. QED BY <1>1, <2>1, <2>2
<1>5. n + 1 + Ahead(RQCI, rq_pidb) < qdepth
  BY <1>1, <1>2, <1>3, <1>4 DEF Ahead
<1>6. STATRQPIDB' = (rq_pidb + (n + 1)) % qdepth
  <2>. DEFINE x == rq_pidb + (n + 1)
  <2>1. x \in Nat /\ x < 2 * qdepth
    BY <1>2
  <2>2. x % qdepth = IF x < qdepth THEN x ELSE x - qdepth
    <3>. HIDE DEF x
    <3>. QED BY <2>1, Wrap
  <2>. QED BY <1>2, <1>3, <1>4, <2>2
<1>7. RqInStep'
  <2>1. rq' \in [0 .. qdepth - 1 -> Nat]
    BY <1>1
  <2>2. arrived' - seen' = n + 1 /\ seen' <= arrived'
    BY <1>1
  <2>. QED BY <1>1, <1>4, <1>5, <1>6, <2>1, <2>2 DEF Ahead
<1>8. ASSUME NEW k \in 1 .. n + 1
      PROVE  rq'[(rq_pidb + k - 1) % qdepth] = seen + k
  <2>1. (rq_pidb + k - 1) % qdepth = IF rq_pidb + k - 1 < qdepth THEN rq_pidb + k - 1
                                     ELSE rq_pidb + k - 1 - qdepth
    <3>. DEFINE x == rq_pidb + k - 1
    <3>1. x \in Nat /\ x < 2 * qdepth
      BY <1>2
    <3>2. x % qdepth = IF x < qdepth THEN x ELSE x - qdepth
      <4>. HIDE DEF x
      <4>. QED BY <3>1, Wrap
    <3>. QED BY <3>2
  <2>2. CASE k = n + 1
    BY <1>1, <1>2, <1>3, <2>1, <2>2
  <2>3. CASE k # n + 1
    <3>. DEFINE y == (rq_pidb + k - 1) % qdepth
    <3>0. /\ y = IF rq_pidb + k - 1 < qdepth THEN rq_pidb + k - 1
                ELSE rq_pidb + k - 1 - qdepth
          /\ k \in Nat /\ k <= n /\ rq_pidb \in Nat
      BY <1>2, <2>1, <2>3
    <3>1. y # STATRQPIDB
      <4>. HIDE DEF y
      <4>. QED BY <1>2, <1>3, <3>0
    <3>2. rq[(rq_pidb + k - 1) % qdepth] = seen + k
      <4>1. k \in 1 .. arrived - seen
        BY <2>3
      <4>. QED BY <1>1, <4>1 DEF UnseenKept
    <3>3. (rq_pidb + k - 1) % qdepth \in 0 .. qdepth - 1
      BY <1>2, <2>1
    <3>. QED BY <1>1, <3>1, <3>2, <3>3
  <2>. QED BY <2>2, <2>3
<1>9. UnseenKept'
  <2>1. arrived' - seen' = n + 1
    BY <1>1
  <2>. QED BY <1>1, <1>8, <2>1 DEF UnseenKept
<1>. QED BY <1>7, <1>9

\* Every step keeps the invariant.
LEMMA ReceiveStep == ReceiveInv /\ [RdmaNext]_rdmaVars => ReceiveInv'
<1>. SUFFICES ASSUME ReceiveInv, [RdmaNext]_rdmaVars PROVE ReceiveInv'
  OBVIOUS
<1>. USE RdmaConstants DEF ReceiveInv
<1>1. CASE allocate_rdma_qp
  <2>1. rq' \in [0 .. qdepth - 1 -> Nat] /\ arrived' = 0 /\ seen' = 0
    BY <1>1 DEF allocate_rdma_qp
  <2>2. (0 + (0 - 0)) % qdepth = 0
    BY Wrap
  <2>. QED BY <1>1, <2>1, <2>2 DEF allocate_rdma_qp, RqInStep, Ahead, UnseenKept
<1>2. CASE poll_rq_pidb
  <2>1. /\ rq_pidb' = STATRQPIDB /\ seen' = arrived /\ arrived' = arrived
        /\ UNCHANGED <<rq, RQCI, STATRQPIDB, enabled>> /\ pc' = "idle"
    BY <1>2 DEF poll_rq_pidb, core
  <2>2. (STATRQPIDB + (arrived - arrived)) % qdepth = STATRQPIDB
    <3>1. STATRQPIDB + (arrived - arrived) = STATRQPIDB /\ STATRQPIDB \in 0 .. qdepth - 1
      BY DEF RqInStep
    <3>2. STATRQPIDB % qdepth = STATRQPIDB
      BY <3>1, Wrap
    <3>. QED BY <3>1, <3>2
  <2>. QED BY <2>1, <2>2 DEF RqInStep, Ahead, UnseenKept
<1>3. CASE rdma_release_rq_consumed
  BY <1>3 DEF rdma_release_rq_consumed, Released, RqInStep, Ahead, UnseenKept
<1>4. CASE Reset
  BY <1>4 DEF Reset, CoreReset, sw, history, RqInStep, UnseenKept
<1>5. CASE Receive
  BY <1>5, ReceiveKeeps
<1>6. CASE \/ AllocateData \/ create_a_wqe \/ rdma_post_send \/ SendReturns
           \/ SendTimesOut \/ rdma_post_batch_send \/ BatchPoll \/ BatchTimesOut
           \/ rdma_post_receive \/ destroy_rdma_qp \/ rdma_qp_fatal_recovery
           \/ Drained \/ Fetch \/ Complete \/ Fatal \/ UNCHANGED rdmaVars
  <2>1. /\ UNCHANGED <<rq, RQCI, STATRQPIDB, arrived, seen, rq_pidb>>
        /\ (pc' = "setup") <=> (pc = "setup")
        /\ pc = "setup" => enabled' = enabled
    BY <1>6 DEF AllocateData, create_a_wqe, rdma_post_send, SendReturns, SendTimesOut,
       rdma_post_batch_send, BatchPoll, BatchTimesOut, rdma_post_receive, destroy_rdma_qp,
       rdma_qp_fatal_recovery, Drained, Fetch, Complete, Fatal, rdmaVars, sw, core, history
  <2>2. RqInStep'
    BY <2>1 DEF RqInStep, Ahead
  <2>3. UnseenKept'
    BY <2>1 DEF UnseenKept
  <2>. QED BY <2>2, <2>3
<1>. QED BY <1>1, <1>2, <1>3, <1>4, <1>5, <1>6 DEF RdmaNext, Library

\* A message the program has not seen is never overwritten by the core: what
\* rdma_release_rq_consumed() gives back ends at the last poll.
THEOREM UnseenKeptHolds == RdmaSpec => []UnseenKept
<1>1. ReceiveInv => UnseenKept
  BY DEF ReceiveInv
<1>. QED BY <1>1, ReceiveInit, ReceiveStep, PTL DEF RdmaSpec

-----------------------------------------------------------------------------
(***************************************************************************)
(* Division and remainder by a constant that is not a literal.             *)
(***************************************************************************)
\* What quotient and remainder are.
LEMMA DivMod ==
    ASSUME NEW d \in Nat, d > 0, NEW a \in Nat
    PROVE  /\ a \div d \in Nat
           /\ a % d \in 0 .. d - 1
           /\ a = d * (a \div d) + (a % d)
  OBVIOUS

\* Multiples of d are at least d apart.
LEMMA MultiplesApart ==
    ASSUME NEW d \in Nat, NEW p \in Nat, NEW q \in Nat, p < q
    PROVE  d * p + d <= d * q
<1>1. q - p \in Nat /\ q - p >= 1
  OBVIOUS
<1>2. d * (q - p) >= d
  BY <1>1
<1>. QED BY <1>2

\* They are the only numbers of that kind.
LEMMA DivUnique ==
    ASSUME NEW d \in Nat, d > 0, NEW q \in Nat, NEW r \in 0 .. d - 1, NEW a \in Nat,
           a = d * q + r
    PROVE  a \div d = q /\ a % d = r
<1>. DEFINE p == a \div d
            s == a % d
<1>1. p \in Nat /\ s \in 0 .. d - 1 /\ a = d * p + s
  BY DivMod
<1>. HIDE DEF p, s
<1>2. d * p \in Nat /\ d * q \in Nat
  BY <1>1
<1>3. CASE p < q
  <2>1. d * p + d <= d * q
    BY <1>1, <1>3, MultiplesApart
  <2>. QED BY <1>1, <1>2, <2>1
<1>4. CASE q < p
  <2>1. d * q + d <= d * p
    BY <1>1, <1>4, MultiplesApart
  <2>. QED BY <1>1, <1>2, <2>1
<1>5. CASE p = q
  BY <1>1, <1>2, <1>5 DEF p, s
<1>. QED BY <1>1, <1>3, <1>4, <1>5

-----------------------------------------------------------------------------
(***************************************************************************)
(* Buffers: allocation.                                                    *)
(***************************************************************************)
\* The next page begins behind the offset, at a page boundary.
LEMMA NextPageIs ==
    ASSUME NEW o \in Nat
    PROVE  NextPage(o) \in Nat /\ NextPage(o) > o /\ NextPage(o) % PageSize = 0
<1>. USE RdmaConstants
<1>. DEFINE q == (o + PageSize) \div PageSize
            r == (o + PageSize) % PageSize
            e == q * PageSize
<1>1. q \in Nat /\ r \in 0 .. PageSize - 1 /\ o + PageSize = PageSize * q + r
  BY DivMod
<1>2. NextPage(o) = e
  BY DEF NextPage
<1>. HIDE DEF q, r
<1>3. e \in Nat /\ e = PageSize * q + 0 /\ 0 \in 0 .. PageSize - 1
  BY <1>1
<1>4. e > o
  <2>1. o + PageSize = e + r /\ r < PageSize
    BY ONLY <1>1, <1>3, RdmaConstants
  <2>. HIDE DEF e
  <2>. QED BY ONLY <1>1, <1>3, <2>1, o \in Nat, RdmaConstants
<1>. HIDE DEF e
<1>5. e % PageSize = 0
  <2>1. PICK d \in Nat : d = PageSize /\ d > 0
    BY ONLY RdmaConstants
  <2>2. q \in Nat /\ e \in Nat /\ e = d * q + 0 /\ 0 \in 0 .. d - 1
    BY ONLY <1>1, <1>3, <2>1
  <2>3. e % d = 0
    BY ONLY <2>1, <2>2, DivUnique
  <2>. QED BY ONLY <2>1, <2>3
<1>. QED BY <1>2, <1>3, <1>4, <1>5

\* A buffer is placed at or behind the offset, and one of at most a page
\* inside a page.
LEMMA PlaceIs ==
    ASSUME NEW o \in Nat, NEW s \in Nat, s > 0
    PROVE  /\ Place(o, s) \in Nat /\ Place(o, s) >= o
           /\ s <= PageSize =>
                 Place(o, s) \div PageSize = (Place(o, s) + s - 1) \div PageSize
<1>. USE RdmaConstants
<1>1. /\ Place(o, s) \in Nat /\ Place(o, s) >= o
      /\ s <= PageSize => (Place(o, s) % PageSize) + s <= PageSize
  BY NextPageIs, DivMod DEF Place
<1>2. ASSUME s <= PageSize
      PROVE  Place(o, s) \div PageSize = (Place(o, s) + s - 1) \div PageSize
  <2>. DEFINE a == Place(o, s)
              q == a \div PageSize
              r == a % PageSize
              b == a + s - 1
  <2>1. /\ a \in Nat /\ q \in Nat /\ r \in 0 .. PageSize - 1
        /\ a = PageSize * q + r /\ r + s <= PageSize
    BY <1>1, <1>2, DivMod
  <2>. HIDE DEF a, r
  <2>2. b \in Nat /\ r + s - 1 \in 0 .. PageSize - 1 /\ b = PageSize * q + (r + s - 1)
    BY <2>1
  <2>3. b \div PageSize = q
    <3>. HIDE DEF q, b
    <3>. QED BY <2>1, <2>2, DivUnique
  <2>. QED BY <2>3 DEF a
<1>. QED BY <1>1, <1>2

\* Buffers B that two bump allocators with offsets off have handed out: they
\* lie below the offsets, apart from one another, and in a page if they fit.
Carved(B, off) ==
    /\ off \in [Locations -> Nat]
    /\ \A b \in B : /\ b.loc \in Locations /\ b.at \in Nat /\ b.size \in Nat /\ b.size > 0
                    /\ b.at + b.size <= off[b.loc]
                    /\ b.size <= PageSize =>
                          b.at \div PageSize = (b.at + b.size - 1) \div PageSize
    /\ \A b, c \in B :
          b # c /\ b.loc = c.loc => b.at + b.size <= c.at \/ c.at + c.size <= b.at

\* Handing out one more.
LEMMA CarveOne ==
    ASSUME NEW B, NEW off, Carved(B, off), NEW loc \in Locations, NEW s \in Nat, s > 0
    PROVE  LET at == Place(off[loc], s) IN
           /\ at \in Nat /\ at >= off[loc] /\ at + s \in Nat
           /\ Carved(B \cup {Buffer(loc, at, s)}, [off EXCEPT ![loc] = at + s])
<1>. DEFINE at == Place(off[loc], s)
            new == Buffer(loc, at, s)
            next == [off EXCEPT ![loc] = at + s]
<1>1. off \in [Locations -> Nat] /\ off[loc] \in Nat
  BY DEF Carved
<1>2. /\ at \in Nat /\ at >= off[loc]
      /\ s <= PageSize => at \div PageSize = (at + s - 1) \div PageSize
  BY <1>1, PlaceIs
<1>. HIDE DEF at
<1>3. /\ next \in [Locations -> Nat] /\ next[loc] = at + s
      /\ \A l \in Locations : next[l] >= off[l]
  BY <1>1, <1>2
<1>4. new.loc = loc /\ new.at = at /\ new.size = s
  BY DEF Buffer
<1>. HIDE DEF new, next
<1>5. \A b \in B \cup {new} :
          /\ b.loc \in Locations /\ b.at \in Nat /\ b.size \in Nat /\ b.size > 0
          /\ b.at + b.size <= next[b.loc]
          /\ b.size <= PageSize =>
                b.at \div PageSize = (b.at + b.size - 1) \div PageSize
  <2>1. ASSUME NEW b \in B PROVE b.at + b.size <= next[b.loc]
    <3>1. /\ b.loc \in Locations /\ b.at + b.size \in Nat /\ b.at + b.size <= off[b.loc]
          /\ off[b.loc] \in Nat /\ next[b.loc] \in Nat /\ next[b.loc] >= off[b.loc]
      BY <1>3 DEF Carved
    <3>. QED BY <3>1
  <2>. QED BY <1>2, <1>3, <1>4, <2>1 DEF Carved
<1>6. \A b, c \in B \cup {new} :
          b # c /\ b.loc = c.loc => b.at + b.size <= c.at \/ c.at + c.size <= b.at
  <2>1. ASSUME NEW b \in B, b.loc = loc PROVE b.at + b.size <= at
    <3>1. b.at + b.size \in Nat /\ b.at + b.size <= off[loc]
      BY <2>1 DEF Carved
    <3>. QED BY <1>1, <1>2, <3>1
  <2>. QED BY <1>4, <2>1 DEF Carved
<1>7. Carved(B \cup {new}, next)
  BY <1>3, <1>5, <1>6 DEF Carved
<1>8. at + s \in Nat
  BY <1>2
<1>. QED BY <1>2, <1>7, <1>8 DEF at, new, next

\* The buffers and the memory they come from.
BufferInv ==
    /\ Carved(buffers, buffer_offset)
    /\ buffer_offset["host_mem"] <= Hugepages * HugePage
    /\ buffer_offset["dev_mem"] <= DeviceMemSize
    /\ frames \in [0 .. Hugepages - 1 -> Frames]
    /\ bdf = Bdf(Paddr(frames, 0))

\* It holds when the device is created.
LEMMA BufferInit == RdmaInit => BufferInv
<1>. SUFFICES ASSUME create_rn_dev PROVE BufferInv
  BY DEF RdmaInit
<1>1. Carved(buffers, buffer_offset)
  BY DEF create_rn_dev, Carved
<1>2. Hugepages * HugePage \in Nat /\ DeviceMemSize \in Nat
  BY RdmaConstants
<1>. QED BY <1>1, <1>2 DEF create_rn_dev, BufferInv, Locations

\* Every step keeps it: only the two allocations touch it.
LEMMA BufferStep == BufferInv /\ [RdmaNext]_rdmaVars => BufferInv'
<1>. SUFFICES ASSUME BufferInv, [RdmaNext]_rdmaVars PROVE BufferInv'
  OBVIOUS
<1>1. buffer_offset \in [Locations -> Nat]
  BY DEF BufferInv, Carved
<1>2. CASE AllocateData
  <2>1. PICK size \in DataSizes, loc \in Locations : allocate_rdma_buffer(size, loc)
    BY <1>2 DEF AllocateData
  <2>2. size \in Nat /\ size > 0
    BY BufferAssumption
  <2>3. /\ HasRoom(buffer_offset[loc], size, loc)
        /\ buffer_offset' = [buffer_offset EXCEPT ![loc] = Place(buffer_offset[loc], size) + size]
        /\ buffers' = buffers \cup {Buffer(loc, Place(buffer_offset[loc], size), size)}
        /\ UNCHANGED <<frames, bdf>>
    BY <1>2, <2>1 DEF AllocateData, allocate_rdma_buffer
  <2>4. Carved(buffers', buffer_offset')
    BY <2>2, <2>3, CarveOne DEF BufferInv
  <2>. QED BY <1>1, <2>3, <2>4 DEF BufferInv, HasRoom, Locations
<1>3. CASE allocate_rdma_qp
  <2>1. PICK loc \in QpLocations :
          LET sqAt == Place(buffer_offset[loc], SqSize)
              cqAt == Place(sqAt + SqSize, CqSize)
              rqAt == Place(cqAt + CqSize, RqSize)
          IN  /\ HasRoom(cqAt + CqSize, RqSize, loc)
              /\ buffer_offset' = [buffer_offset EXCEPT ![loc] = rqAt + RqSize]
              /\ buffers' = buffers \cup {Buffer(loc, sqAt, SqSize), Buffer(loc, cqAt, CqSize),
                                          Buffer(loc, rqAt, RqSize)}
    BY <1>3 DEF allocate_rdma_qp
  <2>2. loc \in Locations
    BY QpAssumption
  <2>. DEFINE sqAt == Place(buffer_offset[loc], SqSize)
              cqAt == Place(sqAt + SqSize, CqSize)
              rqAt == Place(cqAt + CqSize, RqSize)
              o1 == [buffer_offset EXCEPT ![loc] = sqAt + SqSize]
              o2 == [buffer_offset EXCEPT ![loc] = cqAt + CqSize]
              o3 == [buffer_offset EXCEPT ![loc] = rqAt + RqSize]
              b1 == buffers \cup {Buffer(loc, sqAt, SqSize)}
              b2 == b1 \cup {Buffer(loc, cqAt, CqSize)}
              b3 == b2 \cup {Buffer(loc, rqAt, RqSize)}
  <2>3. Carved(b1, o1)
    BY <2>2, CarveOne, RdmaConstants DEF BufferInv
  <2>4. Carved(b2, o2)
    <3>1. o1[loc] = sqAt + SqSize /\ o2 = [o1 EXCEPT ![loc] = cqAt + CqSize]
      BY <1>1, <2>2
    <3>. HIDE DEF o1, b1
    <3>2. Carved(b1 \cup {Buffer(loc, Place(o1[loc], CqSize), CqSize)},
                 [o1 EXCEPT ![loc] = Place(o1[loc], CqSize) + CqSize])
      BY <2>2, <2>3, CarveOne, RdmaConstants
    <3>. QED BY <3>1, <3>2
  <2>5. Carved(b3, o3)
    <3>1. o2[loc] = cqAt + CqSize /\ o3 = [o2 EXCEPT ![loc] = rqAt + RqSize]
      BY <1>1, <2>2
    <3>. HIDE DEF o2, b2
    <3>2. Carved(b2 \cup {Buffer(loc, Place(o2[loc], RqSize), RqSize)},
                 [o2 EXCEPT ![loc] = Place(o2[loc], RqSize) + RqSize])
      BY <2>2, <2>4, CarveOne, RdmaConstants
    <3>. QED BY <3>1, <3>2
  <2>6. buffers' = b3 /\ buffer_offset' = o3 /\ UNCHANGED <<frames, bdf>>
    BY <1>3, <2>1 DEF allocate_rdma_qp
  <2>7. HasRoom(cqAt + CqSize, RqSize, loc)
    BY <2>1
  <2>8. /\ loc = "host_mem" => rqAt + RqSize <= Hugepages * HugePage
        /\ loc = "dev_mem" => rqAt + RqSize <= DeviceMemSize
    BY <2>7 DEF HasRoom
  <2>9. /\ o3["host_mem"] <= Hugepages * HugePage
        /\ o3["dev_mem"] <= DeviceMemSize
    <3>. HIDE DEF rqAt
    <3>. QED BY <1>1, <2>2, <2>8 DEF BufferInv, Locations
  <2>. HIDE DEF o3, b3
  <2>. QED BY <2>5, <2>6, <2>9 DEF BufferInv
<1>4. CASE ~AllocateData /\ ~allocate_rdma_qp
  <2>1. UNCHANGED bufVars
    BY <1>4 DEF RdmaNext, Library, create_a_wqe, rdma_post_send, SendReturns, SendTimesOut,
       rdma_post_batch_send, BatchPoll, BatchTimesOut, rdma_post_receive, poll_rq_pidb,
       rdma_release_rq_consumed, destroy_rdma_qp, rdma_qp_fatal_recovery, Drained, Reset,
       Fetch, Complete, Receive, Fatal, rdmaVars
  <2>. QED BY <2>1 DEF bufVars, BufferInv, Carved, Paddr, Bdf
<1>. QED BY <1>2, <1>3, <1>4

-----------------------------------------------------------------------------
(***************************************************************************)
(* Buffers: addresses.                                                     *)
(***************************************************************************)
\* The stretch that the eight windows cover is a whole number of hugepages.
LEMMA BarIs ==
    /\ BarSize \in Nat /\ BarSize > 0 /\ BarSize = 8 * WindowSize
    /\ \E e \in Nat : e > 0 /\ BarSize = HugePage * e
<1>. DEFINE e == BarSize \div HugePage
<1>1. BarSize \in Nat /\ BarSize > 0 /\ BarSize = 8 * WindowSize
  BY RdmaConstants DEF BarSize
<1>2. BarSize % HugePage = 0
  BY BufferAssumption DEF BarSize
<1>3. e \in Nat /\ BarSize = HugePage * e + 0
  BY <1>1, <1>2, DivMod, RdmaConstants
<1>. HIDE DEF e
<1>4. BarSize = HugePage * e /\ e > 0
  BY <1>1, <1>3, RdmaConstants
<1>. QED BY <1>1, <1>3, <1>4

\* A hugepage does not cross the end of such a stretch.
LEMMA WithinBar ==
    ASSUME NEW f \in Frames, NEW r \in Nat, NEW k \in Nat, r + k < HugePage
    PROVE  /\ f \in Nat /\ f + r \in Nat
           /\ ((f + r) % BarSize) + k < BarSize
<1>. USE RdmaConstants
<1>1. f \in Nat /\ f % HugePage = 0
  BY BufferAssumption
<1>2. PICK e \in Nat : e > 0 /\ BarSize = HugePage * e
  BY BarIs
<1>. DEFINE g == f \div HugePage
            u == g \div e
            v == g % e
<1>3. g \in Nat /\ f = HugePage * g
  <2>1. g \in Nat /\ f = HugePage * g + (f % HugePage)
    BY <1>1, DivMod
  <2>. HIDE DEF g
  <2>. QED BY <1>1, <2>1
<1>. HIDE DEF g
<1>4. u \in Nat /\ v \in 0 .. e - 1 /\ g = e * u + v
  BY <1>2, <1>3, DivMod
<1>. HIDE DEF u, v
<1>5. HugePage * v + HugePage <= BarSize
  BY <1>2, <1>4, MultiplesApart
<1>6. f = BarSize * u + HugePage * v
  <2>1. f = HugePage * (e * u + v)
    BY <1>3, <1>4
  <2>2. HugePage * (e * u + v) = HugePage * (e * u) + HugePage * v
    BY <1>2, <1>4
  <2>3. HugePage * (e * u) = (HugePage * e) * u
    BY <1>2, <1>4
  <2>. QED BY <1>2, <2>1, <2>2, <2>3
<1>. DEFINE a == f + r
            w == HugePage * v + r
            bs == BarSize
<1>7. w \in Nat /\ w + k < bs
  BY <1>4, <1>5, BarIs
<1>8. a \in Nat /\ a = bs * u + w
  BY <1>1, <1>4, <1>6, BarIs
<1>9. bs \in Nat /\ bs > 0 /\ w \in 0 .. bs - 1
  BY <1>7, BarIs
<1>10. a % bs = w
  <2>. HIDE DEF a, w, bs
  <2>. QED BY <1>4, <1>8, <1>9, DivUnique
<1>. QED BY <1>1, <1>7, <1>8, <1>10

\* The bridge undoes the masking of an address in the stretch of its base.
LEMMA BridgeIs ==
    ASSUME NEW base \in Nat, NEW start \in Nat, NEW k \in Nat,
           start \div BarSize = base \div BarSize,
           (start % BarSize) + k < BarSize,
           bdf = Bdf(base)
    PROVE  Bridge(BusAddr(start) + k) = start + k
<1>. USE RdmaConstants
<1>. DEFINE x == (start % BarSize) + k
            i == x \div WindowSize
            j == x % WindowSize
            lo == base - (base % BarSize)
<1>1. /\ start % BarSize \in Nat /\ base % BarSize \in Nat
      /\ start = BarSize * (start \div BarSize) + (start % BarSize)
      /\ base = BarSize * (base \div BarSize) + (base % BarSize)
      /\ base \div BarSize \in Nat
  BY BarIs, DivMod
<1>2. x \in Nat /\ x < 8 * WindowSize
  BY <1>1, BarIs
<1>3. lo \in Nat /\ lo + x = start + k
  BY <1>1, BarIs
<1>4. BusAddr(start) + k = x
  BY DEF BusAddr
<1>. HIDE DEF x, lo
<1>5. i \in Nat /\ j \in 0 .. WindowSize - 1 /\ x = WindowSize * i + j
  BY <1>2, DivMod
<1>6. i \in 0 .. 7
  <2>. HIDE DEF i, j
  <2>1. ASSUME i > 7 PROVE FALSE
    <3>1. WindowSize * 7 + WindowSize <= WindowSize * i
      BY <1>5, <2>1, MultiplesApart
    <3>. QED BY <1>2, <1>5, <3>1
  <2>. QED BY <1>5, <2>1
<1>7. bdf[i] = lo + i * WindowSize
  <2>. HIDE DEF i
  <2>. QED BY <1>6 DEF Bdf, lo
<1>8. Bridge(x) = bdf[i] + j
  BY DEF Bridge
<1>. HIDE DEF i, j
<1>9. Bridge(x) = lo + x
  BY <1>3, <1>5, <1>7, <1>8
<1>. QED BY <1>3, <1>4, <1>9

\* The card reaches every byte of a host buffer.
LEMMA BusReaches == BufferInv => BusReachesBuffer
<1>. SUFFICES ASSUME BufferInv, NEW b \in buffers, NEW k \in 0 .. HugePage - 1,
                     b.loc = "host_mem", k < b.size,
                     (b.at + k) \div HugePage = b.at \div HugePage,
                     Paddr(frames, b.at) \div BarSize = Paddr(frames, 0) \div BarSize
              PROVE  Bridge(BusAddr(Paddr(frames, b.at)) + k) = Paddr(frames, b.at + k)
  BY DEF BusReachesBuffer
<1>. USE RdmaConstants
<1>. DEFINE at == b.at
            h == at \div HugePage
            r == at % HugePage
            c == at + k
<1>1. /\ at \in Nat /\ b.size \in Nat
      /\ at + b.size <= buffer_offset["host_mem"] /\ buffer_offset["host_mem"] \in Nat
      /\ buffer_offset["host_mem"] <= Hugepages * HugePage
  BY DEF BufferInv, Carved, Locations
<1>2. c \in Nat /\ c < Hugepages * HugePage
  BY <1>1
<1>. HIDE DEF at
<1>3. h \in Nat /\ r \in 0 .. HugePage - 1 /\ at = HugePage * h + r
  BY <1>1, DivMod
<1>4. c % HugePage = r + k /\ r + k < HugePage
  <2>1. c = HugePage * h + (c % HugePage) /\ c % HugePage \in 0 .. HugePage - 1
    <3>1. c \div HugePage = h
      BY DEF at
    <3>. HIDE DEF c, h
    <3>. QED BY <1>2, <3>1, DivMod
  <2>. DEFINE z == c % HugePage
              y == HugePage * h
  <2>2. c = y + z /\ at = y + r /\ z \in Nat /\ z < HugePage /\ y \in Nat
    BY <1>3, <2>1
  <2>. HIDE DEF z, y, r
  <2>3. z = r + k
    BY <1>1, <1>3, <2>2
  <2>. QED BY <2>2, <2>3 DEF z, r
<1>5. h \in 0 .. Hugepages - 1
  <2>. HIDE DEF h, r, c
  <2>1. ASSUME h >= Hugepages PROVE FALSE
    <3>1. h = Hugepages \/ HugePage * Hugepages + HugePage <= HugePage * h
      BY <1>3, <2>1, MultiplesApart
    <3>2. HugePage * Hugepages <= HugePage * h
      BY <3>1, <1>3
    <3>3. HugePage * Hugepages = Hugepages * HugePage
      OBVIOUS
    <3>. QED BY <1>1, <1>2, <1>3, <3>2, <3>3 DEF c
  <2>. QED BY <1>3, <2>1
<1>6. frames[h] \in Frames /\ frames[0] \in Frames
  BY <1>5 DEF BufferInv
<1>. DEFINE start == Paddr(frames, at)
            base == Paddr(frames, 0)
<1>7. start = frames[h] + r
  BY DEF Paddr
<1>8. base \in Nat
  <2>1. 0 \div HugePage = 0 /\ 0 % HugePage = 0
    <3>1. 0 = HugePage * 0 + 0 /\ 0 \in 0 .. HugePage - 1
      OBVIOUS
    <3>. QED BY <3>1, DivUnique
  <2>2. frames[0] \in Nat
    BY <1>6, BufferAssumption
  <2>. QED BY <2>1, <2>2 DEF Paddr
<1>9. start \in Nat /\ (start % BarSize) + k < BarSize
  <2>. HIDE DEF h, r
  <2>. QED BY <1>3, <1>4, <1>6, <1>7, WithinBar
<1>10. Paddr(frames, c) = frames[h] + (r + k)
  <2>1. c \div HugePage = h
    BY DEF at
  <2>. QED BY <1>4, <2>1 DEF Paddr
<1>11. start \div BarSize = base \div BarSize /\ bdf = Bdf(base)
  BY DEF at, BufferInv
<1>12. Bridge(BusAddr(start) + k) = start + k
  <2>. HIDE DEF start, base
  <2>. QED BY <1>8, <1>9, <1>11, BridgeIs
<1>13. frames[h] \in Nat
  BY <1>6, BufferAssumption
<1>14. start + k = Paddr(frames, c)
  <2>. HIDE DEF h, r, c
  <2>. QED BY <1>3, <1>7, <1>10, <1>13
<1>. QED BY <1>12, <1>14 DEF at

\* The program and the card agree on every buffer, for every mix of sizes and
\* placements of the hugepages: buffers are apart, a small one lies in a page,
\* and the eight windows of the bridge lead to its bytes.
THEOREM BuffersSoundHolds == RdmaSpec => []BuffersSound
<1>1. BufferInv => BuffersSound
  <2>1. BufferInv => BuffersPlaced
    BY DEF BufferInv, Carved, BuffersPlaced
  <2>. QED BY <2>1, BusReaches DEF BuffersSound
<1>. QED BY <1>1, BufferInit, BufferStep, PTL DEF RdmaSpec

-----------------------------------------------------------------------------
(***************************************************************************)
(* Types.                                                                  *)
(***************************************************************************)
\* The library never runs ahead of the elements in the send queue.
IndicesBounded ==
    /\ Alive => sq_pidb <= sq /\ sq_cidb <= sq_pidb
    /\ pc = "post_send" => sq_cidb < sq_pidb

RdmaTypeInv == RdmaTypeOK /\ IndicesBounded /\ SendInv /\ ReceiveInv /\ BufferInv

\* The types hold when the device is created.
LEMMA TypeInit == RdmaInit => RdmaTypeInv
<1>. SUFFICES ASSUME RdmaInit PROVE RdmaTypeOK /\ IndicesBounded
  BY SendInit, ReceiveInit, BufferInit DEF RdmaTypeInv
<1>1. Hugepages * HugePage \in Nat
  BY RdmaConstants
<1>. QED BY <1>1, RdmaConstants DEF RdmaInit, create_rn_dev, Locations, RdmaTypeOK, IndicesBounded, Alive

\* What a step does to the sizes and ranges of registers and indices.
LEMMA TypeStep == RdmaTypeInv /\ [RdmaNext]_rdmaVars => RdmaTypeInv'
<1>. SUFFICES ASSUME RdmaTypeInv, [RdmaNext]_rdmaVars PROVE RdmaTypeOK' /\ IndicesBounded'
  BY SendStep, ReceiveStep, BufferStep DEF RdmaTypeInv
<1>0. SendInv' /\ RqInStep' /\ BufferInv'
  BY SendStep, ReceiveStep, BufferStep DEF RdmaTypeInv, ReceiveInv
<1>1. /\ buffer_offset'["host_mem"] \in 0 .. Hugepages * HugePage
      /\ buffer_offset'["dev_mem"] \in 0 .. DeviceMemSize
  BY <1>0, RdmaConstants DEF BufferInv, Carved, Locations
<1>2. /\ {rq_pidb', STATRQPIDB', RQCI'} \subseteq 0 .. qdepth - 1
      /\ CQHEAD' <= STATCURSQPTR' /\ STATCURSQPTR' <= SQPI'
      /\ reported' \subseteq done' /\ CQHEAD' \in Nat /\ STATCURSQPTR' \in Nat /\ SQPI' \in Nat
      /\ sq_cidb' \in Int
  BY <1>0 DEF RqInStep, SendInv, CoreInOrder, PostedIsRung, SendReported
<1>. DEFINE Rest == /\ pc \in {"setup", "idle", "post_send", "batch", "poll_rq", "drain",
                              "drained", "reset", "exited"}
                    /\ sq_cidb \in -1 .. qdepth /\ cq_cidb \in -1 .. qdepth
                    /\ SQPI <= sq /\ sq \in 0 .. qdepth
                    /\ rq_cidb \in 0 .. qdepth - 1
                    /\ rc \in {0, 1} /\ done \subseteq 1 .. sq
<1>3. Rest
  BY DEF RdmaTypeInv, RdmaTypeOK
<1>4. Rest' /\ IndicesBounded'
  <2>. USE RdmaConstants DEF RdmaTypeInv, IndicesBounded, Alive, bufVars, sw, core, history
  <2>. USE <1>3
  <2>1. CASE AllocateData
    BY <2>1 DEF AllocateData
  <2>2. CASE allocate_rdma_qp
    BY <2>2 DEF allocate_rdma_qp, SendInv, CoreInOrder
  <2>3. CASE create_a_wqe
    <3>1. sq' = sq + 1 /\ sq < qdepth
      BY <2>3 DEF create_a_wqe
    <3>2. sq' \in 0 .. qdepth /\ SQPI <= sq' /\ 1 .. sq \subseteq 1 .. sq'
      BY <3>1 DEF SendInv, CoreInOrder
    <3>. QED BY <2>3, <3>1, <3>2 DEF create_a_wqe, SendInv, PostedIsRung
  <2>4. CASE rdma_post_send
    BY <2>4 DEF rdma_post_send, SendInv, PostedIsRung
  <2>5. CASE SendReturns
    BY <2>5 DEF SendReturns, SendInv, PostedIsRung, CoreInOrder
  <2>6. CASE SendTimesOut
    BY <2>6 DEF SendTimesOut, SendInv, PostedIsRung
  <2>7. CASE rdma_post_batch_send
    BY <2>7 DEF rdma_post_batch_send, SendInv, PostedIsRung, CoreInOrder
  <2>8. CASE BatchPoll
    BY <2>8 DEF BatchPoll, SendInv, PostedIsRung, CoreInOrder
  <2>9. CASE BatchTimesOut
    BY <2>9 DEF BatchTimesOut, SendInv, PostedIsRung
  <2>10. CASE rdma_post_receive
    BY <2>10 DEF rdma_post_receive
  <2>11. CASE poll_rq_pidb
    BY <2>11 DEF poll_rq_pidb
  <2>12. CASE rdma_release_rq_consumed
    BY <2>12 DEF rdma_release_rq_consumed, Released, ReceiveInv, RqInStep
  <2>13. CASE destroy_rdma_qp
    BY <2>13 DEF destroy_rdma_qp
  <2>14. CASE rdma_qp_fatal_recovery
    BY <2>14 DEF rdma_qp_fatal_recovery
  <2>15. CASE Drained
    BY <2>15 DEF Drained
  <2>16. CASE Reset
    BY <2>16 DEF Reset, CoreReset
  <2>17. CASE Fetch
    BY <2>17 DEF Fetch
  <2>18. CASE Complete
    BY <2>18 DEF Complete, SendInv, CoreInOrder
  <2>19. CASE Receive
    BY <2>19 DEF Receive
  <2>20. CASE Fatal
    BY <2>20 DEF Fatal
  <2>21. CASE UNCHANGED rdmaVars
    BY <2>21 DEF rdmaVars
  <2>. QED
    BY <2>1, <2>2, <2>3, <2>4, <2>5, <2>6, <2>7, <2>8, <2>9, <2>10, <2>11, <2>12, <2>13,
       <2>14, <2>15, <2>16, <2>17, <2>18, <2>19, <2>20, <2>21 DEF RdmaNext, Library
<1>. QED BY <1>1, <1>2, <1>4, RdmaConstants DEF RdmaTypeOK

\* Registers, indices and offsets stay in their ranges; in particular neither
\* send nor completion index of the library leaves the queue.
THEOREM RdmaTypeCorrect == RdmaSpec => []RdmaTypeOK
<1>1. RdmaTypeInv => RdmaTypeOK
  BY DEF RdmaTypeInv
<1>. QED BY <1>1, TypeInit, TypeStep, PTL DEF RdmaSpec

-----------------------------------------------------------------------------
(* HwErrors: the error monitor                                             *)

(* The tables.                                                             *)

\* Registers have 32 bits.
Bits == 0 .. 31

\* A group's entries are numbered and made of bits of a register.
Typed(t) ==
  /\ t.glbl \in Bits /\ t.all \subseteq Bits
  /\ DOMAIN t.errs \subseteq Nat
  /\ \A k \in DOMAIN t.errs : t.errs[k] \subseteq Bits

\* A bit belongs to one entry of a group, the twins excepted.
Apart(t, twin) ==
  \A k, l \in DOMAIN t.errs : \A b \in t.errs[k] :
    b \in t.errs[l] => k = l \/ (k \in twin /\ l \in twin)

\* The group's ..._ERR_ALL mask lets its errors through, with exceptions.
LetThrough(t, never) ==
  \A k \in DOMAIN t.errs : \A b \in t.errs[k] : b \in t.all \/ b \in never

GroupSound(t, twin, never) == Typed(t) /\ Apart(t, twin) /\ LetThrough(t, never)

\* The groups of the EQDMA soft IP.
LEMMA EqdmaSound ==
  /\ GroupSound(EqdmaDsc, {}, {})
  /\ GroupSound(EqdmaTrq, {}, {3})
  /\ GroupSound(EqdmaC2h, {}, {18})
  /\ GroupSound(EqdmaFatal, {}, 5 .. 7)
  /\ GroupSound(EqdmaH2c, {}, {})
  /\ GroupSound(EqdmaSbe1, {}, {})
  /\ GroupSound(EqdmaSbe, {}, {})
  /\ GroupSound(EqdmaDbe1, {4, 5}, {})
  /\ GroupSound(EqdmaDbe, {}, {})
<1>1. GroupSound(EqdmaDsc, {}, {})
  <2>1. Typed(EqdmaDsc)
    BY DEF Typed, Bits, Each, EqdmaDsc
  <2>2. Apart(EqdmaDsc, {})
    BY DEF Apart, Each, EqdmaDsc
  <2>3. LetThrough(EqdmaDsc, {})
    BY DEF LetThrough, Each, EqdmaDsc
  <2>. QED BY <2>1, <2>2, <2>3 DEF GroupSound
<1>2. GroupSound(EqdmaTrq, {}, {3})
  BY DEF GroupSound, Typed, Bits, Apart, LetThrough, Each, EqdmaTrq
<1>3. GroupSound(EqdmaC2h, {}, {18})
  <2>1. Typed(EqdmaC2h)
    BY DEF Typed, Bits, Each, EqdmaC2h
  <2>2. Apart(EqdmaC2h, {})
    BY DEF Apart, Each, EqdmaC2h
  <2>3. LetThrough(EqdmaC2h, {18})
    BY DEF LetThrough, Each, EqdmaC2h
  <2>. QED BY <2>1, <2>2, <2>3 DEF GroupSound
<1>4. GroupSound(EqdmaFatal, {}, 5 .. 7)
  BY DEF GroupSound, Typed, Bits, Apart, LetThrough, Each, EqdmaFatal
<1>5. GroupSound(EqdmaH2c, {}, {})
  BY DEF GroupSound, Typed, Bits, Apart, LetThrough, Each, EqdmaH2c
<1>6. GroupSound(EqdmaSbe1, {}, {})
  BY DEF GroupSound, Typed, Bits, Apart, LetThrough, Each, EqdmaSbe1
<1>7. GroupSound(EqdmaSbe, {}, {})
  <2>1. Typed(EqdmaSbe)
    BY DEF Typed, Bits, Each, EqdmaSbe, EqdmaSbeLow
  <2>2. Apart(EqdmaSbe, {})
    BY DEF Apart, Each, EqdmaSbe, EqdmaSbeLow
  <2>3. LetThrough(EqdmaSbe, {})
    BY DEF LetThrough, Each, EqdmaSbe, EqdmaSbeLow
  <2>. QED BY <2>1, <2>2, <2>3 DEF GroupSound
<1>8. GroupSound(EqdmaDbe1, {4, 5}, {})
  BY DEF GroupSound, Typed, Bits, Apart, LetThrough, Each, EqdmaDbe1
<1>9. GroupSound(EqdmaDbe, {}, {})
  <2>1. Typed(EqdmaDbe)
    BY DEF Typed, Bits, Each, EqdmaDbe, EqdmaDbeLow
  <2>2. Apart(EqdmaDbe, {})
    BY DEF Apart, Each, EqdmaDbe, EqdmaDbeLow
  <2>3. LetThrough(EqdmaDbe, {})
    BY DEF LetThrough, Each, EqdmaDbe, EqdmaDbeLow
  <2>. QED BY <2>1, <2>2, <2>3 DEF GroupSound
<1>. QED BY <1>1, <1>2, <1>3, <1>4, <1>5, <1>6, <1>7, <1>8, <1>9

\* The groups of the QDMA soft IP.
LEMMA SoftSound ==
  /\ GroupSound(SoftDsc, {}, {})
  /\ GroupSound(SoftTrq, {}, {})
  /\ GroupSound(SoftC2h, {}, {})
  /\ GroupSound(SoftFatal, {}, {})
  /\ GroupSound(SoftH2c, {}, {})
  /\ GroupSound(SoftSbe, {}, {})
  /\ GroupSound(SoftDbe, {}, {})
<1>1. GroupSound(SoftDsc, {}, {})
  <2>1. Typed(SoftDsc)
    BY DEF Typed, Bits, Each, SoftDsc
  <2>2. Apart(SoftDsc, {})
    BY DEF Apart, Each, SoftDsc
  <2>3. LetThrough(SoftDsc, {})
    BY DEF LetThrough, Each, SoftDsc
  <2>. QED BY <2>1, <2>2, <2>3 DEF GroupSound
<1>2. GroupSound(SoftTrq, {}, {})
  BY DEF GroupSound, Typed, Bits, Apart, LetThrough, Each, SoftTrq
<1>3. GroupSound(SoftC2h, {}, {})
  BY DEF GroupSound, Typed, Bits, Apart, LetThrough, Each, SoftC2h
<1>4. GroupSound(SoftFatal, {}, {})
  BY DEF GroupSound, Typed, Bits, Apart, LetThrough, Each, SoftFatal
<1>5. GroupSound(SoftH2c, {}, {})
  BY DEF GroupSound, Typed, Bits, Apart, LetThrough, Each, SoftH2c
<1>6. GroupSound(SoftSbe, {}, {})
  BY DEF GroupSound, Typed, Bits, Apart, LetThrough, Each, SoftSbe, SoftSbeLow
<1>7. GroupSound(SoftDbe, {}, {})
  BY DEF GroupSound, Typed, Bits, Apart, LetThrough, Each, SoftDbe, SoftDbeLow
<1>. QED BY <1>1, <1>2, <1>3, <1>4, <1>5, <1>6, <1>7

\* The groups of the QDMA hard IP.
LEMMA S80Sound ==
  /\ GroupSound(S80Dsc, {}, {})
  /\ GroupSound(S80Trq, {}, {2, 3})
  /\ GroupSound(S80C2h, {8, 9}, {})
  /\ GroupSound(S80Fatal, {}, {5, 6, 7, 13})
  /\ GroupSound(S80H2c, {}, {})
  /\ GroupSound(S80Sbe, {}, {})
  /\ GroupSound(S80Dbe, {}, {})
<1>1. GroupSound(S80Dsc, {}, {})
  <2>1. Typed(S80Dsc)
    BY DEF Typed, Bits, Each, S80Dsc
  <2>2. Apart(S80Dsc, {})
    BY DEF Apart, Each, S80Dsc
  <2>3. LetThrough(S80Dsc, {})
    BY DEF LetThrough, Each, S80Dsc
  <2>. QED BY <2>1, <2>2, <2>3 DEF GroupSound
<1>2. GroupSound(S80Trq, {}, {2, 3})
  BY DEF GroupSound, Typed, Bits, Apart, LetThrough, Each, S80Trq
<1>3. GroupSound(S80C2h, {8, 9}, {})
  BY DEF GroupSound, Typed, Bits, Apart, LetThrough, Each, S80C2h
<1>4. GroupSound(S80Fatal, {}, {5, 6, 7, 13})
  BY DEF GroupSound, Typed, Bits, Apart, LetThrough, Each, S80Fatal
<1>5. GroupSound(S80H2c, {}, {})
  BY DEF GroupSound, Typed, Bits, Apart, LetThrough, Each, S80H2c
<1>6. GroupSound(S80Sbe, {}, {})
  BY DEF GroupSound, Typed, Bits, Apart, LetThrough, Each, S80Sbe, S80SbeLow
<1>7. GroupSound(S80Dbe, {}, {})
  BY DEF GroupSound, Typed, Bits, Apart, LetThrough, Each, S80Dbe, S80DbeLow
<1>. QED BY <1>1, <1>2, <1>3, <1>4, <1>5, <1>6, <1>7
Layers == {"eqdma", "soft", "s80"}

\* What the proofs need to know of the table of the layer in use.
LEMMA TableFacts ==
  ASSUME ip \in Layers
  PROVE  /\ Len(Errs) \in Nat /\ DOMAIN Errs = 1 .. Len(Errs)
         /\ \A g \in DOMAIN Errs :
              /\ Typed(Errs[g])
              /\ Apart(Errs[g], Twin(g))
              /\ \A k \in DOMAIN Errs[g].errs : \A b \in Errs[g].errs[k] :
                   b \in Errs[g].all \/ <<g, b>> \in NeverEnabled
<1>1. CASE ip = "eqdma"
  <2>1. Errs = EqdmaErrs /\ Len(EqdmaErrs) = 9 /\ DOMAIN EqdmaErrs = 1 .. 9
    BY <1>1 DEF Errs, EqdmaErrs
  <2>2. ASSUME NEW g \in 1 .. 9
        PROVE  GroupSound(EqdmaErrs[g], IF g = 8 THEN {4, 5} ELSE {},
                          CASE g = 2 -> {3} [] g = 3 -> {18} [] g = 4 -> 5 .. 7
                            [] OTHER -> {})
    BY EqdmaSound DEF EqdmaErrs
  <2>3. /\ \A g \in 1 .. 9 : Twin(g) = IF g = 8 THEN {4, 5} ELSE {}
        /\ NeverEnabled = {<<2, 3>>, <<3, 18>>} \cup ({4} \X (5 .. 7))
    BY <1>1 DEF Twin, NeverEnabled
  <2>4. ASSUME NEW g \in 1 .. 9, NEW k \in DOMAIN EqdmaErrs[g].errs,
               NEW b \in EqdmaErrs[g].errs[k], b \notin EqdmaErrs[g].all
        PROVE  <<g, b>> \in NeverEnabled
    <3>1. b \in CASE g = 2 -> {3} [] g = 3 -> {18} [] g = 4 -> 5 .. 7 [] OTHER -> {}
      BY <2>2, <2>4 DEF GroupSound, LetThrough
    <3>2. (g = 2 /\ b = 3) \/ (g = 3 /\ b = 18) \/ (g = 4 /\ b \in 5 .. 7)
      BY <3>1
    <3>. QED BY <2>3, <3>2
  <2>5. \A g \in 1 .. 9 : Typed(EqdmaErrs[g]) /\ Apart(EqdmaErrs[g], Twin(g))
    BY <2>2, <2>3 DEF GroupSound
  <2>. QED BY <2>1, <2>4, <2>5
<1>2. CASE ip = "soft"
  <2>1. Errs = SoftErrs /\ Len(SoftErrs) = 7 /\ DOMAIN SoftErrs = 1 .. 7
    BY <1>2 DEF Errs, SoftErrs
  <2>2. ASSUME NEW g \in 1 .. 7 PROVE GroupSound(SoftErrs[g], {}, {})
    BY SoftSound DEF SoftErrs
  <2>3. \A g \in 1 .. 7 : Twin(g) = {}
    BY <1>2 DEF Twin
  <2>. QED BY <2>1, <2>2, <2>3 DEF GroupSound, LetThrough
<1>3. CASE ip = "s80"
  <2>1. Errs = S80Errs /\ Len(S80Errs) = 7 /\ DOMAIN S80Errs = 1 .. 7
    BY <1>3 DEF Errs, S80Errs
  <2>2. ASSUME NEW g \in 1 .. 7
        PROVE  GroupSound(S80Errs[g], IF g = 3 THEN {8, 9} ELSE {},
                          CASE g = 2 -> {2, 3} [] g = 4 -> {5, 6, 7, 13} [] OTHER -> {})
    BY S80Sound DEF S80Errs
  <2>3. /\ \A g \in 1 .. 7 : Twin(g) = IF g = 3 THEN {8, 9} ELSE {}
        /\ NeverEnabled = {<<2, 2>>, <<2, 3>>, <<4, 13>>} \cup ({4} \X (5 .. 7))
    BY <1>3 DEF Twin, NeverEnabled
  <2>4. ASSUME NEW g \in 1 .. 7, NEW k \in DOMAIN S80Errs[g].errs,
               NEW b \in S80Errs[g].errs[k], b \notin S80Errs[g].all
        PROVE  <<g, b>> \in NeverEnabled
    <3>1. b \in CASE g = 2 -> {2, 3} [] g = 4 -> {5, 6, 7, 13} [] OTHER -> {}
      BY <2>2, <2>4 DEF GroupSound, LetThrough
    <3>2. (g = 2 /\ b \in {2, 3}) \/ (g = 4 /\ b \in {5, 6, 7, 13})
      BY <3>1
    <3>. QED BY <2>3, <3>2
  <2>5. \A g \in 1 .. 7 : Typed(S80Errs[g]) /\ Apart(S80Errs[g], Twin(g))
    BY <2>2, <2>3 DEF GroupSound
  <2>. QED BY <2>1, <2>4, <2>5
<1>. QED BY <1>1, <1>2, <1>3 DEF Layers

---------------------------------------------------------------------------
(* The invariant.                                                          *)

Stages == {"idle", "start", "leaf", "clear", "glbl", "done"}

Runs == [pc : Stages, i : Nat, seen : SUBSET Bits, err_stat : SUBSET Bits,
         named : SUBSET Nat]

\* Registers hold bits, those of an absent group none; the walk is at a group
\* of the table.
TypeOK ==
  /\ ip \in Layers /\ st_en \in BOOLEAN
  /\ mask \in [DOMAIN Errs -> SUBSET Bits] /\ gmask \subseteq Bits
  /\ stat \in [DOMAIN Errs -> SUBSET Bits] /\ gstat \subseteq Bits
  /\ run \in Runs
  /\ run.pc \in {"leaf", "clear"} => run.i \in DOMAIN Errs
  /\ \A g \in DOMAIN Errs : g \notin Present => stat[g] = {}
  /\ dev \in {"off", "on", "want", "sync"}

\* A bit that is not excused has its global bit set, and the running process
\* will not clear that without having read and cleared the bit.
Traced(g, b) ==
  \/ <<g, b>> \in excused
  \/ /\ Errs[g].glbl \in gstat
     /\ \/ ~Passed(g)
        \/ run.pc = "clear" /\ run.i = g /\ b \in run.err_stat

AllTraced == \A g \in DOMAIN Errs : \A b \in stat[g] : Traced(g, b)

\* Every bit set was set by an error that is listed with this bit.
BitsRaised ==
  /\ \A r \in raised : \E g \in DOMAIN Errs : \E k \in DOMAIN Errs[g].errs :
       \E b \in Errs[g].errs[k] : r = <<g, k, b>>
  /\ \A g \in DOMAIN Errs : \A b \in stat[g] :
       \E k \in DOMAIN Errs[g].errs : b \in Errs[g].errs[k] /\ <<g, k, b>> \in raised

\* The process names the errors of the bits it is about to clear.
NamesRead ==
  run.pc = "clear" => /\ run.err_stat \subseteq stat[run.i]
                      /\ run.named = Names(Errs, run.i, run.err_stat)

\* Once the device came up the first time, the masks stay written.
MasksWritten ==
  dev # "off" => \A g \in Present : mask[g] = Errs[g].all /\ Errs[g].glbl \in gmask

ErrorInv == TypeOK /\ AllTraced /\ BitsRaised /\ NamesRead /\ MasksWritten

\* It holds before the device comes up.
LEMMA ErrorInit == Init => ErrorInv
<1>. SUFFICES ASSUME Init PROVE ErrorInv
  OBVIOUS
<1>1. TypeOK
  BY DEF Init, TypeOK, Layers, Runs, Stages, Idle
<1>. QED BY <1>1 DEF Init, ErrorInv, AllTraced, BitsRaised, NamesRead, MasksWritten, Idle

\* The table and the groups of a bitstream do not change.
LEMMA SameTable ==
  ASSUME UNCHANGED <<ip, st_en>>
  PROVE  Errs' = Errs /\ Present' = Present
  BY DEF Errs, Present

\* An error is raised.
LEMMA RaiseStep == ErrorInv /\ Raise => ErrorInv'
<1>. SUFFICES ASSUME ErrorInv, NEW g \in Present, NEW k \in DOMAIN Errs[g].errs,
                     NEW b \in Errs[g].errs[k], RaiseBit(g, k, b)
              PROVE  ErrorInv'
  BY DEF Raise
<1>. DEFINE through == b \in mask[g] /\ Errs[g].glbl \in gmask
<1>1. /\ Errs' = Errs /\ Present' = Present
      /\ UNCHANGED <<ip, st_en, mode, mask, gmask, run, dev>>
      /\ stat' = [stat EXCEPT ![g] = @ \cup {b}]
      /\ gstat' = IF through THEN gstat \cup {Errs[g].glbl} ELSE gstat
      /\ raised' = raised \cup {<<g, k, b>>}
      /\ excused' = IF through /\ ~Passed(g) THEN excused \ {<<g, b>>}
                                             ELSE excused \cup {<<g, b>>}
  BY SameTable DEF RaiseBit
<1>2. /\ g \in DOMAIN Errs /\ b \in Bits /\ Errs[g].glbl \in Bits
      /\ stat \in [DOMAIN Errs -> SUBSET Bits]
  BY TableFacts DEF Present, ErrorInv, TypeOK, Typed
<1>3. /\ stat' \in [DOMAIN Errs -> SUBSET Bits]
      /\ stat'[g] = stat[g] \cup {b}
      /\ \A h \in DOMAIN Errs : h # g => stat'[h] = stat[h]
  BY <1>1, <1>2
<1>4. TypeOK'
  BY <1>1, <1>2, <1>3 DEF ErrorInv, TypeOK
<1>5. \A h \in DOMAIN Errs : Passed(h)' <=> Passed(h)
  BY <1>1 DEF Passed
<1>6. AllTraced'
  <2>. SUFFICES ASSUME NEW h \in DOMAIN Errs, NEW c \in stat'[h]
                PROVE  Traced(h, c)'
    BY <1>1 DEF AllTraced
  <2>1. CASE h = g /\ c = b
    BY <1>1, <1>5, <2>1 DEF Traced
  <2>2. CASE ~(h = g /\ c = b)
    <3>1. c \in stat[h] /\ Traced(h, c)
      BY <1>3, <2>2 DEF ErrorInv, AllTraced
    <3>2. <<h, c>> # <<g, b>>
      BY <2>2
    <3>. QED BY <1>1, <1>5, <3>1, <3>2 DEF Traced
  <2>. QED BY <2>1, <2>2
<1>7. BitsRaised'
  <2>1. \A r \in raised' : \E h \in DOMAIN Errs : \E l \in DOMAIN Errs[h].errs :
          \E c \in Errs[h].errs[l] : r = <<h, l, c>>
    BY <1>1, <1>2 DEF ErrorInv, BitsRaised
  <2>2. ASSUME NEW h \in DOMAIN Errs, NEW c \in stat'[h]
        PROVE  \E l \in DOMAIN Errs[h].errs :
                 c \in Errs[h].errs[l] /\ <<h, l, c>> \in raised'
    <3>1. CASE h = g /\ c = b
      BY <1>1, <3>1
    <3>2. CASE ~(h = g /\ c = b)
      BY <1>1, <1>3, <3>2 DEF ErrorInv, BitsRaised
    <3>. QED BY <3>1, <3>2
  <2>. QED BY <1>1, <2>1, <2>2 DEF BitsRaised
<1>8. NamesRead'
  <2>1. ASSUME run.pc = "clear" PROVE run.err_stat \subseteq stat'[run.i]
    BY <1>3, <2>1 DEF ErrorInv, NamesRead, TypeOK
  <2>. QED BY <1>1, <2>1 DEF ErrorInv, NamesRead, Names
<1>9. MasksWritten'
  BY <1>1 DEF ErrorInv, MasksWritten
<1>. QED BY <1>4, <1>6, <1>7, <1>8, <1>9 DEF ErrorInv

\* The masks are written and the monitor or the interrupt is started.
LEMMA OnlineStep == ErrorInv /\ qdma_device_online => ErrorInv'
<1>. SUFFICES ASSUME ErrorInv, qdma_device_online PROVE ErrorInv'
  OBVIOUS
<1>1. /\ Errs' = Errs /\ Present' = Present
      /\ UNCHANGED <<ip, st_en, stat, gstat, run, raised, excused>> /\ dev' = "on"
  BY SameTable DEF qdma_device_online, ghosts
<1>2. EnableTo(Errs)
  BY DEF qdma_device_online, hw_error_enable, eqdma_hw_error_enable,
         qdma_hw_error_enable, qdma_s80_hard_hw_error_enable, Errs
<1>3. /\ mask' = [g \in DOMAIN Errs |-> IF g \in Present THEN Errs[g].all ELSE mask[g]]
      /\ gmask' = gmask \cup {Errs[g].glbl : g \in Present}
  BY <1>2 DEF EnableTo
<1>4. \A g \in Present : g \in DOMAIN Errs /\ Errs[g].all \subseteq Bits
                         /\ Errs[g].glbl \in Bits
  BY TableFacts DEF Present, ErrorInv, TypeOK, Typed
<1>5. TypeOK'
  BY <1>1, <1>3, <1>4 DEF ErrorInv, TypeOK
<1>6. MasksWritten'
  BY <1>1, <1>3, <1>4 DEF MasksWritten
<1>7. AllTraced'
  BY <1>1 DEF ErrorInv, AllTraced, Traced, Passed
<1>8. BitsRaised' /\ NamesRead'
  BY <1>1 DEF ErrorInv, BitsRaised, NamesRead, Names
<1>. QED BY <1>5, <1>6, <1>7, <1>8 DEF ErrorInv

\* The process begins, reads the global register, or ends.
LEMMA EdgeStep ==
  ASSUME ErrorInv, UNCHANGED <<ip, st_en, mask, gmask, stat, gstat, dev, raised, excused>>,
         \/ run' = run
         \/ run' \in Runs /\ run'.pc \in {"idle", "start", "done"}
         \/ run' \in Runs /\ run'.pc = "leaf" /\ run'.i = 1
  PROVE  ErrorInv'
<1>1. Errs' = Errs /\ Present' = Present
  BY SameTable
<1>2. BitsRaised' /\ MasksWritten'
  BY <1>1 DEF ErrorInv, BitsRaised, MasksWritten
<1>3. CASE run' = run
  BY <1>1, <1>2, <1>3 DEF ErrorInv, TypeOK, AllTraced, Traced, Passed, NamesRead, Names
<1>4. CASE /\ run' \in Runs
           /\ run'.pc \in {"idle", "start", "done"} \/ (run'.pc = "leaf" /\ run'.i = 1)
  <2>1. 1 \in DOMAIN Errs
    BY DEF Errs, EqdmaErrs, SoftErrs, S80Errs, ErrorInv, TypeOK, Layers
  <2>2. TypeOK'
    BY <1>1, <1>4, <2>1 DEF ErrorInv, TypeOK
  <2>3. \A g \in DOMAIN Errs : ~Passed(g)'
    <3>1. \A g \in DOMAIN Errs : g \in Nat /\ g >= 1
      BY TableFacts DEF ErrorInv, TypeOK
    <3>. QED BY <1>4, <3>1 DEF Passed
  <2>4. AllTraced'
    BY <1>1, <2>3 DEF ErrorInv, AllTraced, Traced
  <2>5. NamesRead'
    BY <1>4 DEF NamesRead
  <2>. QED BY <1>2, <2>2, <2>4, <2>5 DEF ErrorInv
<1>. QED BY <1>3, <1>4

\* The walk goes on: behind a group that is clean, or whose bits still set are
\* traced otherwise, nothing is forgotten.
LEMMA OnwardIs ==
  ASSUME TypeOK, run.pc \in {"leaf", "clear"}
  PROVE  LET r == Onward(run, Errs) IN
         /\ r \in Runs /\ r.seen = run.seen /\ r.named = run.named
         /\ \/ r.pc = "glbl" /\ run.i = Len(Errs)
            \/ r.pc = "leaf" /\ r.i = run.i + 1 /\ r.i \in DOMAIN Errs
<1>1. /\ run \in Runs /\ run.i \in DOMAIN Errs /\ Len(Errs) \in Nat
      /\ DOMAIN Errs = 1 .. Len(Errs)
  BY TableFacts DEF TypeOK
<1>2. CASE run.i = Len(Errs)
  BY <1>1, <1>2 DEF Onward, Runs, Stages
<1>3. CASE run.i # Len(Errs)
  <2>. DEFINE n == run.i + 1
              r == [run EXCEPT !.pc = "leaf", !.i = n, !.err_stat = {}]
  <2>1. Onward(run, Errs) = r
    BY <1>3 DEF Onward
  <2>2. n \in Nat /\ n \in DOMAIN Errs
    BY <1>1, <1>3
  <2>. HIDE DEF n
  <2>3. r \in Runs /\ r.pc = "leaf" /\ r.i = n /\ r.seen = run.seen /\ r.named = run.named
    BY <1>1, <2>2 DEF Runs, Stages
  <2>. QED BY <2>1, <2>2, <2>3 DEF n
<1>. QED BY <1>2, <1>3

\* After the walk went on, the groups passed are those passed before and the
\* one it was at.
LEMMA OnwardPasses ==
  ASSUME TypeOK, UNCHANGED <<ip, st_en>>, run.pc \in {"leaf", "clear"},
         run'.seen = run.seen,
         \/ run'.pc = "glbl" /\ run.i = Len(Errs)
         \/ run'.pc = "leaf" /\ run'.i = run.i + 1
  PROVE  \A g \in DOMAIN Errs :
           Passed(g)' => Passed(g) \/ (g = run.i /\ Errs[g].glbl \in run.seen)
<1>1. /\ run.i \in DOMAIN Errs /\ Len(Errs) \in Nat /\ DOMAIN Errs = 1 .. Len(Errs)
      /\ Errs' = Errs
  BY TableFacts, SameTable DEF TypeOK
<1>. QED BY <1>1 DEF Passed

\* A leaf register is read, or its group skipped.
LEMMA ReadLeafStep == ErrorInv /\ ReadLeaf(Errs) => ErrorInv'
<1>. SUFFICES ASSUME ErrorInv, ReadLeaf(Errs) PROVE ErrorInv'
  OBVIOUS
<1>1. /\ run.pc = "leaf" /\ Errs' = Errs /\ Present' = Present
      /\ UNCHANGED <<ip, st_en, mask, gmask, stat, gstat, dev, raised, excused>>
      /\ TypeOK /\ run.i \in DOMAIN Errs /\ run \in Runs
  BY SameTable DEF ReadLeaf, hw, ghosts, ErrorInv, TypeOK
<1>2. BitsRaised' /\ MasksWritten'
  BY <1>1 DEF ErrorInv, BitsRaised, MasksWritten
<1>3. CASE run.i \notin Present \/ stat[run.i] = {}
  <2>1. run' = Onward(run, Errs) /\ stat[run.i] = {}
    BY <1>1, <1>3 DEF ReadLeaf, TypeOK
  <2>2. /\ run' \in Runs /\ run'.seen = run.seen
        /\ \/ run'.pc = "glbl" /\ run.i = Len(Errs)
           \/ run'.pc = "leaf" /\ run'.i = run.i + 1 /\ run'.i \in DOMAIN Errs
    BY <1>1, <2>1, OnwardIs
  <2>3. TypeOK'
    BY <1>1, <2>2 DEF TypeOK
  <2>4. AllTraced'
    <3>. SUFFICES ASSUME NEW g \in DOMAIN Errs, NEW b \in stat[g] PROVE Traced(g, b)'
      BY <1>1 DEF AllTraced
    <3>1. g # run.i
      BY <2>1
    <3>2. Traced(g, b) /\ run.pc # "clear"
      BY <1>1 DEF ErrorInv, AllTraced
    <3>3. Passed(g)' => Passed(g)
      BY <1>1, <2>2, <3>1, OnwardPasses
    <3>. QED BY <1>1, <3>2, <3>3 DEF Traced
  <2>5. NamesRead'
    BY <2>2 DEF NamesRead
  <2>. QED BY <1>2, <2>3, <2>4, <2>5 DEF ErrorInv
<1>4. CASE ~(run.i \notin Present \/ stat[run.i] = {})
  <2>1. run' = [run EXCEPT !.pc = "clear", !.err_stat = stat[run.i],
                           !.named = Names(Errs, run.i, stat[run.i])]
    BY <1>4 DEF ReadLeaf
  <2>2. stat[run.i] \in SUBSET Bits /\ Names(Errs, run.i, stat[run.i]) \in SUBSET Nat
    BY <1>1, TableFacts DEF TypeOK, Names, Typed
  <2>3. /\ run' \in Runs /\ run'.pc = "clear" /\ run'.i = run.i /\ run'.seen = run.seen
        /\ run'.err_stat = stat[run.i]
        /\ run'.named = Names(Errs, run.i, stat[run.i])
    BY <1>1, <2>1, <2>2 DEF Runs, Stages
  <2>4. TypeOK'
    BY <1>1, <2>3 DEF TypeOK
  <2>5. AllTraced'
    <3>. SUFFICES ASSUME NEW g \in DOMAIN Errs, NEW b \in stat[g] PROVE Traced(g, b)'
      BY <1>1 DEF AllTraced
    <3>1. Traced(g, b) /\ run.pc # "clear"
      BY <1>1 DEF ErrorInv, AllTraced
    <3>2. Passed(g)' => Passed(g) \/ g = run.i
      BY <1>1, <2>3 DEF Passed
    <3>. QED BY <1>1, <2>3, <3>1, <3>2 DEF Traced
  <2>6. NamesRead'
    BY <1>1, <2>3 DEF NamesRead, Names
  <2>. QED BY <1>2, <2>4, <2>5, <2>6 DEF ErrorInv
<1>. QED BY <1>3, <1>4

\* What was read is cleared.
LEMMA ClearLeafStep == ErrorInv /\ ClearLeaf(Errs) => ErrorInv'
<1>. SUFFICES ASSUME ErrorInv, ClearLeaf(Errs) PROVE ErrorInv'
  OBVIOUS
<1>1. /\ run.pc = "clear" /\ Errs' = Errs /\ Present' = Present
      /\ UNCHANGED <<ip, st_en, mask, gmask, gstat, dev>>
      /\ stat' = [stat EXCEPT ![run.i] = @ \ run.err_stat]
      /\ raised' = {r \in raised : r[1] # run.i \/ r[3] \notin run.err_stat}
      /\ excused' = {r \in excused : r[1] # run.i \/ r[2] \notin run.err_stat}
      /\ run' = [Onward(run, Errs) EXCEPT !.named = {}]
      /\ TypeOK /\ run.i \in DOMAIN Errs /\ stat \in [DOMAIN Errs -> SUBSET Bits]
  BY SameTable DEF ClearLeaf, ErrorInv, TypeOK
<1>2. /\ run' \in Runs /\ run'.seen = run.seen
      /\ \/ run'.pc = "glbl" /\ run.i = Len(Errs)
         \/ run'.pc = "leaf" /\ run'.i = run.i + 1 /\ run'.i \in DOMAIN Errs
  <2>1. LET r == Onward(run, Errs) IN
        /\ r \in Runs /\ r.seen = run.seen
        /\ \/ r.pc = "glbl" /\ run.i = Len(Errs)
           \/ r.pc = "leaf" /\ r.i = run.i + 1 /\ r.i \in DOMAIN Errs
    BY <1>1, OnwardIs
  <2>. DEFINE r == Onward(run, Errs)
  <2>. HIDE DEF r
  <2>2. run' = [r EXCEPT !.named = {}]
    BY <1>1 DEF r
  <2>3. r \in Runs /\ r.seen = run.seen
        /\ \/ r.pc = "glbl" /\ run.i = Len(Errs)
           \/ r.pc = "leaf" /\ r.i = run.i + 1 /\ r.i \in DOMAIN Errs
    BY <2>1 DEF r
  <2>. QED BY <2>2, <2>3 DEF Runs
<1>3. /\ stat' \in [DOMAIN Errs -> SUBSET Bits]
      /\ \A g \in DOMAIN Errs : \A b \in stat'[g] :
           b \in stat[g] /\ (g # run.i \/ b \notin run.err_stat)
      /\ \A g \in DOMAIN Errs : stat[g] = {} => stat'[g] = {}
  BY <1>1
<1>4. TypeOK'
  BY <1>1, <1>2, <1>3 DEF TypeOK
<1>5. AllTraced'
  <2>. SUFFICES ASSUME NEW g \in DOMAIN Errs, NEW b \in stat'[g] PROVE Traced(g, b)'
    BY <1>1 DEF AllTraced
  <2>1. Traced(g, b) /\ (g # run.i \/ b \notin run.err_stat)
    BY <1>3 DEF ErrorInv, AllTraced
  <2>2. CASE <<g, b>> \in excused
    BY <1>1, <2>1, <2>2 DEF Traced
  <2>3. CASE Errs[g].glbl \in gstat /\ ~Passed(g)
    <3>1. ~(g = run.i /\ Errs[g].glbl \in run.seen)
      BY <1>1, <2>3 DEF Passed
    <3>2. ~Passed(g)'
      BY <1>1, <1>2, <2>3, <3>1, OnwardPasses
    <3>. QED BY <1>1, <2>3, <3>2 DEF Traced
  <2>. QED BY <2>1, <2>2, <2>3 DEF Traced
<1>6. BitsRaised'
  <2>1. \A r \in raised' : r \in raised
    BY <1>1
  <2>2. ASSUME NEW g \in DOMAIN Errs, NEW b \in stat'[g]
        PROVE  \E k \in DOMAIN Errs[g].errs : b \in Errs[g].errs[k] /\ <<g, k, b>> \in raised'
    <3>1. PICK k \in DOMAIN Errs[g].errs : b \in Errs[g].errs[k] /\ <<g, k, b>> \in raised
      BY <1>3 DEF ErrorInv, BitsRaised
    <3>2. <<g, k, b>> \in raised'
      BY <1>1, <1>3, <3>1
    <3>. QED BY <3>1, <3>2
  <2>. QED BY <1>1, <2>1, <2>2 DEF ErrorInv, BitsRaised
<1>7. NamesRead' /\ MasksWritten'
  BY <1>1, <1>2 DEF ErrorInv, NamesRead, MasksWritten
<1>. QED BY <1>4, <1>5, <1>6, <1>7 DEF ErrorInv

\* The global bits that were read are cleared: those of groups with a bit that
\* is not excused are not among them.
LEMMA ClearGlobalStep == ErrorInv /\ ClearGlobal => ErrorInv'
<1>. SUFFICES ASSUME ErrorInv, ClearGlobal PROVE ErrorInv'
  OBVIOUS
<1>1. /\ run.pc = "glbl" /\ Errs' = Errs /\ Present' = Present
      /\ UNCHANGED <<ip, st_en, mask, gmask, stat, dev, raised, excused>>
      /\ gstat' = gstat \ run.seen /\ run' = [run EXCEPT !.pc = "done"]
      /\ TypeOK /\ run \in Runs
  BY SameTable DEF ClearGlobal, ghosts, ErrorInv, TypeOK
<1>2. run' \in Runs /\ run'.pc = "done"
  BY <1>1 DEF Runs, Stages
<1>3. TypeOK'
  BY <1>1, <1>2 DEF TypeOK
<1>4. AllTraced'
  <2>. SUFFICES ASSUME NEW g \in DOMAIN Errs, NEW b \in stat[g] PROVE Traced(g, b)'
    BY <1>1 DEF AllTraced
  <2>1. Traced(g, b)
    BY DEF ErrorInv, AllTraced
  <2>2. ~Passed(g)' /\ (Passed(g) <=> Errs[g].glbl \in run.seen)
    BY <1>1, <1>2 DEF Passed
  <2>. QED BY <1>1, <1>2, <2>1, <2>2 DEF Traced
<1>5. BitsRaised' /\ NamesRead' /\ MasksWritten'
  <2>1. BitsRaised'
    BY <1>1 DEF ErrorInv, BitsRaised
  <2>2. NamesRead'
    BY <1>2 DEF NamesRead
  <2>3. MasksWritten'
    BY <1>1 DEF ErrorInv, MasksWritten
  <2>. QED BY <2>1, <2>2, <2>3
<1>. QED BY <1>3, <1>4, <1>5 DEF ErrorInv

\* Going offline does not touch the registers.
LEMMA OfflineStep ==
  ASSUME ErrorInv, OfflineCall \/ OfflineLock \/ OfflineSync
  PROVE  ErrorInv'
<1>1. /\ Errs' = Errs /\ Present' = Present
      /\ UNCHANGED <<ip, st_en, mask, gmask, stat, gstat, run, raised, excused>>
      /\ dev' \in {"off", "want", "sync"} /\ (dev' # "off" => dev # "off")
  BY SameTable DEF OfflineCall, OfflineLock, OfflineSync, hw, ghosts
<1>2. TypeOK'
  BY <1>1 DEF ErrorInv, TypeOK
<1>3. AllTraced'
  BY <1>1 DEF ErrorInv, AllTraced, Traced, Passed
<1>4. BitsRaised'
  BY <1>1 DEF ErrorInv, BitsRaised
<1>5. NamesRead'
  BY <1>1 DEF ErrorInv, NamesRead, Names
<1>6. MasksWritten'
  BY <1>1 DEF ErrorInv, MasksWritten
<1>. QED BY <1>2, <1>3, <1>4, <1>5, <1>6 DEF ErrorInv

\* Every step keeps the invariant.
LEMMA ErrorStep == ErrorInv /\ [Next]_vars => ErrorInv'
<1>. SUFFICES ASSUME ErrorInv, [Next]_vars PROVE ErrorInv'
  OBVIOUS
<1>0. run \in Runs /\ Idle \in Runs /\ gstat \subseteq Bits /\ ip \in Layers
  BY DEF ErrorInv, TypeOK, Idle, Runs, Stages
<1>1. CASE Raise
  BY <1>1, RaiseStep
<1>2. CASE qdma_device_online
  BY <1>2, OnlineStep
<1>3. CASE OfflineCall \/ OfflineLock \/ OfflineSync
  BY <1>3, OfflineStep
<1>4. CASE ReadGlobal
  <2>1. /\ UNCHANGED <<ip, st_en, mask, gmask, stat, gstat, dev, raised, excused>>
        /\ \/ run' = [run EXCEPT !.pc = "done"]
           \/ run' = [run EXCEPT !.pc = "leaf", !.i = 1, !.seen = gstat]
    BY <1>4 DEF ReadGlobal, hw, ghosts
  <2>2. \/ run' \in Runs /\ run'.pc = "done"
        \/ run' \in Runs /\ run'.pc = "leaf" /\ run'.i = 1
    <3>1. CASE run' = [run EXCEPT !.pc = "done"]
      BY <1>0, <3>1 DEF Runs, Stages
    <3>2. CASE run' = [run EXCEPT !.pc = "leaf", !.i = 1, !.seen = gstat]
      <4>1. run' = [pc |-> "leaf", i |-> 1, seen |-> gstat, err_stat |-> run.err_stat,
                    named |-> run.named]
        BY <1>0, <3>2 DEF Runs
      <4>. QED BY <1>0, <4>1 DEF Runs, Stages
    <3>. QED BY <2>1, <3>1, <3>2
  <2>. QED BY <2>1, <2>2, EdgeStep
<1>5. CASE eqdma_hw_error_process \/ qdma_hw_error_process \/ qdma_s80_hard_hw_error_process
  <2>1. ReadLeaf(Errs) \/ ClearLeaf(Errs)
    BY <1>5 DEF eqdma_hw_error_process, qdma_hw_error_process,
                qdma_s80_hard_hw_error_process, Errs
  <2>. QED BY <2>1, ReadLeafStep, ClearLeafStep
<1>6. CASE ClearGlobal
  BY <1>6, ClearGlobalStep
<1>7. CASE error_intr_handler \/ Fire \/ MonStart \/ MonLock \/ MonDone
  <2>1. /\ UNCHANGED <<ip, st_en, mask, gmask, stat, gstat, dev, raised, excused>>
        /\ run' = run \/ run' = Idle \/ run' = [Idle EXCEPT !.pc = "start"]
    BY <1>7 DEF error_intr_handler, Fire, MonStart, MonLock, MonDone, hw, ghosts
  <2>2. \/ run' = run
        \/ run' \in Runs /\ run'.pc \in {"idle", "start"}
    BY <1>0, <2>1 DEF Idle, Runs, Stages
  <2>. QED BY <2>1, <2>2, EdgeStep
<1>8. CASE UNCHANGED vars
  <2>1. UNCHANGED <<ip, st_en, mask, gmask, stat, gstat, dev, raised, excused, run>>
    BY <1>8 DEF vars, hw, ghosts
  <2>. QED BY <2>1, EdgeStep
<1>. QED BY <1>1, <1>2, <1>3, <1>4, <1>5, <1>6, <1>7, <1>8 DEF Next, Handler

---------------------------------------------------------------------------
(* The theorems.                                                           *)

\* The invariant holds throughout.
LEMMA ErrorInvHolds == Spec => []ErrorInv
  BY ErrorInit, ErrorStep, PTL DEF Spec

\* Registers, masks and the state of hw_error_process() have their types in
\* every reachable state.
THEOREM TypeCorrect == Spec => []TypeOK
<1>1. ErrorInv => TypeOK
  BY DEF ErrorInv
<1>. QED BY <1>1, ErrorInvHolds, PTL

\* An error is left behind in a leaf register, with its global bit cleared,
\* only if a mask held it back or it came in the window between the read of
\* its group and the clearing of the global register.
THEOREM NoErrorLostHolds == Spec => []NoErrorLost
<1>1. ErrorInv => NoErrorLost
  BY DEF ErrorInv, AllTraced, Traced, NoErrorLost
<1>. QED BY <1>1, ErrorInvHolds, PTL

\* hw_error_process() reports every error under its own name, and the masks
\* of hw_error_enable() let every listed error through but for the named bits.
THEOREM ErrorTablesRightHold == Spec => []ErrorTablesRight
<1>1. ErrorInv => NamedRight
  <2>. SUFFICES ASSUME ErrorInv, run.pc = "clear" PROVE NamedRight
    BY DEF NamedRight
  <2>. DEFINE i == run.i
              truly == {r[2] : r \in {x \in raised : x[1] = run.i
                                                     /\ x[3] \in run.err_stat}}
  <2>1. /\ i \in DOMAIN Errs /\ run.err_stat \subseteq stat[i]
        /\ run.named = {k \in DOMAIN Errs[i].errs : Errs[i].errs[k] \cap run.err_stat # {}}
    BY DEF ErrorInv, TypeOK, NamesRead, Names
  <2>2. \A k : k \in truly <=> \E b \in run.err_stat : <<i, k, b>> \in raised
    <3>1. ASSUME NEW k \in truly PROVE \E b \in run.err_stat : <<i, k, b>> \in raised
      <4>1. PICK r \in raised : r[1] = i /\ r[3] \in run.err_stat /\ k = r[2]
        OBVIOUS
      <4>2. PICK g, l, b : r = <<g, l, b>>
        BY DEF ErrorInv, BitsRaised
      <4>3. g = i /\ l = k /\ b \in run.err_stat
        BY <4>1, <4>2
      <4>. QED BY <4>2, <4>3
    <3>2. ASSUME NEW k, NEW b \in run.err_stat, <<i, k, b>> \in raised
          PROVE  k \in truly
      <4>. DEFINE x == <<i, k, b>>
      <4>1. x \in raised /\ x[1] = run.i /\ x[3] = b /\ x[2] = k
        BY <3>2
      <4>. HIDE DEF x
      <4>. QED BY <4>1
    <3>. QED BY <3>1, <3>2
  <2>3. ASSUME NEW k \in truly PROVE k \in run.named
    <3>1. PICK b \in run.err_stat : <<i, k, b>> \in raised
      BY <2>2
    <3>2. k \in DOMAIN Errs[i].errs /\ b \in Errs[i].errs[k]
      BY <3>1 DEF ErrorInv, BitsRaised
    <3>. QED BY <2>1, <3>1, <3>2
  <2>4. ASSUME NEW k \in run.named, k \notin truly
        PROVE  k \in Twin(i) /\ truly \cap Twin(i) # {}
    <3>1. PICK b \in run.err_stat : k \in DOMAIN Errs[i].errs /\ b \in Errs[i].errs[k]
      BY <2>1
    <3>2. PICK l \in DOMAIN Errs[i].errs : b \in Errs[i].errs[l] /\ <<i, l, b>> \in raised
      BY <2>1 DEF ErrorInv, BitsRaised
    <3>3. l \in truly
      BY <2>2, <3>2
    <3>4. Apart(Errs[i], Twin(i))
      BY <2>1, TableFacts DEF ErrorInv, TypeOK
    <3>. QED BY <2>4, <3>1, <3>2, <3>3, <3>4 DEF Apart
  <2>. QED BY <2>3, <2>4 DEF NamedRight
<1>2. ErrorInv => ErrorsEnabled
  <2>. SUFFICES ASSUME ErrorInv, dev = "on", NEW g \in Present,
                       NEW k \in DOMAIN Errs[g].errs, NEW b \in Errs[g].errs[k]
                PROVE  \/ b \in mask[g] /\ Errs[g].glbl \in gmask
                       \/ <<g, b>> \in NeverEnabled
    BY DEF ErrorsEnabled
  <2>1. g \in DOMAIN Errs
    BY DEF Present
  <2>2. b \in Errs[g].all \/ <<g, b>> \in NeverEnabled
    BY <2>1, TableFacts DEF ErrorInv, TypeOK
  <2>. QED BY <2>2 DEF ErrorInv, MasksWritten
<1>. QED BY <1>1, <1>2, ErrorInvHolds, PTL DEF ErrorTablesRight
=============================================================================
