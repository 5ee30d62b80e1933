------------------------------- MODULE RdmaQp -------------------------------
(***************************************************************************)
(* A queue pair of the RDMA library (lib/rdma_api.c): the program that     *)
(* calls the library, the doorbells the library keeps, and the registers   *)
(* of the RDMA core (external), which executes work queue elements and     *)
(* receives messages at its own pace.                                      *)
(***************************************************************************)
EXTENDS RdmaBuffers, Integers

CONSTANTS
    qdepth,        \* depth of the queues
    QpLocations,   \* where the program puts the queues
    SqSize, CqSize, RqSize,     \* sizes of the queue pair's three buffers
    MaxMessages,   \* bound: messages received
    MaxLives,      \* bound: how often the queue pair is allocated
    MaxTimeouts    \* bound: polls that time out

ASSUME QpAssumption ==
    /\ {qdepth, SqSize, CqSize, RqSize} \subseteq Nat \ {0}
    /\ qdepth > 1 /\ QpLocations \subseteq Locations
    /\ {MaxMessages, MaxLives, MaxTimeouts} \subseteq Nat

VARIABLES
    pc,            \* what the program is doing
    sq_pidb, sq_cidb, cq_cidb, rq_pidb, rq_cidb,    \* struct rdma_qp_t
    sq,            \* the number of elements the program has put in the send queue
    SQPI, CQHEAD, STATCURSQPTR, RQCI, STATRQPIDB,   \* registers of the core
    fatal,         \* the queue pair is in a fatal state
    enabled,       \* QPCONF[0]
    rq,            \* the receive queue as the core fills it, by entry
    rc,            \* what the last rdma_release_rq_consumed() returned
    done,          \* elements the core has completed
    reported,      \* elements reported as successful while polls were in step
    late,          \* a poll of rdma_post_send() has timed out
    arrived, seen, \* messages received, and seen by the program's last poll
    skipped,       \* a poll saw more messages than the one it handed out
    lives, timeouts

sw == <<sq_pidb, sq_cidb, cq_cidb, rq_pidb, rq_cidb>>
core == <<SQPI, CQHEAD, STATCURSQPTR, RQCI, STATRQPIDB, fatal, enabled>>
history == <<done, reported, late, arrived, seen, skipped>>
rdmaVars == <<bufVars, pc, sw, sq, core, rq, rc, history, lives, timeouts>>

RdmaInit ==
    /\ create_rn_dev
    /\ pc = "setup"
    /\ sq_pidb = 0 /\ sq_cidb = 0 /\ cq_cidb = 0 /\ rq_pidb = 0 /\ rq_cidb = 0
    /\ sq = 0
    /\ SQPI = 0 /\ CQHEAD = 0 /\ STATCURSQPTR = 0 /\ RQCI = 0 /\ STATRQPIDB = 0
    /\ fatal = FALSE /\ enabled = FALSE
    /\ rq = [i \in 0 .. qdepth - 1 |-> 0] /\ rc = 1
    /\ done = {} /\ reported = {} /\ late = FALSE
    /\ arrived = 0 /\ seen = 0 /\ skipped = FALSE
    /\ lives = 0 /\ timeouts = 0

-----------------------------------------------------------------------------
(***************************************************************************)
(* Setting up.                                                             *)
(***************************************************************************)
\* The program allocates a buffer of its own and registers it.
AllocateData ==
    /\ pc = "setup" /\ lives = 0 /\ Cardinality(buffers) < MaxBuffers
    /\ \E size \in DataSizes, loc \in Locations : allocate_rdma_buffer(size, loc)
    /\ UNCHANGED <<frames, bdf, pc, sw, sq, core, rq, rc, history, lives, timeouts>>

\* The three queues are placed one after the other; the doorbells start at 0,
\* whatever the core's registers say.
allocate_rdma_qp ==
    /\ pc = "setup" /\ lives < MaxLives
    /\ \E loc \in QpLocations :
          LET sqAt == Place(buffer_offset[loc], SqSize)
              cqAt == Place(sqAt + SqSize, CqSize)
              rqAt == Place(cqAt + CqSize, RqSize)
          IN  /\ HasRoom(cqAt + CqSize, RqSize, loc)
              /\ buffer_offset' = [buffer_offset EXCEPT ![loc] = rqAt + RqSize]
              /\ buffers' = buffers \cup {Buffer(loc, sqAt, SqSize), Buffer(loc, cqAt, CqSize),
                                          Buffer(loc, rqAt, RqSize)}
    /\ sq_pidb' = 0 /\ sq_cidb' = 0 /\ cq_cidb' = 0 /\ rq_cidb' = 0 /\ rq_pidb' = 0
    /\ enabled' = TRUE
    /\ sq' = 0
    /\ pc' = "idle" /\ lives' = lives + 1 /\ rc' = 1
    /\ rq' = [i \in 0 .. qdepth - 1 |-> 0]
    /\ done' = {} /\ reported' = {} /\ late' = FALSE
    /\ arrived' = 0 /\ seen' = 0 /\ skipped' = FALSE
    /\ UNCHANGED <<frames, bdf, SQPI, CQHEAD, STATCURSQPTR, RQCI, STATRQPIDB, fatal,
                   timeouts>>

-----------------------------------------------------------------------------
(***************************************************************************)
(* Sending.                                                                *)
(***************************************************************************)
\* The program fills the next free element of the send queue.
create_a_wqe ==
    /\ pc = "idle" /\ sq < qdepth
    /\ sq' = sq + 1
    /\ UNCHANGED <<bufVars, pc, sw, core, rq, rc, done, reported, late, arrived, seen, skipped, lives, timeouts>>

\* The requests that a call posts
Posted(n) == sq_pidb - n + 1 .. sq_pidb

rdma_post_send ==
    /\ pc = "idle" /\ sq_pidb < sq
    /\ sq_pidb' = sq_pidb + 1
    /\ SQPI' = sq_pidb + 1
    /\ pc' = "post_send"
    /\ UNCHANGED <<bufVars, sq_cidb, cq_cidb, rq_pidb, rq_cidb, sq, CQHEAD, STATCURSQPTR,
                   RQCI, STATRQPIDB, fatal, enabled, rq, rc, history, lives, timeouts>>

\* poll_cq_cidb() returns as soon as CQHEAD differs from the index it is given, ...
PolledSend == CQHEAD # sq_cidb
SendReturns ==
    /\ pc = "post_send" /\ PolledSend
    /\ cq_cidb' = CQHEAD /\ sq_cidb' = sq_cidb + 1
    /\ reported' = IF late THEN reported ELSE reported \cup Posted(1)
    /\ pc' = "idle"
    /\ UNCHANGED <<bufVars, sq_pidb, rq_pidb, rq_cidb, sq, core, rq, rc, done,
                   late, arrived, seen, skipped, lives, timeouts>>
\* ... or with -1 after TIMEOUT_THRESHOLD reads.
SendTimesOut ==
    /\ pc = "post_send" /\ ~PolledSend /\ timeouts < MaxTimeouts
    /\ timeouts' = timeouts + 1
    /\ cq_cidb' = -1 /\ sq_cidb' = sq_cidb + 1
    /\ late' = TRUE
    /\ pc' = "idle"
    /\ UNCHANGED <<bufVars, sq_pidb, rq_pidb, rq_cidb, sq, core, rq, rc, done,
                   reported, arrived, seen, skipped, lives>>

\* The index is advanced before the check; an overflow ends the program.
rdma_post_batch_send ==
    /\ pc = "idle"
    /\ \E batch_size \in 1 .. qdepth + 1 :
          /\ sq_pidb + batch_size <= sq \/ sq_pidb + batch_size > qdepth
          /\ sq_pidb' = sq_pidb + batch_size
          /\ IF sq_pidb' > qdepth
             THEN pc' = "exited" /\ UNCHANGED SQPI
             ELSE pc' = "batch" /\ SQPI' = sq_pidb'
    /\ UNCHANGED <<bufVars, sq_cidb, cq_cidb, rq_pidb, rq_cidb, sq, CQHEAD, STATCURSQPTR,
                   RQCI, STATRQPIDB, fatal, enabled, rq, rc, history, lives, timeouts>>

\* One round of the loop: it ends when all elements are completed, and leaves
\* the indices in step with the core again.
BatchPollEarly(head) == TRUE                                          \* (mutant)
BatchStrict(head) == head > sq_pidb                                   \* (mutant)
BatchComplete(head) == head >= sq_pidb
BatchPoll ==
    /\ pc = "batch" /\ CQHEAD # sq_cidb
    /\ cq_cidb' = CQHEAD /\ sq_cidb' = CQHEAD
    /\ IF BatchComplete(CQHEAD)
       THEN pc' = "idle" /\ late' = FALSE /\ reported' = reported \cup Posted(sq_pidb)
       ELSE UNCHANGED <<pc, late, reported>>
    /\ UNCHANGED <<bufVars, sq_pidb, rq_pidb, rq_cidb, sq, core, rq, rc, done,
                   arrived, seen, skipped, lives, timeouts>>
BatchTimesOut ==
    /\ pc = "batch" /\ CQHEAD = sq_cidb /\ timeouts < MaxTimeouts
    /\ timeouts' = timeouts + 1
    /\ cq_cidb' = -1 /\ sq_cidb' = -1
    /\ UNCHANGED <<bufVars, pc, sq_pidb, rq_pidb, rq_cidb, sq, core, rq, rc, history, lives>>

-----------------------------------------------------------------------------
(***************************************************************************)
(* Receiving.                                                              *)
(***************************************************************************)
rdma_post_receive ==
    /\ pc = "idle"
    /\ pc' = "poll_rq"
    /\ UNCHANGED <<bufVars, sw, sq, core, rq, rc, history, lives, timeouts>>

\* The program is given the entry before the producer index, wherever the last
\* poll was.
poll_rq_pidb ==
    /\ pc = "poll_rq" /\ STATRQPIDB # rq_pidb
    /\ rq_pidb' = STATRQPIDB
    /\ skipped' = (skipped \/ arrived > seen + 1)
    /\ seen' = arrived
    /\ pc' = "idle"
    /\ UNCHANGED <<bufVars, sq_pidb, sq_cidb, cq_cidb, rq_cidb, sq, core, rq, rc, done,
                   reported, late, arrived, lives, timeouts>>

\* The entries up to the last poll are given back, not those that have come
\* since.
ReleasedAll == STATRQPIDB                                             \* (mutant)
Released == rq_pidb
rdma_release_rq_consumed ==
    /\ pc = "idle"
    /\ rq_cidb' = Released /\ RQCI' = Released
    /\ rc' = IF STATRQPIDB # rq_pidb THEN 1 ELSE 0
    /\ UNCHANGED <<bufVars, pc, sq_pidb, sq_cidb, cq_cidb, rq_pidb, sq, SQPI, CQHEAD,
                   STATCURSQPTR, STATRQPIDB, fatal, enabled, rq, done, reported,
                   late, arrived, seen, skipped, lives, timeouts>>

-----------------------------------------------------------------------------
(***************************************************************************)
(* Tearing down.                                                           *)
(***************************************************************************)
SqEmpty == STATCURSQPTR = SQPI       \* STATQP[9], as the core shows it
OsqEmpty == CQHEAD = STATCURSQPTR    \* STATQP[10]

\* destroy_rdma_qp(): a queue pair that is not clean goes through recovery.
destroy_rdma_qp ==
    /\ pc = "idle"
    /\ pc' = IF ~fatal /\ SqEmpty /\ OsqEmpty /\ CQHEAD = SQPI THEN "reset" ELSE "drain"
    /\ UNCHANGED <<bufVars, sw, sq, core, rq, rc, history, lives, timeouts>>

\* rdma_qp_fatal_recovery(): one of the two queues empty, then all elements
\* completed; the queue pair is disabled.
rdma_qp_fatal_recovery ==
    /\ pc = "drain" /\ (SqEmpty \/ OsqEmpty)
    /\ pc' = "drained"
    /\ UNCHANGED <<bufVars, sw, sq, core, rq, rc, history, lives, timeouts>>
Drained ==
    /\ pc = "drained"
    /\ \/ CQHEAD = SQPI /\ pc' = "reset" /\ enabled' = FALSE
       \/ CQHEAD # SQPI /\ pc' = "exited" /\ UNCHANGED enabled
    /\ UNCHANGED <<bufVars, sw, sq, SQPI, CQHEAD, STATCURSQPTR, RQCI, STATRQPIDB, fatal,
                   rq, rc, history, lives, timeouts>>

\* The doorbells are written back to 0 under software override.
CoreReset ==
    /\ SQPI' = 0 /\ CQHEAD' = 0 /\ RQCI' = 0 /\ STATRQPIDB' = 0 /\ STATCURSQPTR' = 0
Reset ==
    /\ pc = "reset"
    /\ CoreReset
    /\ enabled' = FALSE /\ fatal' = FALSE
    /\ pc' = "setup"
    /\ UNCHANGED <<bufVars, sw, sq, rq, rc, history, lives, timeouts>>

-----------------------------------------------------------------------------
(***************************************************************************)
(* The RDMA core (external).                                               *)
(***************************************************************************)
Fetch ==
    /\ enabled /\ ~fatal /\ STATCURSQPTR < SQPI
    /\ STATCURSQPTR' = STATCURSQPTR + 1
    /\ UNCHANGED <<bufVars, pc, sw, sq, SQPI, CQHEAD, RQCI, STATRQPIDB, fatal, enabled,
                   rq, rc, history, lives, timeouts>>

Complete ==
    /\ enabled /\ ~fatal /\ CQHEAD < STATCURSQPTR
    /\ CQHEAD' = CQHEAD + 1
    /\ done' = done \cup {CQHEAD + 1}
    /\ UNCHANGED <<bufVars, pc, sw, sq, SQPI, STATCURSQPTR, RQCI, STATRQPIDB, fatal, enabled,
                   rq, rc, reported, late, arrived, seen, skipped,
                   lives, timeouts>>

\* A message is accepted while an entry is free; one stays unused.
Receive ==
    /\ enabled /\ ~fatal /\ arrived < MaxMessages
    /\ (STATRQPIDB + 1) % qdepth # RQCI
    /\ arrived' = arrived + 1
    /\ rq' = [rq EXCEPT ![STATRQPIDB] = arrived + 1]
    /\ STATRQPIDB' = (STATRQPIDB + 1) % qdepth
    /\ UNCHANGED <<bufVars, pc, sw, sq, SQPI, CQHEAD, STATCURSQPTR, RQCI, fatal, enabled,
                   rc, done, reported, late, seen, skipped,
                   lives, timeouts>>

Fatal ==
    /\ enabled /\ ~fatal
    /\ fatal' = TRUE
    /\ UNCHANGED <<bufVars, pc, sw, sq, SQPI, CQHEAD, STATCURSQPTR, RQCI, STATRQPIDB, enabled,
                   rq, rc, history, lives, timeouts>>

-----------------------------------------------------------------------------
Library ==
    \/ AllocateData \/ allocate_rdma_qp \/ create_a_wqe
    \/ rdma_post_send \/ SendReturns \/ SendTimesOut
    \/ rdma_post_batch_send \/ BatchPoll \/ BatchTimesOut
    \/ rdma_post_receive \/ poll_rq_pidb \/ rdma_release_rq_consumed
    \/ destroy_rdma_qp \/ rdma_qp_fatal_recovery \/ Drained \/ Reset

RdmaNext == Library \/ Fetch \/ Complete \/ Receive \/ Fatal

RdmaSpec == RdmaInit /\ [][RdmaNext]_rdmaVars

\* The core works off what it was given, and a poll that sees its value returns.
RdmaFairSpec ==
    /\ RdmaSpec
    /\ WF_rdmaVars(Fetch) /\ WF_rdmaVars(Complete)
    /\ WF_rdmaVars(SendReturns) /\ WF_rdmaVars(BatchPoll)

-----------------------------------------------------------------------------
RdmaTypeOK ==
    /\ pc \in {"setup", "idle", "post_send", "batch", "poll_rq", "drain", "drained",
               "reset", "exited"}
    /\ {sq_cidb, cq_cidb} \subseteq -1 .. qdepth
    /\ {SQPI, CQHEAD, STATCURSQPTR} \subseteq 0 .. qdepth
    /\ {rq_pidb, rq_cidb, STATRQPIDB, RQCI} \subseteq 0 .. qdepth - 1
    /\ CQHEAD <= STATCURSQPTR /\ STATCURSQPTR <= SQPI /\ SQPI <= sq
    /\ rc \in {0, 1} /\ sq \in 0 .. qdepth
    /\ buffer_offset["host_mem"] \in 0 .. Hugepages * HugePage
    /\ buffer_offset["dev_mem"] \in 0 .. DeviceMemSize
    /\ done \cup reported \subseteq 1 .. sq

(***************************************************************************)
(* A request that rdma_post_send() or rdma_post_batch_send() reported as   *)
(* successful was completed, through destruction and re-allocation of the  *)
(* queue pair, as long as no single send timed out since the last batch or *)
(* allocation.  Timeouts inside a batch do no harm.                        *)
(***************************************************************************)
SendReported == reported \subseteq done

(***************************************************************************)
(* A message the program has not seen yet is not overwritten: the release  *)
(* gives back no entry that came after the last poll.                      *)
(***************************************************************************)
UnseenKept ==
    pc # "setup" =>
        \A k \in 1 .. arrived - seen : rq[(rq_pidb + k - 1) % qdepth] = seen + k

(***************************************************************************)
(* rdma_release_rq_consumed() == 0: "all RQ requests have been served."    *)
(***************************************************************************)
AllServed == ~(rc = 0 /\ skipped)

(***************************************************************************)
(* A batch returns, whatever timed out before or meanwhile, unless the     *)
(* core stops working.                                                     *)
(***************************************************************************)
BatchReturns == pc = "batch" ~> pc # "batch" \/ fatal
=============================================================================
