# Verification of RecoNIC in TLA+

RecoNIC is an RDMA-enabled SmartNIC: an FPGA design (`shell/`, on top of
`base_nics/open-nic-shell/`), a Linux driver for it (`drivers/onic-driver/`, with the
DMA library `libqdma/`) and a user-space library (`lib/`). This directory holds TLA+
models of the parts whose correctness depends on several actors that interleave: callers
of the driver, the interrupt's work item, the DMA engine, two clock domains of the FPGA,
and the host program. All paths below are relative to `src/RecoNIC/`.

## The system: inventory

| Component | State | Operations | Interacts with | Hard behaviour | What makes it correct |
|---|---|---|---|---|---|
| Queue pool of the character device (`drivers/onic-driver/onic_cdev.c`) | per direction: a counting semaphore, two mutexes (semaphores), a ring of queue numbers with two indices | `read()`, `write()`, `onic_init_cdev()` | libqdma (`qdma_request_submit()`), the network device (`onic_open()` re-initialises it) | preemption anywhere, error paths, re-initialisation during a call | a queue has one user; no queue is lost; a caller gets its turn |
| Blocking MM requests (`libqdma/libqdma_export.c`, `qdma_descq.c`, `qdma_intr.c`) | descriptor ring with producer/consumer indices, credits, two lists of requests, control blocks on the callers' stacks | submit, wait/timeout, post descriptors, complete, interrupt work, stop, start | the character device, the engine, ifup/ifdown | timeouts against completions, stop against everything, requests larger than the ring | a completed request was transferred; no freed memory is used; a stop drains; a request returns |
| Compute control, write path (`shell/compute/lookside/control_command_processor.sv`) | AXI-Lite write state machine, command FIFO | one state change per `axil_aclk` cycle | the host's `issue_ctl_cmd()`, cl_box in the other clock | full FIFO, flags that lag, FIFO in reset | each word once, in order, answered once |
| Compute control, dispatch and status (same file, `compute_logic_wrapper.sv`, `cl_box.cpp`, `mmult.cpp`) | dispatcher, start logic, parameter registers, status FIFO, AXI-Lite read state machine | one state change per cycle of either clock | `wait_compute()` and the host's read of the status | back-pressure from status FIFO to host, read with a side effect | each command runs once, with its own parameters, and is reported once in order |
| RDMA library (`lib/rdma_api.c`) | per queue pair: SQ/CQ/RQ doorbells, buffers | create, post send/batch/receive, release, recovery, destroy | the RDMA core's registers | late completions after a timed-out poll, wrap-around, two sides of a connection | a completion belongs to the send that waits for it |
| Device and buffer library (`lib/reconic.c`, `memory_api.c`) | bump allocators of host and device memory | allocate, read/write device memory | character device | bounds | buffers do not overlap |
| Network device (`drivers/onic-driver/onic_main.c`) | queue handles, NAPI instances, transmit queues | open, stop, transmit, interrupt, poll | libqdma streaming, the network stack | interrupts against polls and against ifup, polls on two CPUs, failing allocations | a packet that arrived is passed up once, in order, with its data |
| libqdma streaming (`qdma_st_c2h.c`) | free list of pages, descriptor ring, completion ring | serve completions, refill, update pointers, start, stop | network device, hardware | pages shared by several buffers, refill against fragments the stack still holds | the hardware never gets a buffer that is in use; page references balance |
| libqdma mailbox, SR-IOV (`qdma_mbox.c`, `qdma_access/qdma_mbox_protocol.c`, `qdma_sriov.c`) | send and receive lists, waiting callers, the table of VFs | send and wait, receive, the PF's handlers, VF up/down | VF drivers, resource manager, contexts | late and lost answers, time-outs, retries | an answer goes to its request; a VF is mapped only to its queues |
| libqdma resource manager (`qdma_access/qdma_resource_mgmt.c`) | per board: free list of queue ranges, an entry for each function, counts | create/destroy, request/release, count | device set-up, mailbox, queue add/remove | fragmentation, refused requests, failed opens | every hardware queue has one owner; the counts are true |
| libqdma device set-up (`xdev.c`, `qdma_device.c`, `qdma_thread.c`, `thread.c`) | device list, error monitor | open/close, online/offline, error interrupt and poll | all of libqdma | cancellation against running work, locks | no error is lost; going offline ends |
| libqdma register layers, contexts (`qdma_context.c`, `qdma_access/*_access.c`, `*_reg_dump.c`) | the indirect context registers under `hw_prg_lock`, tables of errors, fields and registers | program, clear, read, dump contexts; enable and process errors; dump registers | the hardware, every queue | commands that time out, tables stated twice, fixed buffers | a context holds what was written last; tables agree; dumps are complete |
| Packet classification (`shell/packet_classification/`) | packet FIFO, verdict FIFO | per-cycle | MAC, RDMA core | verdict and packet out of step | the verdict is applied to its packet |
| Register file (`shell/utilities/rn_reg_control.sv`) | registers | AXI-Lite read/write | host | none | reads what was written |
| OpenNIC shell (`base_nics/open-nic-shell/src/`) | packet FIFOs, arbiters, reset logic, wiring of vendor cores | per-cycle | everything | drop on full, fairness | whole packets |

`PROJECT.json` lists the same components with their status, and under "hazards" the places
in the code where something hard to test can go wrong.

## Modules

| Module | What it is |
|---|---|
| `QueueAllocator` | abstract specification: queues are free, owned by one caller, or lost |
| `CdevQueuePool` | `onic_cdev.c`: the pool of one direction, and the refinement mapping to `QueueAllocator` |
| `CdevQueuePoolProof` | theorems on the pool, its refinement of `QueueAllocator` included |
| `MmDescq` | libqdma: one descriptor queue with its blocking requests |
| `MCMmDescq` | request sizes for TLC |
| `MmDescqProof` | theorems on the descriptor queue |
| `AsyncFifo` | operators of the dual-clock FIFO `xpm_fifo_async` (external) |
| `CtlCmdWrite` | the AXI-Lite write path of the compute control logic |
| `ComputeDispatch` | dispatcher, parser, kernel, status FIFO, AXI-Lite read path, host program |
| `RdmaBuffers` | `reconic.c`: buffers, hugepages and the windows of the PCIe bridge |
| `RdmaQp` | `rdma_api.c`: a queue pair, on top of `RdmaBuffers` |
| `RecoNicProof` | theorems on what RecoNIC adds to the card, `CtlCmdWrite`, `ComputeDispatch`, `RdmaQp`, and on the error monitor, `HwErrors` |
| `QueueResources` | `qdma_resource_mgmt.c` as operators on one master resource |
| `QdmaQueues` | open, close, resize, add and remove queues on functions of one board, on `QueueResources` |
| `QueueResourcesProof` | lemmas on the free list, the ranges and the counts of the master resource |
| `QdmaQueuesProof` | theorems on the queues, on `QueueResourcesProof` |
| `VfMailbox` | the mailbox between a physical and its virtual functions, on `QueueResources` |
| `VfMailboxProof` | theorems on the mailbox, on `QueueResourcesProof` |
| `HwErrorTables` | the errors of the three access layers: groups, bits, masks |
| `HwErrors` | enabling, processing and reporting of errors; the error monitor, online and offline |
| `QdmaLayouts` | where each field of each context sits, as written and as read, and what a dump shows |
| `QdmaContext`, `MCQdmaContext` | programming, clearing, reading and dumping contexts through the indirect registers |
| `QdmaContextProof` | theorems on contexts: types, calls and fresh starts; what is kept and read back |
| `QdmaRegs` | the register tables of the three access layers |
| `RegDump` | register dumps of physical and virtual functions |
| `NetRx` | the receive path: one streaming C2H queue, its NAPI poll, ifup and ifdown |
| `NetRxProof` | theorems on the receive path |

Operators marked `(mutant)` are wrong versions of the definition below them; they are used
to show that a property notices the error, and by nothing else.

### CdevQueuePool

A call of `onic_cdev_read()`/`onic_cdev_write()` is a thread with a program counter; one
action per statement that touches shared state: `SemDown` (`down(sem)`), `MutexDown`,
`PopRead` and `PopAdvance` (the slot is read, the index advances: two steps, since only the
mutex makes them one), `MapOk`/`MapFails` (`map_user_buf_to_sgl()`), `DmaReturns`
(`qdma_request_submit()` and the clean-up, an opaque step here; its inside is `MmDescq`),
`Mutex2Down`, `PushStore`, `PushAdvance`, `SemUp`. Semaphores are the kernel's: a count and
a FIFO of sleepers, the release hands over to the first one. `MapFails` is the early return
that keeps the queue and the credit; the model counts it in `leaked`. `onic_init_cdev`
re-initialises everything, as each `onic_open()` does; when a call is in progress the
history variable `overlap` is set and nothing is claimed from then on. The two directions
have separate pools of the same shape, so one is modelled.

### MmDescq

Variables keep the names of `struct qdma_descq`. A request is the number of descriptors it
needs. `descq->lock` is a variable that also says which loop its holder is in, so that the
loops (`CmplDone`/`CmplPart`/`CmplEnd`, `PostOne`/`PostEnd`) are single rounds. The control
block of a blocking request lives on its caller's stack: `Touch` records an access to one
whose caller has returned (`fault = "stale_cb"`), and after a fault nothing more happens.
`ring = "freed"` stands for the NULL `desc_cmpl_status` after `qdma_descq_free_resource()`.
`StopBegin` ... `StopFree` and `StartConfig`/`StartOnline`/`StartFails` are the sections of
`qdma_queue_stop()` and `qdma_queue_start()` between which other threads run; the two are
serialised by the network device's lock (rtnl). `skew`, `orphans`, `expired`, `moved`,
`stray` are history variables.

The engine is external: it transfers a descriptor the doorbell made visible, later writes
its index back and interrupts if armed; a doorbell write arms it, and sends an interrupt that
became due while it was not armed. That writeback and interrupt are one step is an assumption
on the engine (it orders them on PCIe). Of what the model finds, the reader should know:

* the descriptors of a timed-out request stay in the ring, and their credits complete the next
  request early (see "Where the code differs");
* a stop of a C2H queue does not wait for the ring to drain (ibid.);
* a stop leaves blocking requests on the lists. Their callers return, and the next posting
  or completion follows pointers into stacks that are gone. The properties that exclude
  this case say so (`Disturbed`, `orphans`);
* an interrupt's work item is not cancelled by a stop. It is harmless when the ring was
  drained (`FreedRingUnread`) and reads through a NULL pointer when the stop's wait of one
  second ended by its timeout.

### CtlCmdWrite and ComputeDispatch

`Clock` is one rising edge of `axil_aclk`: one branch of the write state machine, the FIFO's
writer port and the bus master all step together, each from the values before the edge. The
other clock's effect on the FIFO (`Read`) and the synchronisers (`CtlSynchronise`) happen at any
time in between, so that every lag of the flags is covered. `AsyncFifo` represents a FIFO by
its words, how many the reader does not see yet, and how many freed slots the writer does not
know of. The bus master is external: one write at a time, data with or after the address,
`bready` either constantly up (`held`, a member of
`BReadyModes`) or raised on `bvalid` as in
`sim/src/axil_reg_control.sv`.

`ComputeDispatch` takes over at the FIFO: `AxisClock` is an edge of `axis_aclk` (dispatcher,
start logic, cl_box, mmult), `AxilClock` one of `axil_aclk` (read state machine), and the host
program issues commands, polls with `wait_compute()` and fetches a work id, as
`examples/network_systolic_mm` does. cl_box and mmult are compiled from C++; what they do with
their streams comes from the source, their start/done/idle signals from the handshake
`ap_ctrl_hs` that the source asks for. The two modules are separate because each needs its own
level of detail of the same FIFO; `CtlCmdWrite` shows that words enter in order, which is what
`issue_ctl_cmd` of `ComputeDispatch` does.

### RdmaBuffers and RdmaQp

`RdmaBuffers` has the two bump allocators of `allocate_rdma_buffer()`, hugepages at arbitrary
physical addresses, and the eight windows that `config_rn_dev_axib_bdf()` programs; `Bridge`
(external) is how the card's address becomes a host address. `RdmaQp` adds one queue pair. The
variables with lower-case names are those of `struct rdma_qp_t`, the upper-case ones the
registers of the RDMA core, which fetches, completes, receives and fails at its own pace
(`Fetch`, `Complete`, `Receive`, `Fatal`). A library call that polls is split at the poll:
`rdma_post_send` / `SendReturns` / `SendTimesOut`, `rdma_post_batch_send` / `BatchPoll` /
`BatchTimesOut`, `rdma_post_receive` / `poll_rq_pidb`, and destruction with its drain and reset.
`SendReported` excepts single sends after a timed-out poll: `sq_cidb` has then moved on, and a
late completion is taken for the next send's.

### QueueResources and QdmaQueues

Each operator of `QueueResources` is one call of `qdma_resource_mgmt.c`, made under its lock.
`QdmaQueues` has functions that open (three steps, since others may open or close between the
search for the master, its creation and the entry), fail to open, change their range, add
queues by a named or an automatic index, remove them and close. A queue is its type and mode.
The queues of all types stand in one array, one type after the other (`Place`). The search for
an automatic index moves the pointer on with every index it tries and adds the index to it once
more (`libqdma_export.c:1513`, `1522`), so from index 1 on `qdma_queue_add` enables another
queue than the one it counts (`EnabledFor`): a later one of the type, one of the next type
(`foreign` keeps its configured type), or none, past the array, where the write to memory is
not modelled. One register access in an add fails per behaviour, or one automatic index goes
astray. `SerialOpen` states that the kernel probes the functions of a board one after the
other: without it two masters can arise for one board.

### VfMailbox

The hardware mailbox holds one outgoing message per function until it is acknowledged. A
function's work queue is one thread that sends or receives; a caller queues its request and
sleeps until the reply is matched or its time is up; the PF's handlers are one action each. A
call of a virtual function (come up, request queues, add, start, stop, remove, leave) is a
sequence of messages with the error paths of the code. Picking a message off the list and
sending it is one step, a VF has one queue, and the query for the number of VFs is left out.
Three events count as `faults`: a call that times out, a dropped message, and a caller that
goes on before its reply was copied. The last needs nothing lost or late: the match is marked at
`qdma_mbox.c:167`, the reply copied at 214, and a caller that looks at the mark in between, before
it sleeps or at its time-out, takes its own request for the reply (`Sleep` or `TimeOut`, then
`Return` while `Uncopied`). `ReplyIsOwn` covers this window: the caller has its own request there,
and what is about to be copied is its own reply. Only the step that goes on from there, which
frees the request under the receiver, is a fault. `FmapOwned`, `ReplyIsOwn` and `PfKnowsVfs` claim
nothing after a fault. Freed memory keeps its contents in the model.

### HwErrorTables and HwErrors

The tables give for each access layer the groups of errors, their global bit, which errors
share a bit and which bits the `..._ERR_ALL` mask holds, as the headers and tables of the code
do. `HwErrors` has the registers (external), `hw_error_process()` as one step per group and
register access, its two users (the delayed work of poll mode, the interrupt handler that arms
the interrupt again), and `qdma_device_online()`/`offline()`. Enabling of all masks is one step:
nothing else runs before it is complete. The per-error dumps only log.

### QdmaLayouts and QdmaContext

`QdmaLayouts` transcribes the masks and shifts of the write and of the read functions
separately; `LayoutsSound` compares them. `QdmaContext` is the protocol of the indirect
registers: take `hw_prg_lock`, load the data registers and the command, poll, read back,
release; a poll that times out releases the lock with the command pending (`TimeOut`), and the
hardware (`Execute`, external) may carry it out later. Contexts are abstracted to the number of
the call that wrote them. Loading and issuing a command is one step while no command is pending.
Calls that write one target come one after the other, which the callers' locks give. The
properties leave out registers overwritten under a pending command (`clobbered`) and the half of
the Versal vector map that another thread's read-modify-write undoes (`lost`); both can happen.

### QdmaRegs and RegDump

`QdmaRegs` holds the register tables in the order of the source. `RegDump` prints them: for a
physical function directly, for a virtual one through lists of 14 registers that the PF answers
(or not in time), and field by field. A value is the address it was read from, so that a line
shows whether it belongs to the register it names. The buffer is the smallest the code accepts.
What the reader of the code should know: a VF asks for two of the four groups; the hard IP's
list function ignores the group and sends the first again; `get_reg_entry()` does not look at
the last row; the VF's loop tests `len` where the printing function's result is in
`rcv_len` (`libqdma_export.c:677`); a run of registers is printed with the field names of the first.

### NetRx

One receive queue. The hardware (external) writes packets into the buffers of the descriptors
it owns, adds completions with their colour and interrupts once per arming. NAPI and the page
counts are the kernel's. `flq_fill_one`, `RecycleBuffer`, `ReplacePage` and
`qdma_flq_refill` are the free list with its two running indices; `Service` ... `ServeEnd` is
`descq_process_completion_st_c2h()` under `descq->lock`, one step per packet; `Complete`, `Peek`,
`qdma_queue_update_pointers` and `Reschedule` are the end of `onic_rx_poll()`, during which the
next poll may already run on the other CPU. `StartAlloc` ... `OpenDone` and `onic_stop` ...
`StopFree` are ifup and ifdown. Lengths are counted in units of which a buffer holds `BufSz`.
`seen` is history: an allocation failed or an error completion came in the middle of a batch
(`failed`), a packet in several buffers was copied (`short`), an interrupt came before NAPI was
enabled (`swallowed`). In each case the code does something a reader should know of:

* when there is no memory for a packet, its pages are put and the same descriptors are served
  again by the next poll; `avail` has shrunk for good (`onic_main.c:184`, `qdma_st_c2h.c:767`);
* when no page can be allocated in a refill, the old one has been put and stays in the list, to
  be put again (`qdma_st_c2h.c:409`);
* without scatter/gather, which the driver never asks for, a packet in several buffers is copied
  from its first buffer on, past its end, and only the first page is put (`onic_main.c:88`);
* an error completion halts the queue for good: a restart does not clear `descq->err`
  (`qdma_st_c2h.c:1007`);
* an interrupt between the start of the queue and `napi_enable()` is lost, and with it every
  later packet, since nothing arms the queue again (`onic_main.c:635`).

`BufSzAssumption` and `QuotaAssumption` state what the driver's values satisfy and the code
needs: with a buffer size that is no power of two `get_fl_nr()` counts differently from the
hardware, and with a poll that may take nearly the whole ring a page still in use is recycled.

## What the runs check

Every property has a mutant in `PROJECT.json` that breaks it.

| Run | Instance | States | Result |
|---|---|---|---|
| `pool` | 2 callers, 2 queues, 3 failed calls, 2 more `onic_open()` | 187599 | `QueueExclusive`, `QueuesConserved`, `CallReturns` hold; the pool implements `QueueAllocator` |
| `mm` | 2 requests (3 and 1 descriptors), ring of 3, 1 timeout, 2 stops | 382524 | `RingOrder`, `ServedRight`, `StopDrains`, `FreedRingUnread`, `RequestReturns` hold |
| `cmd_write` | FIFO of 3, 7 words, both kinds of master | 18520 | `WordsInOrder`, `NoOverflow`, `AckedIsPushed`, `WriteAnswered` hold |
| `dispatch` | FIFOs of 2, commands of 3 words, up to 6 commands under way | 10290 | `OneWholeCommand`, `FetchedInOrder`, `JobReported` hold |
| `rdma` | queues of 3, 4 messages, 2 lives of the queue pair, 1 timed-out poll | 1379094 | `BuffersSound`, `SendReported`, `UnseenKept`, `BatchReturns` hold |
| `queues` | 2 functions (symmetric), 3 hardware queues, 3 opens, 2 queues at a time, named and automatic indexes | 275489 | `QueuesPartitioned`, `RangeOwned`, `CountsTrue` hold |
| `mbox` | 2 VFs (symmetric), 3 queues, a budget of 7 calls | 1028442 | `FmapOwned`, `ReplyIsOwn`, `PfKnowsVfs` hold |
| `errors` | 3 access layers, both modes, streaming or not, 2 errors | 51382 | `NoErrorLost`, `ErrorTablesRight`, `ErrorReported` hold |
| `err_offline` | the same with 1 error | | violates `OfflineReturns`: the finding below |
| `contexts` | 4 devices, 2 threads, 2 calls, 1 timed-out poll | 595429 | `LayoutsSound`, `ContextsKept`, `FreshStart`, `ReadBack`, `CallsReturn` hold |
| `regs` | 3 register tables, every combination of engines | 77772 | `RegistersDumped`, `VfDumpTrue` hold |
| `rx` | ring of 4, 2 buffers per page, 3 packets of 1 or 2 buffers, 2 CPUs, 1 event | 381766 | `BuffersApart`, `PageRefs`, `DeliveredInOrder`, `PacketsDelivered` hold |

### Bounds, and why they are enough

* Pool: the two callers meet at each mutex, compete for one queue after a failed call and sleep
  for ever after two, which `CallReturns` allows; the ring wraps. Three failures and two
  re-initialisations let both happen again. The safety results are proved without bounds.
* Descriptor queue: a ring of three (two usable slots) is the smallest in which a request can
  be larger than the ring, fill it, or leave a slot free, and the indices wrap during the
  first request. One timeout and two stops give a request that meets the remains of another
  in the same and in a later life of the queue.
* Compute control: FIFOs smaller than a command let every word meet a full and an empty FIFO.
  `Jobs` and `MaxWords` only bound counters. `MaxAhead` lets the host issue more commands than
  the FIFOs can take. `JobReported` names the limit: a command goes unreported only when the
  host goes on to write another while more commands than the status FIFO holds are issued and
  not fetched. The host then blocks in the middle of a command and everyone waits for everyone;
  the run goes past that point and shows that safety is kept there.
* RDMA: queues of three wrap with four messages; two lives show what the reset leaves behind.
  Pages of 2, hugepages of 16 and windows of 4 let buffers end at, cross and begin at each
  boundary; the hugepages may be swapped.
* Queues: three hardware queues and requests for one or two, with a wanted base or any, split
  and merge the free list at both ends and in the middle and refuse some; three opens let a
  function come back to what a failed open left. An automatic index above zero needs a queue at
  index 0, which two queues at a time leave room for; with two indexes it goes astray into the
  queues of the next type, on a free or an enabled one, or past the array. The size of the
  interrupt rings, which no other action reads, is changed in the time of the first open
  (`RngszOpens`). Counts are `CountWidth` bits wide: room for what three opens can leave in the
  count of the board, and going below zero would show.
* Mailbox: `MaxCalls` is a budget that VF calls (1), time-outs, dropped messages and calls
  that go on before their reply was copied (`FaultCost`) and a PF-triggered offline (`TriggerCost`) share; it admits both VFs
  coming up and asking for queues, with one fault and a retry, or one fault and a call after it.
* Errors: each listed error is raised once alone; those at position `Probed` of each group also
  as a second error, at any point of the processing of the first.
* Contexts: one queue id with both directions, its completion queue, an interrupt ring and the
  function map; two calls at a time are what an interleaving needs. The two soft variants make
  the same accesses, so one streams and the other is memory mapped (`MCConfigs`).
* Registers: the tables are complete; a dump runs to its end for each.
* Receive: a ring of four with two buffers per page and doubled pages wraps and recycles within
  three packets; two CPUs are what overlapping polls need; `MaxEvents` admits one ifdown, failed
  allocation or error completion. Nine pages are more than four slots and two held fragments need.

### Fairness

* `CdevQueuePool!FairSpec`: each caller that is in a call goes on when it can (the kernel's
  scheduler; semaphores are handed over in order; a DMA request returns, at the latest by its
  ten-second timeout). That a new call begins, or fails, is not assumed.
* `MmDescq!FairSpec`: callers past the mapping step, the work item, the lock holder, the stop
  (whose wait is bounded by `QDMA_Q_PEND_LIST_COMPLETION_TIMEOUT`) and the engine go on.
  Submissions, timeouts, stops and starts may or may not happen.
* `CtlFairSpec` of `CtlCmdWrite`, `DispatchFairSpec` of `ComputeDispatch`: both clocks run, the FIFO leaves reset,
  synchronisers deliver, the bus master presents the data of a write it has begun and takes
  an answer, and the kernel's computation, whose loops are bounded, ends.
* `RdmaFairSpec` of `RdmaQp`: the core works off what it was given, and a poll that sees its value
  returns. Timeouts, messages and fatal errors may or may not happen.
* `HwErrors!Spec`: timer, interrupt and handlers go on; strong fairness only for the thread
  that waits for `err_lock`, as the kernel's queued spinlocks give.
* `QdmaContext!FairSpec`: the hardware ends the command it has, a thread in a call goes on; strong
  fairness for getting `hw_prg_lock`.
* `NetRx!Spec`: the hardware's timer runs, interrupts are taken, polls and ifup/ifdown go on,
  the network stack lets go of packets. Packets and events are the environment's choice.

## Where the code differs from what is said of it

Finding (run `err_offline`): `xdev.c:730` says that going offline cancels the error poll thread.
The cancellation waits, with `err_lock` held, for work that may be spinning on `err_lock`
(`xdev.c:657`), so both wait for ever.

The models also show the following, each a definition that TLC finds violated when it is put in
place of the properties of the run's configuration:

* `MmDescq!CompletedIsTransferred` with a timeout: the descriptors of a timed-out request stay in
  the ring and their credits complete the next request early, which returns "# of bytes
  transferred" (`libqdma_export.c:2374`) for bytes that were not;
* `MmDescq!StopDrains` with `C2H = TRUE`: for a queue with `fp_descq_c2h_packet`, which
  `onic_main.c:307` also sets for MM queues, every completion lets a waiting stop go on
  (`qdma_descq.c:1539`), against the purpose of `q_stop_wait` (`qdma_descq.h:115`);
* `CtlCmdWrite!OneResponse` with a master that keeps `bready` up: a write that waited for the
  FIFO is answered twice (`control_command_processor.sv:241`). The master of the test bench does
  not notice;
* `RdmaQp!AllServed`: `rdma_release_rq_consumed()` returns 0, "all RQ requests have been served"
  (`rdma_api.h:337`), although messages that came between two polls were given back without
  having been handed to the program;
* `QdmaQueues!IntrRingSettled` (an action property): "If qdma_get_active_queue_count() > 0,
  intr_rngsz is not allowed to change" (`libqdma_config.c:160`), but the count is looked up by
  bus number (line 163; also 254, 332, 411, 490, 574) where the board's index is expected;
* `VfMailbox!AllVfsAsked`: "Function to trigger offline of all the VFs" (`qdma_device.h:267`)
  asks the first `vf_count_online` slots, so a VF behind a slot that became free is not asked;
* `QdmaQueues!CountsTrue` without `~astray`: "0xFFFF: libqdma choose the queue idx"
  (`libqdma_export.h:570`), but from index 1 on another queue is enabled than the one whose index
  is returned and counted (`libqdma_export.c:1522`). With H2C queue 0 in use, an automatic H2C add
  among two queues returns index 1 and enables C2H queue 0; index 1 stays usable and can be counted
  again. Nothing in the repository asks for an automatic index;
* `VfMailbox!ReplyIsOwn` without the case `Uncopied`: "wake up anyone waiting on the response"
  (`qdma_mbox.c:216`), but a caller that is not asleep when the match is marked goes on at once,
  with its own request in the place of the reply.

Exceptions that properties name are cases the code really has: `Misread` (three fields of the
EQDMA variant are read from the wrong bits: `virtio_dsc_base`, `pasid`, `fetch_pnd`), `evt_pnd`
shown by the Versal variant and never read, `NeverEnabled` (error bits the masks leave out),
`clobbered` and `lost` of `QdmaContext`, `hwfail` and `astray` of `QdmaQueues`, `faults` and
`Uncopied` of `VfMailbox`, `seen` of `NetRx`.

Hazards without a property, besides those in `PROJECT.json`: `qdma_queue_start()` sets
`work_req_pend` to 0 with requests still listed (`qdma_descq.c:1323`); `sgl_map()` unmaps the
entry that failed too (`libqdma_export.c:2350`); a word that arrives after its address is pushed
without a look at the FIFO's reset (`control_command_processor.sv:222`); two programs mix the
words of their commands (`control_api.c:49`); `sq_pidb` never wraps (`rdma_api.c:911`); a host
buffer may cross into a second hugepage (`reconic.c:226`); two functions probed at once create
two masters (`qdma_resource_mgmt.c:382`); a mailbox message is freed while the woken thread reads it (`qdma_mbox.c:280`);
`qdma_qid2vec_conf()`'s result is ignored (`qdma_context.c:852`); dumps share static tables
(`eqdma_soft_access.c:1979`); a failed start of the transmit queues leaves the receive queues
online (`onic_main.c:596`).

## What is proved

The theorems hold for every number of callers, queues, requests, threads, ring slots, FIFO
depths and messages and every value of the bounds. The assumptions are the named `ASSUME`s of
the modules; TLC evaluates them on every run. Each theorem is of the form `Spec => []P`, except
`RefinesAllocator`; where an invariant `P` is not inductive, the proof names the invariant that
is, shows that `Init` implies it and that every step keeps it, one lemma or step per action, and
that it implies `P`.

`CdevQueuePoolProof`: `TypeCorrect`, `PoolInvariantHolds`, and from it `ExclusiveQueues`,
`ConservedQueues`, `FreeRing`. Exclusiveness is not inductive: that a popped queue is unused
needs `RingIsFree`, which in turn needs that pushes write only slots outside the live part,
hence that the indices are as far apart as there are credits (`IndicesAgree`), hence that the
mutexes hold (`MutexesHold`) and that the sleepers a release wakes are really asleep, once
each (`SleepersAsleep`). `PoolInv` is the conjunction of these. One lemma per action shows that
it is preserved; lemmas about `down()`/`up()` (`DownMoves`, `UpMoves`) and about counting threads
at a label (`CountExcept`) carry them. `RefinesAllocator` goes through the actions once more:
under the refinement mapping `PopAdvance` is the allocation, `PushAdvance` the release, `MapFails`
the loss of a queue, and every other step a stutter, as long as `overlap` is not set.

`MmDescqProof`: `TypeCorrect`, `RingOrderHolds`, and for queues without
`fp_descq_c2h_packet` `StopDrainsHolds` and `FreedRingUnreadHolds`. The invariant `Inv` adds
to the types which phases of stop and start go with which state of queue, ring and lock
(`CtlInv`); the ring order for as long as the ring is allocated and not only while the engine
runs (`RingInv`), as late work still reads it; and that offsets stay below the request's size
(`OffsetInv`), without which the number of descriptors left would have no sign. `PendInv` is
the argument for the stop: `pend_list_empty` implies an empty ring except between posting and
its end, and nothing is posted once `q_stop_wait` is set.

`ServedRightHolds`, in the same module, is the result on what callers are told. Its invariant
`Served` has three parts beside `Inv`. `ListInv` says who is on the two lists: no request twice,
each waiting one once, and a returned one only if a stop left it there. `BalanceInv` is the
balance of credits with the sum of the descriptors that listed requests are charged with; sums
over finite sets (`SumExists`, `SumUnique`, `TotalSame`) come from an induction over subsets
(`EverySubset`). `CalmInv` is about undisturbed transfers: the listed requests' descriptors lie
one after the other in `descq->credit` and the ring (`Layout`: there is a position for each
request such that they form a `Line`, the slots are `Filled` accordingly, and the engine has
transferred of each what it has passed, `Counted`). From it follows that the credits a request
completes with are its own and that the engine never meets memory that was unmapped. It falls
with the first time-out, as the code does.

`RecoNicProof`, on `CtlCmdWrite`: `CtlTypeCorrect`, `WordsInOrderHolds`, `NoOverflowHolds`,
`AckedIsPushedHolds`, for every FIFO depth, number of words and kind of master. None of them
is inductive: that the word pushed is the next one needs that the data register still holds
the word of the write in progress, and that exactly the words before it have been pushed.
`CtlInv` says what each state of the state machine implies about the write in progress and the
registers (the write enable is up only in `RESP`, with the word of this write); `WordsInv`
says that every word issued has been read, is in the FIFO or is `Pending`, and that every
word issued but the one in progress has been answered. One lemma per branch of the state
machine keeps them; `ContinueStep` sums up the bus master's cycle and `FifoStep` the FIFO's.

The same module on `ComputeDispatch`: `DispatchTypeCorrect`, `OneWholeCommandHolds`, `FetchedInOrderHolds`, for every
depth, every command of at least two words and any number of commands. `OnePhase` is the heart
of `DispatchInv`: dispatcher, cl_box, start logic and mmult are in exactly one of six phases, and in each
the number of words taken and of work ids reported determines one another. `CommandsQueued` and
`StatusesQueued` say what lies in the FIFOs, `ReadInv` where the read in progress is: a host that
was told of a finished command finds its work id, although the status FIFO is popped a cycle
after the read.

On `RdmaQp`: `RdmaTypeCorrect`, `SendReportedHolds`, `UnseenKeptHolds`, `BuffersSoundHolds`.
`SendInv`: the core's three indices follow one another, the doorbell says what the library has
posted, and, until a single send has timed out, the index a poll compares with is the number of
completed elements (`PollsInStep`, which every life of the queue pair re-establishes). `ReceiveInv`:
the messages not seen lie between the last poll and the core's producer index and with the
entries not given back fill at most `qdepth - 1` entries. `BufferInv`: the two bump allocators
have carved all buffers from what lies below their offsets; `BusReachesBuffer` is then arithmetic
on windows and hugepages.

The same module on `HwErrors`: `TypeCorrect`, `NoErrorLostHolds`, `ErrorTablesRightHold`, for any number of
errors. `NoErrorLost` is not inductive: `AllTraced` adds where the process is. While the global bit
of an error that is not excused is set, the process that is going to clear the bit has not passed
the error's group yet, or is just clearing the error. `BitsRaised`
and `NamesRead` give the names; the facts on the tables (which errors share a bit, what the masks
hold) are computed from their definitions, layer by layer.

`QdmaContextProof`: `TypeCorrect`, `FreshStartHolds`, `ContextsKeptHolds`, `ReadBackHolds`,
for every set of threads and any number of calls and time-outs. `Base` is what
holds whatever happens: the types, that each call has its list of accesses in order and the lock
during one (`CallInv`), one writer per target, and that a clean reader has none (`CleanInv`). The
rest holds until a command was overrun (`clobbered`), which takes a poll that timed out.
`FreshInv`: what a set-up call has cleared stays cleared until it writes the software context, and
no such write is pending over contexts that are not cleared. `KeptInv` and `PendingInv`: what a
call has written is in place, and a command pending on a context is its writer's or one that
failed. `MapInv` is the same for the queue map, whose entry two directions share and which is
read, changed and written back; `ReadInv` follows a value from the hardware through the shared
data registers, and a dump's tables, to the caller. `ThreadsAssumption` says that "none" names
no thread.

`QdmaQueuesProof`: `InvariantHolds`, `QueuesPartitionedHolds`, `RangeOwnedHolds`, `CountsTrueHolds`,
for any number of functions, hardware queues and opens and any requests, if functions are opened one after the other
(`SerialOpen`). Most of it is about the operators of `QueueResources` and stands in
`QueueResourcesProof`. `FoldLeft` is defined by a
function that the provers only know if some function meets its equation: `StepsExist` shows that
one does, by induction over finite sets, and `DefragmentSteps` turns the merging of the free list
into one `Join` per chunk. From there `DefragmentIs`, `SubmitIs`, `TakeIs`, `NodesForIs`,
`GetNodeIs` and `RequestIs` follow the calls: the list stays in order, the queues in it and in the
entry are together the same as before, and a refused request finds the old range again, since a
chunk that was given back lies within one chunk of the merged list (`Within`). `Recounts` are the
masters that differ in counts only: adding, removing and cleaning up stay among them. The invariant
`IInv` adds to the two properties that at most one function is opening and that a master is created
only when there is none. TLC confirms `IInv` on the instance of `QdmaQueues.cfg`.

`CountsTrueHolds` needs a second invariant, `CountInv`, which TLC confirms there too. `CountsTrue`
is not inductive: that an add is never refused its count needs that every enabled queue lies below
the function's number of queues (`QueuesBelow`) and that an index has no separate completion queue
beside a streaming receive queue (`OneCompletion`), and that a decrement never wraps needs to know
what the count of the board is made of. `Tally` says it: the sum of the counts of the functions and
`s`, what closed functions left behind. A close removes the queues of the two directions and not the
separate completion queues (`qdma_device_cleanup()`), and the entry goes with their counts in it,
which nothing takes off the count of the board: so `s` grows by at most one per index with every
open that has come to its end (`Balanced`). This is what the hypothesis `CountsFit` is about: the
counts of all functions and what all opens may leave stay below the width of the count. The code's
count has 32 bits; with 4 functions of 2048 queues each that is two million opens of one load of
the driver, after which the count could wrap. `UncountSteps`, `CountAddedSteps` and `CleanupSteps`
take the folds of the calls apart; `CleanupTally` removes the queues one at a time, by induction over the
positions of the list that `SetToSeq` makes of them, of which `ListedOnce` says all that matters;
`CntSumOut`, `OneTally`, `GrowTally` and `ShrinkTally` follow the sum. The promise ends, as the property does, with
the first register access that fails in an add (`hwfail`: the queue then stays enabled and
uncounted) and with the first automatic index above zero (`astray`: another queue is enabled than
the one counted). Until then an automatic index is the first usable one, 0, and every enabled queue
is configured for its own type (`foreign` is empty in `CountInv`).

`VfMailboxProof`: `MailboxInvariant`, `FmapOwnedHolds`, `ReplyIsOwnHolds`, `PfKnowsVfsHolds`, for any
number of virtual functions, queues, calls and retries. What they say ends with the first fault (a
call that times out, a dropped message, a call that has gone on before its reply was copied), as the
properties do, and so does the invariant: `IInv` claims `Calm` while
`faults = 0`. None of the three is inductive, and each needs the others: that a reply is the
caller's own needs that there is one answer in the two mailboxes at most, that the map is right
needs that the message that carries the range was made from it and that the range has not changed
since, and both need to know what the PF has done for the call so far. `Stage` says it function by
function: a call is `AtRest`, `Listed` in the function's work list, `Sent` (in the mailbox, or
answered), `Pending` (its work item waits for the answer), `Matched` or `Copied` to the caller. A `Matched` caller may be
awake already, and holds its request until the reply is copied over it.
At each stage the request or its one answer is in one place (`OnlyOne`, `Free`, `AnswerIs`), and
what the PF and the hardware hold of the function (`Board`: entry, range, count, map, contexts) is
what the operation found (`Before`) or what it has brought about (`After`). A farewell, which
nobody waits for, may still be on its way while the next session begins; `Rest` and `Before`
allow for it. `SlotsInv` relates `vf_info` to the entries and `Sound` of `QueueResourcesProof` keeps
the ranges apart. For each action there are lemmas on what it leaves of the other functions' stages
(messages of another function, an entry that is not theirs) and one on the stage it moves.

`NetRxProof`: `RxInvariantHolds`, `DeliveredInOrderHolds`, for a completion ring of any size, any
number of CPUs, packets, failures and sessions. That the next packet passed up is the next that
arrived needs three things besides the order so far. `PollInv`: at most one CPU is between the
start of a poll and `napi_complete()`, and none while NAPI is disabled, so that ifdown finds nobody
at the ring; the rest of the last poll may overlap everything. `IndicesInv`: the index the
hardware was told, the one that will be written back, the driver's and the hardware's own follow
one another less than a round apart, whichever of two overlapping polls writes the first of them.
`EntriesInv`: the entries between the last two are those of the packets that come next. A call
serves at most what it counted at its start (`LeftInv`), so the colour of an entry is a second
guard and not the one the order rests on. TLC confirms the invariant on the instance of
`NetRx.cfg` with two events.

### What is only model-checked

* Liveness (`CallReturns`, `RequestReturns`, `WriteAnswered`, `JobReported`, `BatchReturns`,
  `ErrorReported`, `CallsReturn`, `PacketsDelivered`): fairness is out of the prover's reach, and
  the specifications proved about have none (or only their safety part is used).
* `LayoutsSound`, `RegistersDumped`, `VfDumpTrue`: computations on large constant tables and walks
  over them, which TLC settles completely: there is no parameter to generalise over.
* `BuffersApart` and `PageRefs` of `NetRx`: not yet proved. They rest on what the folds over the
  free list make of its two indices and on sums of buffers over pages; `DeliveredInOrder` does not.

## What is not modelled

* Descriptor queue: batch and non-blocking requests, poll mode and completion threads, failures
  of individual entries in `sgl_map()`, contents of transfers.
* Character device: `llseek()`, the kernel's registration calls.
* Network device: transmit and H2C streaming, starts that fail half way, probe and remove,
  adaptive moderation, reads of a C2H queue without a packet handler.
* Mailbox: the reset flow (FLR), messages that only read a context, enabling of SR-IOV.
* Register layers: global CSR set-up, decoding of capabilities, debugfs files, texts and names.
* RDMA library: global set-up of the core, memory registration, parsing of addresses.
* Compute control: a FIFO that goes into reset while in use; command words that are not what
  `issue_ctl_cmd()` writes; two programs that issue commands at once; the arithmetic of `mmult`.
* Packet classification, register file, OpenNIC shell: not modelled yet; the vendor cores they
  connect are not in the repository. Board files, scripts and examples have no logic of their own.

## Plan

Done: the pool, the descriptor queue, compute control, the RDMA library, queue resources, mailbox,
errors, contexts and the receive path, with proofs; register dumps, model-checked. Left, in
this order:

1. Theorems: `BuffersApart` and `PageRefs` of `NetRx`.
2. The transmit path with starts that fail, beside `NetRx`.
3. Composition: the pool over the descriptor queue, with `onic_stop()` during a transfer;
   `CtlCmdWrite` under `ComputeDispatch`.
4. `PacketFilter`, the packet adapter's drop logic, the round-robin arbiter.
