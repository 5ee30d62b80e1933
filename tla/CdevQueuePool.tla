--------------------------- MODULE CdevQueuePool ---------------------------
(***************************************************************************)
(* The pool of memory-mapped DMA queues behind the character device of the *)
(* onic driver (drivers/onic-driver/onic_cdev.c), for one direction.  The  *)
(* driver keeps two disjoint copies of this state, read_* for read() and   *)
(* write_* for write(), and runs the same code on each: this module is     *)
(* either of them.                                                         *)
(*                                                                         *)
(* A caller takes a credit from a counting semaphore (sem), pops a queue   *)
(* number from a ring under one mutex, runs one blocking DMA request on    *)
(* that queue, and pushes the number back under a second mutex before it   *)
(* returns the credit.  Kernel semaphores are modelled with their FIFO     *)
(* list of sleepers, because onic_open() re-initialises them, list         *)
(* included, whenever the network interface is brought up.                 *)
(***************************************************************************)
EXTENDS Naturals, Sequences, FiniteSets

CONSTANTS
  Threads,      \* the user threads that call read() (or write())
  NoMmQueues,   \* no_mm_queues: number of queues in the pool
  MaxLeaks,     \* bound: failures of map_user_buf_to_sgl() between two onic_open()
  MaxOpens      \* bound: calls of onic_open() after the first

ASSUME ThreadsAssumption == IsFiniteSet(Threads)
ASSUME QueuesAssumption  == NoMmQueues \in Nat \ {0}
ASSUME BoundsAssumption  == MaxLeaks \in Nat /\ MaxOpens \in Nat

Queues == 0 .. NoMmQueues - 1
Slots  == 0 .. NoMmQueues - 1

\* The three semaphores of a direction: sem counts queues, mutex guards the
\* read index of the ring, mutex2 its write index.
Sems == {"sem", "mutex", "mutex2"}

VARIABLES
  count,      \* count[s]: the value of semaphore s
  sleepers,   \* sleepers[s]: the FIFO list of threads asleep in down(s)
  pool,       \* queue_pool
  readIdx,    \* read_idx: the next slot to pop
  writeIdx,   \* write_idx: the next slot to push
  pc,         \* pc[t]: where thread t is in onic_cdev_read/onic_cdev_write
  target,     \* target[t]: t's local target_queue
  leaked,     \* history: queues dropped by failed calls since the last onic_open()
  opens,      \* onic_open() calls so far, the first excepted
  overlap     \* history: some onic_open() came while a call was in progress

sync == <<count, sleepers>>
ring == <<pool, readIdx, writeIdx>>
hist == <<leaked, opens, overlap>>
vars == <<count, sleepers, pool, readIdx, writeIdx, pc, target, leaked, opens,
          overlap>>

---------------------------------------------------------------------------
(* Where a thread can be.                                                  *)

AsleepPc  == [sem |-> "sem_sleep", mutex |-> "mutex_sleep",
              mutex2 |-> "mutex2_sleep"]
AwakePc   == [sem |-> "mutex_down", mutex |-> "pop_read",
              mutex2 |-> "push_store"]

\* Holds a credit of sem, not yet (or no longer) a queue.
CreditPcs == {"mutex_down", "mutex_sleep", "pop_read", "pop_advance", "sem_up"}

\* Holds a queue number that is out of the ring.
HolderPcs == {"map", "dma", "mutex2_down", "mutex2_sleep", "push_store",
              "push_advance"}

Pcs == {"idle", "sem_sleep"} \union CreditPcs \union HolderPcs

---------------------------------------------------------------------------
(* Kernel semaphores (linux/kernel/locking/semaphore.c, external).  down() *)
(* takes a unit or goes to sleep at the end of the list; up() hands its    *)
(* unit to the first sleeper, or adds it to the count when there is none.  *)

Down(s, t) ==
  \/ /\ count[s] > 0
     /\ count' = [count EXCEPT ![s] = @ - 1]
     /\ pc' = [pc EXCEPT ![t] = AwakePc[s]]
     /\ UNCHANGED sleepers
  \/ /\ count[s] = 0
     /\ sleepers' = [sleepers EXCEPT ![s] = Append(@, t)]
     /\ pc' = [pc EXCEPT ![t] = AsleepPc[s]]
     /\ UNCHANGED count

\* up(s) by t, which then goes on to label.
UpThen(s, t, label) ==
  \/ /\ sleepers[s] = <<>>
     /\ count' = [count EXCEPT ![s] = @ + 1]
     /\ pc' = [pc EXCEPT ![t] = label]
     /\ UNCHANGED sleepers
  \/ /\ sleepers[s] # <<>>
     /\ sleepers' = [sleepers EXCEPT ![s] = Tail(@)]
     /\ pc' = [pc EXCEPT ![t] = label, ![Head(sleepers[s])] = AwakePc[s]]
     /\ UNCHANGED count

---------------------------------------------------------------------------
(* onic_cdev_read() / onic_cdev_write(): acquire a queue.                  *)

\* down(&sem)
SemDown(t) ==
  /\ pc[t] = "idle"
  /\ Down("sem", t)
  /\ UNCHANGED <<ring, target, hist>>

\* Mutant: the ring is read without taking the mutex.
MutexDownSkipsLock(t) ==
  /\ pc[t] = "mutex_down"
  /\ pc' = [pc EXCEPT ![t] = "pop_read"]
  /\ UNCHANGED <<sync, ring, target, hist>>

\* down(&mutex)
MutexDown(t) ==
  /\ pc[t] = "mutex_down"
  /\ Down("mutex", t)
  /\ UNCHANGED <<ring, target, hist>>

\* target_queue = queue_pool[read_idx]
PopRead(t) ==
  /\ pc[t] = "pop_read"
  /\ target' = [target EXCEPT ![t] = pool[readIdx]]
  /\ pc' = [pc EXCEPT ![t] = "pop_advance"]
  /\ UNCHANGED <<sync, ring, hist>>

\* read_idx = (read_idx + 1) % no_mm_queues; up(&mutex)
PopAdvance(t) ==
  /\ pc[t] = "pop_advance"
  /\ readIdx' = (readIdx + 1) % NoMmQueues
  /\ UpThen("mutex", t, "map")
  /\ UNCHANGED <<pool, writeIdx, target, hist>>

---------------------------------------------------------------------------
(* onic_gen_read_write(): use the queue and give it back.                  *)

\* map_user_buf_to_sgl() succeeds and fp_rw() is called.
MapOk(t) ==
  /\ pc[t] = "map"
  /\ pc' = [pc EXCEPT ![t] = "dma"]
  /\ UNCHANGED <<sync, ring, target, hist>>

\* Mutant: the error path returns the credit and forgets the queue.
MapFailsReturnsCredit(t) ==
  /\ pc[t] = "map"
  /\ leaked < MaxLeaks
  /\ leaked' = leaked + 1
  /\ pc' = [pc EXCEPT ![t] = "sem_up"]
  /\ UNCHANGED <<sync, ring, target, opens, overlap>>

\* map_user_buf_to_sgl() fails (no memory, pages not pinned, duplicate
\* pages): the function returns at once.  Neither the queue nor the credit
\* goes back.
MapFails(t) ==
  /\ pc[t] = "map"
  /\ leaked < MaxLeaks
  /\ leaked' = leaked + 1
  /\ pc' = [pc EXCEPT ![t] = "idle"]
  /\ UNCHANGED <<sync, ring, target, opens, overlap>>

\* fp_rw(), that is qdma_request_submit(), returns: done, failed or timed
\* out after 10 s.  The pages are unpinned whatever it returns.
DmaReturns(t) ==
  /\ pc[t] = "dma"
  /\ pc' = [pc EXCEPT ![t] = "mutex2_down"]
  /\ UNCHANGED <<sync, ring, target, hist>>

\* down(&mutex2)
Mutex2Down(t) ==
  /\ pc[t] = "mutex2_down"
  /\ Down("mutex2", t)
  /\ UNCHANGED <<ring, target, hist>>

\* queue_pool[write_idx] = target_queue
PushStore(t) ==
  /\ pc[t] = "push_store"
  /\ pool' = [pool EXCEPT ![writeIdx] = target[t]]
  /\ pc' = [pc EXCEPT ![t] = "push_advance"]
  /\ UNCHANGED <<sync, readIdx, writeIdx, target, hist>>

\* write_idx = (write_idx + 1) % no_mm_queues; up(&mutex2)
PushAdvance(t) ==
  /\ pc[t] = "push_advance"
  /\ writeIdx' = (writeIdx + 1) % NoMmQueues
  /\ UpThen("mutex2", t, "sem_up")
  /\ UNCHANGED <<pool, readIdx, target, hist>>

\* Mutant: the credit is counted and the sleeper is not woken.
SemUpNoWake(t) ==
  /\ pc[t] = "sem_up"
  /\ count' = [count EXCEPT !["sem"] = @ + 1]
  /\ pc' = [pc EXCEPT ![t] = "idle"]
  /\ UNCHANGED <<sleepers, ring, target, hist>>

\* up(&sem), and the call returns
SemUp(t) ==
  /\ pc[t] = "sem_up"
  /\ UpThen("sem", t, "idle")
  /\ UNCHANGED <<ring, target, hist>>

---------------------------------------------------------------------------
\* Mutant: the ring is not filled again.
onic_init_cdev_keeps_ring ==
  /\ opens < MaxOpens
  /\ count' = [s \in Sems |-> IF s = "sem" THEN NoMmQueues ELSE 1]
  /\ sleepers' = [s \in Sems |-> <<>>]
  /\ readIdx' = 0
  /\ writeIdx' = 0
  /\ leaked' = 0
  /\ opens' = opens + 1
  /\ overlap' = (overlap \/ \E t \in Threads : pc[t] # "idle")
  /\ UNCHANGED <<pool, pc, target>>

\* onic_open() brings the interface up again and calls onic_init_cdev(),
\* which looks at no caller: semaphores, indices and ring are set afresh.
\* A thread asleep in down() stays asleep, on a list that is gone.
onic_init_cdev ==
  /\ opens < MaxOpens
  /\ count' = [s \in Sems |-> IF s = "sem" THEN NoMmQueues ELSE 1]
  /\ sleepers' = [s \in Sems |-> <<>>]
  /\ pool' = [i \in Slots |-> i]
  /\ readIdx' = 0
  /\ writeIdx' = 0
  /\ leaked' = 0
  /\ opens' = opens + 1
  /\ overlap' = (overlap \/ \E t \in Threads : pc[t] # "idle")
  /\ UNCHANGED <<pc, target>>

\* The state after the first onic_open().
Init ==
  /\ count = [s \in Sems |-> IF s = "sem" THEN NoMmQueues ELSE 1]
  /\ sleepers = [s \in Sems |-> <<>>]
  /\ pool = [i \in Slots |-> i]
  /\ readIdx = 0
  /\ writeIdx = 0
  /\ pc = [t \in Threads |-> "idle"]
  /\ target = [t \in Threads |-> 0]
  /\ leaked = 0
  /\ opens = 0
  /\ overlap = FALSE

\* What a thread does once it has entered the device.
Continue(t) ==
  \/ MutexDown(t) \/ PopRead(t) \/ PopAdvance(t)
  \/ MapOk(t) \/ DmaReturns(t)
  \/ Mutex2Down(t) \/ PushStore(t) \/ PushAdvance(t) \/ SemUp(t)

Next == \/ \E t \in Threads : SemDown(t) \/ Continue(t) \/ MapFails(t)
        \/ onic_init_cdev

Spec == Init /\ [][Next]_vars

(***************************************************************************)
(* Fairness: a thread that is running keeps running, and a DMA request     *)
(* returns (its wait has a 10 s timeout).  Nobody has to call the device,  *)
(* bring the interface up or fail.                                         *)
(***************************************************************************)
FairSpec == Spec /\ \A t \in Threads : WF_vars(Continue(t))
---------------------------------------------------------------------------
(* Properties.                                                             *)

TypeOK ==
  /\ count \in [Sems -> Nat]
  /\ sleepers \in [Sems -> Seq(Threads)]
  /\ pool \in [Slots -> Queues]
  /\ readIdx \in Slots
  /\ writeIdx \in Slots
  /\ pc \in [Threads -> Pcs]
  /\ target \in [Threads -> Queues]
  /\ leaked \in Nat
  /\ opens \in 0 .. MaxOpens
  /\ overlap \in BOOLEAN

At(P) == {t \in Threads : pc[t] \in P}

\* The number of queue numbers in the ring: units of sem nobody has taken,
\* credits taken but not yet used to pop, credits about to be returned after
\* a push.
Avail == count["sem"] + Cardinality(At(CreditPcs))

\* Distance of a slot from the read index, around the ring.
Dist(i) == IF i >= readIdx THEN i - readIdx ELSE i + NoMmQueues - readIdx

\* The slots that hold a queue number.
Live(i) == Dist(i) < Avail

(***************************************************************************)
(* Two calls never run DMA requests on the same queue, however the pops    *)
(* and pushes of the callers interleave and however many calls failed,     *)
(* unless the interface was brought up in the middle of a call.            *)
(***************************************************************************)
Exclusive == \A t, u \in At(HolderPcs) : t # u => target[t] # target[u]

QueueExclusive == ~overlap => Exclusive

(***************************************************************************)
(* No queue number is lost or forged on the way through the two mutexes:   *)
(* the ones in the ring, the ones callers hold and the ones that failed    *)
(* calls dropped add up to the pool.  In particular sem never promises a   *)
(* queue that is not in the ring.                                          *)
(***************************************************************************)
Conserved == Avail + Cardinality(At(HolderPcs)) + leaked = NoMmQueues

QueuesConserved == ~overlap => Conserved

(***************************************************************************)
(* A queue number that waits in the ring is there once, and no call is     *)
(* using it.                                                               *)
(***************************************************************************)
Distinct == \A i, j \in Slots : Live(i) /\ Live(j) /\ i # j => pool[i] # pool[j]
Unused   == \A i \in Slots : \A t \in At(HolderPcs) : Live(i) => pool[i] # target[t]

RingIsFree == ~overlap => Distinct /\ Unused

(***************************************************************************)
(* The inductive invariant behind the three: the list of a semaphore holds *)
(* threads asleep on it, once each; each mutex admits one thread; a thread *)
(* between the two halves of a pop or a push has the queue number of the   *)
(* slot at the index; the two indices are Avail slots apart.               *)
(***************************************************************************)
SleepersAsleep ==
  \A s \in Sems :
    /\ \A i \in 1 .. Len(sleepers[s]) : pc[sleepers[s][i]] = AsleepPc[s]
    /\ \A i, j \in 1 .. Len(sleepers[s]) :
         sleepers[s][i] = sleepers[s][j] => i = j

OneAt(P, s) ==
  /\ count[s] <= 1
  /\ \A t \in At(P) : count[s] = 0 /\ \A u \in At(P) : u = t

MutexesHold == /\ OneAt({"pop_read", "pop_advance"}, "mutex")
               /\ OneAt({"push_store", "push_advance"}, "mutex2")

PopsPending  == \A t \in Threads :
                  pc[t] = "pop_advance" => target[t] = pool[readIdx]
PushsPending == \A t \in Threads :
                  pc[t] = "push_advance" => target[t] = pool[writeIdx]

IndicesAgree == \/ writeIdx = readIdx + Avail
                \/ writeIdx = readIdx + Avail - NoMmQueues

PoolInv == /\ SleepersAsleep /\ MutexesHold
           /\ PopsPending /\ PushsPending
           /\ IndicesAgree /\ Conserved
           /\ Distinct /\ Unused /\ Exclusive

(***************************************************************************)
(* The pool's invariant, until an onic_open() cuts into a call.            *)
(***************************************************************************)
PoolInvariant == ~overlap => PoolInv

(***************************************************************************)
(* A call returns, though the pool may be short of queues: it blocks for   *)
(* ever only when failed calls have dropped every queue, or when the       *)
(* interface came up during a call.                                        *)
(***************************************************************************)
CallReturns ==
  \A t \in Threads :
    pc[t] # "idle" ~> (pc[t] = "idle" \/ leaked = NoMmQueues \/ overlap)

\* The promise to the callers (module QueueAllocator).
owner == [t \in Threads |-> IF pc[t] \in HolderPcs THEN target[t]
                                                  ELSE NoMmQueues]
Allocator == INSTANCE QueueAllocator WITH
               NoQueue <- NoMmQueues,
               free    <- {pool[i] : i \in {j \in Slots : Live(j)}},
               owner   <- owner,
               broken  <- overlap

(***************************************************************************)
(* The ring with its semaphores implements the allocator, as long as       *)
(* onic_open() does not cut into a call.                                   *)
(***************************************************************************)
ImplementsAllocator == Allocator!Spec
=============================================================================
