-------------------------- MODULE QueueAllocator --------------------------
(***************************************************************************)
(* What the character device promises to its callers about the memory-     *)
(* mapped (AXI-MM) DMA queues of one direction: a queue is free, or it     *)
(* belongs to exactly one caller, or it is lost until the device is        *)
(* initialised again.  How onic_cdev.c keeps this promise (a counting      *)
(* semaphore, two mutexes and a ring of queue numbers) is CdevQueuePool.   *)
(*                                                                         *)
(* The promise is void once the interface is brought up while a call is    *)
(* still in the device: onic_open() re-initialises the pool under the      *)
(* caller's feet.  "broken" records that.                                  *)
(***************************************************************************)
CONSTANTS Threads, Queues, NoQueue

VARIABLES
  free,     \* the queues nobody has
  owner,    \* owner[t]: the queue thread t works on, or NoQueue
  broken    \* the pool was re-initialised during a call

vars == <<free, owner, broken>>

Init == /\ free = Queues
        /\ owner = [t \in Threads |-> NoQueue]
        /\ broken = FALSE

\* A caller gets some free queue: no other caller has it.
Acquire(t) == /\ owner[t] = NoQueue
              /\ \E q \in free : /\ owner' = [owner EXCEPT ![t] = q]
                                 /\ free' = free \ {q}
              /\ UNCHANGED broken

\* A caller gives its queue back.
Release(t) == /\ owner[t] # NoQueue
              /\ free' = free \union {owner[t]}
              /\ owner' = [owner EXCEPT ![t] = NoQueue]
              /\ UNCHANGED broken

\* A caller leaves without giving its queue back.
Lose(t) == /\ owner[t] # NoQueue
           /\ owner' = [owner EXCEPT ![t] = NoQueue]
           /\ UNCHANGED <<free, broken>>

\* The pool is initialised while nobody has a queue: lost queues are back.
Reset == /\ \A t \in Threads : owner[t] = NoQueue
         /\ free' = Queues
         /\ UNCHANGED <<owner, broken>>

\* The pool is initialised during a call: from here on nothing is promised.
Break == broken' = TRUE

Next == \/ \E t \in Threads : Acquire(t) \/ Release(t) \/ Lose(t)
        \/ Reset
        \/ Break

Spec == Init /\ [][Next]_vars
=============================================================================
