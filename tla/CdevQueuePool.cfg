\* Two callers on two queues, failed calls and two more calls of onic_open() included: after
\* one failed call the two compete for one queue, after two there is none.
\* No deadlock check: when no queue is left every caller sleeps for ever.
SPECIFICATION FairSpec
CONSTANTS
  Threads = {t1, t2}
  NoMmQueues = 2
  MaxLeaks = 3
  MaxOpens = 2
INVARIANTS QueueExclusive QueuesConserved
PROPERTIES CallReturns ImplementsAllocator
CHECK_DEADLOCK FALSE
