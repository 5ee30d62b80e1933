------------------------ MODULE CdevQueuePoolProof ------------------------
(***************************************************************************)
(* Proofs about CdevQueuePool, for every number of threads and queues.     *)
(***************************************************************************)
EXTENDS CdevQueuePool, FiniteSetTheorems, TLAPS

USE ThreadsAssumption, QueuesAssumption, BoundsAssumption

\* Advancing an index stays in the ring and wraps at its end.
LEMMA NextSlot ==
  ASSUME NEW i \in Slots
  PROVE  /\ (i + 1) % NoMmQueues \in Slots
         /\ (i + 1) % NoMmQueues = IF i + 1 = NoMmQueues THEN 0 ELSE i + 1
<1>1. CASE i + 1 = NoMmQueues
  BY <1>1 DEF Slots
<1>2. CASE i + 1 < NoMmQueues
  BY <1>2 DEF Slots
<1>. QED BY <1>1, <1>2 DEF Slots

\* A semaphore operation keeps counts, lists and control points in their types.
LEMMA DownType ==
  ASSUME TypeOK, NEW s \in Sems, NEW t \in Threads, Down(s, t)
  PROVE  /\ count' \in [Sems -> Nat]
         /\ sleepers' \in [Sems -> Seq(Threads)]
         /\ pc' \in [Threads -> Pcs]
<1>1. AwakePc[s] \in Pcs /\ AsleepPc[s] \in Pcs
  BY DEF Sems, AwakePc, AsleepPc, Pcs, CreditPcs, HolderPcs
<1>2. count[s] \in Nat /\ sleepers[s] \in Seq(Threads)
  BY DEF TypeOK
<1>3. CASE /\ count[s] > 0
           /\ count' = [count EXCEPT ![s] = @ - 1]
           /\ pc' = [pc EXCEPT ![t] = AwakePc[s]]
           /\ UNCHANGED sleepers
  <2>1. count[s] - 1 \in Nat
    BY <1>2, <1>3
  <2>. QED BY <1>1, <1>3, <2>1 DEF TypeOK
<1>4. CASE /\ sleepers' = [sleepers EXCEPT ![s] = Append(@, t)]
           /\ pc' = [pc EXCEPT ![t] = AsleepPc[s]]
           /\ UNCHANGED count
  <2>1. Append(sleepers[s], t) \in Seq(Threads)
    BY <1>2
  <2>. QED BY <1>1, <1>4, <2>1 DEF TypeOK
<1>. QED BY <1>3, <1>4 DEF Down

\* up() keeps the types of what it writes.
LEMMA UpType ==
  ASSUME TypeOK, NEW s \in Sems, NEW t \in Threads, NEW l \in Pcs,
         UpThen(s, t, l)
  PROVE  /\ count' \in [Sems -> Nat]
         /\ sleepers' \in [Sems -> Seq(Threads)]
         /\ pc' \in [Threads -> Pcs]
<1>1. AwakePc[s] \in Pcs
  BY DEF Sems, AwakePc, Pcs, CreditPcs, HolderPcs
<1>2. CASE sleepers[s] = <<>>
  <2>1. count[s] + 1 \in Nat
    BY DEF TypeOK
  <2>. QED BY <1>2, <2>1 DEF UpThen, TypeOK
<1>3. CASE sleepers[s] # <<>>
  <2>1. sleepers[s] \in Seq(Threads)
    BY DEF TypeOK
  <2>2. Head(sleepers[s]) \in Threads /\ Tail(sleepers[s]) \in Seq(Threads)
    BY <1>3, <2>1
  <2>. QED BY <1>1, <1>3, <2>2 DEF UpThen, TypeOK
<1>. QED BY <1>2, <1>3

\* The first onic_open() leaves a well-typed pool.
THEOREM TypeInit == Init => TypeOK
  BY DEF Init, TypeOK, Sems, Slots, Queues, Pcs

\* Every step keeps it well-typed.
THEOREM TypeStep == TypeOK /\ [Next]_vars => TypeOK'
<1>. SUFFICES ASSUME TypeOK, [Next]_vars PROVE TypeOK'
  OBVIOUS
<1>. USE DEF TypeOK
<1>1. ASSUME NEW t \in Threads, SemDown(t) PROVE TypeOK'
  BY <1>1, DownType DEF SemDown, Sems, ring, hist
<1>2. ASSUME NEW t \in Threads, MutexDown(t) PROVE TypeOK'
  BY <1>2, DownType DEF MutexDown, Sems, ring, hist
<1>3. ASSUME NEW t \in Threads, PopRead(t) PROVE TypeOK'
  BY <1>3 DEF PopRead, sync, ring, hist, Pcs, CreditPcs
<1>4. ASSUME NEW t \in Threads, PopAdvance(t) PROVE TypeOK'
  <2>1. "map" \in Pcs
    BY DEF Pcs, HolderPcs
  <2>. QED BY <1>4, <2>1, UpType, NextSlot DEF PopAdvance, Sems, hist
<1>5. ASSUME NEW t \in Threads, MapOk(t) PROVE TypeOK'
  BY <1>5 DEF MapOk, sync, ring, hist, Pcs, HolderPcs
<1>6. ASSUME NEW t \in Threads, MapFails(t) PROVE TypeOK'
  BY <1>6 DEF MapFails, sync, ring, Pcs
<1>7. ASSUME NEW t \in Threads, DmaReturns(t) PROVE TypeOK'
  BY <1>7 DEF DmaReturns, sync, ring, hist, Pcs, HolderPcs
<1>8. ASSUME NEW t \in Threads, Mutex2Down(t) PROVE TypeOK'
  BY <1>8, DownType DEF Mutex2Down, Sems, ring, hist
<1>9. ASSUME NEW t \in Threads, PushStore(t) PROVE TypeOK'
  BY <1>9 DEF PushStore, sync, hist, Pcs, HolderPcs
<1>10. ASSUME NEW t \in Threads, PushAdvance(t) PROVE TypeOK'
  <2>1. "sem_up" \in Pcs
    BY DEF Pcs, CreditPcs
  <2>. QED BY <1>10, <2>1, UpType, NextSlot DEF PushAdvance, Sems, hist
<1>11. ASSUME NEW t \in Threads, SemUp(t) PROVE TypeOK'
  <2>1. "idle" \in Pcs
    BY DEF Pcs
  <2>. QED BY <1>11, <2>1, UpType DEF SemUp, Sems, ring, hist
<1>12. ASSUME onic_init_cdev PROVE TypeOK'
  BY <1>12 DEF onic_init_cdev, Sems, Slots, Queues
<1>13. ASSUME UNCHANGED vars PROVE TypeOK'
  BY <1>13 DEF vars
<1>. QED
  BY <1>1, <1>2, <1>3, <1>4, <1>5, <1>6, <1>7, <1>8, <1>9, <1>10, <1>11,
     <1>12, <1>13 DEF Next, Continue

\* Every value of the pool's state has its type in every reachable state.
THEOREM TypeCorrect == Spec => []TypeOK
  BY TypeInit, TypeStep, PTL DEF Spec
---------------------------------------------------------------------------
(* Counting the threads at a set of control points.                        *)

Count(f, P) == Cardinality({u \in Threads : f[u] \in P})

\* When only thread t moves, the number of threads at a set of control points
\* changes by t alone.
LEMMA CountExcept ==
  ASSUME NEW f \in [Threads -> Pcs], NEW g \in [Threads -> Pcs],
         NEW t \in Threads, NEW P,
         \A u \in Threads : u # t => g[u] = f[u]
  PROVE  /\ Count(f, P) \in Nat
         /\ Count(g, P) \in Nat
         /\ (f[t] \in P <=> g[t] \in P) => Count(g, P) = Count(f, P)
         /\ f[t] \notin P /\ g[t] \in P => Count(g, P) = Count(f, P) + 1
         /\ f[t] \in P /\ g[t] \notin P => Count(g, P) = Count(f, P) - 1
<1>. DEFINE A == {u \in Threads : f[u] \in P}
            B == {u \in Threads : g[u] \in P}
<1>1. IsFiniteSet(A) /\ IsFiniteSet(B)
  BY FS_Subset
<1>2. Cardinality(A) \in Nat /\ Cardinality(B) \in Nat
  BY <1>1, FS_CardinalityType
<1>3. (f[t] \in P <=> g[t] \in P) => B = A
  OBVIOUS
<1>4. ASSUME f[t] \notin P, g[t] \in P PROVE Cardinality(B) = Cardinality(A) + 1
  <2>1. B = A \union {t} /\ t \notin A
    BY <1>4
  <2>. QED BY <1>1, <2>1, FS_AddElement
<1>5. ASSUME f[t] \in P, g[t] \notin P PROVE Cardinality(B) = Cardinality(A) - 1
  <2>1. A = B \union {t} /\ t \notin B
    BY <1>5
  <2>2. Cardinality(A) = Cardinality(B) + 1
    BY <1>1, <2>1, FS_AddElement
  <2>. QED BY <1>2, <2>2
<1>6. Count(f, P) = Cardinality(A) /\ Count(g, P) = Cardinality(B)
  BY DEF Count
<1>. HIDE DEF A, B
<1>. QED BY <1>2, <1>3, <1>4, <1>5, <1>6

\* The same for two threads that move in one step.
LEMMA CountExceptTwo ==
  ASSUME NEW f \in [Threads -> Pcs], NEW g \in [Threads -> Pcs],
         NEW t \in Threads, NEW w \in Threads, t # w, NEW P,
         \A u \in Threads : u # t /\ u # w => g[u] = f[u]
  PROVE  /\ (f[t] \in P <=> g[t] \in P) /\ (f[w] \in P <=> g[w] \in P)
              => Count(g, P) = Count(f, P)
         /\ f[t] \in P /\ g[t] \notin P /\ f[w] \notin P /\ g[w] \in P
              => Count(g, P) = Count(f, P)
         /\ f[t] \notin P /\ g[t] \in P /\ (f[w] \in P <=> g[w] \in P)
              => Count(g, P) = Count(f, P) + 1
         /\ f[t] \in P /\ g[t] \notin P /\ (f[w] \in P <=> g[w] \in P)
              => Count(g, P) = Count(f, P) - 1
<1>. DEFINE h == [f EXCEPT ![t] = g[t]]
<1>1. /\ h \in [Threads -> Pcs]
      /\ h[t] = g[t] /\ h[w] = f[w]
      /\ \A u \in Threads : u # t => h[u] = f[u]
      /\ \A u \in Threads : u # w => g[u] = h[u]
  OBVIOUS
<1>. HIDE DEF h
<1>2. /\ Count(f, P) \in Nat /\ Count(h, P) \in Nat
      /\ (f[t] \in P <=> h[t] \in P) => Count(h, P) = Count(f, P)
      /\ f[t] \notin P /\ h[t] \in P => Count(h, P) = Count(f, P) + 1
      /\ f[t] \in P /\ h[t] \notin P => Count(h, P) = Count(f, P) - 1
  BY <1>1, CountExcept
<1>3. /\ Count(g, P) \in Nat
      /\ (h[w] \in P <=> g[w] \in P) => Count(g, P) = Count(h, P)
      /\ h[w] \notin P /\ g[w] \in P => Count(g, P) = Count(h, P) + 1
  BY <1>1, CountExcept
<1>. QED BY <1>1, <1>2, <1>3
---------------------------------------------------------------------------
(* What a semaphore operation does to the control points.                  *)

Asleep == {"sem_sleep", "mutex_sleep", "mutex2_sleep"}

\* The control points where down() sleeps.
LEMMA AsleepLabels == \A s \in Sems : AsleepPc[s] \in Asleep
  BY DEF Sems, AsleepPc, Asleep

\* A step that moves one thread, not asleep before or after, and no list.
LEMMA LocalSleepers ==
  ASSUME TypeOK, SleepersAsleep, NEW t \in Threads, pc[t] \notin Asleep,
         \A u \in Threads : u # t => pc'[u] = pc[u],
         sleepers' = sleepers
  PROVE  SleepersAsleep'
<1>1. ASSUME NEW s \in Sems, NEW i \in 1 .. Len(sleepers[s])
      PROVE  pc'[sleepers[s][i]] = AsleepPc[s]
  <2>1. sleepers[s][i] \in Threads /\ pc[sleepers[s][i]] = AsleepPc[s]
    BY DEF TypeOK, SleepersAsleep
  <2>2. sleepers[s][i] # t
    BY <2>1, AsleepLabels
  <2>. QED BY <2>1, <2>2
<1>. QED BY <1>1 DEF SleepersAsleep

\* down(s) moves its caller alone, and lists it only if it sleeps.
LEMMA DownMoves ==
  ASSUME TypeOK, SleepersAsleep, NEW s \in Sems, NEW t \in Threads,
         pc[t] \notin Asleep, Down(s, t)
  PROVE  /\ SleepersAsleep'
         /\ pc' \in [Threads -> Pcs]
         /\ \A u \in Threads : u # t => pc'[u] = pc[u]
         /\ \A r \in Sems : r # s => count'[r] = count[r]
         /\ \/ count[s] > 0 /\ count'[s] = count[s] - 1 /\ pc'[t] = AwakePc[s]
            \/ count'[s] = count[s] /\ pc'[t] = AsleepPc[s]
<1>1. pc' \in [Threads -> Pcs]
  BY DownType
<1>2. CASE /\ count[s] > 0
           /\ count' = [count EXCEPT ![s] = @ - 1]
           /\ pc' = [pc EXCEPT ![t] = AwakePc[s]]
           /\ UNCHANGED sleepers
  <2>1. /\ \A u \in Threads : u # t => pc'[u] = pc[u]
        /\ pc'[t] = AwakePc[s]
    BY <1>2 DEF TypeOK
  <2>2. SleepersAsleep'
    BY <1>2, <2>1, LocalSleepers
  <2>. QED BY <1>1, <1>2, <2>1, <2>2 DEF TypeOK
<1>3. CASE /\ sleepers' = [sleepers EXCEPT ![s] = Append(@, t)]
           /\ pc' = [pc EXCEPT ![t] = AsleepPc[s]]
           /\ UNCHANGED count
  <2>1. /\ \A u \in Threads : u # t => pc'[u] = pc[u]
        /\ pc'[t] = AsleepPc[s]
    BY <1>3 DEF TypeOK
  <2>2. ASSUME NEW r \in Sems, NEW i \in 1 .. Len(sleepers[r])
        PROVE  /\ pc'[sleepers[r][i]] = AsleepPc[r]
               /\ sleepers[r][i] # t
    <3>1. sleepers[r][i] \in Threads /\ pc[sleepers[r][i]] = AsleepPc[r]
      BY DEF TypeOK, SleepersAsleep
    <3>2. sleepers[r][i] # t
      BY <3>1, AsleepLabels
    <3>. QED BY <2>1, <3>1, <3>2
  <2>3. ASSUME NEW r \in Sems
        PROVE  /\ \A i \in 1 .. Len(sleepers'[r]) :
                     pc'[sleepers'[r][i]] = AsleepPc[r]
               /\ \A i, j \in 1 .. Len(sleepers'[r]) :
                     sleepers'[r][i] = sleepers'[r][j] => i = j
    <3>1. CASE r # s
      BY <1>3, <2>2, <3>1 DEF SleepersAsleep, TypeOK
    <3>2. CASE r = s
      <4>. DEFINE q == sleepers[s]
      <4>1. q \in Seq(Threads)
        BY DEF TypeOK
      <4>2. sleepers'[r] = Append(q, t)
        BY <1>3, <3>2 DEF TypeOK
      <4>3. /\ \A i \in 1 .. Len(q) : pc'[q[i]] = AsleepPc[r] /\ q[i] # t
            /\ \A i, j \in 1 .. Len(q) : q[i] = q[j] => i = j
        BY <2>2, <3>2 DEF SleepersAsleep
      <4>. HIDE DEF q
      <4>. QED BY <2>1, <3>2, <4>1, <4>2, <4>3
    <3>. QED BY <3>1, <3>2
  <2>4. SleepersAsleep'
    BY <2>3 DEF SleepersAsleep
  <2>. QED BY <1>1, <1>3, <2>1, <2>4
<1>. QED BY <1>2, <1>3 DEF Down

\* up(s) moves its caller and the sleeper it wakes, whom it takes off the list.
LEMMA UpMoves ==
  ASSUME TypeOK, SleepersAsleep, NEW s \in Sems, NEW t \in Threads,
         pc[t] \notin Asleep, NEW l \in Pcs, UpThen(s, t, l)
  PROVE  /\ SleepersAsleep'
         /\ pc' \in [Threads -> Pcs]
         /\ pc'[t] = l
         /\ \A r \in Sems : r # s => count'[r] = count[r]
         /\ \/ /\ count'[s] = count[s] + 1
               /\ \A u \in Threads : u # t => pc'[u] = pc[u]
            \/ /\ count'[s] = count[s]
               /\ \E w \in Threads :
                    /\ w # t
                    /\ pc[w] = AsleepPc[s] /\ pc'[w] = AwakePc[s]
                    /\ \A u \in Threads : u # t /\ u # w => pc'[u] = pc[u]
<1>1. pc' \in [Threads -> Pcs]
  BY UpType
<1>2. CASE /\ count' = [count EXCEPT ![s] = @ + 1]
           /\ pc' = [pc EXCEPT ![t] = l]
           /\ UNCHANGED sleepers
  <2>1. /\ \A u \in Threads : u # t => pc'[u] = pc[u]
        /\ pc'[t] = l
    BY <1>2 DEF TypeOK
  <2>2. SleepersAsleep'
    BY <1>2, <2>1, LocalSleepers
  <2>. QED BY <1>1, <1>2, <2>1, <2>2 DEF TypeOK
<1>3. CASE /\ sleepers[s] # <<>>
           /\ sleepers' = [sleepers EXCEPT ![s] = Tail(@)]
           /\ pc' = [pc EXCEPT ![t] = l, ![Head(sleepers[s])] = AwakePc[s]]
           /\ UNCHANGED count
  <2>. DEFINE q == sleepers[s]
              w == Head(q)
  <2>1. q \in Seq(Threads) /\ q # <<>> /\ Len(q) \in Nat /\ Len(q) >= 1
    BY <1>3 DEF TypeOK
  <2>2. w \in Threads /\ w = q[1] /\ pc[w] = AsleepPc[s]
    BY <2>1 DEF SleepersAsleep
  <2>3. w # t
    BY <2>2, AsleepLabels
  <2>4. /\ \A u \in Threads : u # t /\ u # w => pc'[u] = pc[u]
        /\ pc'[t] = l /\ pc'[w] = AwakePc[s]
    <3>. HIDE DEF w
    <3>1. pc' = [pc EXCEPT ![t] = l, ![w] = AwakePc[s]]
      BY <1>3 DEF w
    <3>. QED BY <2>2, <2>3, <3>1 DEF TypeOK
  <2>5. ASSUME NEW r \in Sems
        PROVE  /\ \A i \in 1 .. Len(sleepers'[r]) :
                     pc'[sleepers'[r][i]] = AsleepPc[r]
               /\ \A i, j \in 1 .. Len(sleepers'[r]) :
                     sleepers'[r][i] = sleepers'[r][j] => i = j
    <3>1. ASSUME NEW i \in 1 .. Len(sleepers[r])
          PROVE  /\ sleepers[r][i] \in Threads
                 /\ pc[sleepers[r][i]] = AsleepPc[r]
                 /\ sleepers[r][i] # t
      <4>1. sleepers[r][i] \in Threads /\ pc[sleepers[r][i]] = AsleepPc[r]
        BY DEF TypeOK, SleepersAsleep
      <4>. QED BY <4>1, AsleepLabels
    <3>2. CASE r # s
      <4>1. sleepers'[r] = sleepers[r]
        BY <1>3, <3>2 DEF TypeOK
      <4>2. AsleepPc[r] # AsleepPc[s]
        BY <3>2 DEF Sems, AsleepPc
      <4>3. \A i \in 1 .. Len(sleepers[r]) : pc'[sleepers[r][i]] = AsleepPc[r]
        BY <2>2, <2>4, <3>1, <4>2
      <4>. QED BY <4>1, <4>3 DEF SleepersAsleep
    <3>3. CASE r = s
      <4>. DEFINE z == Tail(q)
      <4>1. sleepers'[r] = z
        BY <1>3, <3>3 DEF TypeOK
      <4>2. \A i, j \in 1 .. Len(q) : q[i] = q[j] => i = j
        BY DEF SleepersAsleep
      <4>3. /\ Len(z) = Len(q) - 1
            /\ \A i \in 1 .. Len(q) - 1 : z[i] = q[i + 1]
        BY <2>1
      <4>4. \A i \in 1 .. Len(q) - 1 : pc'[q[i + 1]] = AsleepPc[r]
        <5>. TAKE i \in 1 .. Len(q) - 1
        <5>1. i + 1 \in 1 .. Len(q) /\ i + 1 # 1 /\ 1 \in 1 .. Len(q)
          BY <2>1
        <5>2. q[i + 1] # w
          BY <2>2, <4>2, <5>1
        <5>. QED BY <2>4, <3>1, <3>3, <5>1, <5>2
      <4>5. \A i, j \in 1 .. Len(q) - 1 : q[i + 1] = q[j + 1] => i = j
        <5>. TAKE i, j \in 1 .. Len(q) - 1
        <5>1. i + 1 \in 1 .. Len(q) /\ j + 1 \in 1 .. Len(q)
          BY <2>1
        <5>. QED BY <2>1, <4>2, <5>1
      <4>6. /\ \A i \in 1 .. Len(z) : pc'[z[i]] = AsleepPc[r]
            /\ \A i, j \in 1 .. Len(z) : z[i] = z[j] => i = j
        <5>. HIDE DEF q, z
        <5>. QED BY <4>3, <4>4, <4>5
      <4>. QED BY <4>1, <4>6
    <3>. QED BY <3>2, <3>3
  <2>6. SleepersAsleep'
    BY <2>5 DEF SleepersAsleep
  <2>. HIDE DEF q, w
  <2>. QED BY <1>1, <1>3, <2>2, <2>3, <2>4, <2>6
<1>. QED BY <1>2, <1>3 DEF UpThen
---------------------------------------------------------------------------
(* The ring.                                                               *)

Holding == Cardinality(At(HolderPcs))

\* The counts in terms of Count; a thread at a control point is counted there.
LEMMA Numbers ==
  ASSUME TypeOK
  PROVE  /\ Avail = count["sem"] + Count(pc, CreditPcs)
         /\ Holding = Count(pc, HolderPcs)
         /\ Avail \in Nat /\ Holding \in Nat
         /\ \A t \in Threads : pc[t] \in CreditPcs => Avail >= 1
         /\ \A t \in Threads : pc[t] \in HolderPcs => Holding >= 1
<1>1. /\ Avail = count["sem"] + Count(pc, CreditPcs)
      /\ Holding = Count(pc, HolderPcs)
  BY DEF Avail, Holding, At, Count
<1>2. ASSUME NEW P
      PROVE  /\ Count(pc, P) \in Nat
             /\ \A t \in Threads : pc[t] \in P => Count(pc, P) # 0
  <2>. DEFINE A == {u \in Threads : pc[u] \in P}
  <2>1. IsFiniteSet(A)
    BY FS_Subset
  <2>2. Cardinality(A) \in Nat /\ (Cardinality(A) = 0 <=> A = {})
    BY <2>1, FS_CardinalityType, FS_EmptySet
  <2>. QED BY <2>2 DEF Count
<1>3. count["sem"] \in Nat
  BY DEF TypeOK, Sems
<1>4. /\ Count(pc, CreditPcs) \in Nat /\ Count(pc, HolderPcs) \in Nat
      /\ \A t \in Threads : pc[t] \in CreditPcs => Count(pc, CreditPcs) # 0
      /\ \A t \in Threads : pc[t] \in HolderPcs => Count(pc, HolderPcs) # 0
  BY <1>2
<1>. QED BY <1>1, <1>3, <1>4

\* A step that leaves the ring alone and takes no queue out of it.
LEMMA QuietRing ==
  ASSUME TypeOK, PoolInv, Avail' = Avail,
         UNCHANGED <<pool, readIdx, writeIdx>>,
         \A u \in Threads : pc'[u] \in HolderPcs =>
            pc[u] \in HolderPcs /\ target'[u] = target[u]
  PROVE  IndicesAgree' /\ Distinct' /\ Unused' /\ Exclusive'
<1>1. \A i \in Slots : Live(i)' <=> Live(i)
  BY DEF Live, Dist
<1>2. \A u \in At(HolderPcs)' : u \in At(HolderPcs) /\ target'[u] = target[u]
  BY DEF At
<1>3. IndicesAgree'
  BY DEF PoolInv, IndicesAgree
<1>4. Distinct'
  BY <1>1 DEF PoolInv, Distinct
<1>5. Unused'
  BY <1>1, <1>2 DEF PoolInv, Unused
<1>6. Exclusive'
  BY <1>2 DEF PoolInv, Exclusive
<1>. QED BY <1>3, <1>4, <1>5, <1>6

\* The queues that a caller can get next: the free set of QueueAllocator.
FreeQueues == {pool[i] : i \in {j \in Slots : Live(j)}}

\* A step that keeps the live slots and what is in them keeps the free queues.
LEMMA SameFree ==
  ASSUME Avail' = Avail, readIdx' = readIdx,
         \A i \in Slots : Live(i) => pool'[i] = pool[i]
  PROVE  FreeQueues' = FreeQueues
<1>1. \A i \in Slots : Live(i)' <=> Live(i)
  BY DEF Live, Dist
<1>. QED BY <1>1 DEF FreeQueues

\* A step that moves no queue is a stuttering step of the allocator.
LEMMA QuietFree ==
  ASSUME Avail' = Avail, readIdx' = readIdx,
         \A i \in Slots : Live(i) => pool'[i] = pool[i],
         \A u \in Threads :
            /\ pc'[u] \in HolderPcs <=> pc[u] \in HolderPcs
            /\ pc[u] \in HolderPcs => target'[u] = target[u]
  PROVE  FreeQueues' = FreeQueues /\ owner' = owner
<1>1. owner' = owner
  BY DEF owner
<1>. QED BY <1>1, SameFree

\* A step of one thread within a class of control points.
LEMMA SameCounts ==
  ASSUME TypeOK, TypeOK', NEW t \in Threads,
         \A u \in Threads : u # t => pc'[u] = pc[u],
         count'["sem"] = count["sem"],
         pc[t] \in CreditPcs <=> pc'[t] \in CreditPcs,
         pc[t] \in HolderPcs <=> pc'[t] \in HolderPcs
  PROVE  Avail' = Avail /\ Holding' = Holding
<1>1. pc \in [Threads -> Pcs] /\ pc' \in [Threads -> Pcs]
  BY DEF TypeOK
<1>2. /\ Count(pc', CreditPcs) = Count(pc, CreditPcs)
      /\ Count(pc', HolderPcs) = Count(pc, HolderPcs)
  BY <1>1, CountExcept
<1>. QED BY <1>2 DEF Avail, Holding, At, Count
\* Where the ring begins and ends: the slot at the write index is the first
\* one that is not live, unless all are.
LEMMA RingEnds ==
  ASSUME TypeOK, PoolInv
  PROVE  /\ Avail \in Nat /\ Holding \in Nat /\ leaked \in Nat
         /\ Avail + Holding + leaked = NoMmQueues
         /\ Avail <= NoMmQueues
         /\ Avail >= 1 => Live(readIdx)
         /\ Avail < NoMmQueues => Dist(writeIdx) = Avail
         /\ \A i \in Slots : Dist(i) \in Slots
         /\ \A i, j \in Slots : Dist(i) = Dist(j) => i = j
<1>1. Avail \in Nat /\ Holding \in Nat
  BY Numbers
<1>2. Avail + Holding + leaked = NoMmQueues /\ leaked \in Nat
  BY DEF PoolInv, Conserved, Holding, TypeOK
<1>3. readIdx \in Slots /\ writeIdx \in Slots
  BY DEF TypeOK
<1>4. IndicesAgree
  BY DEF PoolInv
<1>5. Avail < NoMmQueues => Dist(writeIdx) = Avail
  BY <1>1, <1>2, <1>3, <1>4 DEF Dist, IndicesAgree, Slots
<1>6. /\ \A i \in Slots : Dist(i) \in Slots
      /\ \A i, j \in Slots : Dist(i) = Dist(j) => i = j
  BY <1>3 DEF Dist, Slots
<1>7. Avail >= 1 => Live(readIdx)
  BY <1>1, <1>3 DEF Live, Dist, Slots
<1>. QED BY <1>1, <1>2, <1>5, <1>6, <1>7

\* The pool of the first onic_open() satisfies the invariant.
LEMMA PoolInit == Init => PoolInv
<1>. SUFFICES ASSUME Init PROVE PoolInv
  OBVIOUS
<1>1. \A P : "idle" \notin P => At(P) = {}
  BY DEF Init, At
<1>2. "idle" \notin CreditPcs /\ "idle" \notin HolderPcs
  BY DEF CreditPcs, HolderPcs
<1>3. At(CreditPcs) = {} /\ At(HolderPcs) = {}
  BY <1>1, <1>2
<1>4. Avail = NoMmQueues /\ Cardinality(At(HolderPcs)) = 0
  BY <1>3, FS_EmptySet DEF Init, Avail, Sems
<1>5. SleepersAsleep
  BY DEF Init, SleepersAsleep, Sems
<1>6. MutexesHold
  BY <1>1 DEF Init, MutexesHold, OneAt, Sems
<1>7. PopsPending /\ PushsPending
  BY DEF Init, PopsPending, PushsPending
<1>8. IndicesAgree /\ Conserved
  BY <1>4 DEF Init, IndicesAgree, Conserved
<1>9. Distinct /\ Unused /\ Exclusive
  BY <1>3 DEF Init, Distinct, Unused, Exclusive
<1>. QED BY <1>5, <1>6, <1>7, <1>8, <1>9 DEF PoolInv

\* SemDown keeps the invariant of the pool.
LEMMA SemDownStep ==
  ASSUME TypeOK, TypeOK', PoolInv, NEW t \in Threads, SemDown(t)
  PROVE  PoolInv' /\ FreeQueues' = FreeQueues /\ owner' = owner
<1>. USE DEF PoolInv
<1>1. pc[t] = "idle" /\ Down("sem", t) /\ UNCHANGED <<pool, readIdx, writeIdx,
        target, leaked>>
  BY DEF SemDown, ring, hist
<1>2. /\ SleepersAsleep'
      /\ pc' \in [Threads -> Pcs]
      /\ \A u \in Threads : u # t => pc'[u] = pc[u]
      /\ \A r \in Sems : r # "sem" => count'[r] = count[r]
      /\ \/ count'["sem"] = count["sem"] - 1 /\ pc'[t] = "mutex_down"
         \/ count'["sem"] = count["sem"] /\ pc'[t] = "sem_sleep"
  BY <1>1, DownMoves DEF Asleep, Sems, AwakePc, AsleepPc
<1>3. Avail' = Avail /\ Holding' = Holding
  <2>1. pc \in [Threads -> Pcs] /\ count["sem"] \in Nat
    BY DEF TypeOK, Sems
  <2>2. /\ Count(pc, CreditPcs) \in Nat
        /\ Count(pc', CreditPcs) = IF pc'[t] = "mutex_down"
                                    THEN Count(pc, CreditPcs) + 1
                                    ELSE Count(pc, CreditPcs)
        /\ Count(pc', HolderPcs) = Count(pc, HolderPcs)
    BY <1>1, <1>2, <2>1, CountExcept DEF CreditPcs, HolderPcs
  <2>3. count'["sem"] + Count(pc', CreditPcs) = count["sem"] + Count(pc, CreditPcs)
    BY <1>2, <2>1, <2>2
  <2>. QED BY <2>2, <2>3 DEF Avail, Holding, At, Count
<1>4. IndicesAgree' /\ Distinct' /\ Unused' /\ Exclusive'
  <2>1. \A u \in Threads : pc'[u] \in HolderPcs =>
           pc[u] \in HolderPcs /\ target'[u] = target[u]
    BY <1>1, <1>2 DEF HolderPcs
  <2>. QED BY <1>1, <1>3, <2>1, QuietRing
<1>5. Conserved'
  BY <1>1, <1>3 DEF Conserved, Holding
<1>6. MutexesHold'
  BY <1>1, <1>2 DEF MutexesHold, OneAt, At, Sems
<1>7. PopsPending' /\ PushsPending'
  BY <1>1, <1>2 DEF PopsPending, PushsPending
<1>8. FreeQueues' = FreeQueues /\ owner' = owner
  <2>1. \A u \in Threads :
          /\ pc'[u] \in HolderPcs <=> pc[u] \in HolderPcs
          /\ pc[u] \in HolderPcs => target'[u] = target[u]
    BY <1>1, <1>2 DEF HolderPcs
  <2>. QED BY <1>1, <1>3, <2>1, QuietFree DEF TypeOK
<1>. QED BY <1>8, <1>2, <1>4, <1>5, <1>6, <1>7

\* MutexDown keeps the invariant of the pool.
LEMMA MutexDownStep ==
  ASSUME TypeOK, TypeOK', PoolInv, NEW t \in Threads, MutexDown(t)
  PROVE  PoolInv' /\ FreeQueues' = FreeQueues /\ owner' = owner
<1>. USE DEF PoolInv
<1>1. pc[t] = "mutex_down" /\ Down("mutex", t)
      /\ UNCHANGED <<pool, readIdx, writeIdx, target, leaked>>
  BY DEF MutexDown, ring, hist
<1>2. /\ SleepersAsleep'
      /\ \A u \in Threads : u # t => pc'[u] = pc[u]
      /\ \A r \in Sems : r # "mutex" => count'[r] = count[r]
      /\ \/ /\ count["mutex"] > 0
            /\ count'["mutex"] = count["mutex"] - 1
            /\ pc'[t] = "pop_read"
         \/ count'["mutex"] = count["mutex"] /\ pc'[t] = "mutex_sleep"
  BY <1>1, DownMoves DEF Asleep, Sems, AwakePc, AsleepPc
<1>3. Avail' = Avail /\ Holding' = Holding
  BY <1>1, <1>2, SameCounts DEF Sems, CreditPcs, HolderPcs
<1>4. IndicesAgree' /\ Distinct' /\ Unused' /\ Exclusive'
  <2>1. \A u \in Threads : pc'[u] \in HolderPcs =>
           pc[u] \in HolderPcs /\ target'[u] = target[u]
    BY <1>1, <1>2 DEF HolderPcs
  <2>. QED BY <1>1, <1>3, <2>1, QuietRing
<1>5. Conserved'
  BY <1>1, <1>3 DEF Conserved, Holding
<1>6. MutexesHold'
  <2>1. count["mutex"] \in Nat
    BY DEF TypeOK, Sems
  <2>2. OneAt({"pop_read", "pop_advance"}, "mutex")'
    BY <1>1, <1>2, <2>1 DEF MutexesHold, OneAt, At
  <2>3. OneAt({"push_store", "push_advance"}, "mutex2")'
    BY <1>1, <1>2 DEF MutexesHold, OneAt, At, Sems
  <2>. QED BY <2>2, <2>3 DEF MutexesHold
<1>7. PopsPending' /\ PushsPending'
  BY <1>1, <1>2 DEF PopsPending, PushsPending
<1>8. FreeQueues' = FreeQueues /\ owner' = owner
  <2>1. \A u \in Threads :
          /\ pc'[u] \in HolderPcs <=> pc[u] \in HolderPcs
          /\ pc[u] \in HolderPcs => target'[u] = target[u]
    BY <1>1, <1>2 DEF HolderPcs
  <2>. QED BY <1>1, <1>3, <2>1, QuietFree DEF TypeOK
<1>. QED BY <1>8, <1>2, <1>4, <1>5, <1>6, <1>7

\* PopRead keeps the invariant of the pool.
LEMMA PopReadStep ==
  ASSUME TypeOK, TypeOK', PoolInv, NEW t \in Threads, PopRead(t)
  PROVE  PoolInv' /\ FreeQueues' = FreeQueues /\ owner' = owner
<1>. USE DEF PoolInv
<1>1. /\ pc[t] = "pop_read"
      /\ target' = [target EXCEPT ![t] = pool[readIdx]]
      /\ pc' = [pc EXCEPT ![t] = "pop_advance"]
      /\ UNCHANGED <<count, sleepers, pool, readIdx, writeIdx, leaked>>
  BY DEF PopRead, sync, ring, hist
<1>2. /\ pc'[t] = "pop_advance" /\ target'[t] = pool[readIdx]
      /\ \A u \in Threads : u # t => pc'[u] = pc[u] /\ target'[u] = target[u]
  BY <1>1 DEF TypeOK
<1>3. SleepersAsleep'
  BY <1>1, <1>2, LocalSleepers DEF Asleep
<1>4. Avail' = Avail /\ Holding' = Holding
  BY <1>1, <1>2, SameCounts DEF CreditPcs, HolderPcs
<1>5. IndicesAgree' /\ Distinct' /\ Unused' /\ Exclusive'
  <2>1. \A u \in Threads : pc'[u] \in HolderPcs =>
           pc[u] \in HolderPcs /\ target'[u] = target[u]
    BY <1>2 DEF HolderPcs
  <2>. QED BY <1>1, <1>4, <2>1, QuietRing
<1>6. Conserved'
  BY <1>1, <1>4 DEF Conserved, Holding
<1>7. MutexesHold'
  BY <1>1, <1>2 DEF MutexesHold, OneAt, At
<1>8. PopsPending' /\ PushsPending'
  BY <1>1, <1>2 DEF PopsPending, PushsPending
<1>9. FreeQueues' = FreeQueues /\ owner' = owner
  <2>1. \A u \in Threads :
          /\ pc'[u] \in HolderPcs <=> pc[u] \in HolderPcs
          /\ pc[u] \in HolderPcs => target'[u] = target[u]
    BY <1>1, <1>2 DEF HolderPcs
  <2>. QED BY <1>1, <1>4, <2>1, QuietFree DEF TypeOK
<1>. QED BY <1>9, <1>3, <1>5, <1>6, <1>7, <1>8
\* PopAdvance keeps the invariant of the pool.
LEMMA PopAdvanceStep ==
  ASSUME TypeOK, TypeOK', PoolInv, NEW t \in Threads, PopAdvance(t)
  PROVE  /\ PoolInv'
         /\ owner[t] = NoMmQueues
         /\ target[t] \in FreeQueues
         /\ FreeQueues' = FreeQueues \ {target[t]}
         /\ owner' = [owner EXCEPT ![t] = target[t]]
<1>. USE DEF PoolInv
<1>1. /\ pc[t] = "pop_advance" /\ target[t] = pool[readIdx]
      /\ readIdx' = IF readIdx + 1 = NoMmQueues THEN 0 ELSE readIdx + 1
      /\ UpThen("mutex", t, "map")
      /\ UNCHANGED <<pool, writeIdx, target, leaked>>
  BY NextSlot DEF PopAdvance, hist, PopsPending, TypeOK
<1>2. /\ SleepersAsleep'
      /\ pc' \in [Threads -> Pcs] /\ pc'[t] = "map"
      /\ \A r \in Sems : r # "mutex" => count'[r] = count[r]
      /\ \/ /\ count'["mutex"] = count["mutex"] + 1
            /\ \A u \in Threads : u # t => pc'[u] = pc[u]
         \/ /\ count'["mutex"] = count["mutex"]
            /\ \E w \in Threads :
                 /\ w # t
                 /\ pc[w] = "mutex_sleep" /\ pc'[w] = "pop_read"
                 /\ \A u \in Threads : u # t /\ u # w => pc'[u] = pc[u]
  <2>1. "map" \in Pcs /\ pc[t] \notin Asleep /\ "mutex" \in Sems
    BY <1>1 DEF Pcs, HolderPcs, Asleep, Sems
  <2>2. AsleepPc["mutex"] = "mutex_sleep" /\ AwakePc["mutex"] = "pop_read"
    BY DEF AsleepPc, AwakePc
  <2>. QED BY <1>1, <2>1, <2>2, UpMoves
<1>3. Avail' = Avail - 1 /\ Holding' = Holding + 1
  <2>1. pc \in [Threads -> Pcs]
    BY DEF TypeOK
  <2>2. /\ Count(pc', CreditPcs) = Count(pc, CreditPcs) - 1
        /\ Count(pc', HolderPcs) = Count(pc, HolderPcs) + 1
    <3>1. CASE \A u \in Threads : u # t => pc'[u] = pc[u]
      BY <1>1, <1>2, <2>1, <3>1, CountExcept DEF CreditPcs, HolderPcs
    <3>2. CASE \E w \in Threads :
                 /\ w # t
                 /\ pc[w] = "mutex_sleep" /\ pc'[w] = "pop_read"
                 /\ \A u \in Threads : u # t /\ u # w => pc'[u] = pc[u]
      BY <1>1, <1>2, <2>1, <3>2, CountExceptTwo DEF CreditPcs, HolderPcs
    <3>. QED BY <1>2, <3>1, <3>2
  <2>3. /\ Avail' = count'["sem"] + Count(pc', CreditPcs)
        /\ Holding' = Count(pc', HolderPcs)
    BY DEF Avail, Holding, At, Count
  <2>4. count'["sem"] = count["sem"] /\ count["sem"] \in Nat
    BY <1>2 DEF Sems, TypeOK
  <2>5. Count(pc, CreditPcs) \in Nat
    BY <2>1, CountExcept
  <2>. QED BY <2>2, <2>3, <2>4, <2>5, Numbers
<1>4. /\ Avail \in Nat /\ Avail >= 1 /\ Avail <= NoMmQueues /\ Holding \in Nat
      /\ readIdx \in Slots /\ writeIdx \in Slots /\ Live(readIdx)
      /\ Avail + Holding + leaked = NoMmQueues /\ leaked \in Nat
  BY <1>1, Numbers, RingEnds DEF CreditPcs, TypeOK
<1>5. \A i \in Slots : Live(i)' <=> Live(i) /\ i # readIdx
  <2>. SUFFICES ASSUME NEW i \in Slots PROVE Live(i)' <=> Live(i) /\ i # readIdx
    OBVIOUS
  <2>1. /\ readIdx \in Nat /\ readIdx < NoMmQueues /\ NoMmQueues \in Nat
        /\ i \in Nat /\ i < NoMmQueues
    BY <1>4 DEF Slots
  <2>2. Dist(i)' = IF i = readIdx THEN NoMmQueues - 1 ELSE Dist(i) - 1
    BY <1>1, <2>1 DEF Dist
  <2>3. Dist(i) \in Nat /\ (i = readIdx => Dist(i) = 0)
    BY <2>1 DEF Dist
  <2>. QED BY <1>3, <1>4, <2>1, <2>2, <2>3 DEF Live
<1>6. \A u \in Threads : u # t /\ pc'[u] \in HolderPcs => pc[u] \in HolderPcs
  BY <1>2 DEF HolderPcs
<1>7. Conserved'
  <2>1. Avail' + Holding' + leaked' = NoMmQueues
    BY <1>1, <1>3, <1>4
  <2>. QED BY <2>1 DEF Conserved, Holding
<1>8. IndicesAgree'
  BY <1>1, <1>3, <1>4 DEF IndicesAgree, Slots
<1>9. Distinct'
  BY <1>1, <1>5 DEF Distinct
<1>10. Unused'
  BY <1>1, <1>4, <1>5, <1>6 DEF Unused, Distinct, At
<1>11. Exclusive'
  BY <1>1, <1>4, <1>6 DEF Unused, Exclusive, At
<1>12. MutexesHold'
  <2>1. count["mutex"] = 0 /\ \A u \in Threads : u # t =>
          pc[u] \notin {"pop_read", "pop_advance"}
    BY <1>1 DEF MutexesHold, OneAt, At
  <2>2. OneAt({"pop_read", "pop_advance"}, "mutex")'
    BY <1>2, <2>1 DEF OneAt, At
  <2>3. OneAt({"push_store", "push_advance"}, "mutex2")'
    BY <1>1, <1>2 DEF MutexesHold, OneAt, At, Sems
  <2>. QED BY <2>2, <2>3 DEF MutexesHold
<1>13. PopsPending'
  BY <1>1, <1>2 DEF PopsPending, MutexesHold, OneAt, At
<1>14. PushsPending'
  BY <1>1, <1>2 DEF PushsPending
<1>15. target[t] \in FreeQueues /\ FreeQueues' = FreeQueues \ {target[t]}
  <2>1. pool' = pool /\ \A i \in Slots : Live(i) /\ i # readIdx => pool[i] # target[t]
    BY <1>1, <1>4 DEF Distinct
  <2>2. FreeQueues' = {pool[i] : i \in {j \in Slots : Live(j) /\ j # readIdx}}
    BY <1>5, <2>1 DEF FreeQueues
  <2>. QED BY <1>1, <1>4, <2>1, <2>2 DEF FreeQueues
<1>16. owner[t] = NoMmQueues /\ owner' = [owner EXCEPT ![t] = target[t]]
  <2>1. pc[t] \notin HolderPcs /\ pc'[t] \in HolderPcs
    BY <1>1, <1>2 DEF HolderPcs
  <2>2. \A u \in Threads : u # t => (pc'[u] \in HolderPcs <=> pc[u] \in HolderPcs)
    BY <1>2 DEF HolderPcs
  <2>. QED BY <1>1, <2>1, <2>2 DEF owner
<1>. QED BY <1>15, <1>16, <1>2, <1>7, <1>8, <1>9, <1>10, <1>11, <1>12, <1>13, <1>14

\* Steps of a holder that touch neither the ring nor a semaphore.
LEMMA HolderStep ==
  ASSUME TypeOK, TypeOK', PoolInv, NEW t \in Threads, MapOk(t) \/ DmaReturns(t)
  PROVE  PoolInv' /\ FreeQueues' = FreeQueues /\ owner' = owner
<1>. USE DEF PoolInv
<1>1. /\ \/ pc[t] = "map" /\ pc' = [pc EXCEPT ![t] = "dma"]
         \/ pc[t] = "dma" /\ pc' = [pc EXCEPT ![t] = "mutex2_down"]
      /\ UNCHANGED <<count, sleepers, pool, readIdx, writeIdx, target, leaked>>
  BY DEF MapOk, DmaReturns, sync, ring, hist
<1>2. /\ pc[t] \in {"map", "dma"} /\ pc'[t] \in {"dma", "mutex2_down"}
      /\ \A u \in Threads : u # t => pc'[u] = pc[u]
  BY <1>1 DEF TypeOK
<1>3. SleepersAsleep'
  BY <1>1, <1>2, LocalSleepers DEF Asleep
<1>4. Avail' = Avail /\ Holding' = Holding
  BY <1>1, <1>2, SameCounts DEF CreditPcs, HolderPcs
<1>5. IndicesAgree' /\ Distinct' /\ Unused' /\ Exclusive'
  <2>1. \A u \in Threads : pc'[u] \in HolderPcs =>
           pc[u] \in HolderPcs /\ target'[u] = target[u]
    BY <1>1, <1>2 DEF HolderPcs
  <2>. QED BY <1>1, <1>4, <2>1, QuietRing
<1>6. Conserved'
  BY <1>1, <1>4 DEF Conserved, Holding
<1>7. MutexesHold'
  BY <1>1, <1>2 DEF MutexesHold, OneAt, At
<1>8. PopsPending' /\ PushsPending'
  BY <1>1, <1>2 DEF PopsPending, PushsPending
<1>9. FreeQueues' = FreeQueues /\ owner' = owner
  <2>1. \A u \in Threads :
          /\ pc'[u] \in HolderPcs <=> pc[u] \in HolderPcs
          /\ pc[u] \in HolderPcs => target'[u] = target[u]
    BY <1>1, <1>2 DEF HolderPcs
  <2>. QED BY <1>1, <1>4, <2>1, QuietFree DEF TypeOK
<1>. QED BY <1>9, <1>3, <1>5, <1>6, <1>7, <1>8

\* MapFails keeps the invariant of the pool.
LEMMA MapFailsStep ==
  ASSUME TypeOK, TypeOK', PoolInv, NEW t \in Threads, MapFails(t)
  PROVE  /\ PoolInv'
         /\ FreeQueues' = FreeQueues
         /\ owner[t] # NoMmQueues
         /\ owner' = [owner EXCEPT ![t] = NoMmQueues]
<1>. USE DEF PoolInv
<1>1. /\ pc[t] = "map" /\ pc' = [pc EXCEPT ![t] = "idle"]
      /\ leaked' = leaked + 1
      /\ UNCHANGED <<count, sleepers, pool, readIdx, writeIdx, target>>
  BY DEF MapFails, sync, ring
<1>2. pc'[t] = "idle" /\ \A u \in Threads : u # t => pc'[u] = pc[u]
  BY <1>1 DEF TypeOK
<1>3. SleepersAsleep'
  BY <1>1, <1>2, LocalSleepers DEF Asleep
<1>4. Avail' = Avail /\ Holding' = Holding - 1
  <2>1. pc \in [Threads -> Pcs] /\ pc' \in [Threads -> Pcs]
    BY DEF TypeOK
  <2>2. /\ Count(pc', CreditPcs) = Count(pc, CreditPcs)
        /\ Count(pc', HolderPcs) = Count(pc, HolderPcs) - 1
    <3>1. /\ pc[t] \notin CreditPcs /\ pc'[t] \notin CreditPcs
          /\ pc[t] \in HolderPcs /\ pc'[t] \notin HolderPcs
      BY <1>1, <1>2 DEF CreditPcs, HolderPcs
    <3>. QED BY <1>2, <2>1, <3>1, CountExcept
  <2>. QED BY <1>1, <2>2 DEF Avail, Holding, At, Count
<1>5. IndicesAgree' /\ Distinct' /\ Unused' /\ Exclusive'
  <2>1. \A u \in Threads : pc'[u] \in HolderPcs =>
           pc[u] \in HolderPcs /\ target'[u] = target[u]
    BY <1>1, <1>2 DEF HolderPcs
  <2>. QED BY <1>1, <1>4, <2>1, QuietRing
<1>6. Conserved'
  <2>1. Avail' + Holding' + leaked' = NoMmQueues
    BY <1>1, <1>4, RingEnds
  <2>. QED BY <2>1 DEF Conserved, Holding
<1>7. MutexesHold'
  BY <1>1, <1>2 DEF MutexesHold, OneAt, At
<1>8. PopsPending' /\ PushsPending'
  BY <1>1, <1>2 DEF PopsPending, PushsPending
<1>9. /\ FreeQueues' = FreeQueues
      /\ owner[t] # NoMmQueues
      /\ owner' = [owner EXCEPT ![t] = NoMmQueues]
  <2>1. FreeQueues' = FreeQueues
    BY <1>1, <1>4, SameFree DEF TypeOK
  <2>2. owner[t] # NoMmQueues
    BY <1>1 DEF owner, HolderPcs, TypeOK, Queues
  <2>. QED BY <1>1, <1>2, <2>1, <2>2 DEF owner, HolderPcs
<1>. QED BY <1>9, <1>3, <1>5, <1>6, <1>7, <1>8

\* Mutex2Down keeps the invariant of the pool.
LEMMA Mutex2DownStep ==
  ASSUME TypeOK, TypeOK', PoolInv, NEW t \in Threads, Mutex2Down(t)
  PROVE  PoolInv' /\ FreeQueues' = FreeQueues /\ owner' = owner
<1>. USE DEF PoolInv
<1>1. pc[t] = "mutex2_down" /\ Down("mutex2", t)
      /\ UNCHANGED <<pool, readIdx, writeIdx, target, leaked>>
  BY DEF Mutex2Down, ring, hist
<1>2. /\ SleepersAsleep'
      /\ \A u \in Threads : u # t => pc'[u] = pc[u]
      /\ \A r \in Sems : r # "mutex2" => count'[r] = count[r]
      /\ \/ /\ count["mutex2"] > 0
            /\ count'["mutex2"] = count["mutex2"] - 1
            /\ pc'[t] = "push_store"
         \/ count'["mutex2"] = count["mutex2"] /\ pc'[t] = "mutex2_sleep"
  BY <1>1, DownMoves DEF Asleep, Sems, AwakePc, AsleepPc
<1>3. Avail' = Avail /\ Holding' = Holding
  BY <1>1, <1>2, SameCounts DEF Sems, CreditPcs, HolderPcs
<1>4. IndicesAgree' /\ Distinct' /\ Unused' /\ Exclusive'
  <2>1. \A u \in Threads : pc'[u] \in HolderPcs =>
           pc[u] \in HolderPcs /\ target'[u] = target[u]
    BY <1>1, <1>2 DEF HolderPcs
  <2>. QED BY <1>1, <1>3, <2>1, QuietRing
<1>5. Conserved'
  BY <1>1, <1>3 DEF Conserved, Holding
<1>6. MutexesHold'
  <2>1. count["mutex2"] \in Nat
    BY DEF TypeOK, Sems
  <2>2. OneAt({"push_store", "push_advance"}, "mutex2")'
    BY <1>1, <1>2, <2>1 DEF MutexesHold, OneAt, At
  <2>3. OneAt({"pop_read", "pop_advance"}, "mutex")'
    BY <1>1, <1>2 DEF MutexesHold, OneAt, At, Sems
  <2>. QED BY <2>2, <2>3 DEF MutexesHold
<1>7. PopsPending' /\ PushsPending'
  BY <1>1, <1>2 DEF PopsPending, PushsPending
<1>8. FreeQueues' = FreeQueues /\ owner' = owner
  <2>1. \A u \in Threads :
          /\ pc'[u] \in HolderPcs <=> pc[u] \in HolderPcs
          /\ pc[u] \in HolderPcs => target'[u] = target[u]
    BY <1>1, <1>2 DEF HolderPcs
  <2>. QED BY <1>1, <1>3, <2>1, QuietFree DEF TypeOK
<1>. QED BY <1>8, <1>2, <1>4, <1>5, <1>6, <1>7
\* PushStore keeps the invariant of the pool.
LEMMA PushStoreStep ==
  ASSUME TypeOK, TypeOK', PoolInv, NEW t \in Threads, PushStore(t)
  PROVE  PoolInv' /\ FreeQueues' = FreeQueues /\ owner' = owner
<1>. USE DEF PoolInv
<1>1. /\ pc[t] = "push_store"
      /\ pool' = [pool EXCEPT ![writeIdx] = target[t]]
      /\ pc' = [pc EXCEPT ![t] = "push_advance"]
      /\ UNCHANGED <<count, sleepers, readIdx, writeIdx, target, leaked>>
  BY DEF PushStore, sync, hist
<1>2. /\ pc'[t] = "push_advance"
      /\ \A u \in Threads : u # t => pc'[u] = pc[u]
  BY <1>1 DEF TypeOK
<1>3. SleepersAsleep'
  BY <1>1, <1>2, LocalSleepers DEF Asleep
<1>4. Avail' = Avail /\ Holding' = Holding
  BY <1>1, <1>2, SameCounts DEF CreditPcs, HolderPcs
<1>5. /\ Avail \in Nat /\ Avail < NoMmQueues
      /\ writeIdx \in Slots /\ ~Live(writeIdx)
  <2>1. Holding >= 1
    BY <1>1, Numbers DEF HolderPcs
  <2>2. Avail < NoMmQueues
    BY <2>1, RingEnds
  <2>. QED BY <2>2, RingEnds DEF Live, TypeOK
<1>6. /\ pool'[writeIdx] = target[t]
      /\ \A i \in Slots : Live(i) => pool'[i] = pool[i]
  BY <1>1, <1>5 DEF TypeOK
<1>7. \A i \in Slots : Live(i)' <=> Live(i)
  BY <1>1, <1>4 DEF Live, Dist
<1>8. \A u \in Threads : pc'[u] \in HolderPcs => pc[u] \in HolderPcs
  BY <1>1, <1>2 DEF HolderPcs
<1>9. IndicesAgree' /\ Conserved'
  BY <1>1, <1>4 DEF IndicesAgree, Conserved, Holding
<1>10. Distinct'
  BY <1>6, <1>7 DEF Distinct
<1>11. Unused'
  BY <1>1, <1>6, <1>7, <1>8 DEF Unused, At
<1>12. Exclusive'
  BY <1>1, <1>8 DEF Exclusive, At
<1>13. MutexesHold'
  BY <1>1, <1>2 DEF MutexesHold, OneAt, At
<1>14. PopsPending'
  <2>. SUFFICES ASSUME NEW u \in Threads, pc'[u] = "pop_advance"
                PROVE  target'[u] = pool'[readIdx]
    BY <1>1 DEF PopsPending
  <2>1. pc[u] = "pop_advance"
    BY <1>2
  <2>2. Live(readIdx) /\ readIdx \in Slots
    BY <2>1, Numbers, RingEnds DEF CreditPcs, TypeOK
  <2>. QED BY <1>1, <1>6, <2>1, <2>2 DEF PopsPending
<1>15. PushsPending'
  BY <1>1, <1>2, <1>6 DEF PushsPending, MutexesHold, OneAt, At
<1>16. FreeQueues' = FreeQueues /\ owner' = owner
  <2>1. \A u \in Threads :
          /\ pc'[u] \in HolderPcs <=> pc[u] \in HolderPcs
          /\ pc[u] \in HolderPcs => target'[u] = target[u]
    BY <1>1, <1>2 DEF HolderPcs
  <2>. QED BY <1>1, <1>4, <1>6, <2>1, QuietFree DEF TypeOK
<1>. QED BY <1>16, <1>3, <1>9, <1>10, <1>11, <1>12, <1>13, <1>14, <1>15

\* PushAdvance keeps the invariant of the pool.
LEMMA PushAdvanceStep ==
  ASSUME TypeOK, TypeOK', PoolInv, NEW t \in Threads, PushAdvance(t)
  PROVE  /\ PoolInv'
         /\ owner[t] # NoMmQueues
         /\ FreeQueues' = FreeQueues \union {owner[t]}
         /\ owner' = [owner EXCEPT ![t] = NoMmQueues]
<1>. USE DEF PoolInv
<1>1. /\ pc[t] = "push_advance" /\ target[t] = pool[writeIdx]
      /\ writeIdx' = IF writeIdx + 1 = NoMmQueues THEN 0 ELSE writeIdx + 1
      /\ UpThen("mutex2", t, "sem_up")
      /\ UNCHANGED <<pool, readIdx, target, leaked>>
  BY NextSlot DEF PushAdvance, hist, PushsPending, TypeOK
<1>2. /\ SleepersAsleep'
      /\ pc' \in [Threads -> Pcs] /\ pc'[t] = "sem_up"
      /\ \A r \in Sems : r # "mutex2" => count'[r] = count[r]
      /\ \/ /\ count'["mutex2"] = count["mutex2"] + 1
            /\ \A u \in Threads : u # t => pc'[u] = pc[u]
         \/ /\ count'["mutex2"] = count["mutex2"]
            /\ \E w \in Threads :
                 /\ w # t
                 /\ pc[w] = "mutex2_sleep" /\ pc'[w] = "push_store"
                 /\ \A u \in Threads : u # t /\ u # w => pc'[u] = pc[u]
  <2>1. "sem_up" \in Pcs /\ pc[t] \notin Asleep /\ "mutex2" \in Sems
    BY <1>1 DEF Pcs, CreditPcs, Asleep, Sems
  <2>2. AsleepPc["mutex2"] = "mutex2_sleep" /\ AwakePc["mutex2"] = "push_store"
    BY DEF AsleepPc, AwakePc
  <2>. QED BY <1>1, <2>1, <2>2, UpMoves
<1>3. Avail' = Avail + 1 /\ Holding' = Holding - 1
  <2>1. pc \in [Threads -> Pcs]
    BY DEF TypeOK
  <2>2. /\ Count(pc', CreditPcs) = Count(pc, CreditPcs) + 1
        /\ Count(pc', HolderPcs) = Count(pc, HolderPcs) - 1
    <3>1. /\ pc[t] \notin CreditPcs /\ pc'[t] \in CreditPcs
          /\ pc[t] \in HolderPcs /\ pc'[t] \notin HolderPcs
          /\ "mutex2_sleep" \notin CreditPcs /\ "push_store" \notin CreditPcs
          /\ "mutex2_sleep" \in HolderPcs /\ "push_store" \in HolderPcs
      BY <1>1, <1>2 DEF CreditPcs, HolderPcs
    <3>2. CASE \A u \in Threads : u # t => pc'[u] = pc[u]
      BY <1>2, <2>1, <3>1, <3>2, CountExcept
    <3>3. CASE \E w \in Threads :
                 /\ w # t
                 /\ pc[w] = "mutex2_sleep" /\ pc'[w] = "push_store"
                 /\ \A u \in Threads : u # t /\ u # w => pc'[u] = pc[u]
      BY <1>2, <2>1, <3>1, <3>3, CountExceptTwo
    <3>. QED BY <1>2, <3>2, <3>3
  <2>3. /\ Avail' = count'["sem"] + Count(pc', CreditPcs)
        /\ Holding' = Count(pc', HolderPcs)
    BY DEF Avail, Holding, At, Count
  <2>4. count'["sem"] = count["sem"] /\ count["sem"] \in Nat
    BY <1>2 DEF Sems, TypeOK
  <2>5. Count(pc, CreditPcs) \in Nat
    BY <2>1, CountExcept
  <2>. QED BY <2>2, <2>3, <2>4, <2>5, Numbers
<1>4. /\ Avail \in Nat /\ Avail < NoMmQueues /\ Holding \in Nat /\ Holding >= 1
      /\ readIdx \in Slots /\ writeIdx \in Slots /\ Dist(writeIdx) = Avail
      /\ Avail + Holding + leaked = NoMmQueues /\ leaked \in Nat
  <2>1. Holding >= 1
    BY <1>1, Numbers DEF HolderPcs
  <2>2. Avail < NoMmQueues
    BY <2>1, RingEnds
  <2>. QED BY <2>1, <2>2, RingEnds DEF TypeOK
<1>5. \A i \in Slots : Live(i)' <=> Live(i) \/ i = writeIdx
  <2>. SUFFICES ASSUME NEW i \in Slots PROVE Live(i)' <=> Live(i) \/ i = writeIdx
    OBVIOUS
  <2>1. Dist(i)' = Dist(i)
    BY <1>1 DEF Dist
  <2>2. Dist(i) \in Nat
    BY RingEnds DEF Slots
  <2>3. Dist(i) = Avail <=> i = writeIdx
    BY <1>4, RingEnds
  <2>. QED BY <1>3, <1>4, <2>1, <2>2, <2>3 DEF Live
<1>6. \A u \in Threads : pc'[u] \in HolderPcs => pc[u] \in HolderPcs /\ u # t
  BY <1>2 DEF HolderPcs
<1>7. t \in At(HolderPcs)
  BY <1>1 DEF At, HolderPcs
<1>8. Conserved'
  <2>1. Avail' + Holding' + leaked' = NoMmQueues
    BY <1>1, <1>3, <1>4
  <2>. QED BY <2>1 DEF Conserved, Holding
<1>9. IndicesAgree'
  BY <1>1, <1>3, <1>4 DEF IndicesAgree, Slots
<1>10. Distinct'
  BY <1>1, <1>4, <1>5, <1>7 DEF Distinct, Unused
<1>11. Unused'
  BY <1>1, <1>4, <1>5, <1>6, <1>7 DEF Unused, Exclusive, At
<1>12. Exclusive'
  BY <1>1, <1>6 DEF Exclusive, At
<1>13. MutexesHold'
  <2>1. count["mutex2"] = 0 /\ \A u \in Threads : u # t =>
          pc[u] \notin {"push_store", "push_advance"}
    BY <1>1 DEF MutexesHold, OneAt, At
  <2>2. OneAt({"push_store", "push_advance"}, "mutex2")'
    BY <1>2, <2>1 DEF OneAt, At
  <2>3. OneAt({"pop_read", "pop_advance"}, "mutex")'
    BY <1>1, <1>2 DEF MutexesHold, OneAt, At, Sems
  <2>. QED BY <2>2, <2>3 DEF MutexesHold
<1>14. PopsPending'
  BY <1>1, <1>2 DEF PopsPending
<1>15. PushsPending'
  BY <1>1, <1>2 DEF PushsPending, MutexesHold, OneAt, At
<1>16. owner[t] = target[t] /\ owner[t] # NoMmQueues
  BY <1>1 DEF owner, HolderPcs, TypeOK, Queues
<1>17. /\ FreeQueues' = FreeQueues \union {owner[t]}
       /\ owner' = [owner EXCEPT ![t] = NoMmQueues]
  <2>1. FreeQueues' = {pool[i] : i \in {j \in Slots : Live(j) \/ j = writeIdx}}
    BY <1>1, <1>5 DEF FreeQueues
  <2>2. FreeQueues' = FreeQueues \union {owner[t]}
    BY <1>1, <1>4, <1>16, <2>1 DEF FreeQueues
  <2>3. pc'[t] \notin HolderPcs
    BY <1>2 DEF HolderPcs
  <2>4. \A u \in Threads : u # t => (pc'[u] \in HolderPcs <=> pc[u] \in HolderPcs)
    BY <1>2 DEF HolderPcs
  <2>. QED BY <1>1, <2>2, <2>3, <2>4 DEF owner
<1>. QED BY <1>16, <1>17, <1>2, <1>8, <1>9, <1>10, <1>11, <1>12, <1>13, <1>14, <1>15
\* SemUp keeps the invariant of the pool.
LEMMA SemUpStep ==
  ASSUME TypeOK, TypeOK', PoolInv, NEW t \in Threads, SemUp(t)
  PROVE  PoolInv' /\ FreeQueues' = FreeQueues /\ owner' = owner
<1>. USE DEF PoolInv
<1>1. /\ pc[t] = "sem_up" /\ UpThen("sem", t, "idle")
      /\ UNCHANGED <<pool, readIdx, writeIdx, target, leaked>>
  BY DEF SemUp, ring, hist
<1>2. /\ SleepersAsleep'
      /\ pc' \in [Threads -> Pcs] /\ pc'[t] = "idle"
      /\ \A r \in Sems : r # "sem" => count'[r] = count[r]
      /\ \/ /\ count'["sem"] = count["sem"] + 1
            /\ \A u \in Threads : u # t => pc'[u] = pc[u]
         \/ /\ count'["sem"] = count["sem"]
            /\ \E w \in Threads :
                 /\ w # t
                 /\ pc[w] = "sem_sleep" /\ pc'[w] = "mutex_down"
                 /\ \A u \in Threads : u # t /\ u # w => pc'[u] = pc[u]
  <2>1. "idle" \in Pcs /\ pc[t] \notin Asleep /\ "sem" \in Sems
    BY <1>1 DEF Pcs, Asleep, Sems
  <2>2. AsleepPc["sem"] = "sem_sleep" /\ AwakePc["sem"] = "mutex_down"
    BY DEF AsleepPc, AwakePc
  <2>. QED BY <1>1, <2>1, <2>2, UpMoves
<1>3. Avail' = Avail /\ Holding' = Holding
  <2>1. /\ pc[t] \in CreditPcs /\ pc'[t] \notin CreditPcs
        /\ pc[t] \notin HolderPcs /\ pc'[t] \notin HolderPcs
        /\ "sem_sleep" \notin CreditPcs /\ "mutex_down" \in CreditPcs
        /\ "sem_sleep" \notin HolderPcs /\ "mutex_down" \notin HolderPcs
    BY <1>1, <1>2 DEF CreditPcs, HolderPcs
  <2>2. pc \in [Threads -> Pcs] /\ count["sem"] \in Nat
    BY DEF TypeOK, Sems
  <2>3. Count(pc, CreditPcs) \in Nat
    BY <2>2, CountExcept
  <2>4. CASE /\ count'["sem"] = count["sem"] + 1
             /\ \A u \in Threads : u # t => pc'[u] = pc[u]
    <3>1. /\ Count(pc', CreditPcs) = Count(pc, CreditPcs) - 1
          /\ Count(pc', HolderPcs) = Count(pc, HolderPcs)
      BY <1>2, <2>1, <2>2, <2>4, CountExcept
    <3>2. count'["sem"] + Count(pc', CreditPcs) = count["sem"] + Count(pc, CreditPcs)
      BY <2>2, <2>3, <2>4, <3>1
    <3>. QED BY <3>1, <3>2 DEF Avail, Holding, At, Count
  <2>5. CASE /\ count'["sem"] = count["sem"]
             /\ \E w \in Threads :
                  /\ w # t
                  /\ pc[w] = "sem_sleep" /\ pc'[w] = "mutex_down"
                  /\ \A u \in Threads : u # t /\ u # w => pc'[u] = pc[u]
    <3>1. /\ Count(pc', CreditPcs) = Count(pc, CreditPcs)
          /\ Count(pc', HolderPcs) = Count(pc, HolderPcs)
      BY <1>2, <2>1, <2>2, <2>5, CountExceptTwo
    <3>. QED BY <2>5, <3>1 DEF Avail, Holding, At, Count
  <2>. QED BY <1>2, <2>4, <2>5
<1>4. IndicesAgree' /\ Distinct' /\ Unused' /\ Exclusive'
  <2>1. \A u \in Threads : pc'[u] \in HolderPcs =>
           pc[u] \in HolderPcs /\ target'[u] = target[u]
    BY <1>1, <1>2 DEF HolderPcs
  <2>. QED BY <1>1, <1>3, <2>1, QuietRing
<1>5. Conserved'
  BY <1>1, <1>3 DEF Conserved, Holding
<1>6. MutexesHold'
  BY <1>1, <1>2 DEF MutexesHold, OneAt, At, Sems
<1>7. PopsPending' /\ PushsPending'
  BY <1>1, <1>2 DEF PopsPending, PushsPending
<1>8. FreeQueues' = FreeQueues /\ owner' = owner
  <2>1. \A u \in Threads :
          /\ pc'[u] \in HolderPcs <=> pc[u] \in HolderPcs
          /\ pc[u] \in HolderPcs => target'[u] = target[u]
    BY <1>1, <1>2 DEF HolderPcs
  <2>. QED BY <1>1, <1>3, <2>1, QuietFree DEF TypeOK
<1>. QED BY <1>8, <1>2, <1>4, <1>5, <1>6, <1>7

\* onic_open() with nobody in the device: the initial state of the pool again.
LEMMA ReinitStep ==
  ASSUME TypeOK, TypeOK', onic_init_cdev, ~overlap'
  PROVE  /\ PoolInv'
         /\ \A t \in Threads : owner[t] = NoMmQueues
         /\ owner' = owner
         /\ FreeQueues' = Queues
<1>1. \A t \in Threads : pc'[t] = "idle"
  BY DEF onic_init_cdev, TypeOK
<1>2. At({"pop_read", "pop_advance"})' = {} /\ At({"push_store", "push_advance"})' = {}
      /\ At(CreditPcs)' = {} /\ At(HolderPcs)' = {}
  BY <1>1 DEF At, CreditPcs, HolderPcs
<1>3. Avail' = NoMmQueues /\ Cardinality(At(HolderPcs))' = 0
  BY <1>2, FS_EmptySet DEF onic_init_cdev, Avail, Sems
<1>4. SleepersAsleep'
  BY DEF onic_init_cdev, SleepersAsleep, Sems
<1>5. MutexesHold'
  BY <1>2 DEF onic_init_cdev, MutexesHold, OneAt, Sems
<1>6. PopsPending' /\ PushsPending'
  BY <1>1 DEF PopsPending, PushsPending
<1>7. IndicesAgree' /\ Conserved'
  BY <1>3 DEF onic_init_cdev, IndicesAgree, Conserved
<1>8. Distinct' /\ Unused' /\ Exclusive'
  BY <1>2 DEF onic_init_cdev, Distinct, Unused, Exclusive
<1>9. owner' = owner /\ \A t \in Threads : owner[t] = NoMmQueues
  BY <1>1 DEF onic_init_cdev, owner, HolderPcs
<1>10. FreeQueues' = Queues
  <2>1. \A i \in Slots : Live(i)' /\ pool'[i] = i
    BY <1>3 DEF onic_init_cdev, Live, Dist, Slots
  <2>. QED BY <2>1 DEF FreeQueues, Slots, Queues
<1>. QED BY <1>9, <1>10, <1>4, <1>5, <1>6, <1>7, <1>8 DEF PoolInv

---------------------------------------------------------------------------
(* The theorems.                                                           *)

\* Every step keeps the invariant until an onic_open() cuts into a call.
LEMMA PoolStep == TypeOK /\ PoolInvariant /\ [Next]_vars => PoolInvariant'
<1>. SUFFICES ASSUME TypeOK, PoolInvariant, [Next]_vars, ~overlap'
              PROVE  PoolInv'
  BY DEF PoolInvariant
<1>1. TypeOK'
  BY TypeStep
<1>2. CASE onic_init_cdev
  BY <1>1, <1>2, ReinitStep
<1>3. CASE UNCHANGED vars
  <2>1. PoolInv
    BY <1>3 DEF PoolInvariant, vars
  <2>. QED BY <1>3, <2>1 DEF vars, PoolInv, SleepersAsleep, MutexesHold, OneAt,
         PopsPending, PushsPending, IndicesAgree, Conserved, Distinct, Unused,
         Exclusive, Avail, Live, Dist, At
<1>4. ASSUME NEW t \in Threads, SemDown(t) \/ Continue(t) \/ MapFails(t)
      PROVE  PoolInv'
  <2>1. ~overlap
    BY <1>4 DEF SemDown, Continue, MapFails, MutexDown, PopRead, PopAdvance,
         MapOk, DmaReturns, Mutex2Down, PushStore, PushAdvance, SemUp, hist
  <2>2. PoolInv
    BY <2>1 DEF PoolInvariant
  <2>. QED
    BY <1>1, <1>4, <2>2, SemDownStep, MutexDownStep, PopReadStep,
       PopAdvanceStep, HolderStep, MapFailsStep, Mutex2DownStep, PushStoreStep,
       PushAdvanceStep, SemUpStep DEF Continue
<1>. QED BY <1>2, <1>3, <1>4 DEF Next

\* The invariant that ties semaphores, indices, ring and callers together
\* holds for every number of callers and queues, until an onic_open() cuts
\* into a call.
THEOREM PoolInvariantHolds == Spec => []PoolInvariant
<1>1. Init => PoolInvariant
  BY PoolInit DEF PoolInvariant
<1>. QED BY <1>1, TypeCorrect, PoolStep, PTL DEF Spec

\* No two calls of read() (or of write()) ever use the same DMA queue.
THEOREM ExclusiveQueues == Spec => []QueueExclusive
<1>1. PoolInvariant => QueueExclusive
  BY DEF PoolInvariant, PoolInv, QueueExclusive
<1>. QED BY <1>1, PoolInvariantHolds, PTL

\* Queue numbers are neither lost nor forged by the pops and pushes.
THEOREM ConservedQueues == Spec => []QueuesConserved
<1>1. PoolInvariant => QueuesConserved
  BY DEF PoolInvariant, PoolInv, QueuesConserved
<1>. QED BY <1>1, PoolInvariantHolds, PTL

\* A queue number in the ring is there once and in nobody's hands.
THEOREM FreeRing == Spec => []RingIsFree
<1>1. PoolInvariant => RingIsFree
  BY DEF PoolInvariant, PoolInv, RingIsFree
<1>. QED BY <1>1, PoolInvariantHolds, PTL
---------------------------------------------------------------------------
(* Refinement: the ring with its semaphores implements QueueAllocator.     *)

\* The state after the first onic_open() is the allocator's initial state.
LEMMA AllocatorInit == Init => Allocator!Init
<1>. SUFFICES ASSUME Init PROVE Allocator!Init
  OBVIOUS
<1>1. At(CreditPcs) = {}
  BY DEF Init, At, CreditPcs
<1>2. Avail = NoMmQueues
  BY <1>1, FS_EmptySet DEF Init, Avail, Sems
<1>3. \A i \in Slots : Live(i) /\ pool[i] = i
  BY <1>2 DEF Init, Live, Dist, Slots
<1>4. FreeQueues = Queues
  BY <1>3 DEF FreeQueues, Slots, Queues
<1>5. owner = [t \in Threads |-> NoMmQueues]
  BY DEF Init, owner, HolderPcs
<1>. QED BY <1>4, <1>5 DEF Allocator!Init, FreeQueues, Init

\* Every step is a step of the allocator or leaves it alone: the pop of a
\* queue number is Acquire, its push Release, a failed mapping Lose, an
\* onic_open() Reset or, during a call, Break.
LEMMA AllocatorStep ==
  TypeOK /\ PoolInvariant /\ [Next]_vars => [Allocator!Next]_(Allocator!vars)
<1>. SUFFICES ASSUME TypeOK, PoolInvariant, [Next]_vars
              PROVE  Allocator!Next \/ UNCHANGED Allocator!vars
  OBVIOUS
<1>0. TypeOK'
  BY TypeStep
<1>1. CASE overlap'
  BY <1>0, <1>1 DEF Allocator!Next, Allocator!Break, TypeOK
<1>2. CASE UNCHANGED vars
  BY <1>2 DEF vars, Allocator!vars, Live, Dist, Avail, At, owner
<1>3. CASE onic_init_cdev /\ ~overlap'
  <2>1. overlap' = overlap
    BY <1>0, <1>3 DEF onic_init_cdev, TypeOK
  <2>2. /\ \A t \in Threads : owner[t] = NoMmQueues
        /\ owner' = owner /\ FreeQueues' = Queues
    BY <1>0, <1>3, ReinitStep
  <2>. QED BY <2>1, <2>2 DEF Allocator!Next, Allocator!Reset, FreeQueues
<1>4. ASSUME NEW t \in Threads, SemDown(t) \/ Continue(t) \/ MapFails(t),
             ~overlap'
      PROVE  Allocator!Next \/ UNCHANGED Allocator!vars
  <2>1. overlap' = overlap
    BY <1>4 DEF SemDown, Continue, MapFails, MutexDown, PopRead, PopAdvance,
         MapOk, DmaReturns, Mutex2Down, PushStore, PushAdvance, SemUp, hist
  <2>2. PoolInv
    BY <1>4, <2>1 DEF PoolInvariant
  <2>3. CASE PopAdvance(t)
    <3>1. Allocator!Acquire(t)
      BY <1>0, <2>1, <2>2, <2>3, PopAdvanceStep DEF Allocator!Acquire, FreeQueues
    <3>. QED BY <3>1 DEF Allocator!Next
  <2>4. CASE PushAdvance(t)
    <3>1. Allocator!Release(t)
      BY <1>0, <2>1, <2>2, <2>4, PushAdvanceStep DEF Allocator!Release, FreeQueues
    <3>. QED BY <3>1 DEF Allocator!Next
  <2>5. CASE MapFails(t)
    <3>1. Allocator!Lose(t)
      BY <1>0, <2>1, <2>2, <2>5, MapFailsStep DEF Allocator!Lose, FreeQueues
    <3>. QED BY <3>1 DEF Allocator!Next
  <2>6. CASE \/ SemDown(t) \/ MutexDown(t) \/ PopRead(t) \/ MapOk(t)
             \/ DmaReturns(t) \/ Mutex2Down(t) \/ PushStore(t) \/ SemUp(t)
    <3>1. FreeQueues' = FreeQueues /\ owner' = owner
      BY <1>0, <2>2, <2>6, SemDownStep, MutexDownStep, PopReadStep, HolderStep,
         Mutex2DownStep, PushStoreStep, SemUpStep
    <3>. QED BY <2>1, <3>1 DEF Allocator!vars, FreeQueues
  <2>. QED BY <1>4, <2>3, <2>4, <2>5, <2>6 DEF Continue
<1>. QED BY <1>1, <1>2, <1>3, <1>4 DEF Next

\* The ring, the counting semaphore and the two mutexes of onic_cdev.c keep
\* the promise of QueueAllocator to any number of callers: each call gets a
\* queue nobody else has, as long as no onic_open() cuts into a call.
THEOREM RefinesAllocator == Spec => ImplementsAllocator
  BY AllocatorInit, AllocatorStep, TypeCorrect, PoolInvariantHolds, PTL
  DEF Spec, ImplementsAllocator, Allocator!Spec
=============================================================================
