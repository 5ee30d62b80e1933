-------------------------- MODULE QdmaQueuesProof ---------------------------
(***************************************************************************)
(* Proofs about the queues of QdmaQueues and the resource manager under it *)
(* (QueueResources): for any number of functions and hardware queues, for  *)
(* any requests and any number of opens, the free list and the functions'  *)
(* ranges partition the queues of the board, every open function works with*)
(* the range it owns, and, while no register access has failed, no         *)
(* automatic index has enabled another descq than the one it counted, and  *)
(* the count of the board has room for what closed functions leave in it,  *)
(* every active queue is counted once under each of its types.             *)
(***************************************************************************)
EXTENDS QdmaQueues, QueueResourcesProof

-----------------------------------------------------------------------------
\* A streaming receive queue is counted under its completion queue too.
Both(t, mode) == t = "C2H" /\ mode = "ST"

\* What the counts of a removed queue are given back to, one after the other
LEMMA UncountSteps ==
  ASSUME NEW m \in Masters(Funcs), NEW f, NEW t \in QTypes, NEW mode
  PROVE  LET one == qdma_dev_decrement_active_queue(m, f, t) IN
           /\ Both(t, mode) => Uncount(m, f, t, mode) = qdma_dev_decrement_active_queue(one, f, "CMPT")
           /\ ~Both(t, mode) => Uncount(m, f, t, mode) = one
<1>. DEFINE S == DOMAIN Counted(t, mode)
            A == Recounts(m, Funcs)
            c == Counted(t, mode)
            G == [p \in A \X S |-> qdma_dev_decrement_active_queue(p[1], f, c[p[2]])]
            h == CHOOSE h : h = [T \in SUBSET (DOMAIN Counted(t, mode)) |->
                    IF T = {} THEN m
                    ELSE qdma_dev_decrement_active_queue(h[T \ {Max(T)}], f,
                                                         Counted(t, mode)[Max(T)])]
<1>1. Uncount(m, f, t, mode) = h[DOMAIN Counted(t, mode)]
  BY DEF Uncount, FoldLeft, MapThenFoldSet
<1>2. /\ Both(t, mode) => S = 1 .. 2 /\ c[1] = "C2H" /\ c[2] = "CMPT"
      /\ ~Both(t, mode) => S = 1 .. 1 /\ c[1] = t
  <2>1. CASE Both(t, mode)
    <3>1. c = <<"C2H", "CMPT">>
      BY <2>1 DEF Counted, Both
    <3>2. <<"C2H", "CMPT">>[1] = "C2H" /\ <<"C2H", "CMPT">>[2] = "CMPT"
          /\ DOMAIN <<"C2H", "CMPT">> = 1 .. 2
      OBVIOUS
    <3>. HIDE DEF c
    <3>. QED BY <2>1, <3>1, <3>2 DEF c
  <2>2. CASE ~Both(t, mode)
    <3>1. c = <<t>>
      BY <2>2 DEF Counted, Both
    <3>2. <<t>>[1] = t /\ DOMAIN <<t>> = 1 .. 1
      OBVIOUS
    <3>. HIDE DEF c
    <3>. QED BY <2>2, <3>1, <3>2 DEF c
  <2>. QED BY <2>1, <2>2
<1>3. S \in SUBSET Int /\ IsFiniteSet(S) /\ \A i \in S : c[i] \in QTypes
  <2>1. IsFiniteSet(1 .. 1) /\ IsFiniteSet(1 .. 2)
    <3>1. \A j \in Nat : IsFiniteSet(1 .. j)
      BY FS_Interval
    <3>. QED BY <3>1
  <2>2. "C2H" \in QTypes /\ "CMPT" \in QTypes
    BY DEF QTypes
  <2>3. 1 .. 1 = {1} /\ 1 .. 2 = {1, 2}
    OBVIOUS
  <2>. HIDE DEF S, c
  <2>. QED BY <1>2, <2>1, <2>2, <2>3
<1>. HIDE DEF c, S
<1>4. m \in A /\ \A n \in A, i \in S : qdma_dev_decrement_active_queue(n, f, c[i]) \in A
  <2>1. m \in A
    BY DEF Recounts
  <2>2. ASSUME NEW n \in A, NEW i \in S PROVE qdma_dev_decrement_active_queue(n, f, c[i]) \in A
    <3>1. n \in Masters(Funcs) /\ Recounts(n, Funcs) \subseteq A
      BY RecountAgain
    <3>. QED BY <1>3, <3>1, CountIs
  <2>. QED BY <2>1, <2>2
<1>. HIDE DEF A
<1>5. G \in [A \X S -> A]
  BY <1>4
<1>6. PICK g \in [SUBSET S -> A] : Steps(g, SUBSET S, m, G)
  <2>. HIDE DEF G
  <2>. QED BY <1>3, <1>4, <1>5, StepsExist
<1>7. \A T \in SUBSET S : T # {} => Max(T) \in S /\ T \ {Max(T)} \in SUBSET S
  BY <1>3, MaxOfPart
<1>8. g = [T \in SUBSET S |->
             IF T = {} THEN m
             ELSE qdma_dev_decrement_active_queue(g[T \ {Max(T)}], f, c[Max(T)])]
  <2>1. \A T \in SUBSET S : T # {} =>
          G[<<g[T \ {Max(T)}], Max(T)>>]
            = qdma_dev_decrement_active_queue(g[T \ {Max(T)}], f, c[Max(T)])
    BY <1>6, <1>7
  <2>. HIDE DEF G
  <2>. QED BY <1>6, <2>1 DEF Steps
<1>9. h = [T \in SUBSET S |->
             IF T = {} THEN m
             ELSE qdma_dev_decrement_active_queue(h[T \ {Max(T)}], f, c[Max(T)])]
  <2>1. g = [T \in SUBSET (DOMAIN Counted(t, mode)) |->
                    IF T = {} THEN m
                    ELSE qdma_dev_decrement_active_queue(g[T \ {Max(T)}], f,
                                                         Counted(t, mode)[Max(T)])]
    BY <1>8 DEF S, c
  <2>2. h = [T \in SUBSET (DOMAIN Counted(t, mode)) |->
                    IF T = {} THEN m
                    ELSE qdma_dev_decrement_active_queue(h[T \ {Max(T)}], f,
                                                         Counted(t, mode)[Max(T)])]
    BY <2>1, Zenon
  <2>. QED BY <2>2 DEF S, c
<1>10. Uncount(m, f, t, mode) = h[S]
  BY <1>1 DEF S
<1>. HIDE DEF h, G
<1>11. /\ h[{}] = m
       /\ \A T \in SUBSET S : T # {} =>
            h[T] = qdma_dev_decrement_active_queue(h[T \ {Max(T)}], f, c[Max(T)])
  BY <1>9
<1>12. 1 \in S => h[{1}] = qdma_dev_decrement_active_queue(m, f, c[1])
  <2>1. IsFiniteSet({1}) /\ {1} \in SUBSET Int
    <3>1. \A j \in Nat : IsFiniteSet(1 .. j)
      BY FS_Interval
    <3>2. 1 .. 1 = {1}
      OBVIOUS
    <3>3. IsFiniteSet(1 .. 1)
      BY <3>1
    <3>. QED BY <3>2, <3>3
  <2>2. Max({1}) = 1
    BY <2>1, MaxIs
  <2>3. {1} \ {1} = {}
    OBVIOUS
  <2>. QED BY <1>11, <2>2, <2>3
<1>13. CASE Both(t, mode)
  <2>1. S = {1, 2} /\ c[1] = "C2H" /\ c[2] = "CMPT" /\ t = "C2H"
    BY <1>2, <1>13 DEF Both
  <2>2. Max({1, 2}) = 2
    <3>1. IsFiniteSet({1, 2}) /\ {1, 2} \in SUBSET Int
      BY <1>3, <2>1
    <3>2. Max({1, 2}) \in {1, 2} /\ Max({1, 2}) >= 2
      BY <3>1, MaxIs
    <3>. QED BY <3>2
  <2>3. {1, 2} \ {2} = {1}
    OBVIOUS
  <2>4. h[S] = qdma_dev_decrement_active_queue(h[{1}], f, "CMPT")
    BY <1>11, <2>1, <2>2, <2>3
  <2>. QED BY <1>10, <1>12, <1>13, <2>1, <2>4
<1>14. CASE ~Both(t, mode)
  <2>1. S = {1} /\ c[1] = t
    BY <1>2, <1>14
  <2>. QED BY <1>10, <1>12, <1>14, <2>1
<1>. QED BY <1>13, <1>14

\* A removed queue gives back counts, and nothing else.
LEMMA UncountIs ==
  ASSUME NEW m \in Masters(Funcs), NEW f, NEW t \in QTypes, NEW mode
  PROVE  Uncount(m, f, t, mode) \in Recounts(m, Funcs)
<1>1. PICK n : n = qdma_dev_decrement_active_queue(m, f, t)
  OBVIOUS
<1>2. n \in Recounts(m, Funcs)
  BY <1>1, CountIs
<1>3. n \in Masters(Funcs) /\ Recounts(n, Funcs) \subseteq Recounts(m, Funcs)
  BY <1>2, RecountAgain
<1>4. qdma_dev_decrement_active_queue(n, f, "CMPT") \in Recounts(m, Funcs)
  <2>1. "CMPT" \in QTypes
    BY DEF QTypes
  <2>. QED BY <1>3, <2>1, CountIs
<1>5. Uncount(m, f, t, mode) \in {n, qdma_dev_decrement_active_queue(n, f, "CMPT")}
  BY <1>1, UncountSteps
<1>. QED BY <1>2, <1>4, <1>5

\* The queues a cleanup removes
Removed(f) == {q \in {"H2C", "C2H"} \X Indexes : dev[f].q[q[1]][q[2]] # "off"}

\* A finite set listed: each element once
LEMMA ListedOnce ==
  ASSUME NEW S, IsFiniteSet(S)
  PROVE  \E n \in Nat : /\ SetToSeq(S) \in [1 .. n -> S]
                        /\ \A j, k \in 1 .. n : SetToSeq(S)[j] = SetToSeq(S)[k] => j = k
                        /\ \A x \in S : \E k \in 1 .. n : SetToSeq(S)[k] = x
<1>. DEFINE n == Cardinality(S)
            l == SetToSeq(S)
<1>1. n \in Nat /\ \E b : b \in Bijection(1 .. n, S)
  BY FS_CardinalityType DEF ExistsBijection
<1>2. \E b \in [1 .. n -> S] : IsInjective(b)
  BY <1>1 DEF Bijection, Injection
<1>3. l \in [1 .. n -> S] /\ IsInjective(l)
  BY <1>2 DEF SetToSeq
<1>4. l \in Injection(1 .. n, S)
  BY <1>3 DEF Injection
<1>5. Cardinality(1 .. n) = n
  <2>1. \A a, b \in Int : Cardinality(a .. b) = IF a > b THEN 0 ELSE b - a + 1
    BY FS_Interval
  <2>2. 1 \in Int /\ n \in Int
    BY <1>1
  <2>3. Cardinality(1 .. n) = IF 1 > n THEN 0 ELSE n - 1 + 1
    BY <2>1, <2>2
  <2>. HIDE DEF n
  <2>. QED BY <1>1, <2>3
<1>6. l \in Surjection(1 .. n, S)
  <2>. HIDE DEF l
  <2>. QED BY <1>4, <1>5, FS_Injection
<1>7. /\ \A j, k \in 1 .. n : l[j] = l[k] => j = k
      /\ \A x \in S : \E k \in 1 .. n : l[k] = x
  <2>. HIDE DEF l, n
  <2>. QED BY <1>3, <1>6 DEF IsInjective, Surjection
<1>. QED BY <1>1, <1>3, <1>7

\* The queues a cleanup removes are finitely many.
LEMMA RemovedFinite ==
  ASSUME NEW f
  PROVE  IsFiniteSet(Removed(f)) /\ \A q \in Removed(f) : q[1] \in QTypes
<1>1. IsFiniteSet({"H2C", "C2H"} \X Indexes)
  <2>1. IsFiniteSet({"H2C"})
    BY FS_Singleton
  <2>2. {"H2C", "C2H"} = {"H2C"} \cup {"C2H"}
    OBVIOUS
  <2>3. IsFiniteSet({"H2C", "C2H"})
    BY <2>1, <2>2, FS_AddElement
  <2>4. IsFiniteSet(Indexes)
    BY QueuesAssumption
  <2>. QED BY <2>3, <2>4, FS_Product
<1>2. Removed(f) \in SUBSET ({"H2C", "C2H"} \X Indexes)
  BY DEF Removed
<1>. QED BY <1>1, <1>2, FS_Subset DEF Removed, QTypes

\* The type a descq is configured for: that of its array when no descq is configured for another
LEMMA QTypeIs ==
  ASSUME NEW f, NEW t \in QTypes, NEW i
  PROVE  /\ q_type(f, t, i) \in QTypes
         /\ foreign = {} => q_type(f, t, i) = t
<1>. DEFINE other == {u \in QTypes : <<f, t, i, u>> \in foreign}
<1>1. q_type(f, t, i) = CHOOSE u \in QTypes : IF other = {} THEN u = t ELSE u \in other
  BY DEF q_type
<1>2. foreign = {} => other = {}
  OBVIOUS
<1>3. other \subseteq QTypes
  OBVIOUS
<1>. HIDE DEF other
<1>4. \E u \in QTypes : IF other = {} THEN u = t ELSE u \in other
  BY <1>3
<1>. QED BY <1>1, <1>2, <1>4

\* What the master is after the removal of the listed queues with the numbers in T
RemovesEach(h, m, f, l) ==
  \A T \in SUBSET (DOMAIN l) :
    h[T] = IF T = {} THEN m
           ELSE Uncount(h[T \ {Max(T)}], f, q_type(f, l[Max(T)][1], l[Max(T)][2]),
                        dev[f].q[l[Max(T)][1]][l[Max(T)][2]])

\* A cleanup removes the queues one by one.
LEMMA CleanupSteps ==
  ASSUME NEW m \in Masters(Funcs), NEW f, NEW l, l = SetToSeq(Removed(f))
  PROVE  \E h : qdma_device_cleanup(m, f) = h[DOMAIN l] /\ RemovesEach(h, m, f, l)
<1>. DEFINE Q == {q \in {"H2C", "C2H"} \X Indexes : dev[f].q[q[1]][q[2]] # "off"}
            S == DOMAIN l
            A == Recounts(m, Funcs)
            After(n, i) == Uncount(n, f, q_type(f, l[i][1], l[i][2]), dev[f].q[l[i][1]][l[i][2]])
            G == [p \in A \X S |-> After(p[1], p[2])]
            h == CHOOSE h : h = [T \in SUBSET (DOMAIN SetToSeq(Q)) |->
                    IF T = {} THEN m
                    ELSE Uncount(h[T \ {Max(T)}], f, q_type(f, SetToSeq(Q)[Max(T)][1], SetToSeq(Q)[Max(T)][2]),
                             dev[f].q[SetToSeq(Q)[Max(T)][1]][SetToSeq(Q)[Max(T)][2]])]
<1>1. qdma_device_cleanup(m, f) = h[DOMAIN SetToSeq(Q)]
  BY DEF qdma_device_cleanup, FoldLeft, MapThenFoldSet
<1>2. Q = Removed(f) /\ l = SetToSeq(Q)
  BY DEF Removed
<1>. HIDE DEF Q
<1>3. S \in SUBSET Int /\ IsFiniteSet(S) /\ \A i \in S : l[i][1] \in QTypes
  <2>1. PICK n \in Nat : l \in [1 .. n -> Removed(f)]
    BY RemovedFinite, ListedOnce
  <2>2. IsFiniteSet(1 .. n)
    BY FS_Interval
  <2>. QED BY <2>1, <2>2, RemovedFinite
<1>4. m \in A /\ \A n \in A, i \in S : After(n, i) \in A
  <2>1. m \in A
    BY DEF Recounts
  <2>2. ASSUME NEW n \in A, NEW i \in S PROVE After(n, i) \in A
    <3>1. n \in Masters(Funcs) /\ Recounts(n, Funcs) \subseteq A
      BY RecountAgain
    <3>2. q_type(f, l[i][1], l[i][2]) \in QTypes
      BY <1>3, QTypeIs
    <3>. QED BY <3>1, <3>2, UncountIs
  <2>. HIDE DEF A, After, S
  <2>. QED BY <2>1, <2>2
<1>. HIDE DEF A
<1>5. G \in [A \X S -> A]
  <2>. HIDE DEF After
  <2>. QED BY <1>4
<1>6. PICK g \in [SUBSET S -> A] : Steps(g, SUBSET S, m, G)
  <2>. HIDE DEF G, S
  <2>. QED BY <1>3, <1>4, <1>5, StepsExist
<1>7. \A T \in SUBSET S : T # {} => Max(T) \in S /\ T \ {Max(T)} \in SUBSET S
  <2>. HIDE DEF S
  <2>. QED BY <1>3, MaxOfPart
<1>8. g = [T \in SUBSET S |-> IF T = {} THEN m ELSE After(g[T \ {Max(T)}], Max(T))]
  <2>. HIDE DEF S, After
  <2>1. \A T \in SUBSET S : T # {} =>
          G[<<g[T \ {Max(T)}], Max(T)>>] = After(g[T \ {Max(T)}], Max(T))
    BY <1>6, <1>7
  <2>. HIDE DEF G
  <2>. QED BY <1>6, <2>1 DEF Steps
<1>9. h = [T \in SUBSET S |-> IF T = {} THEN m ELSE After(h[T \ {Max(T)}], Max(T))]
  <2>1. g = [T \in SUBSET (DOMAIN SetToSeq(Q)) |->
                    IF T = {} THEN m
                    ELSE Uncount(g[T \ {Max(T)}], f, q_type(f, SetToSeq(Q)[Max(T)][1], SetToSeq(Q)[Max(T)][2]),
                             dev[f].q[SetToSeq(Q)[Max(T)][1]][SetToSeq(Q)[Max(T)][2]])]
    BY <1>2, <1>8
  <2>2. h = [T \in SUBSET (DOMAIN SetToSeq(Q)) |->
                    IF T = {} THEN m
                    ELSE Uncount(h[T \ {Max(T)}], f, q_type(f, SetToSeq(Q)[Max(T)][1], SetToSeq(Q)[Max(T)][2]),
                             dev[f].q[SetToSeq(Q)[Max(T)][1]][SetToSeq(Q)[Max(T)][2]])]
    BY <2>1, Zenon
  <2>. HIDE DEF h
  <2>. QED BY <1>2, <2>2
<1>10. qdma_device_cleanup(m, f) = h[S]
  BY <1>1, <1>2
<1>. HIDE DEF h, G, After, S
<1>11. \A T \in SUBSET S : h[T] = IF T = {} THEN m ELSE After(h[T \ {Max(T)}], Max(T))
  BY <1>9
<1>12. RemovesEach(h, m, f, l)
  BY <1>11 DEF S, After, RemovesEach
<1>. QED BY <1>10, <1>12 DEF S

\* Removing all queues of a function gives back counts, and nothing else.
LEMMA CleanupIs ==
  ASSUME NEW m \in Masters(Funcs), NEW f
  PROVE  qdma_device_cleanup(m, f) \in Recounts(m, Funcs)
<1>1. PICK l : l = SetToSeq(Removed(f))
  OBVIOUS
<1>2. PICK S, A : S = DOMAIN l /\ A = Recounts(m, Funcs)
  OBVIOUS
<1>3. PICK h : qdma_device_cleanup(m, f) = h[S] /\ RemovesEach(h, m, f, l)
  BY <1>1, <1>2, CleanupSteps
<1>4. S \in SUBSET Int /\ IsFiniteSet(S) /\ \A i \in S : l[i][1] \in QTypes
  <2>1. PICK n \in Nat : l \in [1 .. n -> Removed(f)]
    BY <1>1, RemovedFinite, ListedOnce
  <2>2. IsFiniteSet(1 .. n)
    BY FS_Interval
  <2>. QED BY <1>2, <2>1, <2>2, RemovedFinite
<1>5. h[{}] \in A
  BY <1>2, <1>3 DEF RemovesEach, Recounts
<1>6. ASSUME NEW T \in SUBSET S, T # {}, h[T \ {Max(T)}] \in A PROVE h[T] \in A
  <2>1. PICK x, n : x = l[Max(T)] /\ n = h[T \ {Max(T)}]
    OBVIOUS
  <2>2. h[T] = Uncount(n, f, q_type(f, x[1], x[2]), dev[f].q[x[1]][x[2]])
    BY <1>2, <1>3, <1>6, <2>1 DEF RemovesEach
  <2>3. q_type(f, x[1], x[2]) \in QTypes
    BY <1>4, <1>6, <2>1, MaxOfPart, QTypeIs
  <2>4. n \in Masters(Funcs) /\ Recounts(n, Funcs) \subseteq A
    BY <1>2, <1>6, <2>1, RecountAgain
  <2>. QED BY <2>2, <2>3, <2>4, UncountIs
<1>7. h[S] \in A
  BY <1>4, <1>5, <1>6, Stays
<1>. QED BY <1>2, <1>3, <1>7

\* Counting an added queue touches no chunk, even when a count is refused and taken back.
LEMMA CountAddedIs ==
  ASSUME NEW m \in Masters(Funcs), NEW f, NEW t \in QTypes, NEW mode
  PROVE  CountAdded(m, f, t, mode) \in Recounts(m, Funcs)
<1>. DEFINE first == qdma_dev_increment_active_queue(m, f, t)
            both  == qdma_dev_increment_active_queue(first.m, f, "CMPT")
            back  == qdma_dev_decrement_active_queue(first.m, f, t)
<1>1. CountAdded(m, f, t, mode) \in {m, first.m, both.m, back}
  BY DEF CountAdded
<1>2. "CMPT" \in QTypes /\ m \in Recounts(m, Funcs)
  BY DEF QTypes, Recounts
<1>3. first.m \in Recounts(m, Funcs)
  BY CountIs
<1>. HIDE DEF first
<1>4. first.m \in Masters(Funcs) /\ Recounts(first.m, Funcs) \subseteq Recounts(m, Funcs)
  BY <1>3, RecountAgain
<1>5. both.m \in Recounts(first.m, Funcs) /\ back \in Recounts(first.m, Funcs)
  BY <1>2, <1>4, CountIs
<1>. QED BY <1>1, <1>2, <1>3, <1>4, <1>5

-----------------------------------------------------------------------------
(***************************************************************************)
(* The inductive invariant.  Functions are opened one after the other, so  *)
(* that at most one is between the search for the master and its own entry *)
(* in it, and a master is created only when there is none.  An open        *)
(* function works with the range of its entry in the board's only master.  *)
(***************************************************************************)
Devs == [pc : {"closed", "creating", "created", "open"}, idx : Nat, qmax : Nat, qbase : Int,
         qrange : BOOLEAN, fmap : Chunks, rngsz : Nat,
         q : [QTypes -> [Indexes -> {"off", "MM", "ST"}]]]

\* Function f, in state d, works with the range it owns in master m, and so does the hardware
\* once it has been told.
Owns(m, d, f) ==
  /\ m.idx = d.idx /\ f \in DOMAIN m.devs
  /\ m.devs[f].chunk.total = d.qmax
  /\ d.qmax > 0 => m.devs[f].chunk = Chunk(d.qbase, d.qmax)
  /\ d.qrange => d.fmap = Chunk(d.qbase, d.qmax)

Opening(f) == dev[f].pc \in {"creating", "created"}

IInv ==
  /\ index \in Nat /\ dev \in [Funcs -> Devs]
  /\ masters = <<>> \/ (masters = <<masters[1]>> /\ Sound(masters[1], Funcs, TotalQ))
  /\ \A f, g \in Funcs : Opening(f) /\ Opening(g) => f = g
  /\ \A f \in Funcs : dev[f].pc = "creating" => masters = <<>>
  /\ \A f \in Funcs : dev[f].pc = "open" => masters # <<>> /\ Owns(masters[1], dev[f], f)

\* A function that is not open
LEMMA ClosedDevIs ==
  ClosedDev \in Devs /\ ClosedDev.pc = "closed"
<1>1. NoChunk \in Chunks
  BY DEF NoChunk, Chunk, Chunks
<1>. QED BY <1>1 DEF ClosedDev, Devs

\* A function whose open has come to its end, with the range it got
LEMMA InitIs ==
  ASSUME IInv, NEW f \in Funcs, NEW c \in Chunks
  PROVE  LET d == qdma_device_init(f, c) IN
           /\ d \in Devs /\ d.pc = "open" /\ d.idx = dev[f].idx /\ d.qmax = c.total
           /\ d.qbase = c.qbase /\ d.qrange = FALSE
<1>1. ClosedDev \in Devs /\ ClosedDev.qrange = FALSE /\ dev[f] \in Devs
  BY ClosedDevIs DEF IInv, ClosedDev
<1>2. c.total \in Nat /\ c.qbase \in Int
  BY DEF Chunks
<1>3. dev[f].idx \in Nat /\ dev[f].rngsz \in Nat
  BY <1>1 DEF Devs
<1>. QED BY <1>1, <1>2, <1>3 DEF qdma_device_init, Devs

\* The master an open function finds is the only one of the board.
LEMMA MasterAt ==
  ASSUME IInv, NEW idx, NEW k \in qdma_get_master_resource_entry(idx)
  PROVE  /\ k = 1 /\ masters # <<>> /\ masters = <<masters[1]>> /\ Sound(masters[1], Funcs, TotalQ)
         /\ masters[1].idx = idx
<1>. DEFINE found == {i \in DOMAIN masters : masters[i].idx = idx}
<1>1. found # {} /\ k = Min(found)
  BY DEF qdma_get_master_resource_entry
<1>2. masters # <<>>
  BY <1>1
<1>3. masters = <<masters[1]>> /\ Sound(masters[1], Funcs, TotalQ)
  BY <1>2 DEF IInv
<1>4. DOMAIN masters = {1}
  <2>1. \A x : DOMAIN <<x>> = {1}
    OBVIOUS
  <2>. QED BY <1>3, <2>1
<1>5. found \in SUBSET Nat
  BY <1>4
<1>6. k \in found
  <2>. HIDE DEF found
  <2>. QED BY <1>1, <1>5, MinIs
<1>. QED BY <1>2, <1>3, <1>4, <1>6

\* A call on one function keeps the invariant when it leaves the entries of the others alone and
\* the function with its own range.
LEMMA CallKeeps ==
  ASSUME IInv, NEW f \in Funcs, NEW d \in Devs, NEW m, NEW n,
         masters = <<m>>, masters' = <<n>>, dev' = [dev EXCEPT ![f] = d], index' = index,
         Sound(n, Funcs, TotalQ), n.idx = m.idx,
         \A g \in DOMAIN m.devs : g # f => g \in DOMAIN n.devs /\ n.devs[g].chunk = m.devs[g].chunk,
         d.pc \in {"closed", "open"}, d.pc = "open" => Owns(n, d, f)
  PROVE  IInv'
<1>1. masters[1] = m /\ masters'[1] = n /\ masters # <<>> /\ masters' # <<>>
  OBVIOUS
<1>2. /\ dev' \in [Funcs -> Devs] /\ dev'[f] = d
      /\ \A g \in Funcs : g # f => dev'[g] = dev[g]
  BY DEF IInv
<1>3. \A g \in Funcs : dev'[g].pc = "open" => Owns(n, dev'[g], g)
  <2>. SUFFICES ASSUME NEW g \in Funcs, dev'[g].pc = "open" PROVE Owns(n, dev'[g], g)
    OBVIOUS
  <2>1. CASE g = f
    BY <1>2, <2>1
  <2>2. CASE g # f
    <3>1. dev'[g] = dev[g] /\ Owns(m, dev[g], g)
      BY <1>1, <1>2, <2>2 DEF IInv
    <3>. QED BY <2>2, <3>1 DEF Owns
  <2>. QED BY <2>1, <2>2
<1>4. \A g \in Funcs : dev'[g].pc \in {"creating", "created"} => g # f /\ Opening(g)
  BY <1>2 DEF Opening
<1>5. \A g \in Funcs : dev'[g].pc # "creating"
  BY <1>1, <1>2 DEF IInv
<1>6. \A g, h \in Funcs : Opening(g)' /\ Opening(h)' => g = h
  BY <1>4 DEF IInv, Opening
<1>. QED BY <1>1, <1>2, <1>3, <1>5, <1>6 DEF IInv

\* No function is open, and no queue is owned.
LEMMA InitHolds ==
  Init => IInv
<1>. SUFFICES ASSUME Init PROVE IInv
  OBVIOUS
<1>1. dev = [f \in Funcs |-> ClosedDev] /\ index = 0 /\ masters = <<>>
  BY DEF Init
<1>2. \A f \in Funcs : dev[f] = ClosedDev
  BY <1>1
<1>. QED BY <1>1, <1>2, ClosedDevIs DEF IInv, Opening

\* The search for the master of the board
LEMMA OpenKeeps ==
  ASSUME SerialOpen, IInv, NEW f \in Funcs, qdma_device_open(f)
  PROVE  IInv'
<1>1. /\ masters' = masters /\ index' = index /\ dev[f].pc = "closed"
      /\ \A g \in Funcs : ~Opening(g)
  BY DEF qdma_device_open, Opening
<1>2. PICK d \in Devs : /\ dev' = [dev EXCEPT ![f] = d]
                        /\ d.pc \in {"creating", "created"}
                        /\ d.pc = "creating" => masters = <<>>
  <2>1. dev[f] \in Devs
    BY DEF IInv
  <2>2. CASE qdma_find_master_resource_entry # {}
    <3>1. PICK idx \in qdma_find_master_resource_entry :
             dev' = [dev EXCEPT ![f].pc = "created", ![f].idx = idx]
      BY <2>2 DEF qdma_device_open
    <3>2. masters # <<>> /\ idx = masters[1].idx
      BY DEF qdma_find_master_resource_entry
    <3>3. idx \in Nat
      BY <3>2, MasterIs DEF IInv, Sound
    <3>. DEFINE d == [dev[f] EXCEPT !.pc = "created", !.idx = idx]
    <3>4. d \in Devs /\ d.pc = "created"
      BY <2>1, <3>3 DEF Devs
    <3>5. dev' = [dev EXCEPT ![f] = d]
      BY <3>1 DEF IInv
    <3>. HIDE DEF d
    <3>. QED BY <3>4, <3>5
  <2>3. CASE qdma_find_master_resource_entry = {}
    <3>1. dev' = [dev EXCEPT ![f].pc = "creating", ![f].idx = index]
      BY <2>3 DEF qdma_device_open
    <3>2. masters = <<>> /\ index \in Nat
      BY <2>3 DEF qdma_find_master_resource_entry, IInv
    <3>. DEFINE d == [dev[f] EXCEPT !.pc = "creating", !.idx = index]
    <3>3. d \in Devs /\ d.pc = "creating"
      BY <2>1, <3>2 DEF Devs
    <3>4. dev' = [dev EXCEPT ![f] = d]
      BY <3>1 DEF IInv
    <3>. HIDE DEF d
    <3>. QED BY <3>2, <3>3, <3>4
  <2>. QED BY <2>2, <2>3
<1>3. /\ dev' \in [Funcs -> Devs] /\ dev'[f] = d
      /\ \A g \in Funcs : g # f => dev'[g] = dev[g]
  <2>1. dev \in [Funcs -> Devs]
    BY DEF IInv
  <2>. QED BY <1>2, <2>1
<1>4. \A g \in Funcs : dev'[g].pc \in {"creating", "created"} => g = f
  BY <1>1, <1>3 DEF Opening
<1>5. \A g, h \in Funcs : Opening(g)' /\ Opening(h)' => g = h
  BY <1>4 DEF Opening
<1>6. \A g \in Funcs : dev'[g].pc = "creating" => masters' = <<>>
  <2>. SUFFICES ASSUME NEW g \in Funcs, dev'[g].pc = "creating" PROVE masters' = <<>>
    OBVIOUS
  <2>1. g = f
    BY <1>4
  <2>. QED BY <1>1, <1>2, <1>3, <2>1
<1>7. \A g \in Funcs : dev'[g].pc = "open" => masters' # <<>> /\ Owns(masters'[1], dev'[g], g)
  <2>. SUFFICES ASSUME NEW g \in Funcs, dev'[g].pc = "open"
                PROVE  masters' # <<>> /\ Owns(masters'[1], dev'[g], g)
    OBVIOUS
  <2>1. g # f
    BY <1>2, <1>3
  <2>2. dev'[g] = dev[g] /\ masters' = masters
    BY <1>1, <1>3, <2>1
  <2>3. masters # <<>> /\ Owns(masters[1], dev[g], g)
    BY <2>2 DEF IInv
  <2>. QED BY <2>2, <2>3
<1>. QED BY <1>1, <1>3, <1>5, <1>6, <1>7 DEF IInv

\* The first function creates the master.
LEMMA CreateKeeps ==
  ASSUME IInv, NEW f \in Funcs, qdma_master_resource_create(f)
  PROVE  IInv'
<1>. DEFINE m == NewMaster(index, TotalQ)
            d == [dev[f] EXCEPT !.pc = "created"]
<1>1. /\ dev[f].pc = "creating" /\ masters = <<>> /\ masters' = Append(masters, m)
      /\ index' = index + 1 /\ dev' = [dev EXCEPT ![f] = d]
  BY DEF qdma_master_resource_create, IInv
<1>2. Sound(m, Funcs, TotalQ)
  BY NewMasterIs, QueuesAssumption DEF IInv
<1>. HIDE DEF m
<1>3. masters' = <<m>> /\ masters'[1] = m
  BY <1>1
<1>4. d \in Devs /\ d.pc = "created"
  BY DEF IInv, Devs
<1>. HIDE DEF d
<1>5. /\ dev' \in [Funcs -> Devs] /\ dev'[f] = d /\ index' \in Nat
      /\ \A g \in Funcs : g # f => dev'[g] = dev[g]
  BY <1>1, <1>4 DEF IInv
<1>6. \A g \in Funcs : g # f => dev[g].pc \notin {"creating", "created", "open"}
  BY <1>1 DEF IInv, Opening
<1>7. \A g \in Funcs : dev'[g].pc \in {"creating", "created", "open"} => g = f /\ dev'[g].pc = "created"
  BY <1>4, <1>5, <1>6
<1>8. \A g, h \in Funcs : Opening(g)' /\ Opening(h)' => g = h
  BY <1>7 DEF Opening
<1>9. \A g \in Funcs : dev'[g].pc # "creating" /\ dev'[g].pc # "open"
  BY <1>7
<1>. QED BY <1>2, <1>3, <1>5, <1>8, <1>9 DEF IInv

\* The entry of the function and its range
LEMMA OnlineKeeps ==
  ASSUME IInv, NEW f \in Funcs, NEW qmax \in Qmaxes, NEW qbase \in Qbases \cup {-1},
         NEW online \in BOOLEAN, DeviceOnline(f, qmax, qbase, online)
  PROVE  IInv'
<1>. DEFINE at == qdma_get_master_resource_entry(dev[f].idx)
<1>1. dev[f].pc = "created" /\ index' = index /\ dev \in [Funcs -> Devs] /\ dev[f] \in Devs
  BY DEF DeviceOnline, IInv
<1>2. CASE at = {}
  <2>1. dev' = [dev EXCEPT ![f] = ClosedDev] /\ masters' = masters
    BY <1>2 DEF DeviceOnline
  <2>2. /\ dev' \in [Funcs -> Devs] /\ dev'[f].pc = "closed"
        /\ \A g \in Funcs : g # f => dev'[g] = dev[g]
    BY <1>1, <2>1, ClosedDevIs
  <2>3. \A g, h \in Funcs : Opening(g)' /\ Opening(h)' => g = h
    BY <2>2 DEF IInv, Opening
  <2>4. /\ \A g \in Funcs : dev'[g].pc = "creating" => masters' = <<>>
        /\ \A g \in Funcs : dev'[g].pc = "open" => masters' # <<>> /\ Owns(masters'[1], dev'[g], g)
    BY <2>1, <2>2 DEF IInv
  <2>. QED BY <1>1, <2>1, <2>2, <2>3, <2>4 DEF IInv
<1>3. CASE at # {}
  <2>. DEFINE i    == CHOOSE i \in at : TRUE
              old  == HasEntry(masters[i], f)
              m    == qdma_dev_entry_create(masters[i], f)
              want == IF old THEN qdma_dev_qinfo_get(m, f) ELSE Chunk(qbase, qmax)
              r    == qdma_dev_update(m, f, want.total, want.qbase)
              got  == Chunk(qdma_dev_qinfo_get(r.m, f).qbase, want.total)
              d    == IF r.ok /\ online THEN qdma_device_init(f, got) ELSE ClosedDev
  <2>1. masters' = [masters EXCEPT ![i] = r.m] /\ dev' = [dev EXCEPT ![f] = d]
    <3>1. IF at = {} THEN dev' = [dev EXCEPT ![f] = ClosedDev] /\ UNCHANGED masters
          ELSE masters' = [masters EXCEPT ![i] = r.m] /\ dev' = [dev EXCEPT ![f] = d]
      BY DEF DeviceOnline
    <3>. HIDE DEF at, i, r, d
    <3>. QED BY <1>3, <3>1
  <2>2. i \in at
    BY <1>3
  <2>. HIDE DEF i, at
  <2>3. /\ i = 1 /\ masters # <<>> /\ masters = <<masters[1]>> /\ Sound(masters[1], Funcs, TotalQ)
        /\ masters[1].idx = dev[f].idx
    BY <2>2, MasterAt DEF at
  <2>. DEFINE m0 == masters[1]
  <2>4. /\ Sound(m, Funcs, TotalQ) /\ m.idx = m0.idx /\ DOMAIN m.devs = DOMAIN m0.devs \cup {f}
        /\ \A g \in DOMAIN m0.devs : m.devs[g].chunk = m0.devs[g].chunk
    <3>1. m = qdma_dev_entry_create(m0, f) /\ Sound(m0, Funcs, TotalQ) /\ m0.idx = masters[1].idx
      BY <2>3
    <3>. HIDE DEF m, m0
    <3>2. /\ Sound(m, Funcs, TotalQ) /\ m.idx = m0.idx /\ DOMAIN m.devs = DOMAIN m0.devs \cup {f}
          /\ \A g \in DOMAIN m0.devs : m.devs[g] = m0.devs[g]
      BY ONLY <3>1, f \in Funcs, CreateIs
    <3>. QED BY ONLY <3>2
  <2>. HIDE DEF m
  <2>5. m.devs[f].chunk \in Chunks
    BY <2>4, EntryOnBoard
  <2>6. want \in Chunks /\ want.total \in Nat /\ want.qbase \in Int
    <3>1. qmax \in Nat /\ qbase \in Int
      BY QueuesAssumption
    <3>2. Chunk(qbase, qmax) \in Chunks
      BY <3>1, ChunkIs
    <3>3. want \in Chunks
      BY <2>5, <3>2 DEF qdma_dev_qinfo_get
    <3>. HIDE DEF want
    <3>. QED BY <3>3 DEF Chunks
  <2>. HIDE DEF want
  <2>7. /\ Sound(r.m, Funcs, TotalQ) /\ r.m.idx = m.idx /\ DOMAIN r.m.devs = DOMAIN m.devs /\ r.ok \in BOOLEAN
        /\ \A g \in DOMAIN m.devs : g # f => r.m.devs[g].chunk = m.devs[g].chunk
        /\ r.ok => r.m.devs[f].chunk.total = want.total
    <3>1. f \in DOMAIN m.devs
      BY <2>4
    <3>1a. PICK z : z = m
      OBVIOUS
    <3>1b. PICK x \in Nat, y \in Int : x = want.total /\ y = want.qbase
      BY <2>6
    <3>2. x = want.total /\ y = want.qbase /\ z = m
      BY <3>1a, <3>1b
    <3>3. r = qdma_dev_update(z, f, x, y)
      BY <3>2
    <3>4. Sound(z, Funcs, TotalQ) /\ f \in DOMAIN z.devs
      BY <2>4, <3>1, <3>2
    <3>5. LET s == qdma_dev_update(z, f, x, y) IN
            /\ Sound(s.m, Funcs, TotalQ) /\ s.m.idx = z.idx /\ DOMAIN s.m.devs = DOMAIN z.devs /\ s.ok \in BOOLEAN
            /\ \A g \in DOMAIN z.devs : g # f => s.m.devs[g].chunk = z.devs[g].chunk
            /\ s.ok => s.m.devs[f].chunk.total = x
      <4>. DEFINE s == qdma_dev_update(z, f, x, y)
      <4>1. /\ Sound(s.m, Funcs, TotalQ) /\ s.m.idx = z.idx /\ DOMAIN s.m.devs = DOMAIN z.devs
            /\ s.ok \in BOOLEAN /\ \A g \in DOMAIN z.devs : g # f => s.m.devs[g] = z.devs[g]
            /\ s.ok => s.m.devs[f].chunk.total = x
        BY ONLY <3>4, x \in Nat, y \in Int, UpdateIs
      <4>2. \A g \in DOMAIN z.devs : g # f => s.m.devs[g].chunk = z.devs[g].chunk
        <5>. HIDE DEF s
        <5>. QED BY ONLY <4>1
      <4>. QED BY <4>1, <4>2
    <3>. HIDE DEF r
    <3>. QED BY <3>2, <3>3, <3>5
  <2>. HIDE DEF r
  <2>8. /\ r.m.devs[f].chunk \in Chunks /\ r.m.devs[f].chunk.qbase \in Int
        /\ r.m.devs[f].chunk = Chunk(r.m.devs[f].chunk.qbase, r.m.devs[f].chunk.total)
    <3>1. r.m.devs[f].chunk \in Chunks
      BY <2>4, <2>7, EntryOnBoard
    <3>2. \A x \in Chunks : x.qbase \in Int /\ x = Chunk(x.qbase, x.total)
      BY DEF Chunks, Chunk
    <3>. QED BY <3>1, <3>2
  <2>9. got \in Chunks /\ got.total = want.total /\ got.qbase = r.m.devs[f].chunk.qbase
    BY <2>6, <2>8, ChunkIs DEF qdma_dev_qinfo_get
  <2>. HIDE DEF got
  <2>10. /\ d \in Devs /\ d.pc \in {"closed", "open"}
         /\ d.pc = "open" => /\ r.ok /\ d.idx = dev[f].idx /\ d.qmax = got.total
                              /\ d.qbase = got.qbase /\ d.qrange = FALSE
    <3>1. CASE r.ok /\ online
      <4>1. d = qdma_device_init(f, got)
        BY <3>1
      <4>. HIDE DEF d
      <4>. QED BY <2>9, <3>1, <4>1, InitIs
    <3>2. CASE ~(r.ok /\ online)
      <4>1. d = ClosedDev
        BY <3>2
      <4>. HIDE DEF d
      <4>. QED BY <4>1, ClosedDevIs
    <3>. QED BY <3>1, <3>2
  <2>. HIDE DEF d
  <2>11. d.pc = "open" => Owns(r.m, d, f)
    BY <2>3, <2>4, <2>7, <2>8, <2>9, <2>10 DEF Owns
  <2>12. masters' = <<r.m>>
    BY <2>1, <2>3
  <2>13. \A g \in DOMAIN m0.devs : g # f =>
            g \in DOMAIN r.m.devs /\ r.m.devs[g].chunk = m0.devs[g].chunk
    BY <2>4, <2>7
  <2>14. r.m.idx = m0.idx /\ masters = <<m0>>
    BY <2>3, <2>4, <2>7
  <2>. HIDE DEF m0
  <2>14a. PICK n, l : n = r.m /\ l = m0
    OBVIOUS
  <2>14b. PICK e \in Devs : e = d
    BY <2>10
  <2>15. n = r.m /\ l = m0 /\ e = d
    BY <2>14a, <2>14b
  <2>16. /\ masters' = <<n>> /\ Sound(n, Funcs, TotalQ) /\ n.idx = l.idx /\ (e.pc = "open" => Owns(n, e, f))
         /\ \A g \in DOMAIN l.devs : g # f =>
               g \in DOMAIN n.devs /\ n.devs[g].chunk = l.devs[g].chunk
    BY <2>7, <2>11, <2>12, <2>13, <2>14, <2>15
  <2>17. masters = <<l>> /\ e.pc \in {"closed", "open"}
    BY <2>10, <2>14, <2>15
  <2>18. dev' = [dev EXCEPT ![f] = e] /\ index' = index
    BY <1>1, <2>1, <2>15
  <2>. QED BY <2>16, <2>17, <2>18, CallKeeps
<1>. QED BY <1>2, <1>3

\* Enabling descq's changes no more than which queues are enabled.
LEMMA SetEnabledIs ==
  ASSUME NEW f, dev[f] \in Devs, NEW at, NEW mode \in {"MM", "ST"},
         NEW e, e = SetEnabled(f, at, mode)
  PROVE  /\ e \in Devs /\ e.pc = dev[f].pc /\ e.idx = dev[f].idx /\ e.qmax = dev[f].qmax
         /\ e.qbase = dev[f].qbase /\ e.qrange = dev[f].qrange /\ e.fmap = dev[f].fmap
         /\ e.q = [u \in QTypes |-> [j \in Indexes |->
                     IF <<u, j>> \in at THEN mode ELSE dev[f].q[u][j]]]
<1>. DEFINE x == [u \in QTypes |-> [j \in Indexes |->
                   IF <<u, j>> \in at THEN mode ELSE dev[f].q[u][j]]]
<1>1. dev[f].q \in [QTypes -> [Indexes -> {"off", "MM", "ST"}]]
  BY DEF Devs
<1>2. x \in [QTypes -> [Indexes -> {"off", "MM", "ST"}]]
  BY <1>1
<1>3. e = [dev[f] EXCEPT !.q = x]
  BY DEF SetEnabled
<1>. HIDE DEF x
<1>4. /\ e \in Devs /\ e.pc = dev[f].pc /\ e.idx = dev[f].idx /\ e.qmax = dev[f].qmax
      /\ e.qbase = dev[f].qbase /\ e.qrange = dev[f].qrange /\ e.fmap = dev[f].fmap
      /\ e.q = x
  BY <1>2, <1>3 DEF Devs
<1>. QED BY <1>4 DEF x

\* The indexes an add may name, and the one that leaves the choice to it
Qidxs == Indexes \cup {QDMA_QUEUE_IDX_INVALID}

\* An added queue: it stays enabled whatever fails, and the first one tells the hardware the range
\* the function works with.
LEMMA AddKeeps ==
  ASSUME IInv, NEW f \in Funcs, NEW t \in QTypes, NEW mode \in {"MM", "ST"}, NEW qidx \in Qidxs,
         NEW hwok \in BOOLEAN, qdma_queue_add(f, t, mode, qidx, hwok)
  PROVE  IInv'
<1>1. PICK k \in qdma_get_master_resource_entry(dev[f].idx), at \in SUBSET (QTypes \X Indexes) :
        LET enabled == SetEnabled(f, at, mode)
        IN /\ dev[f].pc = "open" /\ index' = index
           /\ \/ /\ dev' = [dev EXCEPT ![f] = qdma_device_prep_q_resource(f, enabled)]
                 /\ masters' = [masters EXCEPT ![k] = CountAdded(@, f, t, mode)]
              \/ dev' = [dev EXCEPT ![f] = enabled] /\ masters' = masters
  BY DEF qdma_queue_add, AddAllowed, EnabledFor
<1>2. /\ k = 1 /\ masters # <<>> /\ masters = <<masters[1]>> /\ Sound(masters[1], Funcs, TotalQ)
      /\ masters[1].idx = dev[f].idx
  BY MasterAt
<1>3. PICK m : masters = <<m>> /\ m = masters[1]
  BY <1>2
<1>4. Sound(m, Funcs, TotalQ) /\ m \in Masters(Funcs) /\ Owns(m, dev[f], f) /\ dev[f] \in Devs
  <2>1. dev[f].pc = "open"
    BY <1>1
  <2>2. Owns(masters[1], dev[f], f) /\ dev[f] \in Devs
    BY <2>1 DEF IInv
  <2>3. Sound(m, Funcs, TotalQ)
    BY <1>2, <1>3
  <2>4. m \in Masters(Funcs)
    BY <2>3 DEF Sound
  <2>. QED BY <1>3, <2>2, <2>3, <2>4
<1>5. PICK e \in Devs : /\ e = SetEnabled(f, at, mode)
                       /\ e.pc = "open" /\ e.idx = dev[f].idx /\ e.qmax = dev[f].qmax
                       /\ e.qbase = dev[f].qbase /\ e.qrange = dev[f].qrange /\ e.fmap = dev[f].fmap
  <2>1. PICK e : e = SetEnabled(f, at, mode)
    OBVIOUS
  <2>2. dev[f] \in Devs
    BY <1>4
  <2>3. /\ e \in Devs /\ e.pc = dev[f].pc /\ e.idx = dev[f].idx /\ e.qmax = dev[f].qmax
        /\ e.qbase = dev[f].qbase /\ e.qrange = dev[f].qrange /\ e.fmap = dev[f].fmap
        /\ e.q = [u \in QTypes |-> [j \in Indexes |->
                    IF <<u, j>> \in at THEN mode ELSE dev[f].q[u][j]]]
    BY ONLY <2>1, <2>2, mode \in {"MM", "ST"}, SetEnabledIs
  <2>. QED BY <1>1, <2>1, <2>3
<1>6. PICK d \in Devs : /\ d = qdma_device_prep_q_resource(f, e)
                       /\ d.pc = "open" /\ d.idx = dev[f].idx /\ d.qmax = dev[f].qmax
                       /\ d.qbase = dev[f].qbase
                       /\ d.fmap = Chunk(dev[f].qbase, dev[f].qmax)
  <2>. DEFINE d == qdma_device_prep_q_resource(f, e)
              c == device_set_qrange(f)
  <2>1. CASE dev[f].qrange
    <3>1. d = e /\ dev[f].fmap = Chunk(dev[f].qbase, dev[f].qmax)
      BY <1>4, <2>1 DEF qdma_device_prep_q_resource, Owns
    <3>. QED BY <1>5, <3>1
  <2>2. CASE ~dev[f].qrange
    <3>1. d = [e EXCEPT !.qrange = TRUE, !.fmap = c]
      BY <2>2 DEF qdma_device_prep_q_resource
    <3>2. dev[f].qbase \in Int /\ dev[f].qmax \in Nat
      BY <1>4 DEF Devs
    <3>3. c \in Chunks /\ c = Chunk(dev[f].qbase, dev[f].qmax)
      BY <3>2, ChunkIs DEF device_set_qrange
    <3>. HIDE DEF c, d
    <3>4. /\ d \in Devs /\ d.pc = e.pc /\ d.idx = e.idx /\ d.qmax = e.qmax /\ d.qbase = e.qbase
          /\ d.fmap = c
      BY ONLY <3>1, <3>3, e \in Devs DEF Devs
    <3>. QED BY <1>5, <3>3, <3>4 DEF d
  <2>. QED BY <2>1, <2>2
<1>7. CASE /\ dev' = [dev EXCEPT ![f] = d]
           /\ masters' = [masters EXCEPT ![k] = CountAdded(@, f, t, mode)]
  <2>1. PICK n : n = CountAdded(m, f, t, mode)
    OBVIOUS
  <2>2. masters' = <<n>>
    BY <1>2, <1>3, <1>7, <2>1
  <2>3. n \in Recounts(m, Funcs)
    BY <1>4, <2>1, CountAddedIs
  <2>4. /\ Sound(n, Funcs, TotalQ) /\ n.idx = m.idx /\ DOMAIN n.devs = DOMAIN m.devs
        /\ \A g \in DOMAIN m.devs : n.devs[g].chunk = m.devs[g].chunk
    BY <1>4, <2>3, RecountSound
  <2>5. Owns(n, d, f)
    BY <1>4, <1>6, <2>4 DEF Owns
  <2>. QED BY <1>1, <1>3, <1>6, <1>7, <2>2, <2>4, <2>5, CallKeeps
<1>8. CASE dev' = [dev EXCEPT ![f] = e] /\ masters' = masters
  <2>1. Owns(m, e, f) /\ masters' = <<m>>
    BY <1>3, <1>4, <1>5, <1>8 DEF Owns
  <2>. QED BY <1>1, <1>3, <1>4, <1>5, <1>8, <2>1, CallKeeps
<1>. QED BY <1>1, <1>5, <1>6, <1>7, <1>8

\* A removed queue
LEMMA RemoveKeeps ==
  ASSUME IInv, NEW f \in Funcs, NEW t \in QTypes, NEW i \in Indexes, qdma_queue_remove(f, t, i)
  PROVE  IInv'
<1>1. PICK k \in qdma_get_master_resource_entry(dev[f].idx) :
        /\ dev[f].pc = "open" /\ index' = index
        /\ masters' = [masters EXCEPT ![k] = Uncount(@, f, q_type(f, t, i), dev[f].q[t][i])]
        /\ dev' = [dev EXCEPT ![f].q[t][i] = "off"]
  BY DEF qdma_queue_remove
<1>2. /\ k = 1 /\ masters # <<>> /\ masters = <<masters[1]>> /\ Sound(masters[1], Funcs, TotalQ)
      /\ masters[1].idx = dev[f].idx
  BY MasterAt
<1>3. PICK m : masters = <<m>> /\ m = masters[1]
  BY <1>2
<1>4. Sound(m, Funcs, TotalQ) /\ m \in Masters(Funcs) /\ Owns(m, dev[f], f) /\ dev[f] \in Devs
  <2>1. dev[f].pc = "open"
    BY <1>1
  <2>2. Owns(masters[1], dev[f], f) /\ dev[f] \in Devs
    BY <2>1 DEF IInv
  <2>3. Sound(m, Funcs, TotalQ)
    BY <1>2, <1>3
  <2>4. m \in Masters(Funcs)
    BY <2>3 DEF Sound
  <2>. QED BY <1>3, <2>2, <2>3, <2>4
<1>5. PICK e \in Devs : /\ e = [dev[f] EXCEPT !.q[t][i] = "off"]
                       /\ e.pc = "open" /\ e.idx = dev[f].idx /\ e.qmax = dev[f].qmax
                       /\ e.qbase = dev[f].qbase /\ e.qrange = dev[f].qrange /\ e.fmap = dev[f].fmap
  <2>. DEFINE e == [dev[f] EXCEPT !.q[t][i] = "off"]
  <2>1. e \in Devs /\ e.pc = "open" /\ e.idx = dev[f].idx /\ e.qmax = dev[f].qmax
        /\ e.qbase = dev[f].qbase /\ e.qrange = dev[f].qrange /\ e.fmap = dev[f].fmap
    BY <1>1, <1>4 DEF Devs
  <2>. QED BY <2>1
<1>6. dev' = [dev EXCEPT ![f] = e]
  BY <1>1, <1>5 DEF IInv
<1>7. PICK n : n = Uncount(m, f, q_type(f, t, i), dev[f].q[t][i])
  OBVIOUS
<1>8. masters' = <<n>>
  BY <1>1, <1>2, <1>3, <1>7
<1>9. n \in Recounts(m, Funcs)
  BY <1>4, <1>7, UncountIs, QTypeIs
<1>10. /\ Sound(n, Funcs, TotalQ) /\ n.idx = m.idx /\ DOMAIN n.devs = DOMAIN m.devs
       /\ \A g \in DOMAIN m.devs : n.devs[g].chunk = m.devs[g].chunk
  BY <1>4, <1>9, RecountSound
<1>11. Owns(n, e, f)
  BY <1>4, <1>5, <1>10 DEF Owns
<1>12. \A g \in DOMAIN m.devs : g # f => g \in DOMAIN n.devs /\ n.devs[g].chunk = m.devs[g].chunk
  BY <1>10
<1>13. e.pc \in {"closed", "open"} /\ index' = index /\ masters = <<m>>
  BY <1>1, <1>3, <1>5
<1>. QED BY <1>6, <1>8, <1>10, <1>11, <1>12, <1>13, CallKeeps

\* A changed number of queues: the function gets the range it asked for, or keeps its own.
LEMMA SetQmaxKeeps ==
  ASSUME IInv, NEW f \in Funcs, NEW qmax \in Qmaxes \cup {0}, NEW qbase \in Qbases \cup {-1},
         qdma_set_qmax(f, qmax, qbase)
  PROVE  IInv'
<1>1. PICK k \in qdma_get_master_resource_entry(dev[f].idx) :
        LET r == qdma_dev_update(masters[k], f, qmax, qbase)
            c == qdma_device_cleanup(r.m, f)
        IN /\ dev[f].pc = "open" /\ index' = index
           /\ IF r.ok
              THEN /\ masters' = [masters EXCEPT ![k] = c]
                   /\ dev' = [dev EXCEPT ![f] = qdma_device_init(f, qdma_dev_qinfo_get(c, f))]
              ELSE masters' = [masters EXCEPT ![k] = r.m] /\ dev' = dev
  BY DEF qdma_set_qmax
<1>2. /\ k = 1 /\ masters # <<>> /\ masters = <<masters[1]>> /\ Sound(masters[1], Funcs, TotalQ)
      /\ masters[1].idx = dev[f].idx
  BY MasterAt
<1>3. PICK m : masters = <<m>> /\ m = masters[1] /\ m = masters[k]
  BY <1>2
<1>4. dev[f].pc = "open" /\ index' = index
  BY <1>1
<1>5. Sound(m, Funcs, TotalQ) /\ f \in DOMAIN m.devs /\ Owns(m, dev[f], f) /\ dev[f] \in Devs
  <2>1. Owns(masters[1], dev[f], f) /\ dev[f] \in Devs
    BY <1>4 DEF IInv
  <2>. QED BY <1>2, <1>3, <2>1 DEF Owns
<1>6. PICK r : r = qdma_dev_update(m, f, qmax, qbase)
  OBVIOUS
<1>7. /\ r.ok \in BOOLEAN /\ Sound(r.m, Funcs, TotalQ) /\ r.m.idx = m.idx /\ DOMAIN r.m.devs = DOMAIN m.devs
      /\ \A g \in DOMAIN m.devs : g # f => r.m.devs[g].chunk = m.devs[g].chunk
      /\ ~r.ok => /\ r.m.devs[f].chunk.total = m.devs[f].chunk.total
                  /\ m.devs[f].chunk.total > 0 => r.m.devs[f].chunk = m.devs[f].chunk
  <2>1. qmax \in Nat /\ qbase \in Int
    BY QueuesAssumption
  <2>2. /\ r.ok \in BOOLEAN /\ Sound(r.m, Funcs, TotalQ) /\ r.m.idx = m.idx
        /\ DOMAIN r.m.devs = DOMAIN m.devs
        /\ \A g \in DOMAIN m.devs : g # f => r.m.devs[g] = m.devs[g]
        /\ ~r.ok => /\ r.m.devs[f].chunk.total = m.devs[f].chunk.total
                    /\ m.devs[f].chunk.total > 0 => r.m.devs[f].chunk = m.devs[f].chunk
    BY ONLY <1>5, <1>6, <2>1, UpdateIs
  <2>. QED BY ONLY <2>2
<1>8. CASE r.ok
  <2>1. PICK c : c = qdma_device_cleanup(r.m, f)
    OBVIOUS
  <2>2. r.m \in Masters(Funcs)
    BY <1>7 DEF Sound
  <2>3. c \in Recounts(r.m, Funcs)
    BY <2>1, <2>2, CleanupIs
  <2>4. PICK l : l = r.m /\ Sound(l, Funcs, TotalQ) /\ c \in Recounts(l, Funcs)
    BY <1>7, <2>3
  <2>5. /\ Sound(c, Funcs, TotalQ) /\ c.idx = l.idx /\ DOMAIN c.devs = DOMAIN l.devs
        /\ \A g \in DOMAIN l.devs : c.devs[g].chunk = l.devs[g].chunk
    BY ONLY <2>4, RecountSound
  <2>6. /\ c.idx = m.idx /\ DOMAIN c.devs = DOMAIN m.devs
        /\ \A g \in DOMAIN m.devs : g # f => c.devs[g].chunk = m.devs[g].chunk
    BY <1>7, <2>4, <2>5
  <2>7. PICK x \in Chunks : x = c.devs[f].chunk /\ x = qdma_dev_qinfo_get(c, f)
    <3>1. f \in DOMAIN c.devs
      BY <1>5, <2>6
    <3>2. c.devs[f].chunk \in Chunks
      BY <2>5, <3>1, EntryOnBoard
    <3>. QED BY <3>2 DEF qdma_dev_qinfo_get
  <2>8. PICK d \in Devs : /\ d = qdma_device_init(f, x) /\ d.pc = "open" /\ d.idx = dev[f].idx
                         /\ d.qmax = x.total /\ d.qbase = x.qbase /\ d.qrange = FALSE
    BY InitIs
  <2>9. masters' = <<c>> /\ dev' = [dev EXCEPT ![f] = d]
    <3>1. masters' = [masters EXCEPT ![k] = c] /\ dev' = [dev EXCEPT ![f] = d]
      BY <1>1, <1>3, <1>6, <1>8, <2>1, <2>7, <2>8
    <3>. QED BY <1>2, <1>3, <3>1
  <2>10. Owns(c, d, f)
    <3>1. x = Chunk(x.qbase, x.total)
      BY DEF Chunks, Chunk
    <3>2. dev[f].idx = m.idx /\ f \in DOMAIN c.devs
      BY <1>2, <1>3, <1>5, <2>6
    <3>. QED BY <2>6, <2>7, <2>8, <3>1, <3>2 DEF Owns
  <2>11. d.pc \in {"closed", "open"} /\ masters = <<m>>
    BY <1>3, <2>8
  <2>. QED BY <1>4, <2>5, <2>6, <2>9, <2>10, <2>11, CallKeeps
<1>9. CASE ~r.ok
  <2>1. PICK n : n = r.m
    OBVIOUS
  <2>2. masters' = <<n>> /\ dev' = dev
    <3>1. masters' = [masters EXCEPT ![k] = n] /\ dev' = dev
      BY <1>1, <1>3, <1>6, <1>9, <2>1
    <3>. QED BY <1>2, <1>3, <3>1
  <2>3. dev' = [dev EXCEPT ![f] = dev[f]]
    BY <2>2 DEF IInv
  <2>4. PICK d \in Devs : d = dev[f]
    BY <1>5
  <2>5. /\ n.devs[f].chunk.total = m.devs[f].chunk.total
        /\ m.devs[f].chunk.total > 0 => n.devs[f].chunk = m.devs[f].chunk
        /\ n.idx = m.idx /\ f \in DOMAIN n.devs
    BY <1>5, <1>7, <1>9, <2>1
  <2>6. Owns(n, d, f)
    BY <1>5, <2>4, <2>5 DEF Owns
  <2>7. /\ d.pc \in {"closed", "open"} /\ masters = <<m>> /\ dev' = [dev EXCEPT ![f] = d]
        /\ Sound(n, Funcs, TotalQ)
        /\ \A g \in DOMAIN m.devs : g # f =>
              g \in DOMAIN n.devs /\ n.devs[g].chunk = m.devs[g].chunk
    BY <1>3, <1>4, <1>7, <2>1, <2>3, <2>4
  <2>. QED BY <1>4, <2>2, <2>5, <2>6, <2>7, CallKeeps
<1>. QED BY <1>7, <1>8, <1>9

\* A changed size of the interrupt rings
LEMMA RngszKeeps ==
  ASSUME IInv, NEW f \in Funcs, NEW sz \in 0 .. 1, qdma_set_intr_rngsz(f, sz)
  PROVE  IInv'
<1>1. /\ dev[f].pc = "open" /\ masters' = masters /\ index' = index
      /\ dev' = [dev EXCEPT ![f].rngsz = sz]
  BY DEF qdma_set_intr_rngsz
<1>2. Owns(masters[1], dev[f], f) /\ dev[f] \in Devs /\ masters = <<masters[1]>> /\ Sound(masters[1], Funcs, TotalQ)
  BY <1>1 DEF IInv
<1>3. PICK m : m = masters[1]
  OBVIOUS
<1>4. PICK d \in Devs : /\ d = [dev[f] EXCEPT !.rngsz = sz]
                       /\ d.pc = "open" /\ d.idx = dev[f].idx /\ d.qmax = dev[f].qmax
                       /\ d.qbase = dev[f].qbase /\ d.qrange = dev[f].qrange /\ d.fmap = dev[f].fmap
  <2>. DEFINE d == [dev[f] EXCEPT !.rngsz = sz]
  <2>1. d \in Devs /\ d.pc = "open" /\ d.idx = dev[f].idx /\ d.qmax = dev[f].qmax
        /\ d.qbase = dev[f].qbase /\ d.qrange = dev[f].qrange /\ d.fmap = dev[f].fmap
    BY <1>1, <1>2 DEF Devs
  <2>. QED BY <2>1
<1>5. dev' = [dev EXCEPT ![f] = d]
  BY <1>1, <1>4 DEF IInv
<1>6. masters = <<m>> /\ masters' = <<m>> /\ Sound(m, Funcs, TotalQ) /\ Owns(m, d, f) /\ d.pc \in {"closed", "open"}
  BY <1>1, <1>2, <1>3, <1>4 DEF Owns
<1>. QED BY <1>1, <1>5, <1>6, CallKeeps

\* A list without its only member
LEMMA LastRemoved ==
  ASSUME NEW x
  PROVE  RemoveAt(<<x>>, 1) = <<>>
<1>1. SubSeq(<<x>>, 1, 0) = <<>> /\ SubSeq(<<x>>, 2, 1) = <<>> /\ Len(<<x>>) = 1
  OBVIOUS
<1>2. <<>> \o <<>> = <<>>
  OBVIOUS
<1>. QED BY <1>1, <1>2 DEF RemoveAt

\* A closed function: its queues are free again, and the master goes with the last entry.
LEMMA CloseKeeps ==
  ASSUME IInv, NEW f \in Funcs, qdma_device_close(f)
  PROVE  IInv'
<1>1. PICK k \in qdma_get_master_resource_entry(dev[f].idx) :
        /\ dev[f].pc = "open" /\ index' = index /\ dev' = [dev EXCEPT ![f] = ClosedDev]
        /\ masters' = qdma_master_resource_destroy(
                        [masters EXCEPT ![k] = qdma_dev_entry_destroy(
                                            qdma_device_cleanup(@, f), f)], k)
  BY DEF qdma_device_close
<1>2. /\ k = 1 /\ masters # <<>> /\ masters = <<masters[1]>> /\ Sound(masters[1], Funcs, TotalQ)
      /\ masters[1].idx = dev[f].idx
  BY MasterAt
<1>3. PICK m : masters = <<m>> /\ m = masters[1]
  BY <1>2
<1>4. Sound(m, Funcs, TotalQ) /\ f \in DOMAIN m.devs /\ m \in Masters(Funcs)
  <2>1. Owns(masters[1], dev[f], f)
    BY <1>1 DEF IInv
  <2>2. Sound(m, Funcs, TotalQ) /\ f \in DOMAIN m.devs
    BY <1>2, <1>3, <2>1 DEF Owns
  <2>. QED BY <2>2 DEF Sound
<1>5. PICK c \in Recounts(m, Funcs) : c = qdma_device_cleanup(m, f)
  BY <1>4, CleanupIs
<1>6. /\ Sound(c, Funcs, TotalQ) /\ c.idx = m.idx /\ DOMAIN c.devs = DOMAIN m.devs
      /\ \A g \in DOMAIN m.devs : c.devs[g].chunk = m.devs[g].chunk
  BY <1>4, RecountSound
<1>7. PICK n : n = qdma_dev_entry_destroy(c, f)
  OBVIOUS
<1>8. /\ Sound(n, Funcs, TotalQ) /\ n.idx = c.idx /\ DOMAIN n.devs = DOMAIN c.devs \ {f}
      /\ \A g \in DOMAIN c.devs \ {f} : n.devs[g].chunk = c.devs[g].chunk
  <2>1. f \in DOMAIN c.devs
    BY <1>4, <1>6
  <2>2. /\ Sound(n, Funcs, TotalQ) /\ n.idx = c.idx /\ DOMAIN n.devs = DOMAIN c.devs \ {f}
        /\ \A g \in DOMAIN c.devs \ {f} : n.devs[g] = c.devs[g]
    BY ONLY <1>6, <1>7, <2>1, DestroyIs
  <2>. QED BY ONLY <2>2
<1>9. masters' = qdma_master_resource_destroy(<<n>>, 1)
  <2>1. [masters EXCEPT ![k] = qdma_dev_entry_destroy(qdma_device_cleanup(@, f), f)] = <<n>>
    BY <1>2, <1>3, <1>5, <1>7
  <2>. QED BY <1>1, <1>2, <2>1
<1>10. <<n>>[1] = n
  OBVIOUS
<1>11. CASE DOMAIN n.devs # {}
  <2>1. masters' = <<n>>
    BY <1>9, <1>10, <1>11 DEF qdma_master_resource_destroy
  <2>2. \A g \in DOMAIN m.devs : g # f => g \in DOMAIN n.devs /\ n.devs[g].chunk = m.devs[g].chunk
    BY <1>6, <1>8
  <2>3. ClosedDev \in Devs /\ ClosedDev.pc = "closed"
    BY ClosedDevIs
  <2>4. PICK d \in Devs : d = ClosedDev /\ d.pc = "closed"
    BY <2>3
  <2>5. dev' = [dev EXCEPT ![f] = d] /\ masters = <<m>> /\ n.idx = m.idx /\ index' = index
    BY <1>1, <1>3, <1>6, <1>8, <2>4
  <2>. QED BY <1>8, <2>1, <2>2, <2>4, <2>5, CallKeeps
<1>12. CASE DOMAIN n.devs = {}
  <2>1. masters' = <<>>
    BY <1>9, <1>10, <1>12, LastRemoved DEF qdma_master_resource_destroy
  <2>2. /\ dev' \in [Funcs -> Devs] /\ dev'[f].pc = "closed" /\ index' \in Nat
        /\ \A g \in Funcs : g # f => dev'[g] = dev[g]
    BY <1>1, ClosedDevIs DEF IInv
  <2>3. \A g \in Funcs : g # f => dev[g].pc # "open"
    <3>. SUFFICES ASSUME NEW g \in Funcs, g # f, dev[g].pc = "open" PROVE FALSE
      OBVIOUS
    <3>1. Owns(masters[1], dev[g], g)
      BY DEF IInv
    <3>2. g \in DOMAIN m.devs
      BY <1>3, <3>1 DEF Owns
    <3>. QED BY <1>6, <1>8, <1>12, <3>2
  <2>4. \A g \in Funcs : dev'[g].pc # "open"
    BY <2>2, <2>3
  <2>5. \A g, h \in Funcs : Opening(g)' /\ Opening(h)' => g = h
    BY <2>2 DEF IInv, Opening
  <2>. QED BY <2>1, <2>2, <2>4, <2>5 DEF IInv
<1>. QED BY <1>11, <1>12

\* Every step keeps the invariant.
LEMMA NextKeeps ==
  ASSUME SerialOpen, IInv, [Next]_vars
  PROVE  IInv'
<1>1. CASE UNCHANGED vars
  BY <1>1 DEF vars, IInv, Opening, Owns
<1>2. CASE Next
  <2>1. PICK f \in Funcs :
        \/ qdma_device_open(f)
        \/ qdma_master_resource_create(f)
        \/ \E qmax \in Qmaxes, qbase \in Qbases \cup {-1}, online \in BOOLEAN :
                DeviceOnline(f, qmax, qbase, online)
        \/ \E t \in QTypes, mode \in {"MM", "ST"}, qidx \in Qidxs, hwok \in BOOLEAN :
                qdma_queue_add(f, t, mode, qidx, hwok)
        \/ \E t \in QTypes, i \in Indexes : qdma_queue_remove(f, t, i)
        \/ \E qmax \in Qmaxes \cup {0}, qbase \in Qbases \cup {-1} :
                qdma_set_qmax(f, qmax, qbase)
        \/ \E sz \in 0 .. 1 : qdma_set_intr_rngsz(f, sz)
        \/ qdma_device_close(f)
    BY <1>2 DEF Next, Qidxs
  <2>2. CASE qdma_device_open(f)
    BY <2>2, OpenKeeps
  <2>3. CASE qdma_master_resource_create(f)
    BY <2>3, CreateKeeps
  <2>4. ASSUME NEW qmax \in Qmaxes, NEW qbase \in Qbases \cup {-1}, NEW online \in BOOLEAN,
               DeviceOnline(f, qmax, qbase, online)
        PROVE  IInv'
    BY <2>4, OnlineKeeps
  <2>5. ASSUME NEW t \in QTypes, NEW mode \in {"MM", "ST"}, NEW qidx \in Qidxs,
               NEW hwok \in BOOLEAN, qdma_queue_add(f, t, mode, qidx, hwok)
        PROVE  IInv'
    BY <2>5, AddKeeps
  <2>6. ASSUME NEW t \in QTypes, NEW i \in Indexes, qdma_queue_remove(f, t, i) PROVE IInv'
    BY <2>6, RemoveKeeps
  <2>7. ASSUME NEW qmax \in Qmaxes \cup {0}, NEW qbase \in Qbases \cup {-1},
               qdma_set_qmax(f, qmax, qbase)
        PROVE  IInv'
    BY <2>7, SetQmaxKeeps
  <2>8. ASSUME NEW sz \in 0 .. 1, qdma_set_intr_rngsz(f, sz) PROVE IInv'
    BY <2>8, RngszKeeps
  <2>9. CASE qdma_device_close(f)
    BY <2>9, CloseKeeps
  <2>. QED BY <2>1, <2>2, <2>3, <2>4, <2>5, <2>6, <2>7, <2>8, <2>9
<1>. QED BY <1>1, <1>2

-----------------------------------------------------------------------------
(***************************************************************************)
(* The theorems.  Functions are opened one after the other: two that search*)
(* for the master at the same time may both find none.                     *)
(***************************************************************************)
\* The invariant holds in every reachable state (qdma_device_open(), qdma_request_q_resource()).
THEOREM InvariantHolds ==
  ASSUME SerialOpen
  PROVE  Spec => []IInv
<1>1. Init => IInv
  BY InitHolds
<1>2. IInv /\ [Next]_vars => IInv'
  BY NextKeeps
<1>. QED BY <1>1, <1>2, PTL DEF Spec

\* Whatever is opened, closed, requested and refused, in whatever order, every hardware queue is
\* either free or owned by exactly one function (qdma_request_q_resource(),
\* qdma_submit_to_free_list(), qdma_get_resource_node()).
THEOREM QueuesPartitionedHolds ==
  ASSUME SerialOpen
  PROVE  Spec => []QueuesPartitioned
<1>1. IInv => QueuesPartitioned
  <2>. SUFFICES ASSUME IInv PROVE QueuesPartitioned
    OBVIOUS
  <2>1. CASE masters = <<>>
    <3>1. Len(masters) = 0 /\ DOMAIN masters = {}
      BY <2>1
    <3>. QED BY <3>1 DEF QueuesPartitioned
  <2>2. CASE masters # <<>>
    <3>1. masters = <<masters[1]>> /\ Sound(masters[1], Funcs, TotalQ)
      BY <2>2 DEF IInv
    <3>2. PICK m : m = masters[1] /\ masters = <<m>>
      BY <3>1
    <3>3. Len(masters) = 1 /\ DOMAIN masters = {1}
      BY <3>2
    <3>4. Partitioned(masters[1], TotalQ)
      BY <3>1, SoundPartitioned
    <3>. QED BY <3>3, <3>4 DEF QueuesPartitioned
  <2>. QED BY <2>1, <2>2
<1>. QED BY <1>1, InvariantHolds, PTL

\* An open function works with the range it owns in the resource manager, and the hardware maps
\* that range to it once a queue has been added (qdma_device_init(), qdma_set_qmax(),
\* device_set_qrange()).
THEOREM RangeOwnedHolds ==
  ASSUME SerialOpen
  PROVE  Spec => []RangeOwned
<1>1. IInv => RangeOwned
  <2>. SUFFICES ASSUME IInv, NEW f \in Funcs, dev[f].pc = "open"
                PROVE  /\ dev[f].qmax > 0 =>
                            \E k \in DOMAIN masters :
                                /\ masters[k].idx = dev[f].idx
                                /\ HasEntry(masters[k], f)
                                /\ masters[k].devs[f].chunk = Chunk(dev[f].qbase, dev[f].qmax)
                       /\ dev[f].qrange => dev[f].fmap = Chunk(dev[f].qbase, dev[f].qmax)
    BY DEF RangeOwned
  <2>1. masters = <<masters[1]>> /\ Owns(masters[1], dev[f], f)
    BY DEF IInv
  <2>2. PICK m : m = masters[1] /\ masters = <<m>>
    BY <2>1
  <2>3. 1 \in DOMAIN masters
    BY <2>2
  <2>. QED BY <2>1, <2>3 DEF Owns, HasEntry
<1>. QED BY <1>1, InvariantHolds, PTL

-----------------------------------------------------------------------------
\* Induction over the subsets of a finite set: from every T without an element to T itself.
LEMMA EverySubset ==
  ASSUME NEW S, IsFiniteSet(S), NEW G \in SUBSET (SUBSET S), {} \in G,
         \A T \in SUBSET S : T # {} /\ (\A x \in T : T \ {x} \in G) => T \in G
  PROVE  \A T \in SUBSET S : T \in G
<1>. SUFFICES ASSUME NEW T \in SUBSET S PROVE T \in G
  OBVIOUS
<1>. DEFINE H == G \cap SUBSET T
<1>1. IsFiniteSet(T) /\ H \in SUBSET (SUBSET T) /\ {} \in H
  BY FS_Subset
<1>2. \A U \in SUBSET T : U # {} /\ (\A x \in U : U \ {x} \in H) => U \in H
  OBVIOUS
<1>. HIDE DEF H
<1>3. T \in H
  BY <1>1, <1>2, SubsetInduction
<1>. QED BY <1>3 DEF H

\* A sum over the subsets of a set, as the folds of the community modules define it: one member
\* after the other, and whichever of them the set's CHOOSE gives.
Chosen(s) == CHOOSE x \in s : TRUE
SumEq(f, D, F) == f = [s \in D |-> IF s = {} THEN 0 ELSE F[Chosen(s)] + f[s \ {Chosen(s)}]]
Natural(S, F) == \A x \in S : F[x] \in Nat
AnyOrder(f, S, F) == \A T \in SUBSET S : \A x \in T : f[T] = F[x] + f[T \ {x}]
IsSum(f, S, F) == SumEq(f, SUBSET S, F)

\* There is a function that adds up F over every subset of a finite set.
LEMMA SumExists ==
  ASSUME NEW S, IsFiniteSet(S), NEW F
  PROVE  \E f : IsSum(f, S, F)
<1>. DEFINE D(n) == {s \in SUBSET S : Cardinality(s) <= n}
            N == {n \in Nat : \E f : SumEq(f, D(n), F)}
<1>1. \A s \in SUBSET S : IsFiniteSet(s) /\ Cardinality(s) \in Nat
                            /\ (Cardinality(s) = 0 <=> s = {})
  BY FS_Subset, FS_CardinalityType, FS_EmptySet
<1>2. \A s \in SUBSET S : s # {} =>
        /\ s \ {Chosen(s)} \in SUBSET S
        /\ Cardinality(s \ {Chosen(s)}) = Cardinality(s) - 1
  <2>. SUFFICES ASSUME NEW s \in SUBSET S, s # {}
                PROVE  Cardinality(s \ {Chosen(s)}) = Cardinality(s) - 1
    OBVIOUS
  <2>1. Chosen(s) \in s
    BY DEF Chosen
  <2>. QED BY <1>1, <2>1, FS_RemoveElement
<1>3. 0 \in N
  <2>1. D(0) = {{}}
    BY <1>1
  <2>. DEFINE f == [s \in {{}} |-> 0]
  <2>2. SumEq(f, {{}}, F)
    BY DEF SumEq, IsSum
  <2>. QED BY <2>1, <2>2
<1>4. ASSUME NEW n \in N PROVE n + 1 \in N
  <2>1. PICK f : SumEq(f, D(n), F)
    OBVIOUS
  <2>. DEFINE g == [s \in D(n + 1) |->
                      IF s = {} THEN 0 ELSE F[Chosen(s)] + f[s \ {Chosen(s)}]]
  <2>2. D(n) \subseteq D(n + 1)
    BY <1>1
  <2>3. \A s \in D(n) : g[s] = f[s]
    BY <2>1, <2>2 DEF SumEq
  <2>4. \A s \in D(n + 1) : s # {} => s \ {Chosen(s)} \in D(n)
    BY <1>1, <1>2
  <2>5. g = [s \in D(n + 1) |-> IF s = {} THEN 0 ELSE F[Chosen(s)] + g[s \ {Chosen(s)}]]
    BY <2>3, <2>4
  <2>6. SumEq(g, D(n + 1), F)
    BY <2>5 DEF SumEq
  <2>7. \E h : SumEq(h, D(n + 1), F)
    <3>. HIDE DEF g
    <3>. QED BY <2>6
  <2>. HIDE DEF D
  <2>. QED BY <2>7
<1>5. N = Nat
  <2>. HIDE DEF N
  <2>1. N \in SUBSET Nat
    BY DEF N
  <2>. QED BY <1>3, <1>4, <2>1, NatInductionSet
<1>6. Cardinality(S) \in Nat /\ D(Cardinality(S)) = SUBSET S
  BY <1>1, FS_Subset
<1>. QED BY <1>5, <1>6 DEF IsSum

\* The sum of F over S, and that it does not matter in which order it is made up
LEMMA SumOfSet ==
  ASSUME NEW S, IsFiniteSet(S), NEW F, Natural(S, F), NEW f, IsSum(f, S, F)
  PROVE  /\ f \in [SUBSET S -> Nat]
         /\ AnyOrder(f, S, F)
<1>1. /\ DOMAIN f = SUBSET S /\ f[{}] = 0
      /\ \A T \in SUBSET S : T # {} => f[T] = F[Chosen(T)] + f[T \ {Chosen(T)}]
  BY DEF SumEq, IsSum
<1>0. \A x \in S : F[x] \in Nat
  BY DEF Natural
<1>2. \A T \in SUBSET S : T # {} => Chosen(T) \in T
  BY DEF Chosen
<1>3. f \in [SUBSET S -> Nat]
  <2>. DEFINE G == {T \in SUBSET S : f[T] \in Nat}
  <2>0. {} \in G
    BY <1>1
  <2>5. ASSUME NEW T \in SUBSET S, T # {}, \A x \in T : T \ {x} \in G PROVE T \in G
    <3>. DEFINE c == Chosen(T)
    <3>1. c \in T /\ c \in S /\ f[T] = F[c] + f[T \ {c}]
      BY <1>1, <1>2, <2>5
    <3>. HIDE DEF c
    <3>2. f[T \ {c}] \in Nat /\ F[c] \in Nat
      BY <1>0, <2>5, <3>1
    <3>. QED BY <3>1, <3>2
  <2>. HIDE DEF G
  <2>1. {} \in G /\ \A T \in SUBSET S : T # {} /\ (\A x \in T : T \ {x} \in G) => T \in G
    BY <2>0, <2>5
  <2>4. G \in SUBSET (SUBSET S)
    BY DEF G
  <2>2. \A T \in SUBSET S : T \in G
    BY <2>1, <2>4, EverySubset
  <2>3. f = [T \in SUBSET S |-> f[T]]
    BY DEF SumEq, IsSum
  <2>. QED BY <2>2, <2>3 DEF G
<1>. DEFINE G == {T \in SUBSET S : \A x \in T : f[T] = F[x] + f[T \ {x}]}
<1>4. {} \in G
  OBVIOUS
<1>5. ASSUME NEW T \in SUBSET S, T # {}, \A x \in T : T \ {x} \in G PROVE T \in G
  <2>. DEFINE c == Chosen(T)
  <2>1. c \in T /\ f[T] = F[c] + f[T \ {c}]
    BY <1>1, <1>2, <1>5
  <2>. HIDE DEF c
  <2>2. ASSUME NEW x \in T, x # c PROVE f[T] = F[x] + f[T \ {x}]
    <3>1. f[T \ {c}] = F[x] + f[(T \ {c}) \ {x}] /\ f[T \ {x}] = F[c] + f[(T \ {x}) \ {c}]
      BY <1>5, <2>1, <2>2
    <3>2. (T \ {c}) \ {x} = (T \ {x}) \ {c}
      OBVIOUS
    <3>3. f[(T \ {x}) \ {c}] \in Nat /\ F[x] \in Nat /\ F[c] \in Nat
      BY <1>0, <1>3, <2>1
    <3>. DEFINE a == f[(T \ {x}) \ {c}]
    <3>4. /\ f[T \ {c}] = F[x] + a /\ f[T \ {x}] = F[c] + a /\ a \in Nat
          /\ F[x] \in Nat /\ F[c] \in Nat
      BY <3>1, <3>2, <3>3
    <3>. HIDE DEF a
    <3>. QED BY <2>1, <3>4
  <2>. QED BY <2>1, <2>2
<1>6. \A T \in SUBSET S : T \in G
  <2>. HIDE DEF G
  <2>1. G \in SUBSET (SUBSET S)
    BY DEF G
  <2>. QED BY <1>4, <1>5, <2>1, EverySubset
<1>. QED BY <1>3, <1>6 DEF AnyOrder

\* Two such functions agree wherever what they add up agrees.
LEMMA SumUnique ==
  ASSUME NEW S, IsFiniteSet(S), NEW F, NEW f, IsSum(f, S, F), NEW R, NEW H, NEW g, 
         S \subseteq R, IsSum(g, R, H), \A x \in S : F[x] = H[x]
  PROVE  f[S] = g[S]
<1>1. /\ f[{}] = 0 /\ g[{}] = 0
      /\ \A T \in SUBSET S : T # {} => /\ f[T] = F[Chosen(T)] + f[T \ {Chosen(T)}]
                                     /\ g[T] = H[Chosen(T)] + g[T \ {Chosen(T)}]
  BY DEF SumEq, IsSum
<1>. DEFINE G == {T \in SUBSET S : f[T] = g[T]}
<1>2. {} \in G
  BY <1>1
<1>3. \A T \in SUBSET S : T # {} => Chosen(T) \in T
  BY DEF Chosen
<1>4. ASSUME NEW T \in SUBSET S, T # {}, \A x \in T : T \ {x} \in G PROVE T \in G
  <2>1. PICK c \in T : c = Chosen(T)
    BY <1>3, <1>4
  <2>2. f[T \ {c}] = g[T \ {c}]
    BY <1>4
  <2>3. F[c] = H[c]
    OBVIOUS
  <2>4. f[T] = F[c] + f[T \ {c}] /\ g[T] = H[c] + g[T \ {c}]
    BY ONLY <1>1, <1>4, <2>1
  <2>5. f[T] = g[T]
    BY ONLY <2>2, <2>3, <2>4
  <2>. QED BY <2>5
<1>. HIDE DEF G
<1>5. G \in SUBSET (SUBSET S)
  BY DEF G
<1>6. S \in G
  BY <1>2, <1>4, <1>5, SubsetInduction
<1>. QED BY <1>6 DEF G

-----------------------------------------------------------------------------
\* The counts of active queues of a master, by function and type, and their sum
CntOf(m) == [p \in (DOMAIN m.devs) \X QTypes |-> m.devs[p[1]].cnt[p[2]]]
CntSum(m, S) == MapThenSumSet(LAMBDA p : m.devs[p[1]].cnt[p[2]], S)

\* The sum is made up one count at a time.
LEMMA CntSumIs ==
  ASSUME NEW m, NEW S \in SUBSET ((DOMAIN m.devs) \X QTypes), IsFiniteSet(S)
  PROVE  \E f : IsSum(f, S, CntOf(m)) /\ CntSum(m, S) = f[S]
<1>. DEFINE F == CntOf(m)
            f == CHOOSE f : f = [s \in SUBSET S |->
                    IF s = {} THEN 0
                    ELSE m.devs[(CHOOSE x \in s : TRUE)[1]].cnt[(CHOOSE x \in s : TRUE)[2]]
                         + f[s \ {CHOOSE x \in s : TRUE}]]
<1>1. \A s \in SUBSET S : s # {} =>
        Chosen(s) \in s /\ F[Chosen(s)] = m.devs[Chosen(s)[1]].cnt[Chosen(s)[2]]
  BY DEF Chosen, CntOf
<1>2. \A g : IsSum(g, S, F) <=>
        g = [s \in SUBSET S |-> IF s = {} THEN 0
                               ELSE m.devs[Chosen(s)[1]].cnt[Chosen(s)[2]] + g[s \ {Chosen(s)}]]
  <2>. HIDE DEF F
  <2>. QED BY <1>1 DEF SumEq, IsSum
<1>3. PICK g : IsSum(g, S, F)
  <2>. HIDE DEF F
  <2>. QED BY SumExists
<1>4. \E h : h = [s \in SUBSET S |->
                    IF s = {} THEN 0
                    ELSE m.devs[(CHOOSE x \in s : TRUE)[1]].cnt[(CHOOSE x \in s : TRUE)[2]]
                         + h[s \ {CHOOSE x \in s : TRUE}]]
  <2>1. g = [s \in SUBSET S |->
                    IF s = {} THEN 0
                    ELSE m.devs[(CHOOSE x \in s : TRUE)[1]].cnt[(CHOOSE x \in s : TRUE)[2]]
                         + g[s \ {CHOOSE x \in s : TRUE}]]
    BY <1>2, <1>3 DEF Chosen
  <2>. QED BY <2>1
<1>5. f = [s \in SUBSET S |->
                    IF s = {} THEN 0
                    ELSE m.devs[(CHOOSE x \in s : TRUE)[1]].cnt[(CHOOSE x \in s : TRUE)[2]]
                         + f[s \ {CHOOSE x \in s : TRUE}]]
  BY <1>4, Zenon
<1>6. CntSum(m, S) = f[S]
  BY DEF CntSum, MapThenSumSet, MapThenFoldSet
<1>. HIDE DEF f, F
<1>7. IsSum(f, S, F)
  BY <1>2, <1>5 DEF Chosen
<1>. QED BY <1>6, <1>7 DEF F

\* The sum is a number, and loses the count that is taken out of it.
LEMMA CntSumOut ==
  ASSUME NEW F, NEW m \in Masters(F),
         NEW S \in SUBSET ((DOMAIN m.devs) \X QTypes), IsFiniteSet(S)
  PROVE  /\ CntSum(m, S) \in Nat /\ CntSum(m, {}) = 0
         /\ \A p \in S : CntSum(m, S) = m.devs[p[1]].cnt[p[2]] + CntSum(m, S \ {p})
<1>. DEFINE C == CntOf(m)
<1>1. \A T \in SUBSET S : IsFiniteSet(T) /\ T \in SUBSET ((DOMAIN m.devs) \X QTypes)
  BY FS_Subset
<1>2. \A p \in S : C[p] \in Nat /\ C[p] = m.devs[p[1]].cnt[p[2]]
  <2>. SUFFICES ASSUME NEW p \in S PROVE C[p] \in Nat /\ C[p] = m.devs[p[1]].cnt[p[2]]
    OBVIOUS
  <2>1. p \in (DOMAIN m.devs) \X QTypes /\ p[1] \in DOMAIN m.devs /\ p[2] \in QTypes
    OBVIOUS
  <2>2. m.devs[p[1]].cnt[p[2]] \in Nat
    BY <2>1, MasterIs
  <2>. QED BY <2>1, <2>2 DEF CntOf
<1>3. \A T \in SUBSET S : \E f : IsSum(f, T, C) /\ CntSum(m, T) = f[T]
  BY <1>1, CntSumIs
<1>. HIDE DEF C
<1>4. PICK g : IsSum(g, S, C)
  BY SumExists
<1>5. ASSUME NEW T \in SUBSET S PROVE CntSum(m, T) = g[T]
  <2>1. PICK f : IsSum(f, T, C) /\ CntSum(m, T) = f[T]
    BY <1>3
  <2>2. IsFiniteSet(T) /\ T \subseteq S /\ \A x \in T : C[x] = C[x]
    BY <1>1
  <2>. QED BY <1>4, <2>1, <2>2, SumUnique
<1>6. /\ g \in [SUBSET S -> Nat]
      /\ AnyOrder(g, S, C)
  <2>1. Natural(S, C)
    BY <1>2 DEF Natural
  <2>. QED BY <1>4, <2>1, SumOfSet
<1>7. g[{}] = 0
  BY <1>4 DEF SumEq, IsSum
<1>8. CntSum(m, S) = g[S] /\ CntSum(m, {}) = g[{}] /\ g[S] \in Nat
  BY <1>5, <1>6
<1>9. ASSUME NEW p \in S PROVE CntSum(m, S) = m.devs[p[1]].cnt[p[2]] + CntSum(m, S \ {p})
  <2>1. g[S] = C[p] + g[S \ {p}]
    BY <1>6 DEF AnyOrder
  <2>2. CntSum(m, S \ {p}) = g[S \ {p}]
    BY <1>5
  <2>. QED BY <1>2, <1>8, <2>1, <2>2
<1>. QED BY <1>7, <1>8, <1>9

\* The sum depends on the counts alone.
LEMMA CntSumSame ==
  ASSUME NEW m, NEW n, NEW S, IsFiniteSet(S),
         S \subseteq (DOMAIN m.devs) \X QTypes, S \subseteq (DOMAIN n.devs) \X QTypes,
         \A p \in S : m.devs[p[1]].cnt[p[2]] = n.devs[p[1]].cnt[p[2]]
  PROVE  CntSum(m, S) = CntSum(n, S)
<1>. DEFINE C == CntOf(m)
            D == CntOf(n)
<1>1. \A p \in S : C[p] = D[p]
  BY DEF CntOf
<1>2. (\E f : IsSum(f, S, C) /\ CntSum(m, S) = f[S])
      /\ \E f : IsSum(f, S, D) /\ CntSum(n, S) = f[S]
  BY CntSumIs
<1>. HIDE DEF C, D
<1>3. PICK f : IsSum(f, S, C) /\ CntSum(m, S) = f[S]
  BY <1>2
<1>4. PICK g : IsSum(g, S, D) /\ CntSum(n, S) = g[S]
  BY <1>2
<1>5. S \subseteq S
  OBVIOUS
<1>6. f[S] = g[S]
  BY ONLY <1>1, <1>3, <1>4, <1>5, IsFiniteSet(S), SumUnique
<1>. QED BY <1>3, <1>4, <1>6

\* A sum of counts of at most b each
LEMMA CntSumBound ==
  ASSUME NEW F, NEW m \in Masters(F),
         NEW S \in SUBSET ((DOMAIN m.devs) \X QTypes), IsFiniteSet(S),
         NEW b \in Nat, \A p \in S : m.devs[p[1]].cnt[p[2]] <= b
  PROVE  CntSum(m, S) <= b * Cardinality(S)
<1>. DEFINE G == {T \in SUBSET S : CntSum(m, T) <= b * Cardinality(T)}
<1>1. \A T \in SUBSET S : IsFiniteSet(T) /\ T \in SUBSET ((DOMAIN m.devs) \X QTypes)
                            /\ Cardinality(T) \in Nat
  BY FS_Subset, FS_CardinalityType
<1>2. {} \in G
  <2>1. CntSum(m, {}) = 0 /\ Cardinality({}) = 0
    BY CntSumOut, FS_EmptySet
  <2>. QED BY <2>1
<1>3. ASSUME NEW T \in SUBSET S, T # {}, \A x \in T : T \ {x} \in G PROVE T \in G
  <2>1. PICK p \in T : TRUE
    BY <1>3
  <2>2. CntSum(m, T \ {p}) <= b * Cardinality(T \ {p})
    BY <1>3
  <2>3. Cardinality(T \ {p}) = Cardinality(T) - 1 /\ IsFiniteSet(T)
    BY <1>1, FS_RemoveElement
  <2>4. /\ CntSum(m, T) \in Nat
        /\ CntSum(m, T) = m.devs[p[1]].cnt[p[2]] + CntSum(m, T \ {p})
    <3>1. IsFiniteSet(T) /\ T \in SUBSET ((DOMAIN m.devs) \X QTypes)
      BY <1>1
    <3>2. /\ CntSum(m, T) \in Nat
          /\ \A q \in T : CntSum(m, T) = m.devs[q[1]].cnt[q[2]] + CntSum(m, T \ {q})
      BY ONLY <3>1, m \in Masters(F), CntSumOut
    <3>. QED BY <3>2
  <2>5. CntSum(m, T \ {p}) \in Nat
    <3>. DEFINE U == T \ {p}
    <3>1. IsFiniteSet(U) /\ U \in SUBSET ((DOMAIN m.devs) \X QTypes)
      BY <1>1
    <3>. HIDE DEF U
    <3>2. CntSum(m, U) \in Nat
      BY ONLY <3>1, m \in Masters(F), CntSumOut
    <3>. QED BY <3>2 DEF U
  <2>6. m.devs[p[1]].cnt[p[2]] \in Nat
    <3>1. p \in (DOMAIN m.devs) \X QTypes
      OBVIOUS
    <3>2. p[1] \in DOMAIN m.devs /\ p[2] \in QTypes
      BY <3>1
    <3>. QED BY <3>2, MasterIs
  <2>. DEFINE x == CntSum(m, T)
              y == CntSum(m, T \ {p})
              z == m.devs[p[1]].cnt[p[2]]
              k == Cardinality(T)
  <2>7. /\ x \in Nat /\ y \in Nat /\ z \in Nat /\ k \in Nat /\ x = z + y /\ y <= b * (k - 1)
        /\ z <= b
    BY <1>1, <2>2, <2>3, <2>4, <2>5, <2>6
  <2>. HIDE DEF x, y, z, k
  <2>8. b * (k - 1) = b * k - b
    BY <2>7
  <2>9. x <= b * k
    BY <2>7, <2>8
  <2>. QED BY <2>9 DEF x, k
<1>. HIDE DEF G
<1>4. G \in SUBSET (SUBSET S)
  BY DEF G
<1>5. S \in G
  BY <1>2, <1>3, <1>4, SubsetInduction
<1>. QED BY <1>5 DEF G


-----------------------------------------------------------------------------
(***************************************************************************)
(* The count of the board is the sum of the counts of its functions and of *)
(* what functions left in it when they were closed: s.                     *)
(***************************************************************************)
Counts(m) == (DOMAIN m.devs) \X QTypes

Tally(m, s) ==
  /\ m \in Masters(Funcs)
  /\ \A f \in DOMAIN m.devs, t \in QTypes : m.devs[f].cnt[t] <= Cardinality(Indexes)
  /\ m.act = CntSum(m, Counts(m)) + s

\* What closed functions can have left: their completion queues, which are not removed.
Left == 0 .. Cardinality(Indexes) * MaxOpens

\* The count of the board holds every queue that can be counted.
CountsFit == Cardinality(Indexes) * (3 * Cardinality(Funcs) + MaxOpens) < 2^CountWidth

\* The counts are finitely many.
LEMMA CountsFinite ==
  ASSUME NEW m \in Masters(Funcs)
  PROVE  /\ IsFiniteSet(Counts(m)) /\ Counts(m) \in SUBSET ((DOMAIN m.devs) \X QTypes)
         /\ Cardinality(Counts(m)) \in Nat
         /\ Cardinality(Counts(m)) <= 3 * Cardinality(Funcs)
         /\ Cardinality(Indexes) \in Nat /\ Cardinality(Funcs) \in Nat
<1>1. IsFiniteSet(Funcs) /\ IsFiniteSet(Indexes) /\ DOMAIN m.devs \in SUBSET Funcs
  BY MasterIs, QueuesAssumption
<1>2. IsFiniteSet(DOMAIN m.devs) /\ Cardinality(DOMAIN m.devs) <= Cardinality(Funcs)
  BY <1>1, FS_Subset
<1>3. IsFiniteSet(QTypes) /\ Cardinality(QTypes) = 3
  <2>1. IsFiniteSet({"H2C"}) /\ Cardinality({"H2C"}) = 1
    BY FS_Singleton
  <2>2. {"H2C", "C2H"} = {"H2C"} \cup {"C2H"} /\ QTypes = {"H2C", "C2H"} \cup {"CMPT"}
    BY DEF QTypes
  <2>3. IsFiniteSet({"H2C", "C2H"}) /\ Cardinality({"H2C", "C2H"}) = 2
    <3>1. "C2H" \notin {"H2C"}
      OBVIOUS
    <3>. QED BY <2>1, <2>2, <3>1, FS_AddElement
  <2>4. "CMPT" \notin {"H2C", "C2H"}
    OBVIOUS
  <2>. QED BY <2>2, <2>3, <2>4, FS_AddElement
<1>4. /\ IsFiniteSet(Counts(m))
      /\ Cardinality(Counts(m)) = Cardinality(DOMAIN m.devs) * Cardinality(QTypes)
  BY <1>2, <1>3, FS_Product DEF Counts
<1>5. Cardinality(DOMAIN m.devs) \in Nat /\ Cardinality(Funcs) \in Nat /\ Cardinality(Indexes) \in Nat
  BY <1>1, <1>2, FS_CardinalityType
<1>. QED BY <1>2, <1>3, <1>4, <1>5 DEF Counts

\* The count of the board neither wraps nor goes below zero.
LEMMA TallyFits ==
  ASSUME CountsFit, NEW m, NEW s \in Left, Tally(m, s)
  PROVE  /\ m.act \in 0 .. 2^CountWidth - 1
         /\ CntSum(m, Counts(m)) \in Nat /\ CntSum(m, Counts(m)) <= m.act
<1>. DEFINE i == Cardinality(Indexes)
            n == Cardinality(Funcs)
            k == Cardinality(Counts(m))
            w == 2^CountWidth
            x == CntSum(m, Counts(m))
<1>1. m \in Masters(Funcs)
  BY DEF Tally
<1>2. /\ IsFiniteSet(Counts(m)) /\ Counts(m) \in SUBSET ((DOMAIN m.devs) \X QTypes)
      /\ k \in Nat /\ k <= 3 * n /\ i \in Nat /\ n \in Nat
  BY <1>1, CountsFinite
<1>3. \A p \in Counts(m) : m.devs[p[1]].cnt[p[2]] <= i
  BY DEF Tally, Counts
<1>4. x \in Nat /\ x <= i * k
  BY <1>1, <1>2, <1>3, CntSumOut, CntSumBound
<1>5. MaxOpens \in Nat /\ w \in Nat /\ m.act = x + s /\ s \in Nat /\ s <= i * MaxOpens
      /\ i * (3 * n + MaxOpens) < w
  <2>1. i * MaxOpens \in Nat
    BY <1>2, QueuesAssumption
  <2>. QED BY <1>2, <2>1, QueuesAssumption, CountWidthAssumption DEF Tally, Left, CountsFit
<1>. HIDE DEF i, n, k, w, x
<1>6. i * k <= i * (3 * n)
  <2>1. 3 * n - k \in Nat
    BY <1>2
  <2>2. i * (3 * n - k) \in Nat
    BY <1>2, <2>1
  <2>3. i * (3 * n) = i * k + i * (3 * n - k) /\ i * k \in Nat
    BY <1>2
  <2>. QED BY <2>2, <2>3
<1>7. i * (3 * n + MaxOpens) = i * (3 * n) + i * MaxOpens
      /\ i * (3 * n) \in Nat /\ i * MaxOpens \in Nat /\ i * k \in Nat
  BY <1>2, <1>5
<1>8. m.act \in Nat /\ m.act < w /\ x <= m.act
  <2>. DEFINE a == i * (3 * n)
              b == i * MaxOpens
              c == i * k
  <2>1. /\ a \in Nat /\ b \in Nat /\ c \in Nat /\ a + b < w /\ c <= a /\ x <= c /\ s <= b
    BY <1>4, <1>5, <1>6, <1>7
  <2>. HIDE DEF a, b, c
  <2>. QED BY <1>4, <1>5, <2>1
<1>. QED BY <1>4, <1>5, <1>8 DEF w, x

\* A number below w is its own remainder.
LEMMA OwnRemainder ==
  ASSUME NEW w \in Nat, NEW x \in 0 .. w - 1
  PROVE  x % w = x
<1>. DEFINE q == x \div w
            r == x % w
<1>1. w > 0 /\ x \in Nat
  OBVIOUS
<1>2. q \in Nat /\ r \in 0 .. w - 1 /\ x = w * q + r
  BY <1>1
<1>. HIDE DEF q, r
<1>3. CASE q = 0
  <2>1. w * q = 0
    BY <1>3
  <2>. QED BY <1>2, <2>1 DEF r
<1>4. CASE q > 0
  <2>1. q - 1 \in Nat /\ w * (q - 1) \in Nat /\ w * q = w * (q - 1) + w
    BY <1>1, <1>2, <1>4
  <2>. QED BY <1>1, <1>2, <2>1
<1>. QED BY <1>2, <1>3, <1>4

\* Function f's count of queues of type t becomes x; nothing else is counted differently.
OneCount(m, n, f, t, x) ==
  /\ n \in Recounts(m, Funcs)
  /\ n.devs[f].cnt[t] = x
  /\ \A u \in QTypes \ {t} : n.devs[f].cnt[u] = m.devs[f].cnt[u]
  /\ \A g \in DOMAIN m.devs \ {f} : n.devs[g] = m.devs[g]

\* A count set is the only one that changes.
LEMMA SetOne ==
  ASSUME NEW m \in Masters(Funcs), NEW f \in DOMAIN m.devs, NEW t \in QTypes, NEW x \in Nat, NEW a \in Int
  PROVE  OneCount(m, SetCount(m, f, t, x, a), f, t, x) /\ SetCount(m, f, t, x, a).act = a
<1>. DEFINE n == SetCount(m, f, t, x, a)
            e == [m.devs[f] EXCEPT !.cnt[t] = x]
            d == [m.devs EXCEPT ![f] = e]
<1>1. /\ m.devs \in [DOMAIN m.devs -> Entries] /\ m.devs[f] \in Entries
      /\ m.devs[f].cnt \in [QTypes -> Nat]
  BY MasterIs
<1>2. e.cnt[t] = x /\ \A u \in QTypes \ {t} : e.cnt[u] = m.devs[f].cnt[u]
  BY <1>1 DEF Entries
<1>3. n = [[m EXCEPT !.devs = d] EXCEPT !.act = a]
  BY DEF Masters, SetCount
<1>. HIDE DEF e
<1>4. d[f] = e /\ \A g \in DOMAIN m.devs \ {f} : d[g] = m.devs[g]
  BY <1>1
<1>. HIDE DEF d
<1>5. n.devs = d /\ n.act = a
  BY <1>3 DEF Masters
<1>6. n \in Recounts(m, Funcs)
  BY CountSet
<1>. HIDE DEF n
<1>7. OneCount(m, n, f, t, x) /\ n.act = a
  BY <1>2, <1>4, <1>5, <1>6 DEF OneCount
<1>. QED BY <1>7 DEF n

\* The sum changes by what the count does.
LEMMA OneSum ==
  ASSUME NEW m \in Masters(Funcs), NEW f \in DOMAIN m.devs, NEW t \in QTypes, NEW x \in Nat,
         NEW n, OneCount(m, n, f, t, x)
  PROVE  /\ Counts(n) = Counts(m)
         /\ CntSum(n, Counts(n)) = CntSum(m, Counts(m)) - m.devs[f].cnt[t] + x
<1>. DEFINE S == Counts(m)
            p == <<f, t>>
            R == S \ {p}
<1>1. n \in Masters(Funcs) /\ DOMAIN n.devs = DOMAIN m.devs /\ Counts(n) = S
  BY DEF OneCount, Recounts, Counts
<1>2. /\ IsFiniteSet(S) /\ S \in SUBSET ((DOMAIN m.devs) \X QTypes)
      /\ S \in SUBSET ((DOMAIN n.devs) \X QTypes) /\ p \in S
  BY <1>1, CountsFinite DEF Counts
<1>3. IsFiniteSet(R)
  BY <1>2, FS_Subset
<1>4. \A q \in R : m.devs[q[1]].cnt[q[2]] = n.devs[q[1]].cnt[q[2]]
  <2>. SUFFICES ASSUME NEW q \in R PROVE m.devs[q[1]].cnt[q[2]] = n.devs[q[1]].cnt[q[2]]
    OBVIOUS
  <2>1. q[1] \in DOMAIN m.devs /\ q[2] \in QTypes /\ (q[1] # f \/ q[2] # t)
    BY DEF Counts
  <2>. QED BY <2>1 DEF OneCount
<1>5. CntSum(m, R) = CntSum(n, R)
  <2>1. R \subseteq (DOMAIN m.devs) \X QTypes /\ R \subseteq (DOMAIN n.devs) \X QTypes
    BY <1>2
  <2>. HIDE DEF R
  <2>. QED BY ONLY <1>3, <1>4, <2>1, CntSumSame
<1>6. CntSum(m, S) \in Nat /\ CntSum(m, S) = m.devs[f].cnt[t] + CntSum(m, R)
  <2>1. CntSum(m, S) \in Nat /\ \A q \in S : CntSum(m, S) = m.devs[q[1]].cnt[q[2]] + CntSum(m, S \ {q})
    BY <1>2, CntSumOut
  <2>. QED BY <1>2, <2>1
<1>7. CntSum(n, S) \in Nat /\ CntSum(n, S) = n.devs[f].cnt[t] + CntSum(n, R)
  <2>1. CntSum(n, S) \in Nat /\ \A q \in S : CntSum(n, S) = n.devs[q[1]].cnt[q[2]] + CntSum(n, S \ {q})
    BY <1>1, <1>2, CntSumOut
  <2>. QED BY <1>2, <2>1
<1>8. CntSum(m, R) \in Nat
  BY <1>2, <1>3, CntSumOut
<1>9. n.devs[f].cnt[t] = x /\ m.devs[f].cnt[t] \in Nat
  BY MasterIs DEF OneCount
<1>. HIDE DEF R, S
<1>. QED BY <1>1, <1>5, <1>6, <1>7, <1>8, <1>9 DEF S

\* A count and the count of the board go up or down together.
LEMMA OneTally ==
  ASSUME NEW m, NEW s \in Left, Tally(m, s), NEW f \in DOMAIN m.devs, NEW t \in QTypes,
         NEW x \in Nat, x <= Cardinality(Indexes), NEW n, OneCount(m, n, f, t, x),
         n.act = m.act + x - m.devs[f].cnt[t]
  PROVE  Tally(n, s)
<1>1. m \in Masters(Funcs) /\ n \in Masters(Funcs) /\ DOMAIN n.devs = DOMAIN m.devs
  BY DEF Tally, OneCount, Recounts
<1>2. \A g \in DOMAIN n.devs, u \in QTypes : n.devs[g].cnt[u] <= Cardinality(Indexes)
  <2>. SUFFICES ASSUME NEW g \in DOMAIN n.devs, NEW u \in QTypes
                PROVE  n.devs[g].cnt[u] <= Cardinality(Indexes)
    OBVIOUS
  <2>1. CASE g = f /\ u = t
    BY <2>1 DEF OneCount
  <2>2. CASE ~(g = f /\ u = t)
    <3>1. n.devs[g].cnt[u] = m.devs[g].cnt[u]
      BY <1>1, <2>2 DEF OneCount
    <3>. QED BY <1>1, <3>1 DEF Tally
  <2>. QED BY <2>1, <2>2
<1>3. CntSum(n, Counts(n)) = CntSum(m, Counts(m)) - m.devs[f].cnt[t] + x
  BY <1>1, OneSum
<1>4. CntSum(m, Counts(m)) \in Nat /\ m.devs[f].cnt[t] \in Nat
  BY <1>1, CountsFinite, CntSumOut, MasterIs
<1>5. s \in Int
  BY CountsFinite, <1>1, QueuesAssumption DEF Left
<1>6. m.act = CntSum(m, Counts(m)) + s
  BY DEF Tally
<1>7. n.act = CntSum(n, Counts(n)) + s
  BY <1>3, <1>4, <1>5, <1>6
<1>. QED BY <1>1, <1>2, <1>7 DEF Tally

\* A queue is counted.
LEMMA CountUp ==
  ASSUME CountsFit, NEW m, NEW s \in Left, Tally(m, s), NEW f \in DOMAIN m.devs, NEW t \in QTypes,
         m.devs[f].cnt[t] + 1 <= m.devs[f].chunk.total,
         m.devs[f].cnt[t] + 1 <= Cardinality(Indexes)
  PROVE  LET up == qdma_dev_increment_active_queue(m, f, t) IN
           /\ up.ok = TRUE /\ Tally(up.m, s)
           /\ OneCount(m, up.m, f, t, m.devs[f].cnt[t] + 1)
<1>. DEFINE up == qdma_dev_increment_active_queue(m, f, t)
            x  == m.devs[f].cnt[t] + 1
            w  == 2^CountWidth
            a  == (m.act + 1) % w
            n  == SetCount(m, f, t, x, a)
            n1 == SetCount(m, f, t, x, m.act + 1)
<1>1. /\ m \in Masters(Funcs) /\ m.devs[f].cnt[t] \in Nat /\ m.devs[f].chunk.total \in Nat
      /\ m.devs \in [DOMAIN m.devs -> Entries] /\ m.act \in Int /\ m.devs[f] \in Entries
  <2>1. m \in Masters(Funcs)
    BY DEF Tally
  <2>2. \A c \in Chunks : c.total \in Nat
    BY DEF Chunks
  <2>. QED BY <2>1, <2>2, MasterIs
<1>2. up.ok = TRUE /\ up.m = n
  <2>1. up = [ok |-> TRUE, m |-> [m EXCEPT !.devs[f].cnt[t] = @ + 1, !.act = (@ + 1) % w]]
    BY <1>1 DEF qdma_dev_increment_active_queue, HasEntry
  <2>2. n = [m EXCEPT !.devs[f].cnt[t] = @ + 1, !.act = (@ + 1) % w]
    BY <1>1 DEF Masters, SetCount
  <2>. HIDE DEF n, w
  <2>. QED BY <2>1, <2>2
<1>3. /\ OneCount(m, n1, f, t, x) /\ n1.act = m.act + 1 /\ x \in Nat
  BY <1>1, SetOne
<1>4. Tally(n1, s)
  <2>. HIDE DEF n1
  <2>. QED BY <1>1, <1>3, OneTally
<1>5. m.act + 1 \in 0 .. w - 1 /\ w \in Nat
  <2>1. n1.act \in 0 .. 2^CountWidth - 1
    BY <1>4, TallyFits
  <2>. QED BY <1>3, <2>1, CountWidthAssumption
<1>6. a = m.act + 1
  <2>. HIDE DEF w
  <2>. QED BY <1>5, OwnRemainder
<1>7. n = n1
  <2>. HIDE DEF a
  <2>. QED BY <1>6
<1>. HIDE DEF n, n1, up
<1>. QED BY <1>2, <1>3, <1>4, <1>7 DEF up

\* A count is given back.
LEMMA CountDown ==
  ASSUME CountsFit, NEW m, NEW s \in Left, Tally(m, s), NEW f \in DOMAIN m.devs, NEW t \in QTypes,
         m.devs[f].cnt[t] > 0
  PROVE  LET down == qdma_dev_decrement_active_queue(m, f, t) IN
           Tally(down, s) /\ OneCount(m, down, f, t, m.devs[f].cnt[t] - 1)
<1>. DEFINE down == qdma_dev_decrement_active_queue(m, f, t)
            x  == m.devs[f].cnt[t] - 1
            w  == 2^CountWidth
            a  == (m.act - 1) % w
            n  == SetCount(m, f, t, x, a)
            n1 == SetCount(m, f, t, x, m.act - 1)
<1>1. /\ m \in Masters(Funcs) /\ m.devs[f].cnt[t] \in Nat
      /\ m.devs \in [DOMAIN m.devs -> Entries] /\ m.act \in Int /\ m.devs[f] \in Entries
      /\ m.devs[f].cnt[t] <= Cardinality(Indexes) /\ Cardinality(Indexes) \in Nat
  <2>1. m \in Masters(Funcs)
    BY DEF Tally
  <2>. QED BY <2>1, MasterIs, CountsFinite DEF Tally
<1>2. down = n
  <2>1. down = [m EXCEPT !.devs[f].cnt[t] = IF @ > 0 THEN @ - 1 ELSE 0, !.act = (@ - 1) % w]
    BY DEF qdma_dev_decrement_active_queue, HasEntry
  <2>2. n = [m EXCEPT !.devs[f].cnt[t] = IF @ > 0 THEN @ - 1 ELSE 0, !.act = (@ - 1) % w]
    BY <1>1 DEF Masters, SetCount
  <2>. HIDE DEF n, w
  <2>. QED BY <2>1, <2>2
<1>3. /\ OneCount(m, n1, f, t, x) /\ n1.act = m.act - 1 /\ x \in Nat /\ x <= Cardinality(Indexes)
  BY <1>1, SetOne
<1>4. Tally(n1, s)
  <2>. HIDE DEF n1
  <2>. QED BY <1>1, <1>3, OneTally
<1>5. m.act - 1 \in 0 .. w - 1 /\ w \in Nat
  <2>1. n1.act \in 0 .. 2^CountWidth - 1
    BY <1>4, TallyFits
  <2>. QED BY <1>3, <2>1, CountWidthAssumption
<1>6. a = m.act - 1
  <2>. HIDE DEF w
  <2>. QED BY <1>5, OwnRemainder
<1>7. n = n1
  <2>. HIDE DEF a
  <2>. QED BY <1>6
<1>. HIDE DEF n, n1, down
<1>. QED BY <1>2, <1>3, <1>4, <1>7 DEF down

-----------------------------------------------------------------------------
\* Adding a queue counts it under the same types, when no count is refused.
LEMMA CountAddedSteps ==
  ASSUME NEW m, NEW f, NEW t, NEW mode
  PROVE  LET first == qdma_dev_increment_active_queue(m, f, t)
             both  == qdma_dev_increment_active_queue(first.m, f, "CMPT")
         IN  /\ first.ok = TRUE /\ ~Both(t, mode) => CountAdded(m, f, t, mode) = first.m
             /\ first.ok = TRUE /\ both.ok = TRUE /\ Both(t, mode) => CountAdded(m, f, t, mode) = both.m
<1>1. /\ Both(t, mode) => Len(Counted(t, mode)) = 2
      /\ ~Both(t, mode) => Len(Counted(t, mode)) = 1
  BY DEF Counted, Both
<1>. DEFINE first == qdma_dev_increment_active_queue(m, f, t)
            both  == qdma_dev_increment_active_queue(first.m, f, "CMPT")
            back  == qdma_dev_decrement_active_queue(first.m, f, t)
            l == Len(Counted(t, mode))
<1>2. CountAdded(m, f, t, mode)
        = CASE ~first.ok -> m
            [] first.ok /\ l = 1 -> first.m
            [] first.ok /\ l = 2 /\ both.ok -> both.m
            [] OTHER -> back
  BY DEF CountAdded
<1>. HIDE DEF first, both, back, l
<1>3. first.ok = TRUE /\ l = 1 => CountAdded(m, f, t, mode) = first.m
  BY <1>2
<1>4. first.ok = TRUE /\ both.ok = TRUE /\ l = 2 => CountAdded(m, f, t, mode) = both.m
  BY <1>2
<1>. QED BY <1>1, <1>3, <1>4 DEF first, both, l

-----------------------------------------------------------------------------
(***************************************************************************)
(* The queues of a function and what is counted for them                   *)
(***************************************************************************)
Queues == [QTypes -> [Indexes -> {"off", "MM", "ST"}]]

\* A queue of type t is counted under type u.
CountedUnder(t, mode, u) == u = t \/ (u = "CMPT" /\ Both(t, mode))

\* The indexes that count as queues of type t
Using(q, t) == {i \in Indexes : q[t][i] # "off" \/ (t = "CMPT" /\ q["C2H"][i] = "ST")}

\* An index has one completion queue: its own, or that of its streaming receive queue.
OneCompletion(q) == \A i \in Indexes : q["C2H"][i] = "ST" => q["CMPT"][i] = "off"

\* The queues with one of them enabled, or disabled
Enable(q, t, i, mode) == [q EXCEPT ![t][i] = mode]

CountsAre(m, f, q) == \A t \in QTypes : m.devs[f].cnt[t] = Cardinality(Using(q, t))

\* They are numbers, of at most the indexes there are.
LEMMA UsingIs ==
  ASSUME NEW q, NEW t
  PROVE  /\ IsFiniteSet(Using(q, t)) /\ Cardinality(Using(q, t)) \in Nat
         /\ Cardinality(Using(q, t)) <= Cardinality(Indexes) /\ Cardinality(Indexes) \in Nat
         /\ (Cardinality(Using(q, t)) = 0 <=> Using(q, t) = {})
<1>1. IsFiniteSet(Indexes) /\ Using(q, t) \in SUBSET Indexes
  BY QueuesAssumption DEF Using
<1>2. IsFiniteSet(Using(q, t)) /\ Cardinality(Using(q, t)) <= Cardinality(Indexes)
  BY <1>1, FS_Subset
<1>. QED BY <1>1, <1>2, FS_CardinalityType, FS_EmptySet

\* Indexes below n count as at most n queues.
LEMMA UsingBelow ==
  ASSUME NEW q \in Queues, NEW t \in QTypes, NEW n \in Nat,
         \A u \in QTypes, i \in Indexes : q[u][i] # "off" => i < n
  PROVE  Cardinality(Using(q, t)) <= n
<1>1. \A i \in Using(q, t) : i \in Nat /\ i < n
  <2>. SUFFICES ASSUME NEW i \in Using(q, t) PROVE i \in Nat /\ i < n
    OBVIOUS
  <2>1. i \in Indexes /\ (q[t][i] # "off" \/ q["C2H"][i] # "off")
    BY DEF Using
  <2>2. "C2H" \in QTypes /\ Indexes \subseteq Nat
    BY QueuesAssumption DEF QTypes
  <2>. QED BY <2>1, <2>2
<1>2. Using(q, t) \in SUBSET (0 .. (n - 1))
  BY <1>1
<1>3. IsFiniteSet(0 .. (n - 1)) /\ Cardinality(0 .. (n - 1)) = n
  <2>1. \A a, b \in Int : IsFiniteSet(a .. b)
          /\ Cardinality(a .. b) = IF a > b THEN 0 ELSE b - a + 1
    BY FS_Interval
  <2>2. n - 1 \in Int
    OBVIOUS
  <2>. QED BY <2>1, <2>2
<1>. QED BY <1>2, <1>3, FS_Subset

\* A queue taken off its index counts one less under its type, and a streaming receive queue
\* under its completion queue too.
LEMMA UsingOff ==
  ASSUME NEW q \in Queues, OneCompletion(q), NEW t \in QTypes, NEW i \in Indexes, q[t][i] # "off",
         NEW p, p = Enable(q, t, i, "off")
  PROVE  /\ p \in Queues /\ OneCompletion(p)
         /\ \A u \in QTypes :
              /\ CountedUnder(t, q[t][i], u) => Cardinality(Using(q, u)) = Cardinality(Using(p, u)) + 1
              /\ ~CountedUnder(t, q[t][i], u) => Cardinality(Using(q, u)) = Cardinality(Using(p, u))
<1>1. /\ p \in Queues
      /\ \A u \in QTypes, j \in Indexes :
            p[u][j] = IF u = t /\ j = i THEN "off" ELSE q[u][j]
  BY DEF Queues, Enable
<1>2. "C2H" \in QTypes /\ "CMPT" \in QTypes
  BY DEF QTypes
<1>3. OneCompletion(p)
  BY <1>1, <1>2 DEF OneCompletion
<1>4. ASSUME NEW u \in QTypes, CountedUnder(t, q[t][i], u)
      PROVE  Cardinality(Using(q, u)) = Cardinality(Using(p, u)) + 1
  <2>1. i \in Using(q, u)
    BY <1>4 DEF Using, Both, CountedUnder
  <2>2. i \notin Using(p, u)
    <3>1. p[u][i] = "off"
      BY <1>1, <1>2, <1>4 DEF Both, CountedUnder, OneCompletion
    <3>2. u = "CMPT" => p["C2H"][i] # "ST"
      BY <1>1, <1>2, <1>4 DEF Both, CountedUnder, OneCompletion
    <3>. QED BY <3>1, <3>2 DEF Using
  <2>3. \A j \in Indexes : j # i => (j \in Using(q, u) <=> j \in Using(p, u))
    BY <1>1, <1>2 DEF Using
  <2>4. Using(p, u) = Using(q, u) \ {i}
    <3>1. Using(p, u) \subseteq Indexes /\ Using(q, u) \subseteq Indexes
      BY DEF Using
    <3>. QED BY <2>1, <2>2, <2>3, <3>1
  <2>5. Cardinality(Using(q, u) \ {i}) = Cardinality(Using(q, u)) - 1
    BY <2>1, UsingIs, FS_RemoveElement
  <2>6. Cardinality(Using(q, u)) \in Nat
    BY UsingIs
  <2>7. Cardinality(Using(p, u)) = Cardinality(Using(q, u)) - 1
    BY <2>4, <2>5
  <2>. QED BY <2>6, <2>7
<1>5. ASSUME NEW u \in QTypes, ~CountedUnder(t, q[t][i], u)
      PROVE  Cardinality(Using(q, u)) = Cardinality(Using(p, u))
  <2>1. \A j \in Indexes : j \in Using(q, u) <=> j \in Using(p, u)
    BY <1>1, <1>2, <1>5 DEF Using, Both, CountedUnder
  <2>2. Using(p, u) = Using(q, u)
    BY <2>1 DEF Using
  <2>. QED BY <2>2
<1>. QED BY <1>1, <1>3, <1>4, <1>5

\* The counts of a removed queue are given back.
LEMMA UncountTally ==
  ASSUME CountsFit, NEW m, NEW s \in Left, Tally(m, s), NEW f \in DOMAIN m.devs,
         NEW q \in Queues, OneCompletion(q), CountsAre(m, f, q),
         NEW t \in QTypes, NEW i \in Indexes, q[t][i] # "off",
         NEW p, p = Enable(q, t, i, "off"), NEW n, n = Uncount(m, f, t, q[t][i])
  PROVE  /\ Tally(n, s) /\ n \in Recounts(m, Funcs) /\ CountsAre(n, f, p)
         /\ p \in Queues /\ OneCompletion(p)
         /\ \A g \in DOMAIN m.devs \ {f} : n.devs[g] = m.devs[g]
<1>1. m \in Masters(Funcs) /\ "CMPT" \in QTypes
  BY DEF Tally, QTypes
<1>2. /\ p \in Queues /\ OneCompletion(p)
      /\ \A u \in QTypes :
              /\ CountedUnder(t, q[t][i], u) => Cardinality(Using(q, u)) = Cardinality(Using(p, u)) + 1
              /\ ~CountedUnder(t, q[t][i], u) => Cardinality(Using(q, u)) = Cardinality(Using(p, u))
  BY ONLY q \in Queues, OneCompletion(q), t \in QTypes, i \in Indexes, q[t][i] # "off",
          p = Enable(q, t, i, "off"), UsingOff
<1>3. \A u \in QTypes : /\ Cardinality(Using(p, u)) \in Nat
                        /\ m.devs[f].cnt[u] = Cardinality(Using(q, u))
  BY UsingIs DEF CountsAre
<1>4. PICK x : x = qdma_dev_decrement_active_queue(m, f, t)
  OBVIOUS
<1>5. m.devs[f].cnt[t] > 0 /\ m.devs[f].cnt[t] - 1 = Cardinality(Using(p, t))
  <2>1. CountedUnder(t, q[t][i], t)
    BY DEF CountedUnder
  <2>2. m.devs[f].cnt[t] = Cardinality(Using(p, t)) + 1 /\ Cardinality(Using(p, t)) \in Nat
    BY <1>2, <1>3, <2>1
  <2>. QED BY <2>2
<1>6. Tally(x, s) /\ OneCount(m, x, f, t, m.devs[f].cnt[t] - 1)
  BY <1>4, <1>5, CountDown
<1>7. x \in Masters(Funcs) /\ DOMAIN x.devs = DOMAIN m.devs /\ x \in Recounts(m, Funcs)
  BY <1>6 DEF OneCount, Recounts
<1>8. CASE ~Both(t, q[t][i])
  <2>1. n = x
    BY <1>1, <1>4, <1>8, UncountSteps
  <2>2. CountsAre(x, f, p)
    <3>. SUFFICES ASSUME NEW u \in QTypes PROVE x.devs[f].cnt[u] = Cardinality(Using(p, u))
      BY DEF CountsAre
    <3>1. CASE u = t
      BY <1>5, <1>6, <3>1 DEF OneCount
    <3>2. CASE u # t
      BY <1>2, <1>3, <1>6, <1>8, <3>2 DEF OneCount, CountedUnder
    <3>. QED BY <3>1, <3>2
  <2>. QED BY <1>2, <1>6, <1>7, <2>1, <2>2 DEF OneCount
<1>9. CASE Both(t, q[t][i])
  <2>1. n = qdma_dev_decrement_active_queue(x, f, "CMPT") /\ t # "CMPT"
    BY <1>1, <1>4, <1>9, UncountSteps DEF Both
  <2>2. /\ x.devs[f].cnt["CMPT"] > 0
        /\ x.devs[f].cnt["CMPT"] - 1 = Cardinality(Using(p, "CMPT"))
    <3>1. x.devs[f].cnt["CMPT"] = m.devs[f].cnt["CMPT"]
      BY <1>1, <1>6, <2>1 DEF OneCount
    <3>2. /\ m.devs[f].cnt["CMPT"] = Cardinality(Using(p, "CMPT")) + 1
          /\ Cardinality(Using(p, "CMPT")) \in Nat
      BY <1>1, <1>2, <1>3, <1>9 DEF CountedUnder
    <3>. QED BY <3>1, <3>2
  <2>3. Tally(n, s) /\ OneCount(x, n, f, "CMPT", x.devs[f].cnt["CMPT"] - 1)
    BY <1>1, <1>6, <1>7, <2>1, <2>2, CountDown
  <2>4. CountsAre(n, f, p)
    <3>. SUFFICES ASSUME NEW u \in QTypes PROVE n.devs[f].cnt[u] = Cardinality(Using(p, u))
      BY DEF CountsAre
    <3>1. CASE u = "CMPT"
      BY <2>2, <2>3, <3>1 DEF OneCount
    <3>2. CASE u = t
      BY <1>5, <1>6, <2>1, <2>3, <3>2 DEF OneCount
    <3>3. CASE u # t /\ u # "CMPT"
      BY <1>2, <1>3, <1>6, <2>3, <3>3 DEF OneCount, CountedUnder
    <3>. QED BY <3>1, <3>2, <3>3
  <2>5. n \in Recounts(m, Funcs)
    BY <1>1, <1>7, <2>3, RecountAgain DEF OneCount
  <2>6. \A g \in DOMAIN m.devs \ {f} : n.devs[g] = m.devs[g]
    BY <1>6, <1>7, <2>3 DEF OneCount
  <2>. QED BY <1>2, <2>3, <2>4, <2>5, <2>6
<1>. QED BY <1>8, <1>9

\* An added queue is counted: no count is refused.
LEMMA CountAddedTally ==
  ASSUME CountsFit, NEW m, NEW s \in Left, Tally(m, s), NEW f \in DOMAIN m.devs,
         NEW p \in Queues, CountsAre(m, f, p),
         NEW t \in QTypes, NEW i \in Indexes, p[t][i] = "off", NEW mode \in {"MM", "ST"},
         NEW q, q = Enable(p, t, i, mode), OneCompletion(q),
         \A u \in QTypes, j \in Indexes : q[u][j] # "off" => j < m.devs[f].chunk.total,
         NEW n, n = CountAdded(m, f, t, mode)
  PROVE  /\ Tally(n, s) /\ n \in Recounts(m, Funcs) /\ CountsAre(n, f, q) /\ q \in Queues
         /\ \A g \in DOMAIN m.devs \ {f} : n.devs[g] = m.devs[g]
<1>1. /\ m \in Masters(Funcs) /\ "CMPT" \in QTypes /\ m.devs[f].chunk.total \in Nat
      /\ m.devs[f].chunk \in Chunks
  <2>1. m \in Masters(Funcs)
    BY DEF Tally
  <2>2. \A c \in Chunks : c.total \in Nat
    BY DEF Chunks
  <2>. QED BY <2>1, <2>2, MasterIs DEF QTypes
<1>2. q \in Queues /\ q[t][i] = mode /\ q[t][i] # "off" /\ p = Enable(q, t, i, "off")
  BY DEF Queues, Enable
<1>3. \A u \in QTypes :
              /\ CountedUnder(t, mode, u) => Cardinality(Using(q, u)) = Cardinality(Using(p, u)) + 1
              /\ ~CountedUnder(t, mode, u) => Cardinality(Using(q, u)) = Cardinality(Using(p, u))
  <2>1. OneCompletion(q) /\ t \in QTypes /\ i \in Indexes
    OBVIOUS
  <2>. QED BY ONLY <1>2, <2>1, UsingOff
<1>4. \A u \in QTypes : /\ Cardinality(Using(p, u)) \in Nat
                        /\ m.devs[f].cnt[u] = Cardinality(Using(p, u))
                        /\ Cardinality(Using(q, u)) <= m.devs[f].chunk.total
                        /\ Cardinality(Using(q, u)) <= Cardinality(Indexes)
  BY <1>1, <1>2, UsingIs, UsingBelow DEF CountsAre
<1>5. PICK first : first = qdma_dev_increment_active_queue(m, f, t)
  OBVIOUS
<1>6. PICK x : x = first.m
  OBVIOUS
<1>7. m.devs[f].cnt[t] + 1 = Cardinality(Using(q, t))
  BY <1>3, <1>4 DEF CountedUnder
<1>8. first.ok = TRUE /\ Tally(x, s) /\ OneCount(m, x, f, t, m.devs[f].cnt[t] + 1)
  BY <1>4, <1>5, <1>6, <1>7, CountUp
<1>9. /\ x \in Masters(Funcs) /\ DOMAIN x.devs = DOMAIN m.devs /\ x \in Recounts(m, Funcs)
      /\ x.devs[f].chunk = m.devs[f].chunk
  BY <1>8 DEF OneCount, Recounts
<1>10. CASE ~Both(t, mode)
  <2>1. n = x
    BY <1>5, <1>6, <1>8, <1>10, CountAddedSteps
  <2>2. CountsAre(x, f, q)
    <3>. SUFFICES ASSUME NEW u \in QTypes PROVE x.devs[f].cnt[u] = Cardinality(Using(q, u))
      BY DEF CountsAre
    <3>1. CASE u = t
      BY <1>7, <1>8, <3>1 DEF OneCount
    <3>2. CASE u # t
      BY <1>3, <1>4, <1>8, <1>10, <3>2 DEF OneCount, CountedUnder
    <3>. QED BY <3>1, <3>2
  <2>. QED BY <1>2, <1>8, <1>9, <2>1, <2>2 DEF OneCount
<1>11. CASE Both(t, mode)
  <2>1. PICK both : both = qdma_dev_increment_active_queue(x, f, "CMPT")
    OBVIOUS
  <2>2. t # "CMPT"
    BY <1>11 DEF Both
  <2>3. x.devs[f].cnt["CMPT"] + 1 = Cardinality(Using(q, "CMPT"))
    <3>1. x.devs[f].cnt["CMPT"] = m.devs[f].cnt["CMPT"]
      BY <1>1, <1>8, <2>2 DEF OneCount
    <3>2. Cardinality(Using(q, "CMPT")) = m.devs[f].cnt["CMPT"] + 1
      BY <1>1, <1>3, <1>4, <1>11 DEF CountedUnder
    <3>. QED BY <3>1, <3>2
  <2>4. /\ x.devs[f].cnt["CMPT"] + 1 <= x.devs[f].chunk.total
        /\ x.devs[f].cnt["CMPT"] + 1 <= Cardinality(Indexes)
    BY <1>1, <1>4, <1>9, <2>3
  <2>5. /\ both.ok = TRUE /\ Tally(both.m, s)
        /\ OneCount(x, both.m, f, "CMPT", x.devs[f].cnt["CMPT"] + 1)
    BY <1>1, <1>8, <1>9, <2>1, <2>4, CountUp
  <2>6. n = both.m
    BY <1>5, <1>6, <1>8, <1>11, <2>1, <2>5, CountAddedSteps
  <2>7. CountsAre(n, f, q)
    <3>. SUFFICES ASSUME NEW u \in QTypes PROVE n.devs[f].cnt[u] = Cardinality(Using(q, u))
      BY DEF CountsAre
    <3>1. CASE u = "CMPT"
      BY <2>3, <2>5, <2>6, <3>1 DEF OneCount
    <3>2. CASE u = t
      BY <1>7, <1>8, <2>2, <2>5, <2>6, <3>2 DEF OneCount
    <3>3. CASE u # t /\ u # "CMPT"
      BY <1>3, <1>4, <1>8, <2>5, <2>6, <3>3 DEF OneCount, CountedUnder
    <3>. QED BY <3>1, <3>2, <3>3
  <2>8. n \in Recounts(m, Funcs)
    BY <1>1, <1>9, <2>5, <2>6, RecountAgain DEF OneCount
  <2>9. \A g \in DOMAIN m.devs \ {f} : n.devs[g] = m.devs[g]
    BY <1>8, <1>9, <2>5, <2>6 DEF OneCount
  <2>. QED BY <1>2, <2>5, <2>6, <2>7, <2>8, <2>9
<1>. QED BY <1>10, <1>11

-----------------------------------------------------------------------------
\* A cleanup gives back the counts of the queues it removes: of those of the two directions.
LEMMA CleanupTally ==
  ASSUME CountsFit, NEW m, NEW s \in Left, Tally(m, s), NEW f \in DOMAIN m.devs,
         dev[f].q \in Queues, OneCompletion(dev[f].q), CountsAre(m, f, dev[f].q),
         foreign = {}, NEW n, n = qdma_device_cleanup(m, f)
  PROVE  /\ Tally(n, s) /\ n \in Recounts(m, Funcs)
         /\ \A g \in DOMAIN m.devs \ {f} : n.devs[g] = m.devs[g]
         /\ \E p \in Queues :
              /\ CountsAre(n, f, p)
              /\ \A i \in Indexes : /\ p["H2C"][i] = "off" /\ p["C2H"][i] = "off"
                                    /\ p["CMPT"][i] = dev[f].q["CMPT"][i]
<1>1. m \in Masters(Funcs)
  BY DEF Tally
<1>2. PICK q \in Queues : q = dev[f].q
  OBVIOUS
<1>3. PICK l : l = SetToSeq(Removed(f))
  OBVIOUS
<1>4. PICK k \in Nat : /\ l \in [1 .. k -> Removed(f)]
                       /\ \A a, b \in 1 .. k : l[a] = l[b] => a = b
                       /\ \A x \in Removed(f) : \E a \in 1 .. k : l[a] = x
  BY <1>3, RemovedFinite, ListedOnce
<1>. DEFINE S == 1 .. k
<1>5. S \in SUBSET Int /\ IsFiniteSet(S) /\ DOMAIN l = S
  BY <1>4, FS_Interval
<1>6. PICK h : /\ n = h[S] /\ h[{}] = m
               /\ \A T \in SUBSET S : T # {} =>
                     h[T] = Uncount(h[T \ {Max(T)}], f, l[Max(T)][1], q[l[Max(T)][1]][l[Max(T)][2]])
  <2>1. PICK h : qdma_device_cleanup(m, f) = h[DOMAIN l] /\ RemovesEach(h, m, f, l)
    BY <1>1, <1>3, CleanupSteps
  <2>. HIDE DEF S
  <2>2. n = h[S] /\ h[{}] = m
    BY <1>5, <2>1 DEF RemovesEach
  <2>3. \A a \in S : q_type(f, l[a][1], l[a][2]) = l[a][1]
    <3>1. \A a \in S : l[a][1] \in QTypes
      BY <1>4, RemovedFinite DEF S
    <3>. QED BY <3>1, QTypeIs
  <2>4. \A T \in SUBSET S : T # {} =>
          h[T] = Uncount(h[T \ {Max(T)}], f, l[Max(T)][1], q[l[Max(T)][1]][l[Max(T)][2]])
    <3>1. \A T \in SUBSET S : T # {} => Max(T) \in S
      BY <1>5, MaxOfPart
    <3>. QED BY <1>2, <1>5, <2>1, <2>3, <3>1 DEF RemovesEach
  <2>. QED BY <2>2, <2>4
<1>7. \A a \in S : /\ l[a] = <<l[a][1], l[a][2]>> /\ l[a][1] \in {"H2C", "C2H"} /\ l[a][2] \in Indexes
                   /\ q[l[a][1]][l[a][2]] # "off" /\ l[a][1] \in QTypes
  <2>. SUFFICES ASSUME NEW a \in S
                PROVE  /\ l[a] = <<l[a][1], l[a][2]>> /\ l[a][1] \in {"H2C", "C2H"} /\ l[a][2] \in Indexes
                       /\ q[l[a][1]][l[a][2]] # "off" /\ l[a][1] \in QTypes
    OBVIOUS
  <2>1. l[a] \in Removed(f)
    BY <1>4
  <2>. QED BY <1>2, <2>1 DEF Removed, QTypes
<1>. DEFINE Rest(T) == [t \in QTypes |-> [i \in Indexes |->
                           IF \E a \in T : l[a] = <<t, i>> THEN "off" ELSE q[t][i]]]
            Kept(T) == /\ Tally(h[T], s) /\ h[T] \in Recounts(m, Funcs)
                       /\ \A g \in DOMAIN m.devs \ {f} : h[T].devs[g] = m.devs[g]
                       /\ Rest(T) \in Queues /\ OneCompletion(Rest(T)) /\ CountsAre(h[T], f, Rest(T))
            G == {T \in SUBSET S : Kept(T)}
<1>8. {} \in G
  <2>1. Rest({}) = q
    BY DEF Queues
  <2>. HIDE DEF Rest
  <2>2. m \in Recounts(m, Funcs)
    BY <1>1 DEF Recounts
  <2>3. Tally(h[{}], s) /\ h[{}] \in Recounts(m, Funcs) /\ \A g \in DOMAIN m.devs \ {f} : h[{}].devs[g] = m.devs[g]
    BY <1>6, <2>2
  <2>4. Rest({}) \in Queues /\ OneCompletion(Rest({})) /\ CountsAre(h[{}], f, Rest({}))
    BY <1>2, <1>6, <2>1
  <2>. QED BY <2>3, <2>4
<1>9. ASSUME NEW T \in SUBSET S, T # {}, \A x \in T : T \ {x} \in G PROVE T \in G
  <2>1. Max(T) \in T /\ Max(T) \in S
    BY <1>5, <1>9, FS_Subset, MaxIs
  <2>2. PICK c \in T : c = Max(T) /\ c \in S
    BY <2>1
  <2>3. PICK U \in SUBSET S : U = T \ {c} /\ T = U \cup {c} /\ c \notin U
    <3>. HIDE DEF S, G
    <3>1. T \ {c} \in SUBSET S /\ T = (T \ {c}) \cup {c} /\ c \notin T \ {c}
      OBVIOUS
    <3>. QED BY <3>1
  <2>4. Kept(U)
    BY <1>9, <2>3
  <2>5. PICK t \in QTypes, i \in Indexes : l[c] = <<t, i>> /\ t = l[c][1] /\ i = l[c][2] /\ q[t][i] # "off"
    BY <1>7, <2>2
  <2>6. h[T] = Uncount(h[U], f, t, q[t][i])
    BY <1>6, <1>9, <2>2, <2>3, <2>5
  <2>7. Rest(U)[t][i] = q[t][i]
    <3>1. \A a \in U : l[a] # <<t, i>>
      BY <1>4, <2>2, <2>3, <2>5
    <3>. QED BY <3>1
  <2>8. Rest(T) = Enable(Rest(U), t, i, "off")
    <3>1. \A u \in QTypes, j \in Indexes :
            Rest(T)[u][j] = IF u = t /\ j = i THEN "off" ELSE Rest(U)[u][j]
      <4>. SUFFICES ASSUME NEW u \in QTypes, NEW j \in Indexes
                    PROVE  Rest(T)[u][j] = IF u = t /\ j = i THEN "off" ELSE Rest(U)[u][j]
        OBVIOUS
      <4>1. (\E a \in T : l[a] = <<u, j>>) <=> (\E a \in U : l[a] = <<u, j>>) \/ (u = t /\ j = i)
        BY <2>3, <2>5
      <4>2. Rest(T)[u][j] = IF \E a \in T : l[a] = <<u, j>> THEN "off" ELSE q[u][j]
        OBVIOUS
      <4>3. Rest(U)[u][j] = IF \E a \in U : l[a] = <<u, j>> THEN "off" ELSE q[u][j]
        OBVIOUS
      <4>. HIDE DEF Rest
      <4>. QED BY <4>1, <4>2, <4>3
    <3>2. Rest(T) \in [QTypes -> [Indexes -> {"off"} \cup UNION {{q[u][j] : j \in Indexes} : u \in QTypes}]]
          /\ Rest(U) \in [QTypes -> [Indexes -> {"off"} \cup UNION {{q[u][j] : j \in Indexes} : u \in QTypes}]]
      OBVIOUS
    <3>. HIDE DEF Rest
    <3>. QED BY <3>1, <3>2 DEF Enable
  <2>. HIDE DEF Rest
  <2>9. PICK x : x = h[U]
    OBVIOUS
  <2>10. PICK p \in Queues : p = Rest(U)
    BY <2>4
  <2>11. PICK y : y = h[T]
    OBVIOUS
  <2>12. /\ Tally(x, s) /\ x \in Recounts(m, Funcs) /\ OneCompletion(p) /\ CountsAre(x, f, p)
         /\ \A g \in DOMAIN m.devs \ {f} : x.devs[g] = m.devs[g]
    BY <2>4, <2>9, <2>10
  <2>13. DOMAIN x.devs = DOMAIN m.devs /\ Recounts(x, Funcs) \subseteq Recounts(m, Funcs)
    BY <1>1, <2>12, RecountAgain DEF Recounts
  <2>14. f \in DOMAIN x.devs /\ p[t][i] # "off" /\ y = Uncount(x, f, t, p[t][i])
    BY <2>5, <2>6, <2>7, <2>9, <2>10, <2>11, <2>13
  <2>15. PICK r : r = Enable(p, t, i, "off")
    OBVIOUS
  <2>16. /\ Tally(y, s) /\ y \in Recounts(x, Funcs) /\ CountsAre(y, f, r)
         /\ r \in Queues /\ OneCompletion(r)
         /\ \A g \in DOMAIN x.devs \ {f} : y.devs[g] = x.devs[g]
    BY <2>12, <2>14, <2>15, UncountTally
  <2>17. r = Rest(T)
    BY <2>8, <2>10, <2>15
  <2>18. Kept(T)
    BY <2>11, <2>12, <2>13, <2>16, <2>17
  <2>. QED BY <2>18
<1>10. S \in G
  <2>1. G \in SUBSET (SUBSET S)
    OBVIOUS
  <2>. HIDE DEF G, S
  <2>. QED BY <1>5, <1>8, <1>9, <2>1, SubsetInduction
<1>11. \A i \in Indexes : /\ Rest(S)["H2C"][i] = "off" /\ Rest(S)["C2H"][i] = "off"
                          /\ Rest(S)["CMPT"][i] = q["CMPT"][i]
  <2>. SUFFICES ASSUME NEW i \in Indexes
                PROVE  /\ Rest(S)["H2C"][i] = "off" /\ Rest(S)["C2H"][i] = "off"
                       /\ Rest(S)["CMPT"][i] = q["CMPT"][i]
    OBVIOUS
  <2>1. "H2C" \in QTypes /\ "C2H" \in QTypes /\ "CMPT" \in QTypes
    BY DEF QTypes
  <2>2. ASSUME NEW t \in {"H2C", "C2H"}, ~\E a \in S : l[a] = <<t, i>> PROVE q[t][i] = "off"
    <3>1. PICK x : x = <<t, i>>
      OBVIOUS
    <3>2. x \notin Removed(f)
      BY <1>4, <2>2, <3>1
    <3>. QED BY <1>2, <3>1, <3>2 DEF Removed
  <2>3. ASSUME NEW t \in {"H2C", "C2H"} PROVE Rest(S)[t][i] = "off"
    <3>1. t \in QTypes
      BY <2>1
    <3>2. Rest(S)[t][i] = IF \E a \in S : l[a] = <<t, i>> THEN "off" ELSE q[t][i]
      BY <3>1
    <3>. HIDE DEF Rest, S
    <3>. QED BY <2>2, <3>2
  <2>4. ~\E a \in S : l[a] = <<"CMPT", i>>
    <3>. SUFFICES ASSUME NEW a \in S, l[a] = <<"CMPT", i>> PROVE FALSE
      OBVIOUS
    <3>. QED BY <1>7
  <2>5. Rest(S)["CMPT"][i] = q["CMPT"][i]
    BY <2>1, <2>4
  <2>. QED BY <2>3, <2>5
<1>12. Kept(S)
  BY <1>10
<1>. HIDE DEF Rest, S
<1>13. /\ Tally(n, s) /\ n \in Recounts(m, Funcs)
       /\ \A g \in DOMAIN m.devs \ {f} : n.devs[g] = m.devs[g]
       /\ Rest(S) \in Queues /\ CountsAre(n, f, Rest(S))
  BY <1>6, <1>12
<1>. QED BY <1>2, <1>11, <1>13

-----------------------------------------------------------------------------
\* A master with the same counts has the same tally.
LEMMA SameTally ==
  ASSUME NEW m, NEW s, Tally(m, s), NEW n \in Masters(Funcs), n.act = m.act,
         DOMAIN n.devs = DOMAIN m.devs,
         \A g \in DOMAIN m.devs, t \in QTypes : n.devs[g].cnt[t] = m.devs[g].cnt[t]
  PROVE  Tally(n, s)
<1>1. m \in Masters(Funcs) /\ Counts(n) = Counts(m)
  BY DEF Tally, Counts
<1>2. IsFiniteSet(Counts(m)) /\ Counts(m) \subseteq (DOMAIN m.devs) \X QTypes
      /\ Counts(m) \subseteq (DOMAIN n.devs) \X QTypes
  BY <1>1, CountsFinite
<1>3. \A p \in Counts(m) : m.devs[p[1]].cnt[p[2]] = n.devs[p[1]].cnt[p[2]]
  BY DEF Counts
<1>4. CntSum(m, Counts(m)) = CntSum(n, Counts(m))
  BY ONLY <1>2, <1>3, CntSumSame
<1>5. n.act = CntSum(n, Counts(n)) + s
  BY <1>1, <1>4 DEF Tally
<1>. QED BY <1>5 DEF Tally

\* One count out of a sum
LEMMA CountApart ==
  ASSUME NEW m \in Masters(Funcs), NEW S \in SUBSET ((DOMAIN m.devs) \X QTypes), IsFiniteSet(S),
         NEW g, NEW t, <<g, t>> \in S, NEW R, R = S \ {<<g, t>>}
  PROVE  /\ CntSum(m, S) = m.devs[g].cnt[t] + CntSum(m, R)
         /\ R \in SUBSET ((DOMAIN m.devs) \X QTypes) /\ IsFiniteSet(R)
<1>1. PICK p : p = <<g, t>>
  OBVIOUS
<1>2. p \in S /\ p[1] = g /\ p[2] = t /\ R = S \ {p}
  BY <1>1
<1>3. \A x \in S : CntSum(m, S) = m.devs[x[1]].cnt[x[2]] + CntSum(m, S \ {x})
  BY ONLY m \in Masters(Funcs), S \in SUBSET ((DOMAIN m.devs) \X QTypes), IsFiniteSet(S), CntSumOut
<1>4. R \in SUBSET ((DOMAIN m.devs) \X QTypes) /\ IsFiniteSet(R)
  <2>1. R \in SUBSET S
    BY <1>2
  <2>. QED BY <2>1, FS_Subset
<1>. QED BY <1>2, <1>3, <1>4

\* The counts of one function are a part of the sum of their own.
LEMMA EntryApart ==
  ASSUME NEW m \in Masters(Funcs), NEW f \in DOMAIN m.devs, NEW n \in Masters(Funcs),
         DOMAIN n.devs = DOMAIN m.devs \ {f},
         \A g \in DOMAIN n.devs, t \in QTypes : n.devs[g].cnt[t] = m.devs[g].cnt[t]
  PROVE  CntSum(m, Counts(m)) = m.devs[f].cnt["H2C"] + m.devs[f].cnt["C2H"]
                                  + m.devs[f].cnt["CMPT"] + CntSum(n, Counts(n))
<1>1. "H2C" \in QTypes /\ "C2H" \in QTypes /\ "CMPT" \in QTypes
      /\ \A t \in QTypes : t = "H2C" \/ t = "C2H" \/ t = "CMPT"
  BY DEF QTypes
<1>2. PICK S : S = Counts(m)
  OBVIOUS
<1>3. PICK A : A = S \ {<<f, "H2C">>}
  OBVIOUS
<1>4. PICK B : B = A \ {<<f, "C2H">>}
  OBVIOUS
<1>5. PICK C : C = B \ {<<f, "CMPT">>}
  OBVIOUS
<1>6. <<f, "H2C">> \in S /\ <<f, "C2H">> \in A /\ <<f, "CMPT">> \in B
  BY <1>1, <1>2, <1>3, <1>4 DEF Counts
<1>7. C = Counts(n)
  <2>1. ASSUME NEW p \in S PROVE p \in C <=> p[1] # f
    <3>1. p = <<p[1], p[2]>> /\ p[2] \in QTypes
      BY <1>2 DEF Counts
    <3>. QED BY <1>1, <1>3, <1>4, <1>5, <3>1
  <2>2. \A p \in S : p \in Counts(n) <=> p[1] # f
    BY <1>2 DEF Counts
  <2>3. Counts(n) \subseteq S /\ C \subseteq S
    BY <1>2, <1>3, <1>4, <1>5 DEF Counts
  <2>. QED BY <2>1, <2>2, <2>3
<1>8. IsFiniteSet(S) /\ S \in SUBSET ((DOMAIN m.devs) \X QTypes)
  BY <1>2, CountsFinite
<1>9. CntSum(m, S) = m.devs[f].cnt["H2C"] + CntSum(m, A)
      /\ A \in SUBSET ((DOMAIN m.devs) \X QTypes) /\ IsFiniteSet(A)
  BY ONLY m \in Masters(Funcs), <1>3, <1>6, <1>8, CountApart
<1>10. CntSum(m, A) = m.devs[f].cnt["C2H"] + CntSum(m, B)
      /\ B \in SUBSET ((DOMAIN m.devs) \X QTypes) /\ IsFiniteSet(B)
  BY ONLY m \in Masters(Funcs), <1>4, <1>6, <1>9, CountApart
<1>11. CntSum(m, B) = m.devs[f].cnt["CMPT"] + CntSum(m, C)
      /\ C \in SUBSET ((DOMAIN m.devs) \X QTypes) /\ IsFiniteSet(C)
  BY ONLY m \in Masters(Funcs), <1>5, <1>6, <1>10, CountApart
<1>12. CntSum(m, C) = CntSum(n, C)
  <2>1. C \subseteq (DOMAIN n.devs) \X QTypes /\ C \subseteq (DOMAIN m.devs) \X QTypes
    BY <1>7, <1>11 DEF Counts
  <2>2. \A p \in C : m.devs[p[1]].cnt[p[2]] = n.devs[p[1]].cnt[p[2]]
    BY <2>1
  <2>. QED BY ONLY <1>11, <2>1, <2>2, CntSumSame
<1>13. CntSum(n, C) \in Nat
  BY ONLY n \in Masters(Funcs), <1>7, CountsFinite, CntSumOut
<1>14. m.devs[f].cnt["H2C"] \in Nat /\ m.devs[f].cnt["C2H"] \in Nat /\ m.devs[f].cnt["CMPT"] \in Nat
  BY <1>1, MasterIs
<1>15. CntSum(m, S) = m.devs[f].cnt["H2C"] + m.devs[f].cnt["C2H"] + m.devs[f].cnt["CMPT"] + CntSum(n, C)
  BY ONLY <1>9, <1>10, <1>11, <1>12, <1>13, <1>14
<1>. QED BY <1>2, <1>7, <1>15

\* A new entry without active queues
LEMMA GrowTally ==
  ASSUME NEW m, NEW s \in Nat, Tally(m, s), NEW n \in Masters(Funcs), n.act = m.act,
         NEW f \in DOMAIN n.devs, f \notin DOMAIN m.devs, DOMAIN n.devs = DOMAIN m.devs \cup {f},
         \A t \in QTypes : n.devs[f].cnt[t] = 0,
         \A g \in DOMAIN m.devs, t \in QTypes : n.devs[g].cnt[t] = m.devs[g].cnt[t]
  PROVE  Tally(n, s)
<1>1. m \in Masters(Funcs) /\ DOMAIN m.devs = DOMAIN n.devs \ {f}
  BY DEF Tally
<1>2. CntSum(n, Counts(n)) = n.devs[f].cnt["H2C"] + n.devs[f].cnt["C2H"]
                               + n.devs[f].cnt["CMPT"] + CntSum(m, Counts(m))
  <2>1. \A g \in DOMAIN m.devs, t \in QTypes : m.devs[g].cnt[t] = n.devs[g].cnt[t]
    OBVIOUS
  <2>. QED BY ONLY n \in Masters(Funcs), f \in DOMAIN n.devs, <1>1, <2>1, EntryApart
<1>3. n.devs[f].cnt["H2C"] = 0 /\ n.devs[f].cnt["C2H"] = 0 /\ n.devs[f].cnt["CMPT"] = 0
  BY DEF QTypes
<1>4. CntSum(m, Counts(m)) \in Nat
  BY <1>1, CountsFinite, CntSumOut
<1>5. CntSum(n, Counts(n)) = CntSum(m, Counts(m))
  BY <1>2, <1>3, <1>4
<1>6. \A g \in DOMAIN n.devs, t \in QTypes : n.devs[g].cnt[t] <= Cardinality(Indexes)
  <2>1. Cardinality(Indexes) \in Nat
    BY <1>1, CountsFinite
  <2>. QED BY <2>1 DEF Tally
<1>. QED BY <1>5, <1>6 DEF Tally

\* An entry that goes leaves its counts in the count of the board.
LEMMA ShrinkTally ==
  ASSUME NEW m, NEW s \in Nat, Tally(m, s), NEW f \in DOMAIN m.devs, NEW n \in Masters(Funcs),
         n.act = m.act, DOMAIN n.devs = DOMAIN m.devs \ {f},
         \A g \in DOMAIN n.devs, t \in QTypes : n.devs[g].cnt[t] = m.devs[g].cnt[t],
         m.devs[f].cnt["H2C"] = 0, m.devs[f].cnt["C2H"] = 0
  PROVE  Tally(n, s + m.devs[f].cnt["CMPT"])
<1>1. m \in Masters(Funcs) /\ "CMPT" \in QTypes
  BY DEF Tally, QTypes
<1>2. CntSum(m, Counts(m)) = m.devs[f].cnt["H2C"] + m.devs[f].cnt["C2H"]
                               + m.devs[f].cnt["CMPT"] + CntSum(n, Counts(n))
  BY <1>1, EntryApart
<1>3. m.devs[f].cnt["CMPT"] \in Nat /\ CntSum(n, Counts(n)) \in Nat
  BY <1>1, MasterIs, CountsFinite, CntSumOut
<1>4. m.act = CntSum(m, Counts(m)) + s
  BY DEF Tally
<1>5. n.act = CntSum(n, Counts(n)) + (s + m.devs[f].cnt["CMPT"])
  BY <1>2, <1>3, <1>4
<1>6. \A g \in DOMAIN n.devs, t \in QTypes : n.devs[g].cnt[t] <= Cardinality(Indexes)
  BY DEF Tally
<1>. QED BY <1>5, <1>6 DEF Tally

\* The range of a function changes without a count.
LEMMA RangeKeepsCounts ==
  ASSUME NEW F, NEW N, NEW m, Sound(m, F, N), NEW f, NEW qmax, NEW qbase
  PROVE  /\ qdma_dev_update(m, f, qmax, qbase).m.act = m.act
         /\ qdma_dev_entry_create(m, f).act = m.act
         /\ qdma_dev_entry_destroy(m, f).act = m.act
<1>1. m \in Masters(F)
  BY DEF Sound
<1>2. qdma_dev_update(m, f, qmax, qbase).m.act = m.act
  <2>. DEFINE r == qdma_request_q_resource(m.free, m.devs[f].chunk, qmax, qbase)
  <2>1. \A a, d : [m EXCEPT !.free = a, !.devs = d].act = m.act
    BY <1>1 DEF Masters
  <2>2. CASE \E t \in QTypes : m.devs[f].cnt[t] > 0
    BY <2>2 DEF qdma_dev_update
  <2>3. CASE ~\E t \in QTypes : m.devs[f].cnt[t] > 0
    <3>1. qdma_dev_update(m, f, qmax, qbase).m
            = [m EXCEPT !.free = r.free, !.devs[f].chunk = r.chunk]
      BY <2>3 DEF qdma_dev_update
    <3>. HIDE DEF r
    <3>2. [m EXCEPT !.free = r.free, !.devs[f].chunk = r.chunk].act = m.act
      BY <1>1 DEF Masters
    <3>. QED BY <3>1, <3>2
  <2>. QED BY <2>2, <2>3
<1>3. qdma_dev_entry_create(m, f).act = m.act
  BY <1>1 DEF qdma_dev_entry_create, Masters
<1>4. qdma_dev_entry_destroy(m, f).act = m.act
  BY <1>1 DEF qdma_dev_entry_destroy, Masters
<1>. QED BY <1>2, <1>3, <1>4

-----------------------------------------------------------------------------
(***************************************************************************)
(* The invariant of the counts.  Every count is exact while no register    *)
(* access has failed and no automatic index has gone astray, and every open that has come to its end, by a close  *)
(* or by a failure, has left at most one count per index in the count of   *)
(* the board.                                                              *)
(***************************************************************************)
Busy == {f \in Funcs : dev[f].pc # "closed"}

\* The queues of a function are within the number it has, and one that is not open has none.
QueuesBelow(d) ==
  \A t \in QTypes, i \in Indexes : d.q[t][i] # "off" => d.pc = "open" /\ i < d.qmax

Balanced(m, e, d) ==
  \E s \in 0 .. Cardinality(Indexes) * e :
    Tally(m, s) /\ \A f \in DOMAIN m.devs : CountsAre(m, f, d[f].q)

CountInv ==
  /\ opens \in Nat /\ opens <= MaxOpens /\ hwfail \in BOOLEAN /\ astray \in BOOLEAN
  /\ Cardinality(Busy) <= opens
  /\ \A f \in Funcs : QueuesBelow(dev[f])
  /\ ~astray => foreign = {} /\ \A f \in Funcs : OneCompletion(dev[f].q)
  /\ ~hwfail /\ ~astray /\ masters # <<>> =>
       Balanced(masters[1], opens - Cardinality(Busy), dev)

\* A step that ends an open by a close or a failure
Ended(d) == IF d.pc = "closed" THEN 1 ELSE 0

\* All queues disabled
Idle == [t \in QTypes |-> [i \in Indexes |-> "off"]]

\* Disabled queues count as none.
LEMMA IdleIs ==
  /\ Idle \in Queues /\ OneCompletion(Idle) /\ \A t \in QTypes : Cardinality(Using(Idle, t)) = 0
  /\ \A q \in Queues : (\A t \in QTypes, i \in Indexes : q[t][i] = "off") => q = Idle
  /\ \A d : d.q = Idle => QueuesBelow(d)
<1>1. "C2H" \in QTypes /\ "CMPT" \in QTypes /\ \A t \in QTypes, i \in Indexes : Idle[t][i] = "off"
  BY DEF QTypes, Idle
<1>2. Idle \in Queues
  BY DEF Idle, Queues
<1>3. \A q \in Queues : (\A t \in QTypes, i \in Indexes : q[t][i] = "off") => q = Idle
  BY DEF Queues, Idle
<1>4. \A t \in QTypes : Using(Idle, t) = {}
  BY <1>1 DEF Using
<1>5. Cardinality({}) = 0
  BY FS_EmptySet
<1>6. \A t \in QTypes : Cardinality(Using(Idle, t)) = 0
  BY <1>4, <1>5
<1>7. OneCompletion(Idle)
  BY <1>1 DEF OneCompletion
<1>8. \A d : d.q = Idle => QueuesBelow(d)
  BY <1>1 DEF QueuesBelow
<1>. QED BY <1>2, <1>3, <1>6, <1>7, <1>8

\* Without a count there is no queue.
LEMMA NoneCounted ==
  ASSUME NEW q \in Queues, \A t \in QTypes : Cardinality(Using(q, t)) = 0
  PROVE  q = Idle
<1>1. \A t \in QTypes : Using(q, t) = {}
  BY UsingIs
<1>2. \A t \in QTypes, i \in Indexes : q[t][i] = "off"
  BY <1>1 DEF Using
<1>. QED BY <1>2, IdleIs

\* A function that is not open, or just opened, has no queue enabled.
LEMMA NotOpenIdle ==
  ASSUME IInv, CountInv, NEW f \in Funcs
  PROVE  /\ dev[f].q \in Queues /\ ClosedDev.q = Idle
         /\ dev[f].pc # "open" => dev[f].q = Idle
         /\ \A c : qdma_device_init(f, c).q = Idle
<1>1. dev[f].q \in Queues
  <2>1. dev[f] \in Devs
    BY DEF IInv
  <2>. QED BY <2>1 DEF Devs, Queues
<1>2. ClosedDev.q = Idle
  BY DEF ClosedDev, Idle
<1>3. dev[f].pc # "open" => dev[f].q = Idle
  <2>. SUFFICES ASSUME dev[f].pc # "open" PROVE dev[f].q = Idle
    OBVIOUS
  <2>1. \A t \in QTypes, i \in Indexes : dev[f].q[t][i] = "off"
    BY DEF CountInv, QueuesBelow
  <2>. QED BY <1>1, <2>1, IdleIs
<1>4. \A c : qdma_device_init(f, c).q = Idle
  BY DEF qdma_device_init, ClosedDev, Idle
<1>. QED BY <1>1, <1>2, <1>3, <1>4

\* The number of functions that are not closed
LEMMA BusyIs ==
  ASSUME IInv, NEW f \in Funcs, NEW d, dev' = [dev EXCEPT ![f] = d]
  PROVE  /\ Cardinality(Busy) \in Nat /\ Cardinality(Busy') \in Nat
         /\ d.pc # "closed" /\ dev[f].pc # "closed" => Cardinality(Busy') = Cardinality(Busy)
         /\ d.pc = "closed" /\ dev[f].pc # "closed" => Cardinality(Busy') = Cardinality(Busy) - 1
         /\ d.pc # "closed" /\ dev[f].pc = "closed" => Cardinality(Busy') = Cardinality(Busy) + 1
<1>1. dev'[f] = d /\ \A g \in Funcs : g # f => dev'[g] = dev[g]
  BY DEF IInv
<1>2. IsFiniteSet(Busy) /\ IsFiniteSet(Busy')
  <2>1. Busy \in SUBSET Funcs /\ Busy' \in SUBSET Funcs /\ IsFiniteSet(Funcs)
    BY QueuesAssumption DEF Busy
  <2>. QED BY <2>1, FS_Subset
<1>3. /\ d.pc # "closed" /\ dev[f].pc # "closed" => Busy' = Busy
      /\ d.pc = "closed" /\ dev[f].pc # "closed" => Busy' = Busy \ {f} /\ f \in Busy
      /\ d.pc # "closed" /\ dev[f].pc = "closed" => Busy' = Busy \cup {f} /\ f \notin Busy
  BY <1>1 DEF Busy
<1>4. Cardinality(Busy) \in Nat /\ Cardinality(Busy') \in Nat
  BY <1>2, FS_CardinalityType
<1>5. CASE d.pc # "closed" /\ dev[f].pc # "closed"
  BY <1>3, <1>4, <1>5
<1>6. CASE d.pc = "closed" /\ dev[f].pc # "closed"
  <2>1. Cardinality(Busy \ {f}) = Cardinality(Busy) - 1
    BY <1>2, <1>3, <1>6, FS_RemoveElement
  <2>2. Cardinality(Busy') = Cardinality(Busy) - 1
    BY <1>3, <1>6, <2>1
  <2>. QED BY <1>4, <1>6, <2>2
<1>7. CASE d.pc # "closed" /\ dev[f].pc = "closed"
  <2>1. Cardinality(Busy \cup {f}) = Cardinality(Busy) + 1
    BY <1>2, <1>3, <1>7, FS_AddElement
  <2>2. Cardinality(Busy') = Cardinality(Busy) + 1
    BY <1>3, <1>7, <2>1
  <2>. QED BY <1>4, <1>7, <2>2
<1>8. CASE d.pc = "closed" /\ dev[f].pc = "closed"
  BY <1>4, <1>8
<1>. QED BY <1>5, <1>6, <1>7, <1>8

\* A step of one function that is not closed keeps the invariant when its queues and the master
\* are as they should be.
LEMMA StepCounts ==
  ASSUME IInv, CountInv, NEW f \in Funcs, NEW d, dev' = [dev EXCEPT ![f] = d],
         dev[f].pc # "closed", opens' = opens, hwfail' \in BOOLEAN, astray' \in BOOLEAN,
         QueuesBelow(d), ~astray' => ~astray /\ foreign' = {} /\ OneCompletion(d.q),
         ~hwfail' /\ ~astray' /\ masters' # <<>> =>
           Balanced(masters'[1], opens - Cardinality(Busy) + Ended(d), dev')
  PROVE  CountInv'
<1>1. dev'[f] = d /\ \A g \in Funcs : g # f => dev'[g] = dev[g]
  BY DEF IInv
<1>2. \A g \in Funcs : QueuesBelow(dev'[g])
  BY <1>1 DEF CountInv
<1>2a. ~astray' => foreign' = {} /\ \A g \in Funcs : OneCompletion(dev'[g].q)
  BY <1>1 DEF CountInv
<1>3. opens \in Nat /\ opens <= MaxOpens /\ Cardinality(Busy) <= opens
  BY DEF CountInv
<1>4. /\ Cardinality(Busy) \in Nat /\ Cardinality(Busy') \in Nat
      /\ Cardinality(Busy') <= Cardinality(Busy)
      /\ opens - Cardinality(Busy') = opens - Cardinality(Busy) + Ended(d)
  <2>1. CASE d.pc = "closed"
    <3>1. Cardinality(Busy') = Cardinality(Busy) - 1 /\ Cardinality(Busy) \in Nat /\ Cardinality(Busy') \in Nat
      BY <2>1, BusyIs
    <3>2. Ended(d) = 1
      BY <2>1 DEF Ended
    <3>. QED BY <1>3, <3>1, <3>2
  <2>2. CASE d.pc # "closed"
    <3>1. Cardinality(Busy') = Cardinality(Busy) /\ Cardinality(Busy) \in Nat
      BY <2>2, BusyIs
    <3>2. Ended(d) = 0
      BY <2>2 DEF Ended
    <3>. QED BY <1>3, <3>1, <3>2
  <2>. QED BY <2>1, <2>2
<1>5. Cardinality(Busy') <= opens
  BY <1>3, <1>4
<1>6. ~hwfail' /\ ~astray' /\ masters' # <<>> =>
        Balanced(masters'[1], opens' - Cardinality(Busy'), dev')
  BY <1>4
<1>. QED BY <1>2, <1>2a, <1>3, <1>5, <1>6 DEF CountInv

\* A larger allowance
LEMMA BalancedMore ==
  ASSUME NEW m, NEW e \in Nat, NEW d, Balanced(m, e, d)
  PROVE  Balanced(m, e + 1, d)
<1>1. PICK s \in 0 .. Cardinality(Indexes) * e :
        Tally(m, s) /\ \A f \in DOMAIN m.devs : CountsAre(m, f, d[f].q)
  BY DEF Balanced
<1>2. Cardinality(Indexes) \in Nat
  BY QueuesAssumption, FS_CardinalityType
<1>3. Cardinality(Indexes) * (e + 1) = Cardinality(Indexes) * e + Cardinality(Indexes)
      /\ Cardinality(Indexes) * e \in Nat
  BY <1>2
<1>4. s \in 0 .. Cardinality(Indexes) * (e + 1)
  BY <1>2, <1>3
<1>. QED BY <1>1, <1>4 DEF Balanced

\* What the balance says, with what may be left small enough for the board's count
LEMMA BalancedIs ==
  ASSUME IInv, CountInv, ~hwfail, ~astray, masters # <<>>
  PROVE  \E s \in Left :
           /\ s \in 0 .. Cardinality(Indexes) * (opens - Cardinality(Busy))
           /\ Tally(masters[1], s)
           /\ \A f \in DOMAIN masters[1].devs : CountsAre(masters[1], f, dev[f].q)
<1>1. PICK s \in 0 .. Cardinality(Indexes) * (opens - Cardinality(Busy)) :
        Tally(masters[1], s) /\ \A f \in DOMAIN masters[1].devs : CountsAre(masters[1], f, dev[f].q)
  BY DEF CountInv, Balanced
<1>2. /\ Cardinality(Indexes) \in Nat /\ opens \in Nat /\ opens <= MaxOpens /\ MaxOpens \in Nat
      /\ Cardinality(Busy) \in Nat /\ Cardinality(Busy) <= opens
  <2>1. IsFiniteSet(Busy)
    <3>1. Busy \in SUBSET Funcs /\ IsFiniteSet(Funcs)
      BY QueuesAssumption DEF Busy
    <3>. QED BY <3>1, FS_Subset
  <2>. QED BY <2>1, QueuesAssumption, FS_CardinalityType DEF CountInv
<1>. DEFINE i == Cardinality(Indexes)
            e == opens - Cardinality(Busy)
<1>3. i \in Nat /\ e \in Nat /\ MaxOpens - e \in Nat /\ MaxOpens \in Nat
  BY <1>2
<1>4. s \in 0 .. i * MaxOpens
  <2>. HIDE DEF i, e
  <2>1. i * (MaxOpens - e) \in Nat /\ i * e \in Nat
    BY <1>3
  <2>2. i * MaxOpens = i * e + i * (MaxOpens - e)
    BY <1>3
  <2>3. s \in 0 .. i * e
    BY <1>1 DEF i, e
  <2>. QED BY <2>1, <2>2, <2>3
<1>. QED BY <1>1, <1>4 DEF Left

\* A call on a function changes one master to another and leaves it true to the function's queues,
\* as long as no automatic index has gone astray.
KeepsTally(m, n, f, q) ==
  \A s \in Left :
    ~astray /\ Tally(m, s) /\ (\A g \in DOMAIN m.devs : CountsAre(m, g, dev[g].q))
    => /\ Tally(n, s) /\ (f \in DOMAIN n.devs => CountsAre(n, f, q))
       /\ \A g \in DOMAIN n.devs \ {f} :
            g \in DOMAIN m.devs /\ n.devs[g].cnt = m.devs[g].cnt

\* A call on one function that leaves a tally true, and the counts of the others alone, keeps the
\* invariant.
LEMMA CallCounts ==
  ASSUME IInv, CountInv, NEW f \in Funcs, NEW d, dev' = [dev EXCEPT ![f] = d],
         dev[f].pc # "closed", opens' = opens, hwfail' = hwfail, astray' = astray,
         QueuesBelow(d), ~astray => foreign' = {} /\ OneCompletion(d.q),
         masters # <<>>, NEW n, masters'[1] = n,
         KeepsTally(masters[1], n, f, d.q)
  PROVE  CountInv'
<1>. DEFINE m == masters[1]
            E == opens - Cardinality(Busy)
<1>1. dev'[f] = d /\ \A g \in Funcs : g # f => dev'[g] = dev[g]
  BY DEF IInv
<1>2. E \in Nat
  <2>1. Cardinality(Busy) \in Nat
    BY BusyIs
  <2>. QED BY <2>1 DEF CountInv
<1>3. ~hwfail /\ ~astray => Balanced(n, E, dev')
  <2>. SUFFICES ASSUME ~hwfail, ~astray PROVE Balanced(n, E, dev')
    OBVIOUS
  <2>1. PICK s \in Left : /\ s \in 0 .. Cardinality(Indexes) * E /\ Tally(m, s)
                          /\ \A g \in DOMAIN m.devs : CountsAre(m, g, dev[g].q)
    BY BalancedIs
  <2>2. /\ Tally(n, s) /\ (f \in DOMAIN n.devs => CountsAre(n, f, d.q))
        /\ \A g \in DOMAIN n.devs \ {f} : g \in DOMAIN m.devs /\ n.devs[g].cnt = m.devs[g].cnt
    BY <2>1 DEF KeepsTally
  <2>3. DOMAIN n.devs \in SUBSET Funcs
    BY <2>2, MasterIs DEF Tally
  <2>. HIDE DEF m, E
  <2>4. ASSUME NEW g \in DOMAIN n.devs PROVE CountsAre(n, g, dev'[g].q)
    <3>1. CASE g = f
      BY <1>1, <2>2, <3>1
    <3>2. CASE g # f
      <4>1. dev'[g] = dev[g] /\ CountsAre(m, g, dev[g].q) /\ n.devs[g].cnt = m.devs[g].cnt
        BY <1>1, <2>1, <2>2, <2>3, <3>2
      <4>. QED BY <4>1 DEF CountsAre
    <3>. QED BY <3>1, <3>2
  <2>. QED BY <2>1, <2>2, <2>4 DEF Balanced
<1>4. hwfail' \in BOOLEAN /\ astray' \in BOOLEAN
  BY DEF CountInv
<1>. HIDE DEF m, E
<1>5. ~hwfail /\ ~astray => Balanced(n, E + Ended(d), dev')
  <2>1. Ended(d) = 0 \/ Ended(d) = 1
    BY DEF Ended
  <2>2. CASE Ended(d) = 0
    <3>1. E + Ended(d) = E
      BY <1>2, <2>2
    <3>. QED BY <1>3, <3>1
  <2>3. CASE Ended(d) = 1
    <3>1. E + Ended(d) = E + 1
      BY <1>2, <2>3
    <3>. QED BY <1>2, <1>3, <3>1, BalancedMore
  <2>. QED BY <2>1, <2>2, <2>3
<1>6. ~hwfail' /\ ~astray' /\ masters' # <<>> =>
        Balanced(masters'[1], opens - Cardinality(Busy) + Ended(d), dev')
  BY <1>5 DEF E
<1>. QED BY <1>4, <1>6, StepCounts

\* Nothing is counted in the beginning.
LEMMA InitCounts ==
  Init => CountInv
<1>. SUFFICES ASSUME Init PROVE CountInv
  OBVIOUS
<1>1. /\ masters = <<>> /\ opens = 0 /\ foreign = {} /\ hwfail = FALSE /\ astray = FALSE
      /\ \A f \in Funcs : dev[f] = ClosedDev
  BY DEF Init
<1>2. ClosedDev.q = Idle /\ ClosedDev.pc = "closed"
  BY DEF ClosedDev, Idle
<1>3. Busy = {}
  BY <1>1, <1>2 DEF Busy
<1>4. Cardinality(Busy) = 0
  BY <1>3, FS_EmptySet
<1>5. \A f \in Funcs : QueuesBelow(dev[f]) /\ OneCompletion(dev[f].q)
  BY <1>1, <1>2, IdleIs
<1>6. opens \in Nat /\ opens <= MaxOpens /\ Cardinality(Busy) <= opens
  BY <1>1, <1>4, QueuesAssumption
<1>. QED BY <1>1, <1>5, <1>6 DEF CountInv

\* An open counts nothing.
LEMMA OpenCounts ==
  ASSUME IInv, CountInv, NEW f \in Funcs, qdma_device_open(f)
  PROVE  CountInv'
<1>1. /\ masters' = masters /\ hwfail' = hwfail /\ astray' = astray /\ foreign' = foreign
      /\ dev[f].pc = "closed"
      /\ opens < MaxOpens /\ opens' = opens + 1
  BY DEF qdma_device_open
<1>2. PICK d : dev' = [dev EXCEPT ![f] = d] /\ d.pc # "closed" /\ d.q = dev[f].q
  <2>1. dev[f] \in Devs
    BY DEF IInv
  <2>2. ASSUME NEW pc \in {"creating", "created"}, NEW idx,
               dev' = [dev EXCEPT ![f].pc = pc, ![f].idx = idx]
        PROVE  \E d : dev' = [dev EXCEPT ![f] = d] /\ d.pc # "closed" /\ d.q = dev[f].q
    <3>. DEFINE d == [dev[f] EXCEPT !.pc = pc, !.idx = idx]
    <3>1. d.pc # "closed" /\ d.q = dev[f].q
      BY <2>1 DEF Devs
    <3>2. dev' = [dev EXCEPT ![f] = d]
      BY <2>2 DEF IInv
    <3>. HIDE DEF d
    <3>. QED BY <3>1, <3>2
  <2>3. \/ \E idx : dev' = [dev EXCEPT ![f].pc = "created", ![f].idx = idx]
        \/ dev' = [dev EXCEPT ![f].pc = "creating", ![f].idx = index]
    BY DEF qdma_device_open
  <2>. QED BY <2>2, <2>3
<1>3. dev'[f] = d /\ \A g \in Funcs : g # f => dev'[g] = dev[g]
  BY <1>2 DEF IInv
<1>4. d.q = Idle
  BY <1>1, <1>2, NotOpenIdle
<1>5. /\ \A g \in Funcs : dev'[g].q = dev[g].q /\ QueuesBelow(dev'[g])
      /\ ~astray' => foreign' = {} /\ \A g \in Funcs : OneCompletion(dev'[g].q)
  BY <1>1, <1>2, <1>3, <1>4, IdleIs DEF CountInv
<1>6. /\ Cardinality(Busy') = Cardinality(Busy) + 1 /\ Cardinality(Busy) \in Nat
      /\ Cardinality(Busy') \in Nat
  BY <1>1, <1>2, BusyIs
<1>7. /\ opens' \in Nat /\ opens' <= MaxOpens /\ Cardinality(Busy') <= opens'
      /\ opens' - Cardinality(Busy') = opens - Cardinality(Busy)
  BY <1>1, <1>6, QueuesAssumption DEF CountInv
<1>8. ~hwfail' /\ ~astray' /\ masters' # <<>> =>
        Balanced(masters'[1], opens' - Cardinality(Busy'), dev')
  <2>. SUFFICES ASSUME ~hwfail, ~astray, masters # <<>>
                PROVE  Balanced(masters[1], opens - Cardinality(Busy), dev')
    BY <1>1, <1>7
  <2>1. PICK s \in 0 .. Cardinality(Indexes) * (opens - Cardinality(Busy)) :
          /\ Tally(masters[1], s)
          /\ \A g \in DOMAIN masters[1].devs : CountsAre(masters[1], g, dev[g].q)
    BY BalancedIs
  <2>2. DOMAIN masters[1].devs \in SUBSET Funcs
    BY <2>1, MasterIs DEF Tally
  <2>3. \A g \in DOMAIN masters[1].devs : CountsAre(masters[1], g, dev'[g].q)
    BY <1>5, <2>1, <2>2
  <2>. QED BY <2>1, <2>3 DEF Balanced
<1>9. hwfail' \in BOOLEAN /\ astray' \in BOOLEAN
  BY <1>1 DEF CountInv
<1>. QED BY <1>5, <1>7, <1>8, <1>9 DEF CountInv

\* A new master counts nothing.
LEMMA CreateCounts ==
  ASSUME IInv, CountInv, NEW f \in Funcs, qdma_master_resource_create(f)
  PROVE  CountInv'
<1>1. /\ dev[f].pc = "creating" /\ masters = <<>> /\ masters' = Append(masters, NewMaster(index, TotalQ))
      /\ opens' = opens /\ hwfail' = hwfail /\ astray' = astray /\ foreign' = foreign
      /\ dev' = [dev EXCEPT ![f].pc = "created"]
  BY DEF qdma_master_resource_create, IInv
<1>2. PICK m : m = NewMaster(index, TotalQ)
  OBVIOUS
<1>3. masters'[1] = m
  BY <1>1, <1>2
<1>4. PICK d : dev' = [dev EXCEPT ![f] = d] /\ d.pc = "created" /\ d.q = dev[f].q
  <2>. DEFINE d == [dev[f] EXCEPT !.pc = "created"]
  <2>1. dev' = [dev EXCEPT ![f] = d]
    BY <1>1 DEF IInv
  <2>2. d.pc = "created" /\ d.q = dev[f].q
    BY DEF IInv, Devs
  <2>. QED BY <2>1, <2>2
<1>5. d.q = Idle
  BY <1>1, <1>4, NotOpenIdle
<1>6. m \in Masters(Funcs) /\ DOMAIN m.devs = {} /\ m.act = 0
  <2>1. Sound(m, Funcs, TotalQ)
    BY <1>2, NewMasterIs, QueuesAssumption DEF IInv
  <2>. QED BY <1>2, <2>1 DEF Sound, NewMaster
<1>7. Tally(m, 0)
  <2>1. Counts(m) = {}
    BY <1>6 DEF Counts
  <2>2. CntSum(m, Counts(m)) = 0
    BY <1>6, <2>1, CountsFinite, CntSumOut
  <2>. QED BY <1>6, <2>2 DEF Tally
<1>8. opens - Cardinality(Busy) \in Nat /\ Cardinality(Indexes) \in Nat
  <2>1. Cardinality(Busy) \in Nat /\ Cardinality(Indexes) \in Nat
    BY <1>4, BusyIs, QueuesAssumption, FS_CardinalityType
  <2>. QED BY <2>1 DEF CountInv
<1>9. Ended(d) = 0
  BY <1>4 DEF Ended
<1>10. Balanced(m, opens - Cardinality(Busy) + Ended(d), dev')
  <2>1. 0 \in 0 .. Cardinality(Indexes) * (opens - Cardinality(Busy) + Ended(d))
    <3>1. PICK a, b : a = Cardinality(Indexes) /\ b = opens - Cardinality(Busy) + Ended(d)
      OBVIOUS
    <3>2. a \in Nat /\ b \in Nat
      BY <1>8, <1>9, <3>1
    <3>3. a * b \in Nat
      BY <3>2
    <3>. QED BY <3>1, <3>3
  <2>. QED BY <1>6, <1>7, <2>1 DEF Balanced
<1>11. /\ dev[f].pc # "closed" /\ hwfail' \in BOOLEAN /\ astray' \in BOOLEAN /\ QueuesBelow(d)
       /\ ~astray' => ~astray /\ foreign' = {} /\ OneCompletion(d.q)
  BY <1>1, <1>4, <1>5, IdleIs DEF CountInv
<1>. QED BY <1>1, <1>3, <1>4, <1>10, <1>11, StepCounts

\* A new entry has no active queue.
LEMMA CreateTally ==
  ASSUME NEW m, Sound(m, Funcs, TotalQ), NEW s \in Nat, Tally(m, s), NEW f \in Funcs,
         f \in DOMAIN m.devs => CountsAre(m, f, Idle), NEW n, n = qdma_dev_entry_create(m, f)
  PROVE  /\ Tally(n, s) /\ CountsAre(n, f, Idle) /\ Sound(n, Funcs, TotalQ) /\ f \in DOMAIN n.devs
         /\ \A g \in DOMAIN n.devs \ {f} : g \in DOMAIN m.devs /\ n.devs[g].cnt = m.devs[g].cnt
<1>1. /\ Sound(n, Funcs, TotalQ) /\ DOMAIN n.devs = DOMAIN m.devs \cup {f}
      /\ \A g \in DOMAIN m.devs : n.devs[g] = m.devs[g]
      /\ f \notin DOMAIN m.devs => n.devs[f] = [chunk |-> NoChunk, cnt |-> [t \in QTypes |-> 0]]
  BY ONLY Sound(m, Funcs, TotalQ), f \in Funcs, n = qdma_dev_entry_create(m, f), CreateIs
<1>2. n.act = m.act
  BY ONLY Sound(m, Funcs, TotalQ), n = qdma_dev_entry_create(m, f), RangeKeepsCounts
<1>3. n \in Masters(Funcs)
  BY <1>1 DEF Sound
<1>4. \A g \in DOMAIN m.devs, t \in QTypes : n.devs[g].cnt[t] = m.devs[g].cnt[t]
  BY <1>1
<1>5. CASE f \in DOMAIN m.devs
  <2>1. DOMAIN n.devs = DOMAIN m.devs
    BY <1>1, <1>5
  <2>2. Tally(n, s)
    BY ONLY Tally(m, s), <1>2, <1>3, <1>4, <2>1, SameTally
  <2>3. CountsAre(n, f, Idle)
    BY <1>4, <1>5 DEF CountsAre
  <2>. QED BY <1>1, <2>1, <2>2, <2>3
<1>6. CASE f \notin DOMAIN m.devs
  <2>1. \A t \in QTypes : n.devs[f].cnt[t] = 0
    BY <1>1, <1>6
  <2>2. f \in DOMAIN n.devs
    BY <1>1
  <2>3. Tally(n, s)
    BY ONLY Tally(m, s), s \in Nat, <1>1, <1>2, <1>3, <1>4, <1>6, <2>1, <2>2, GrowTally
  <2>4. CountsAre(n, f, Idle)
    BY <2>1, IdleIs DEF CountsAre
  <2>. QED BY <1>1, <2>2, <2>3, <2>4
<1>. QED BY <1>5, <1>6

\* A changed range counts nothing, and is granted only without an active queue.
LEMMA UpdateTally ==
  ASSUME NEW m, Sound(m, Funcs, TotalQ), NEW s, Tally(m, s), NEW f \in DOMAIN m.devs,
         NEW qmax \in Nat, NEW qbase \in Int, NEW r, r = qdma_dev_update(m, f, qmax, qbase)
  PROVE  /\ Tally(r.m, s) /\ DOMAIN r.m.devs = DOMAIN m.devs /\ r.ok \in BOOLEAN
         /\ \A g \in DOMAIN m.devs : r.m.devs[g].cnt = m.devs[g].cnt
         /\ r.ok => \A t \in QTypes : ~(m.devs[f].cnt[t] > 0)
<1>1. /\ r.ok \in BOOLEAN /\ Sound(r.m, Funcs, TotalQ) /\ DOMAIN r.m.devs = DOMAIN m.devs
      /\ \A g \in DOMAIN m.devs : g # f => r.m.devs[g] = m.devs[g]
      /\ r.m.devs[f].cnt = m.devs[f].cnt
      /\ r.ok => \A t \in QTypes : ~(m.devs[f].cnt[t] > 0)
  BY ONLY Sound(m, Funcs, TotalQ), f \in DOMAIN m.devs, qmax \in Nat, qbase \in Int,
          r = qdma_dev_update(m, f, qmax, qbase), UpdateIs
<1>2. PICK n : n = r.m
  OBVIOUS
<1>3. n.act = m.act
  BY ONLY Sound(m, Funcs, TotalQ), <1>2, r = qdma_dev_update(m, f, qmax, qbase), RangeKeepsCounts
<1>4. n \in Masters(Funcs) /\ DOMAIN n.devs = DOMAIN m.devs
  BY <1>1, <1>2 DEF Sound
<1>5. \A g \in DOMAIN m.devs : n.devs[g].cnt = m.devs[g].cnt
  BY <1>1, <1>2
<1>6. \A g \in DOMAIN m.devs, t \in QTypes : n.devs[g].cnt[t] = m.devs[g].cnt[t]
  BY <1>5
<1>7. Tally(n, s)
  BY ONLY Tally(m, s), <1>3, <1>4, <1>6, SameTally
<1>. QED BY <1>1, <1>2, <1>5, <1>7

\* An open that comes to its end, well or not, counts nothing.
LEMMA OnlineCounts ==
  ASSUME IInv, CountInv, NEW f \in Funcs, NEW qmax \in Qmaxes, NEW qbase \in Qbases \cup {-1},
         NEW online \in BOOLEAN, DeviceOnline(f, qmax, qbase, online)
  PROVE  CountInv'
<1>. DEFINE at == qdma_get_master_resource_entry(dev[f].idx)
<1>1. dev[f].pc = "created" /\ opens' = opens /\ hwfail' = hwfail /\ hwfail' \in BOOLEAN
      /\ astray' = astray /\ astray' \in BOOLEAN /\ (~astray => foreign' = {})
  BY DEF DeviceOnline, CountInv
<1>2. dev[f].q = Idle /\ ClosedDev.q = Idle /\ dev[f].pc # "closed" /\ \A c : qdma_device_init(f, c).q = Idle
  BY <1>1, NotOpenIdle
<1>3. CASE at = {}
  <2>1. PICK d : d = ClosedDev
    OBVIOUS
  <2>2. dev' = [dev EXCEPT ![f] = d] /\ masters' = masters
    BY <1>3, <2>1 DEF DeviceOnline
  <2>3. QueuesBelow(d) /\ OneCompletion(d.q) /\ d.q = Idle
    BY <1>2, <2>1, IdleIs
  <2>4. CASE masters = <<>>
    BY <1>1, <1>2, <2>2, <2>3, <2>4, StepCounts
  <2>5. CASE masters # <<>>
    <3>1. PICK n : n = masters[1]
      OBVIOUS
    <3>2. masters'[1] = n
      BY <2>2, <3>1
    <3>3. KeepsTally(masters[1], n, f, d.q)
      BY <1>2, <2>3, <3>1 DEF KeepsTally
    <3>. QED BY <1>1, <1>2, <2>2, <2>3, <2>5, <3>2, <3>3, CallCounts
  <2>. QED BY <2>4, <2>5
<1>4. CASE at # {}
  <2>. DEFINE i    == CHOOSE i \in at : TRUE
              old  == HasEntry(masters[i], f)
              m    == qdma_dev_entry_create(masters[i], f)
              want == IF old THEN qdma_dev_qinfo_get(m, f) ELSE Chunk(qbase, qmax)
              r    == qdma_dev_update(m, f, want.total, want.qbase)
              got  == Chunk(qdma_dev_qinfo_get(r.m, f).qbase, want.total)
              d    == IF r.ok /\ online THEN qdma_device_init(f, got) ELSE ClosedDev
  <2>1. masters' = [masters EXCEPT ![i] = r.m] /\ dev' = [dev EXCEPT ![f] = d]
    <3>1. IF at = {} THEN dev' = [dev EXCEPT ![f] = ClosedDev] /\ UNCHANGED masters
          ELSE masters' = [masters EXCEPT ![i] = r.m] /\ dev' = [dev EXCEPT ![f] = d]
      BY DEF DeviceOnline
    <3>. HIDE DEF at, i, r, d
    <3>. QED BY <1>4, <3>1
  <2>2. i \in at
    BY <1>4
  <2>3. PICK e, c : e = d /\ c = got
    <3>. HIDE DEF d, got
    <3>. QED OBVIOUS
  <2>4. e.q = Idle
    <3>1. CASE r.ok /\ online
      <4>1. e = qdma_device_init(f, c)
        BY ONLY <2>3, <3>1
      <4>. QED BY ONLY <1>2, <4>1
    <3>2. CASE ~(r.ok /\ online)
      <4>1. e = ClosedDev
        BY ONLY <2>3, <3>2
      <4>. QED BY ONLY <1>2, <4>1
    <3>. QED BY ONLY <3>1, <3>2
  <2>. HIDE DEF i, at, d
  <2>5. i = 1 /\ masters # <<>> /\ masters = <<masters[1]>> /\ Sound(masters[1], Funcs, TotalQ)
    BY <2>2, MasterAt DEF at
  <2>6. PICK z : z = m
    OBVIOUS
  <2>7. z = qdma_dev_entry_create(masters[1], f)
    BY <2>5, <2>6
  <2>. HIDE DEF m
  <2>8. Sound(z, Funcs, TotalQ) /\ f \in DOMAIN z.devs
    <3>1. PICK y : y = masters[1]
      OBVIOUS
    <3>2. Sound(y, Funcs, TotalQ) /\ z = qdma_dev_entry_create(y, f)
      BY <2>5, <2>7, <3>1
    <3>3. Sound(z, Funcs, TotalQ) /\ DOMAIN z.devs = DOMAIN y.devs \cup {f}
      BY ONLY <3>2, f \in Funcs, CreateIs
    <3>. QED BY <3>3
  <2>9. want \in Chunks /\ want.total \in Nat /\ want.qbase \in Int
    <3>1. z.devs[f].chunk \in Chunks
      BY <2>8, EntryOnBoard
    <3>2. qmax \in Nat /\ qbase \in Int
      BY QueuesAssumption
    <3>3. Chunk(qbase, qmax) \in Chunks
      BY <3>2, ChunkIs
    <3>4. want \in Chunks
      BY <2>6, <3>1, <3>3 DEF qdma_dev_qinfo_get
    <3>. HIDE DEF want
    <3>. QED BY <3>4 DEF Chunks
  <2>. HIDE DEF want
  <2>10. PICK x \in Nat, b \in Int : x = want.total /\ b = want.qbase
    BY <2>9
  <2>11. PICK u : u = qdma_dev_update(z, f, x, b) /\ u = r
    BY <2>6, <2>10
  <2>. HIDE DEF r
  <2>12. PICK n : n = u.m
    OBVIOUS
  <2>13. masters'[1] = n /\ dev' = [dev EXCEPT ![f] = e] /\ e.q = Idle
    BY <2>1, <2>3, <2>4, <2>5, <2>11, <2>12
  <2>14. QueuesBelow(e) /\ OneCompletion(e.q)
    BY <2>13, IdleIs
  <2>15. ASSUME ~astray, NEW s \in Left, Tally(masters[1], s),
                \A g \in DOMAIN masters[1].devs : CountsAre(masters[1], g, dev[g].q)
         PROVE  /\ Tally(n, s) /\ (f \in DOMAIN n.devs => CountsAre(n, f, e.q))
                /\ \A g \in DOMAIN n.devs \ {f} :
                     g \in DOMAIN masters[1].devs /\ n.devs[g].cnt = masters[1].devs[g].cnt
    <3>1. PICK y : y = masters[1]
      OBVIOUS
    <3>2. /\ Sound(y, Funcs, TotalQ) /\ Tally(y, s) /\ z = qdma_dev_entry_create(y, f)
          /\ f \in DOMAIN y.devs => CountsAre(y, f, Idle)
      BY <1>2, <2>5, <2>7, <2>15, <3>1
    <3>3. s \in Nat
      <4>1. Cardinality(Indexes) * MaxOpens \in Nat
        BY QueuesAssumption, FS_CardinalityType
      <4>. QED BY <4>1 DEF Left
    <3>4. /\ Tally(z, s) /\ CountsAre(z, f, Idle)
          /\ \A g \in DOMAIN z.devs \ {f} : g \in DOMAIN y.devs /\ z.devs[g].cnt = y.devs[g].cnt
      BY ONLY <3>2, <3>3, f \in Funcs, CreateTally
    <3>5. /\ Tally(u.m, s) /\ DOMAIN u.m.devs = DOMAIN z.devs
          /\ \A g \in DOMAIN z.devs : u.m.devs[g].cnt = z.devs[g].cnt
      <4>1. Tally(z, s) /\ Sound(z, Funcs, TotalQ) /\ f \in DOMAIN z.devs
        BY <2>8, <3>4
      <4>2. u = qdma_dev_update(z, f, x, b)
        BY <2>11
      <4>3. /\ Tally(u.m, s) /\ DOMAIN u.m.devs = DOMAIN z.devs /\ u.ok \in BOOLEAN
            /\ \A g \in DOMAIN z.devs : u.m.devs[g].cnt = z.devs[g].cnt
            /\ u.ok => \A t \in QTypes : ~(z.devs[f].cnt[t] > 0)
        BY ONLY <4>1, <4>2, x \in Nat, b \in Int, UpdateTally
      <4>. QED BY ONLY <4>3
    <3>6. CountsAre(n, f, e.q)
      BY <2>8, <2>12, <2>13, <3>4, <3>5 DEF CountsAre
    <3>. QED BY <2>12, <3>1, <3>4, <3>5, <3>6
  <2>16. KeepsTally(masters[1], n, f, e.q)
    BY <2>15 DEF KeepsTally
  <2>17. /\ dev' = [dev EXCEPT ![f] = e] /\ dev[f].pc # "closed" /\ opens' = opens /\ hwfail' = hwfail
         /\ astray' = astray /\ (~astray => foreign' = {})
         /\ masters # <<>> /\ masters'[1] = n
    BY <1>1, <1>2, <2>5, <2>13
  <2>. QED BY ONLY IInv, CountInv, f \in Funcs, <2>14, <2>16, <2>17, CallCounts
<1>. QED BY <1>3, <1>4

\* A changed size of the interrupt rings counts nothing.
LEMMA RngszCounts ==
  ASSUME IInv, CountInv, NEW f \in Funcs, NEW sz \in 0 .. 1, qdma_set_intr_rngsz(f, sz)
  PROVE  CountInv'
<1>1. /\ dev[f].pc = "open" /\ masters' = masters /\ opens' = opens /\ hwfail' = hwfail
      /\ astray' = astray /\ foreign' = foreign
      /\ dev' = [dev EXCEPT ![f].rngsz = sz]
  BY DEF qdma_set_intr_rngsz
<1>2. PICK d : dev' = [dev EXCEPT ![f] = d] /\ d.pc = "open" /\ d.q = dev[f].q /\ d.qmax = dev[f].qmax
  <2>. DEFINE d == [dev[f] EXCEPT !.rngsz = sz]
  <2>1. dev' = [dev EXCEPT ![f] = d]
    BY <1>1 DEF IInv
  <2>2. d.pc = "open" /\ d.q = dev[f].q /\ d.qmax = dev[f].qmax
    BY <1>1 DEF IInv, Devs
  <2>. QED BY <2>1, <2>2
<1>3. QueuesBelow(d) /\ (~astray => foreign' = {} /\ OneCompletion(d.q))
  <2>1. QueuesBelow(dev[f]) /\ (~astray => foreign = {} /\ OneCompletion(dev[f].q))
    BY DEF CountInv
  <2>. QED BY <1>1, <1>2, <2>1 DEF QueuesBelow
<1>4. PICK n : n = masters[1] /\ masters'[1] = n
  BY <1>1
<1>5. masters # <<>> /\ dev[f].pc # "closed"
  BY <1>1 DEF IInv
<1>6. KeepsTally(masters[1], n, f, d.q)
  BY <1>2, <1>4 DEF KeepsTally
<1>. QED BY ONLY IInv, CountInv, f \in Funcs, <1>1, <1>2, <1>3, <1>4, <1>5, <1>6, CallCounts

\* The function of a call, the master it works on and the queues it has
LEMMA AtWork ==
  ASSUME IInv, CountInv, NEW f \in Funcs, dev[f].pc = "open",
         NEW k \in qdma_get_master_resource_entry(dev[f].idx)
  PROVE  /\ k = 1 /\ masters # <<>> /\ masters = <<masters[1]>> /\ Sound(masters[1], Funcs, TotalQ)
         /\ f \in DOMAIN masters[1].devs /\ masters[1].devs[f].chunk.total = dev[f].qmax
         /\ dev[f] \in Devs /\ dev[f].q \in Queues /\ QueuesBelow(dev[f])
         /\ (~astray => foreign = {} /\ OneCompletion(dev[f].q))
         /\ dev[f].pc # "closed"
<1>1. /\ k = 1 /\ masters # <<>> /\ masters = <<masters[1]>> /\ Sound(masters[1], Funcs, TotalQ)
  BY MasterAt
<1>2. f \in DOMAIN masters[1].devs /\ masters[1].devs[f].chunk.total = dev[f].qmax
  BY DEF IInv, Owns
<1>3. dev[f] \in Devs
  BY DEF IInv
<1>4. dev[f].q \in Queues
  BY NotOpenIdle
<1>5. QueuesBelow(dev[f]) /\ (~astray => foreign = {} /\ OneCompletion(dev[f].q))
  BY DEF CountInv
<1>. QED BY <1>1, <1>2, <1>3, <1>4, <1>5

\* A removed queue gives its counts back.
LEMMA RemoveCounts ==
  ASSUME CountsFit, IInv, CountInv, NEW f \in Funcs, NEW t \in QTypes, NEW i \in Indexes,
         qdma_queue_remove(f, t, i)
  PROVE  CountInv'
<1>1. PICK k \in qdma_get_master_resource_entry(dev[f].idx) :
        /\ dev[f].pc = "open" /\ opens' = opens /\ hwfail' = hwfail /\ astray' = astray
        /\ dev[f].q[t][i] # "off" /\ foreign' \subseteq foreign
        /\ masters' = [masters EXCEPT ![k] = Uncount(@, f, q_type(f, t, i), dev[f].q[t][i])]
        /\ dev' = [dev EXCEPT ![f].q[t][i] = "off"]
  BY DEF qdma_queue_remove
<1>2. /\ k = 1 /\ masters # <<>> /\ masters = <<masters[1]>> /\ f \in DOMAIN masters[1].devs
      /\ dev[f] \in Devs /\ dev[f].q \in Queues /\ QueuesBelow(dev[f])
      /\ (~astray => foreign = {} /\ OneCompletion(dev[f].q))
      /\ dev[f].pc # "closed"
  BY <1>1, AtWork
<1>3. PICK m, q : m = masters[1] /\ q = dev[f].q
  OBVIOUS
<1>4. PICK n : n = Uncount(m, f, q_type(f, t, i), q[t][i])
  OBVIOUS
<1>5. masters'[1] = n
  BY <1>1, <1>2, <1>3, <1>4
<1>6. PICK p : p = Enable(q, t, i, "off")
  OBVIOUS
<1>7. /\ p \in Queues /\ p[t][i] = "off"
      /\ \A u \in QTypes, j \in Indexes : u # t \/ j # i => p[u][j] = q[u][j]
  <2>1. q \in Queues
    BY <1>2, <1>3
  <2>. QED BY ONLY <1>6, <2>1, t \in QTypes, i \in Indexes DEF Enable, Queues
<1>8. PICK d : dev' = [dev EXCEPT ![f] = d] /\ d.pc = "open" /\ d.q = p /\ d.qmax = dev[f].qmax
  <2>. DEFINE d == [dev[f] EXCEPT !.q[t][i] = "off"]
  <2>1. dev' = [dev EXCEPT ![f] = d]
    BY <1>1 DEF IInv
  <2>2. d.pc = "open" /\ d.qmax = dev[f].qmax
    BY <1>1, <1>2 DEF Devs
  <2>3. d.q = p
    BY <1>2, <1>3, <1>6 DEF Devs, Enable
  <2>. QED BY <2>1, <2>2, <2>3
<1>9. QueuesBelow(d)
  <2>1. ASSUME NEW u \in QTypes, NEW j \in Indexes, p[u][j] # "off" PROVE q[u][j] # "off"
    BY <1>7, <2>1
  <2>. QED BY <1>1, <1>2, <1>3, <1>8, <2>1 DEF QueuesBelow
<1>10. ~astray => foreign' = {} /\ OneCompletion(d.q)
  <2>. SUFFICES ASSUME ~astray PROVE foreign' = {} /\ OneCompletion(d.q)
    OBVIOUS
  <2>1. q \in Queues /\ OneCompletion(q) /\ q[t][i] # "off" /\ foreign' = {}
    BY <1>1, <1>2, <1>3
  <2>2. OneCompletion(p)
    BY ONLY <2>1, <1>6, t \in QTypes, i \in Indexes, UsingOff
  <2>. QED BY <1>8, <2>1, <2>2
<1>11. KeepsTally(m, n, f, p)
  <2>. SUFFICES ASSUME ~astray, NEW s \in Left, Tally(m, s),
                       \A g \in DOMAIN m.devs : CountsAre(m, g, dev[g].q)
                PROVE  /\ Tally(n, s) /\ CountsAre(n, f, p)
                       /\ \A g \in DOMAIN n.devs \ {f} :
                            g \in DOMAIN m.devs /\ n.devs[g].cnt = m.devs[g].cnt
    BY DEF KeepsTally
  <2>1. f \in DOMAIN m.devs /\ q \in Queues /\ OneCompletion(q) /\ CountsAre(m, f, q) /\ q[t][i] # "off"
    BY <1>1, <1>2, <1>3
  <2>1a. n = Uncount(m, f, t, q[t][i])
    BY <1>2, <1>4, QTypeIs
  <2>2. /\ Tally(n, s) /\ n \in Recounts(m, Funcs) /\ CountsAre(n, f, p)
        /\ \A g \in DOMAIN m.devs \ {f} : n.devs[g] = m.devs[g]
    BY ONLY CountsFit, s \in Left, Tally(m, s), t \in QTypes, i \in Indexes,
            <1>6, <2>1, <2>1a, UncountTally
  <2>3. DOMAIN n.devs = DOMAIN m.devs
    BY <2>2 DEF Recounts
  <2>. QED BY <2>2, <2>3
<1>12. KeepsTally(masters[1], n, f, d.q)
  BY <1>3, <1>8, <1>11
<1>. QED BY ONLY IInv, CountInv, f \in Funcs, <1>1, <1>2, <1>5, <1>8, <1>9, <1>10, <1>12, CallCounts

\* A descq no further than its index is the one of the index.
LEMMA OwnEnabled ==
  ASSUME NEW f \in Funcs, dev[f].qmax \in Nat, NEW t \in QTypes, NEW i \in Indexes, i < dev[f].qmax
  PROVE  EnabledFor(f, t, i, 0) = {<<t, i>>}
<1>1. \A u \in QTypes : u = "H2C" \/ u = "C2H" \/ u = "CMPT"
  BY DEF QTypes
<1>2. ASSUME NEW u \in QTypes, NEW j \in Indexes, j < dev[f].qmax
      PROVE  Place(f, u, j) = Place(f, t, i) + 0 <=> u = t /\ j = i
  <2>1. PICK n \in Nat, a \in Nat, b \in Nat : n = dev[f].qmax /\ a = i /\ b = j
    BY QueuesAssumption
  <2>2. a < n /\ b < n
    BY <1>2, <2>1
  <2>3. /\ Place(f, "H2C", i) = a /\ Place(f, "C2H", i) = a + n /\ Place(f, "CMPT", i) = a + 2 * n
        /\ Place(f, "H2C", j) = b /\ Place(f, "C2H", j) = b + n /\ Place(f, "CMPT", j) = b + 2 * n
    BY <2>1 DEF Place
  <2>4. t = "H2C" \/ t = "C2H" \/ t = "CMPT"
    BY <1>1
  <2>5. u = "H2C" \/ u = "C2H" \/ u = "CMPT"
    BY <1>1
  <2>. QED BY <2>1, <2>2, <2>3, <2>4, <2>5
<1>3. EnabledFor(f, t, i, 0) \subseteq {<<t, i>>}
  <2>. SUFFICES ASSUME NEW p \in EnabledFor(f, t, i, 0) PROVE p = <<t, i>>
    OBVIOUS
  <2>1. p \in QTypes \X Indexes /\ p[2] < dev[f].qmax /\ Place(f, p[1], p[2]) = Place(f, t, i) + 0
    BY DEF EnabledFor
  <2>2. p[1] \in QTypes /\ p[2] \in Indexes /\ p = <<p[1], p[2]>>
    BY <2>1
  <2>. QED BY <1>2, <2>1, <2>2
<1>4. <<t, i>> \in EnabledFor(f, t, i, 0)
  <2>1. <<t, i>> \in QTypes \X Indexes /\ <<t, i>>[1] = t /\ <<t, i>>[2] = i
    OBVIOUS
  <2>2. Place(f, t, i) = Place(f, t, i) + 0
    BY <1>2
  <2>. QED BY <2>1, <2>2 DEF EnabledFor
<1>. QED BY <1>3, <1>4

\* An added queue is counted; a register access that fails, or an automatic index that goes astray,
\* ends the promise.
LEMMA AddCounts ==
  ASSUME CountsFit, IInv, CountInv, NEW f \in Funcs, NEW t \in QTypes, NEW mode \in {"MM", "ST"},
         NEW qidx \in Qidxs, NEW hwok \in BOOLEAN, qdma_queue_add(f, t, mode, qidx, hwok)
  PROVE  CountInv'
<1>0. \A i \in QueueIndex(f, t, mode, qidx) :
        i \in Indexes /\ (i < dev[f].qmax => is_usable_queue(f, t, mode, i))
  <2>. DEFINE U == {i \in Indexes : i < dev[f].qmax /\ is_usable_queue(f, t, mode, i)}
  <2>1. QueueIndex(f, t, mode, qidx) \subseteq U \/ (U # {} /\ QueueIndex(f, t, mode, qidx) = {Min(U)})
    BY DEF QueueIndex
  <2>2. U # {} => Min(U) \in U
    <3>1. U \in SUBSET Indexes /\ Indexes \subseteq Nat
      BY QueuesAssumption
    <3>. HIDE DEF U
    <3>2. U \in SUBSET Nat
      BY <3>1
    <3>3. ASSUME U # {} PROVE Min(U) \in U
      BY ONLY <3>2, <3>3, MinIs
    <3>. QED BY <3>3
  <2>. QED BY <2>1, <2>2
<1>1. PICK k \in qdma_get_master_resource_entry(dev[f].idx), i \in Indexes, ahead \in Nat :
        LET at == EnabledFor(f, t, i, ahead)
            e  == SetEnabled(f, at, mode)
        IN /\ dev[f].pc = "open" /\ opens' = opens /\ i < dev[f].qmax /\ is_usable_queue(f, t, mode, i)
           /\ astray' = (astray \/ ahead > 0)
           /\ \/ /\ dev' = [dev EXCEPT ![f] = qdma_device_prep_q_resource(f, e)]
                 /\ masters' = [masters EXCEPT ![k] = CountAdded(@, f, t, mode)]
                 /\ foreign' = qdma_descq_config(f, at, t) /\ hwfail' = hwfail
              \/ /\ dev' = [dev EXCEPT ![f] = e]
                 /\ foreign' = foreign /\ hwfail' = TRUE
  <2>1. PICK k \in qdma_get_master_resource_entry(dev[f].idx), i \in QueueIndex(f, t, mode, qidx) :
        LET ahead == IF qidx = QDMA_QUEUE_IDX_INVALID THEN i ELSE 0
            at == EnabledFor(f, t, i, ahead)
            e  == SetEnabled(f, at, mode)
        IN /\ dev[f].pc = "open" /\ opens' = opens /\ i < dev[f].qmax
           /\ astray' = (astray \/ ahead > 0)
           /\ \/ /\ dev' = [dev EXCEPT ![f] = qdma_device_prep_q_resource(f, e)]
                 /\ masters' = [masters EXCEPT ![k] = CountAdded(@, f, t, mode)]
                 /\ foreign' = qdma_descq_config(f, at, t) /\ hwfail' = hwfail
              \/ /\ dev' = [dev EXCEPT ![f] = e]
                 /\ foreign' = foreign /\ hwfail' = TRUE
    BY DEF qdma_queue_add, AddAllowed
  <2>2. i \in Indexes /\ i \in Nat
    BY <1>0, QueuesAssumption
  <2>3. PICK ahead \in Nat : ahead = IF qidx = QDMA_QUEUE_IDX_INVALID THEN i ELSE 0
    BY <2>2
  <2>. QED BY <1>0, <2>1, <2>2, <2>3
<1>2. /\ k = 1 /\ masters # <<>> /\ masters = <<masters[1]>> /\ f \in DOMAIN masters[1].devs
      /\ masters[1].devs[f].chunk.total = dev[f].qmax
      /\ dev[f] \in Devs /\ dev[f].q \in Queues /\ QueuesBelow(dev[f])
      /\ (~astray => foreign = {} /\ OneCompletion(dev[f].q))
      /\ dev[f].pc # "closed"
  BY <1>1, AtWork
<1>3. PICK m, p : m = masters[1] /\ p = dev[f].q
  OBVIOUS
<1>4. PICK at : at = EnabledFor(f, t, i, ahead)
  OBVIOUS
<1>5. PICK q : q = [u \in QTypes |-> [j \in Indexes |-> IF <<u, j>> \in at THEN mode ELSE p[u][j]]]
  OBVIOUS
<1>6. PICK e : /\ e = SetEnabled(f, at, mode)
              /\ e.pc = "open" /\ e.q = q /\ e.qmax = dev[f].qmax /\ e \in Devs
  <2>1. PICK e : e = SetEnabled(f, at, mode)
    OBVIOUS
  <2>2. dev[f] \in Devs
    BY <1>2
  <2>3. /\ e \in Devs /\ e.pc = dev[f].pc /\ e.qmax = dev[f].qmax
        /\ e.q = [u \in QTypes |-> [j \in Indexes |->
                    IF <<u, j>> \in at THEN mode ELSE dev[f].q[u][j]]]
    BY ONLY <2>1, <2>2, mode \in {"MM", "ST"}, SetEnabledIs
  <2>. QED BY <1>1, <1>3, <1>5, <2>1, <2>3
<1>7. PICK d : d = qdma_device_prep_q_resource(f, e) /\ d.pc = "open" /\ d.q = q /\ d.qmax = dev[f].qmax
  <2>. DEFINE d == qdma_device_prep_q_resource(f, e)
  <2>1. d.pc = "open" /\ d.q = q /\ d.qmax = dev[f].qmax
    BY <1>6 DEF qdma_device_prep_q_resource, Devs
  <2>. QED BY <2>1
<1>8. /\ \/ dev' = [dev EXCEPT ![f] = d] /\ hwfail' = hwfail
         \/ dev' = [dev EXCEPT ![f] = e] /\ hwfail' = TRUE
      /\ hwfail' \in BOOLEAN /\ astray' \in BOOLEAN /\ (~astray' => ~astray /\ ahead = 0)
  <2>1. ahead = 0 \/ ahead > 0
    OBVIOUS
  <2>2. hwfail \in BOOLEAN /\ astray' = (astray \/ ahead > 0)
    BY <1>1 DEF CountInv
  <2>3. astray' \in BOOLEAN /\ (~astray' => ~astray /\ ahead = 0)
    BY <2>1, <2>2, Zenon
  <2>. QED BY <1>1, <1>4, <1>6, <1>7, <2>2, <2>3
<1>9. \A u \in QTypes, j \in Indexes : q[u][j] # "off" => j < dev[f].qmax
  <2>. SUFFICES ASSUME NEW u \in QTypes, NEW j \in Indexes, q[u][j] # "off" PROVE j < dev[f].qmax
    OBVIOUS
  <2>1. CASE <<u, j>> \in at
    BY <1>4, <2>1 DEF EnabledFor
  <2>2. CASE <<u, j>> \notin at
    <3>1. p[u][j] # "off"
      BY <1>5, <2>2
    <3>. QED BY <1>2, <1>3, <3>1 DEF QueuesBelow
  <2>. QED BY <2>1, <2>2
<1>10. QueuesBelow(d) /\ QueuesBelow(e)
  BY <1>6, <1>7, <1>9 DEF QueuesBelow
<1>11. CASE astray'
  <2>1. PICK x : dev' = [dev EXCEPT ![f] = x] /\ QueuesBelow(x)
    BY <1>8, <1>10
  <2>2. /\ ~astray' => ~astray /\ foreign' = {} /\ OneCompletion(x.q)
        /\ ~hwfail' /\ ~astray' /\ masters' # <<>> =>
             Balanced(masters'[1], opens - Cardinality(Busy) + Ended(x), dev')
    BY <1>11
  <2>. QED BY ONLY IInv, CountInv, f \in Funcs, <1>1, <1>2, <1>8, <2>1, <2>2, StepCounts
<1>12. CASE ~astray'
  <2>1. at = {<<t, i>>} /\ ~astray /\ foreign = {}
    <3>1. dev[f].qmax \in Nat
      BY <1>2 DEF Devs
    <3>. QED BY <1>1, <1>2, <1>4, <1>8, <1>12, <3>1, OwnEnabled
  <2>2. q = Enable(p, t, i, mode)
    <3>1. p \in Queues
      BY <1>2, <1>3
    <3>2. \A u \in QTypes, j \in Indexes : <<u, j>> \in at <=> u = t /\ j = i
      BY <2>1
    <3>. QED BY <1>5, <3>1, <3>2 DEF Enable, Queues
  <2>3. /\ q \in Queues /\ q[t][i] = mode
        /\ \A u \in QTypes, j \in Indexes : u # t \/ j # i => q[u][j] = p[u][j]
    <3>1. p \in Queues /\ mode \in {"off", "MM", "ST"}
      BY <1>2, <1>3
    <3>. QED BY ONLY <2>2, <3>1, t \in QTypes, i \in Indexes DEF Enable, Queues
  <2>4. p[t][i] = "off" /\ OneCompletion(q)
    <3>1. "C2H" \in QTypes /\ "CMPT" \in QTypes
      BY DEF QTypes
    <3>2. \A j \in Indexes : p["C2H"][j] = "ST" => p["CMPT"][j] = "off"
      BY <1>2, <1>3, <2>1 DEF OneCompletion
    <3>3. CASE t = "CMPT"
      <4>1. p["CMPT"][i] = "off" /\ p["C2H"][i] # "ST"
        BY <1>1, <1>3, <3>3 DEF is_usable_queue
      <4>. QED BY <2>3, <3>1, <3>2, <3>3, <4>1 DEF OneCompletion
    <3>4. CASE t # "CMPT"
      <4>1. p[t][i] = "off" /\ (mode = "ST" => p["CMPT"][i] = "off")
        BY <1>1, <1>3, <3>4 DEF is_usable_queue
      <4>. QED BY <2>3, <3>1, <3>2, <3>4, <4>1 DEF OneCompletion
    <3>. QED BY <3>3, <3>4
  <2>5. OneCompletion(d.q) /\ OneCompletion(e.q)
    BY <1>6, <1>7, <2>4
  <2>6. foreign' = {}
    <3>1. foreign' = foreign \/ foreign' = qdma_descq_config(f, at, t)
      BY <1>1, <1>4
    <3>2. qdma_descq_config(f, at, t) = {}
      <4>1. {x \in at : x[1] # t} = {}
        BY <2>1
      <4>. QED BY <2>1, <4>1 DEF qdma_descq_config
    <3>. QED BY <2>1, <3>1, <3>2
  <2>7. astray' = astray /\ (~astray => foreign' = {} /\ OneCompletion(d.q))
        /\ (~astray' => ~astray /\ foreign' = {} /\ OneCompletion(e.q))
    <3>1. astray \in BOOLEAN /\ astray' \in BOOLEAN
      BY <1>8 DEF CountInv
    <3>2. astray' = astray
      BY <1>12, <2>1, <3>1
    <3>. QED BY <2>1, <2>5, <2>6, <3>2
  <2>8. CASE /\ dev' = [dev EXCEPT ![f] = d] /\ hwfail' = hwfail
             /\ masters' = [masters EXCEPT ![k] = CountAdded(@, f, t, mode)]
    <3>1. PICK n : n = CountAdded(m, f, t, mode)
      OBVIOUS
    <3>2. masters'[1] = n
      BY <1>2, <1>3, <2>8, <3>1
    <3>3. KeepsTally(m, n, f, q)
      <4>. SUFFICES ASSUME NEW s \in Left, Tally(m, s),
                           \A g \in DOMAIN m.devs : CountsAre(m, g, dev[g].q)
                    PROVE  /\ Tally(n, s) /\ CountsAre(n, f, q)
                           /\ \A g \in DOMAIN n.devs \ {f} :
                                g \in DOMAIN m.devs /\ n.devs[g].cnt = m.devs[g].cnt
        BY DEF KeepsTally
      <4>1. f \in DOMAIN m.devs /\ p \in Queues /\ OneCompletion(q) /\ CountsAre(m, f, p)
            /\ \A u \in QTypes, j \in Indexes : q[u][j] # "off" => j < m.devs[f].chunk.total
        BY <1>2, <1>3, <1>9, <2>4
      <4>2. /\ Tally(n, s) /\ n \in Recounts(m, Funcs) /\ CountsAre(n, f, q)
            /\ \A g \in DOMAIN m.devs \ {f} : n.devs[g] = m.devs[g]
        BY ONLY CountsFit, s \in Left, Tally(m, s), t \in QTypes, i \in Indexes, mode \in {"MM", "ST"},
                <2>2, <2>4, <3>1, <4>1, CountAddedTally
      <4>3. DOMAIN n.devs = DOMAIN m.devs
        BY <4>2 DEF Recounts
      <4>. QED BY <4>2, <4>3
    <3>4. KeepsTally(masters[1], n, f, d.q)
      BY <1>3, <1>7, <3>3
    <3>. QED BY ONLY IInv, CountInv, f \in Funcs, <1>1, <1>2, <1>10, <2>7, <2>8, <3>2, <3>4, CallCounts
  <2>9. CASE dev' = [dev EXCEPT ![f] = e] /\ hwfail' = TRUE
    <3>1. ~hwfail' /\ ~astray' /\ masters' # <<>> =>
            Balanced(masters'[1], opens - Cardinality(Busy) + Ended(e), dev')
      BY <2>9
    <3>. QED BY ONLY IInv, CountInv, f \in Funcs, <1>1, <1>2, <1>8, <1>10, <2>7, <2>9, <3>1, StepCounts
  <2>10. \/ /\ dev' = [dev EXCEPT ![f] = d] /\ hwfail' = hwfail
            /\ masters' = [masters EXCEPT ![k] = CountAdded(@, f, t, mode)]
         \/ dev' = [dev EXCEPT ![f] = e] /\ hwfail' = TRUE
    BY <1>1, <1>4, <1>6, <1>7
  <2>. QED BY <2>8, <2>9, <2>10
<1>. QED BY <1>11, <1>12

\* A changed number of queues is granted only when none is active.
LEMMA SetQmaxCounts ==
  ASSUME CountsFit, IInv, CountInv, NEW f \in Funcs, NEW qmax \in Qmaxes \cup {0},
         NEW qbase \in Qbases \cup {-1}, qdma_set_qmax(f, qmax, qbase)
  PROVE  CountInv'
<1>1. PICK k \in qdma_get_master_resource_entry(dev[f].idx) :
        LET r == qdma_dev_update(masters[k], f, qmax, qbase)
            c == qdma_device_cleanup(r.m, f)
        IN /\ dev[f].pc = "open" /\ opens' = opens /\ hwfail' = hwfail
           /\ astray' = astray /\ foreign' \subseteq foreign
           /\ IF r.ok
              THEN /\ masters' = [masters EXCEPT ![k] = c]
                   /\ dev' = [dev EXCEPT ![f] = qdma_device_init(f, qdma_dev_qinfo_get(c, f))]
              ELSE masters' = [masters EXCEPT ![k] = r.m] /\ dev' = dev
  BY DEF qdma_set_qmax, Unconfigured
<1>2. dev[f].pc = "open" /\ opens' = opens /\ hwfail' = hwfail
      /\ astray' = astray /\ foreign' \subseteq foreign
  BY <1>1
<1>3. /\ k = 1 /\ masters # <<>> /\ masters = <<masters[1]>> /\ Sound(masters[1], Funcs, TotalQ)
      /\ f \in DOMAIN masters[1].devs /\ dev[f].q \in Queues
      /\ (~astray => foreign = {} /\ OneCompletion(dev[f].q))
      /\ QueuesBelow(dev[f]) /\ dev[f].pc # "closed"
  BY <1>2, AtWork
<1>4. PICK m, r : m = masters[1] /\ m = masters[k] /\ r = qdma_dev_update(m, f, qmax, qbase)
  BY <1>3
<1>5. qmax \in Nat /\ qbase \in Int
  BY QueuesAssumption
<1>6. ASSUME NEW s \in Left, Tally(m, s)
      PROVE  /\ Tally(r.m, s) /\ DOMAIN r.m.devs = DOMAIN m.devs
             /\ \A g \in DOMAIN m.devs : r.m.devs[g].cnt = m.devs[g].cnt
             /\ r.ok => \A t \in QTypes : ~(m.devs[f].cnt[t] > 0)
  <2>1. Sound(m, Funcs, TotalQ) /\ f \in DOMAIN m.devs
    BY <1>3, <1>4
  <2>2. /\ Tally(r.m, s) /\ DOMAIN r.m.devs = DOMAIN m.devs /\ r.ok \in BOOLEAN
        /\ \A g \in DOMAIN m.devs : r.m.devs[g].cnt = m.devs[g].cnt
        /\ r.ok => \A t \in QTypes : ~(m.devs[f].cnt[t] > 0)
    BY ONLY <1>4, <1>5, <1>6, <2>1, UpdateTally
  <2>. QED BY <2>2
<1>7. CASE r.ok
  <2>1. PICK c : c = qdma_device_cleanup(r.m, f)
    OBVIOUS
  <2>2. PICK d : d = qdma_device_init(f, qdma_dev_qinfo_get(c, f))
    OBVIOUS
  <2>3. masters' = [masters EXCEPT ![k] = c] /\ dev' = [dev EXCEPT ![f] = d]
    BY <1>1, <1>4, <1>7, <2>1, <2>2
  <2>4. masters'[1] = c
    BY <1>3, <2>3
  <2>5. d.q = Idle
    BY <2>2, NotOpenIdle
  <2>6. QueuesBelow(d) /\ (~astray => foreign' = {} /\ OneCompletion(d.q))
    BY <1>2, <1>3, <2>5, IdleIs
  <2>7. KeepsTally(m, c, f, Idle)
    <3>. SUFFICES ASSUME ~astray, NEW s \in Left, Tally(m, s),
                         \A g \in DOMAIN m.devs : CountsAre(m, g, dev[g].q)
                  PROVE  /\ Tally(c, s) /\ CountsAre(c, f, Idle)
                         /\ \A g \in DOMAIN c.devs \ {f} :
                              g \in DOMAIN m.devs /\ c.devs[g].cnt = m.devs[g].cnt
      BY DEF KeepsTally
    <3>1. /\ Tally(r.m, s) /\ DOMAIN r.m.devs = DOMAIN m.devs
          /\ \A g \in DOMAIN m.devs : r.m.devs[g].cnt = m.devs[g].cnt
          /\ \A t \in QTypes : ~(m.devs[f].cnt[t] > 0)
      BY <1>6, <1>7
    <3>2. f \in DOMAIN m.devs /\ CountsAre(m, f, dev[f].q)
      BY <1>3, <1>4
    <3>3. dev[f].q = Idle
      <4>1. \A t \in QTypes : Cardinality(Using(dev[f].q, t)) = 0
        <5>. SUFFICES ASSUME NEW t \in QTypes PROVE Cardinality(Using(dev[f].q, t)) = 0
          OBVIOUS
        <5>1. Cardinality(Using(dev[f].q, t)) \in Nat
          BY UsingIs
        <5>. QED BY <3>1, <3>2, <5>1 DEF CountsAre
      <4>. QED BY <1>3, <4>1, NoneCounted
    <3>4. PICK l : l = r.m
      OBVIOUS
    <3>5. Tally(l, s) /\ f \in DOMAIN l.devs /\ CountsAre(l, f, dev[f].q) /\ c = qdma_device_cleanup(l, f)
      BY <2>1, <3>1, <3>2, <3>4 DEF CountsAre
    <3>6. /\ Tally(c, s) /\ c \in Recounts(l, Funcs)
          /\ \A g \in DOMAIN l.devs \ {f} : c.devs[g] = l.devs[g]
          /\ \E p \in Queues :
               /\ CountsAre(c, f, p)
               /\ \A i \in Indexes : /\ p["H2C"][i] = "off" /\ p["C2H"][i] = "off"
                                     /\ p["CMPT"][i] = dev[f].q["CMPT"][i]
      BY ONLY CountsFit, s \in Left, <1>3, ~astray, <3>5, CleanupTally
    <3>7. PICK p \in Queues : /\ CountsAre(c, f, p)
                              /\ \A i \in Indexes : /\ p["H2C"][i] = "off" /\ p["C2H"][i] = "off"
                                                    /\ p["CMPT"][i] = dev[f].q["CMPT"][i]
      BY <3>6
    <3>8. p = Idle
      <4>1. "CMPT" \in QTypes /\ \A t \in QTypes, i \in Indexes : Idle[t][i] = "off"
        BY DEF QTypes, Idle
      <4>2. \A t \in QTypes : t = "H2C" \/ t = "C2H" \/ t = "CMPT"
        BY DEF QTypes
      <4>3. \A t \in QTypes, i \in Indexes : p[t][i] = "off"
        BY <3>3, <3>7, <4>1, <4>2
      <4>. QED BY <4>3, IdleIs
    <3>9. DOMAIN c.devs = DOMAIN l.devs
      BY <3>6 DEF Recounts
    <3>. QED BY <3>1, <3>4, <3>6, <3>7, <3>8, <3>9
  <2>8. KeepsTally(masters[1], c, f, d.q)
    BY <1>4, <2>5, <2>7
  <2>. QED BY ONLY IInv, CountInv, f \in Funcs, <1>2, <1>3, <2>3, <2>4, <2>6, <2>8, CallCounts
<1>8. CASE ~r.ok
  <2>1. PICK n, d : n = r.m /\ d = dev[f]
    OBVIOUS
  <2>2. masters' = [masters EXCEPT ![k] = n] /\ dev' = dev
    BY <1>1, <1>4, <1>8, <2>1
  <2>3. masters'[1] = n /\ dev' = [dev EXCEPT ![f] = d]
    BY <1>3, <2>1, <2>2 DEF IInv
  <2>4. KeepsTally(m, n, f, d.q)
    <3>. SUFFICES ASSUME ~astray, NEW s \in Left, Tally(m, s),
                         \A g \in DOMAIN m.devs : CountsAre(m, g, dev[g].q)
                  PROVE  /\ Tally(n, s) /\ CountsAre(n, f, d.q)
                         /\ \A g \in DOMAIN n.devs \ {f} :
                              g \in DOMAIN m.devs /\ n.devs[g].cnt = m.devs[g].cnt
      BY DEF KeepsTally
    <3>1. /\ Tally(n, s) /\ DOMAIN n.devs = DOMAIN m.devs
          /\ \A g \in DOMAIN m.devs : n.devs[g].cnt = m.devs[g].cnt
      BY <1>6, <2>1
    <3>2. f \in DOMAIN m.devs /\ CountsAre(m, f, d.q)
      BY <1>3, <1>4, <2>1
    <3>. QED BY <3>1, <3>2 DEF CountsAre
  <2>5. /\ QueuesBelow(d) /\ KeepsTally(masters[1], n, f, d.q)
        /\ ~astray => foreign' = {} /\ OneCompletion(d.q)
    BY <1>2, <1>3, <1>4, <2>1, <2>4
  <2>. QED BY ONLY IInv, CountInv, f \in Funcs, <1>2, <1>3, <2>3, <2>5, CallCounts
<1>. QED BY <1>7, <1>8

\* A function that closes may leave the counts of its completion queues in the count of the board.
LEMMA CloseCounts ==
  ASSUME CountsFit, IInv, CountInv, NEW f \in Funcs, qdma_device_close(f)
  PROVE  CountInv'
<1>1. PICK k \in qdma_get_master_resource_entry(dev[f].idx) :
        /\ dev[f].pc = "open" /\ opens' = opens /\ hwfail' = hwfail /\ dev' = [dev EXCEPT ![f] = ClosedDev]
        /\ astray' = astray /\ foreign' \subseteq foreign
        /\ masters' = qdma_master_resource_destroy(
                        [masters EXCEPT ![k] = qdma_dev_entry_destroy(
                                            qdma_device_cleanup(@, f), f)], k)
  BY DEF qdma_device_close, Unconfigured
<1>2. /\ k = 1 /\ masters # <<>> /\ masters = <<masters[1]>> /\ Sound(masters[1], Funcs, TotalQ)
      /\ f \in DOMAIN masters[1].devs /\ dev[f].q \in Queues
      /\ (~astray => foreign = {} /\ OneCompletion(dev[f].q))
      /\ dev[f].pc # "closed"
  BY <1>1, AtWork
<1>3. PICK m, c : m = masters[1] /\ c = qdma_device_cleanup(m, f)
  OBVIOUS
<1>4. PICK n : n = qdma_dev_entry_destroy(c, f)
  OBVIOUS
<1>5. PICK d : d = ClosedDev
  OBVIOUS
<1>6. /\ dev' = [dev EXCEPT ![f] = d] /\ d.q = Idle /\ QueuesBelow(d) /\ OneCompletion(d.q)
      /\ Ended(d) = 1
  <2>1. d.q = Idle /\ d.pc = "closed"
    BY <1>5 DEF ClosedDev, Idle
  <2>. QED BY <1>1, <1>5, <2>1, IdleIs DEF Ended
<1>7. dev'[f] = d /\ \A g \in Funcs : g # f => dev'[g] = dev[g]
  BY <1>6 DEF IInv
<1>8. masters' = <<n>> \/ masters' = <<>>
  <2>1. [masters EXCEPT ![k] = qdma_dev_entry_destroy(qdma_device_cleanup(@, f), f)] = <<n>>
    BY <1>2, <1>3, <1>4
  <2>2. masters' = qdma_master_resource_destroy(<<n>>, 1)
    BY <1>1, <1>2, <2>1
  <2>3. masters' = RemoveAt(<<n>>, 1) \/ masters' = <<n>>
    BY <2>2 DEF qdma_master_resource_destroy
  <2>. QED BY <2>3, LastRemoved
<1>9. ASSUME ~hwfail, ~astray PROVE Balanced(n, opens - Cardinality(Busy) + Ended(d), dev')
  <2>. DEFINE E == opens - Cardinality(Busy)
  <2>1. E \in Nat /\ Cardinality(Indexes) \in Nat
    <3>1. Cardinality(Busy) \in Nat /\ Cardinality(Indexes) \in Nat
      BY <1>6, BusyIs, QueuesAssumption, FS_CardinalityType
    <3>. QED BY <3>1 DEF CountInv
  <2>2. PICK s \in Left : /\ s \in 0 .. Cardinality(Indexes) * E /\ Tally(m, s)
                          /\ \A g \in DOMAIN m.devs : CountsAre(m, g, dev[g].q)
    BY <1>2, <1>3, <1>9, BalancedIs
  <2>. HIDE DEF E
  <2>3. f \in DOMAIN m.devs /\ CountsAre(m, f, dev[f].q) /\ Tally(m, s)
    BY <1>2, <1>3, <2>2
  <2>4. /\ Tally(c, s) /\ c \in Recounts(m, Funcs)
        /\ \A g \in DOMAIN m.devs \ {f} : c.devs[g] = m.devs[g]
        /\ \E p \in Queues :
             /\ CountsAre(c, f, p)
             /\ \A i \in Indexes : /\ p["H2C"][i] = "off" /\ p["C2H"][i] = "off"
                                   /\ p["CMPT"][i] = dev[f].q["CMPT"][i]
    BY ONLY CountsFit, s \in Left, <1>2, <1>3, <1>9, <2>3, CleanupTally
  <2>5. PICK p \in Queues : /\ CountsAre(c, f, p)
                            /\ \A i \in Indexes : p["H2C"][i] = "off" /\ p["C2H"][i] = "off"
    BY <2>4
  <2>6. /\ c.devs[f].cnt["H2C"] = 0 /\ c.devs[f].cnt["C2H"] = 0
        /\ c.devs[f].cnt["CMPT"] \in Nat /\ c.devs[f].cnt["CMPT"] <= Cardinality(Indexes)
    <3>1. "H2C" \in QTypes /\ "C2H" \in QTypes /\ "CMPT" \in QTypes
      BY DEF QTypes
    <3>2. Using(p, "H2C") = {} /\ Using(p, "C2H") = {}
      BY <2>5 DEF Using
    <3>3. Cardinality(Using(p, "H2C")) = 0 /\ Cardinality(Using(p, "C2H")) = 0
      BY <3>2, UsingIs
    <3>4. Cardinality(Using(p, "CMPT")) \in Nat /\ Cardinality(Using(p, "CMPT")) <= Cardinality(Indexes)
      BY UsingIs
    <3>. QED BY <2>5, <3>1, <3>3, <3>4 DEF CountsAre
  <2>7. Sound(c, Funcs, TotalQ) /\ DOMAIN c.devs = DOMAIN m.devs
    <3>1. Sound(m, Funcs, TotalQ)
      BY <1>2, <1>3
    <3>. QED BY ONLY <2>4, <3>1, RecountSound
  <2>8. /\ Sound(n, Funcs, TotalQ) /\ DOMAIN n.devs = DOMAIN c.devs \ {f}
        /\ \A g \in DOMAIN c.devs \ {f} : n.devs[g] = c.devs[g]
    <3>1. f \in DOMAIN c.devs /\ Sound(c, Funcs, TotalQ)
      BY <2>3, <2>7
    <3>2. /\ Sound(n, Funcs, TotalQ) /\ n.idx = c.idx /\ DOMAIN n.devs = DOMAIN c.devs \ {f}
          /\ \A g \in DOMAIN c.devs \ {f} : n.devs[g] = c.devs[g]
      BY ONLY <1>4, <3>1, DestroyIs
    <3>. QED BY ONLY <3>2
  <2>9. Tally(n, s + c.devs[f].cnt["CMPT"])
    <3>1. n.act = c.act
      BY ONLY <1>4, <2>7, RangeKeepsCounts
    <3>2. n \in Masters(Funcs) /\ f \in DOMAIN c.devs
      BY <2>3, <2>7, <2>8 DEF Sound
    <3>3. \A g \in DOMAIN n.devs, t \in QTypes : n.devs[g].cnt[t] = c.devs[g].cnt[t]
      BY <2>8
    <3>4. s \in Nat /\ Tally(c, s) /\ DOMAIN n.devs = DOMAIN c.devs \ {f}
      <4>1. Cardinality(Indexes) * E \in Nat
        BY <2>1
      <4>. QED BY <2>2, <2>4, <2>8, <4>1
    <3>. QED BY ONLY <2>6, <3>1, <3>2, <3>3, <3>4, ShrinkTally
  <2>10. PICK z : z = s + c.devs[f].cnt["CMPT"]
    OBVIOUS
  <2>11. z \in 0 .. Cardinality(Indexes) * (E + 1)
    <3>1. Cardinality(Indexes) * (E + 1) = Cardinality(Indexes) * E + Cardinality(Indexes)
          /\ Cardinality(Indexes) * E \in Nat
      BY <2>1
    <3>. QED BY <2>1, <2>2, <2>6, <2>10, <3>1
  <2>12. DOMAIN n.devs \in SUBSET Funcs
    BY <2>8, MasterIs DEF Sound
  <2>13. ASSUME NEW g \in DOMAIN n.devs PROVE CountsAre(n, g, dev'[g].q)
    <3>1. g # f /\ g \in DOMAIN m.devs /\ n.devs[g] = c.devs[g] /\ c.devs[g] = m.devs[g]
      BY <2>4, <2>7, <2>8
    <3>2. dev'[g] = dev[g] /\ CountsAre(m, g, dev[g].q)
      BY <1>7, <2>2, <2>12, <3>1
    <3>. QED BY <3>1, <3>2 DEF CountsAre
  <2>14. Balanced(n, E + 1, dev')
    BY <2>9, <2>10, <2>11, <2>13 DEF Balanced
  <2>. QED BY <1>6, <2>14 DEF E
<1>10. /\ hwfail' \in BOOLEAN /\ astray' \in BOOLEAN
       /\ ~astray' => ~astray /\ foreign' = {} /\ OneCompletion(d.q)
  BY <1>1, <1>2, <1>6 DEF CountInv
<1>11. ~hwfail' /\ ~astray' /\ masters' # <<>> =>
         Balanced(masters'[1], opens - Cardinality(Busy) + Ended(d), dev')
  BY <1>1, <1>8, <1>9
<1>. QED BY ONLY IInv, CountInv, f \in Funcs, <1>1, <1>2, <1>6, <1>10, <1>11, StepCounts

\* Every step keeps the counts.
LEMMA NextCounts ==
  ASSUME CountsFit, IInv, CountInv, [Next]_vars
  PROVE  CountInv'
<1>1. CASE Next
  <2>1. PICK f \in Funcs :
          \/ qdma_device_open(f)
          \/ qdma_master_resource_create(f)
          \/ \E qmax \in Qmaxes, qbase \in Qbases \cup {-1}, online \in BOOLEAN :
                DeviceOnline(f, qmax, qbase, online)
          \/ \E t \in QTypes, mode \in {"MM", "ST"}, qidx \in Qidxs, hwok \in BOOLEAN :
                qdma_queue_add(f, t, mode, qidx, hwok)
          \/ \E t \in QTypes, i \in Indexes : qdma_queue_remove(f, t, i)
          \/ \E qmax \in Qmaxes \cup {0}, qbase \in Qbases \cup {-1} : qdma_set_qmax(f, qmax, qbase)
          \/ \E sz \in 0 .. 1 : qdma_set_intr_rngsz(f, sz)
          \/ qdma_device_close(f)
    BY <1>1 DEF Next, Qidxs
  <2>2. CASE qdma_device_open(f)
    BY <2>2, OpenCounts
  <2>3. CASE qdma_master_resource_create(f)
    BY <2>3, CreateCounts
  <2>4. CASE \E qmax \in Qmaxes, qbase \in Qbases \cup {-1}, online \in BOOLEAN :
                DeviceOnline(f, qmax, qbase, online)
    BY <2>4, OnlineCounts
  <2>5. CASE \E t \in QTypes, mode \in {"MM", "ST"}, qidx \in Qidxs, hwok \in BOOLEAN :
                qdma_queue_add(f, t, mode, qidx, hwok)
    BY <2>5, AddCounts
  <2>6. CASE \E t \in QTypes, i \in Indexes : qdma_queue_remove(f, t, i)
    BY <2>6, RemoveCounts
  <2>7. CASE \E qmax \in Qmaxes \cup {0}, qbase \in Qbases \cup {-1} : qdma_set_qmax(f, qmax, qbase)
    BY <2>7, SetQmaxCounts
  <2>8. CASE \E sz \in 0 .. 1 : qdma_set_intr_rngsz(f, sz)
    BY <2>8, RngszCounts
  <2>9. CASE qdma_device_close(f)
    BY <2>9, CloseCounts
  <2>. QED BY <2>1, <2>2, <2>3, <2>4, <2>5, <2>6, <2>7, <2>8, <2>9
<1>2. CASE UNCHANGED vars
  <2>1. /\ masters' = masters /\ dev' = dev /\ opens' = opens /\ hwfail' = hwfail
        /\ astray' = astray /\ foreign' = foreign
    BY <1>2 DEF vars
  <2>2. Busy' = Busy
    BY <2>1 DEF Busy
  <2>. QED BY <2>1, <2>2 DEF CountInv
<1>. QED BY <1>1, <1>2

\* Separate and streaming completion queues share no index, so that a type's counted queues are
\* its enabled ones, with the streaming receive queues for completions.
LEMMA UsingEnabled ==
  ASSUME NEW f \in Funcs, OneCompletion(dev[f].q), NEW t \in QTypes
  PROVE  Cardinality(Using(dev[f].q, t)) =
           Cardinality(Enabled(f, t)) +
           (IF t = "CMPT" THEN Cardinality({i \in Indexes : dev[f].q["C2H"][i] = "ST"}) ELSE 0)
<1>. DEFINE E == Enabled(f, t)
            S == {i \in Indexes : dev[f].q["C2H"][i] = "ST"}
<1>1. IsFiniteSet(E) /\ IsFiniteSet(S)
  <2>1. E \in SUBSET Indexes /\ S \in SUBSET Indexes /\ IsFiniteSet(Indexes)
    BY QueuesAssumption DEF Enabled
  <2>. HIDE DEF E, S
  <2>. QED BY <2>1, FS_Subset
<1>2. Cardinality(E) \in Nat /\ Cardinality(S) \in Nat
  <2>. HIDE DEF E, S
  <2>. QED BY <1>1, FS_CardinalityType
<1>3. CASE t = "CMPT"
  <2>1. Using(dev[f].q, t) = E \cup S /\ E \cap S = {}
    BY <1>3 DEF Using, Enabled, OneCompletion
  <2>. HIDE DEF E, S
  <2>2. Cardinality(E \cup S) = Cardinality(E) + Cardinality(S) - Cardinality(E \cap S)
    BY <1>1, FS_Union
  <2>3. Cardinality(E \cap S) = 0
    BY <2>1, FS_EmptySet
  <2>4. Cardinality(Using(dev[f].q, t)) = Cardinality(E) + Cardinality(S)
    BY <1>2, <2>1, <2>2, <2>3
  <2>. QED BY <1>3, <2>4 DEF E, S
<1>4. CASE t # "CMPT"
  <2>1. Using(dev[f].q, t) = E
    BY <1>4 DEF Using, Enabled
  <2>2. Cardinality(Using(dev[f].q, t)) = Cardinality(E) + 0
    <3>. HIDE DEF E, S
    <3>. QED BY <1>2, <2>1
  <2>. QED BY <1>4, <2>2
<1>. QED BY <1>3, <1>4

\* The counts of qdma_dev_increment_active_queue() and qdma_dev_decrement_active_queue() are
\* exact, and the board's count is never below them.
LEMMA CountsFollow ==
  ASSUME CountsFit, IInv, CountInv
  PROVE  CountsTrue
<1>. SUFFICES ASSUME ~hwfail, ~astray, NEW k \in DOMAIN masters
     PROVE  /\ \A f \in DOMAIN masters[k].devs, t \in QTypes :
                 masters[k].devs[f].cnt[t] =
                   Cardinality(Enabled(f, t)) +
                   (IF t = "CMPT"
                    THEN Cardinality({i \in Indexes : dev[f].q["C2H"][i] = "ST"})
                    ELSE 0)
            /\ masters[k].act >=
                 MapThenSumSet(LAMBDA p : masters[k].devs[p[1]].cnt[p[2]],
                               (DOMAIN masters[k].devs) \X QTypes)
  BY DEF CountsTrue
<1>1. masters # <<>> /\ k = 1
  <2>1. masters # <<>>
    OBVIOUS
  <2>2. masters = <<masters[1]>>
    BY <2>1 DEF IInv
  <2>3. \A x : DOMAIN <<x>> = {1}
    OBVIOUS
  <2>. QED BY <2>1, <2>2, <2>3
<1>2. PICK s \in Left : /\ Tally(masters[k], s)
                        /\ \A f \in DOMAIN masters[k].devs : CountsAre(masters[k], f, dev[f].q)
  BY <1>1, BalancedIs
<1>3. CntSum(masters[k], Counts(masters[k])) \in Nat /\ masters[k].act \in Int
      /\ CntSum(masters[k], Counts(masters[k])) <= masters[k].act
  BY <1>2, TallyFits
<1>4. masters[k].act >= CntSum(masters[k], Counts(masters[k]))
  BY <1>3
<1>5. masters[k].act >=
         MapThenSumSet(LAMBDA p : masters[k].devs[p[1]].cnt[p[2]],
                       (DOMAIN masters[k].devs) \X QTypes)
  BY <1>4 DEF CntSum, Counts
<1>6. ASSUME NEW f \in DOMAIN masters[k].devs, NEW t \in QTypes
      PROVE  masters[k].devs[f].cnt[t] =
               Cardinality(Enabled(f, t)) +
               (IF t = "CMPT"
                THEN Cardinality({i \in Indexes : dev[f].q["C2H"][i] = "ST"})
                ELSE 0)
  <2>1. f \in Funcs
    BY <1>2, MasterIs DEF Tally
  <2>2. OneCompletion(dev[f].q) /\ masters[k].devs[f].cnt[t] = Cardinality(Using(dev[f].q, t))
    BY <1>2, <2>1 DEF CountInv, CountsAre
  <2>. QED BY <2>1, <2>2, UsingEnabled
<1>. QED BY <1>5, <1>6

\* Until a register access fails in an add, or an automatic index above zero enables another descq
\* than the one it counts, every active queue is counted exactly once under each of its types and
\* the board's count never falls below their sum (qdma_queue_add(), qdma_queue_remove(),
\* qdma_device_close()), while the counts of all opens fit in the count's bits.
THEOREM CountsTrueHolds ==
  ASSUME SerialOpen, CountsFit
  PROVE  Spec => []CountsTrue
<1>1. Init => IInv /\ CountInv
  BY InitHolds, InitCounts
<1>2. IInv /\ CountInv /\ [Next]_vars => (IInv /\ CountInv)'
  <2>. SUFFICES ASSUME IInv, CountInv, [Next]_vars PROVE IInv' /\ CountInv'
    OBVIOUS
  <2>. QED BY NextKeeps, NextCounts
<1>3. IInv /\ CountInv => CountsTrue
  BY CountsFollow
<1>. QED BY <1>1, <1>2, <1>3, PTL DEF Spec

=============================================================================
