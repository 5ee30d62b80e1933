------------------------ MODULE QueueResourcesProof -------------------------
(***************************************************************************)
(* Lemmas about the resource manager (QueueResources), for any list of     *)
(* free chunks and any request: merging, giving back and serving keep the  *)
(* free list in order and lose no queue, and every call on the master      *)
(* resource keeps the queues of the board partitioned.  Cited for the      *)
(* physical functions (QdmaQueuesProof) and the virtual functions          *)
(* (VfMailboxProof).                                                       *)
(***************************************************************************)
EXTENDS QueueResources, FiniteSetTheorems, WellFoundedInduction, TLAPS

-----------------------------------------------------------------------------
(***************************************************************************)
(* Induction and folds.                                                    *)
(***************************************************************************)
\* A non-empty collection of subsets of a finite set has a minimal member.
LEMMA MinimalSet ==
  ASSUME NEW S, IsFiniteSet(S), NEW C \in SUBSET (SUBSET S), C # {}
  PROVE  \E T \in C : \A U \in C : U \subseteq T => U = T
<1>1. IsWellFoundedOn(StrictSubsetOrdering(S), SUBSET S)
  BY FS_StrictSubsetOrderingWellFounded, FS_FiniteSubsetsOfFinite
<1>2. PICK T \in C : \A U \in C : ~(<<U, T>> \in StrictSubsetOrdering(S))
  BY <1>1, WFMin
<1>. QED BY <1>2 DEF StrictSubsetOrdering

\* Induction over the subsets of a finite set
LEMMA SubsetInduction ==
  ASSUME NEW S, IsFiniteSet(S), NEW G \in SUBSET (SUBSET S), {} \in G,
         \A T \in SUBSET S : T # {} /\ (\A x \in T : T \ {x} \in G) => T \in G
  PROVE  S \in G
<1>. SUFFICES ASSUME S \notin G PROVE FALSE
  OBVIOUS
<1>. DEFINE C == (SUBSET S) \ G
<1>1. C \in SUBSET (SUBSET S) /\ S \in C
  OBVIOUS
<1>2. PICK T \in C : \A U \in C : U \subseteq T => U = T
  <2>. HIDE DEF C
  <2>. QED BY <1>1, MinimalSet
<1>3. \A x \in T : T \ {x} \in G
  BY <1>2
<1>. QED BY <1>2, <1>3

\* A set of naturals with 0 and every successor is all of them.
LEMMA NatInductionSet ==
  ASSUME NEW N \in SUBSET Nat, 0 \in N, \A n \in N : n + 1 \in N
  PROVE  N = Nat
<1>. SUFFICES ASSUME NEW k \in Nat, k \notin N PROVE FALSE
  OBVIOUS
<1>. DEFINE C == {1 .. m : m \in 0 .. k} \ {1 .. m : m \in N}
<1>1. IsFiniteSet(1 .. k)
  BY FS_Interval
<1>2. \A m, n \in Nat : 1 .. m \subseteq 1 .. n <=> m <= n
  <2>. SUFFICES ASSUME NEW m \in Nat, NEW n \in Nat PROVE 1 .. m \subseteq 1 .. n <=> m <= n
    OBVIOUS
  <2>1. m \in 1 .. m \/ m = 0
    OBVIOUS
  <2>. QED BY <2>1
<1>3. \A m, n \in Nat : 1 .. m = 1 .. n => m = n
  BY <1>2
<1>4. 1 .. k \in C /\ C \in SUBSET (SUBSET (1 .. k))
  <2>1. \A n \in N : n \in Nat /\ 1 .. k # 1 .. n
    BY <1>3
  <2>2. k \in 0 .. k
    OBVIOUS
  <2>3. 1 .. k \in C
    BY ONLY <2>1, <2>2 DEF C
  <2>4. \A m \in 0 .. k : 1 .. m \in SUBSET (1 .. k)
    OBVIOUS
  <2>5. C \subseteq {1 .. m : m \in 0 .. k}
    OBVIOUS
  <2>. QED BY ONLY <2>3, <2>4, <2>5
<1>5. PICK T \in C : \A U \in C : U \subseteq T => U = T
  <2>. DEFINE K == 1 .. k
  <2>1. IsFiniteSet(K) /\ C \in SUBSET (SUBSET K) /\ C # {}
    BY <1>1, <1>4
  <2>. HIDE DEF C, K
  <2>. QED BY <2>1, MinimalSet
<1>6. PICK m \in 0 .. k : T = 1 .. m
  OBVIOUS
<1>7. m \notin N /\ m # 0
  BY <1>6
<1>8. m - 1 \notin N
  BY <1>7
<1>9. 1 .. (m - 1) \in C
  <2>1. m - 1 \in 0 .. k /\ m - 1 \in Nat
    BY ONLY <1>7, m \in 0 .. k, k \in Nat
  <2>2. \A n \in N : n \in Nat /\ 1 .. (m - 1) # 1 .. n
    BY <1>3, <1>8, <2>1
  <2>. QED BY ONLY <2>1, <2>2 DEF C
<1>10. 1 .. (m - 1) \subseteq 1 .. m
  OBVIOUS
<1>11. 1 .. (m - 1) = 1 .. m
  BY <1>5, <1>6, <1>9, <1>10
<1>. QED BY <1>3, <1>7, <1>11

\* A finite set of numbers that is not empty has a greatest element.
LEMMA MaxIs ==
  ASSUME NEW S \in SUBSET Int, IsFiniteSet(S), S # {}
  PROVE  Max(S) \in S /\ \A y \in S : Max(S) >= y
<1>. DEFINE G == {T \in SUBSET S : T = {} \/ \E x \in T : \A y \in T : x >= y}
<1>1. G \in SUBSET (SUBSET S) /\ {} \in G
  OBVIOUS
<1>2. ASSUME NEW T \in SUBSET S, T # {}, \A x \in T : T \ {x} \in G PROVE T \in G
  <2>1. PICK x \in T : T \ {x} \in G
    BY <1>2
  <2>2. CASE T \ {x} = {}
    <3>1. \A y \in T : x >= y
      BY <2>2
    <3>. QED BY <3>1
  <2>3. CASE T \ {x} # {}
    <3>1. PICK z \in T \ {x} : \A y \in T \ {x} : z >= y
      BY <2>1, <2>3
    <3>2. x \in Int /\ z \in Int /\ \A y \in T : y \in Int
      BY <2>1
    <3>3. CASE z >= x
      <4>1. \A y \in T : z >= y
        BY <3>1, <3>3
      <4>. QED BY <4>1
    <3>4. CASE x >= z
      <4>1. \A y \in T : x >= y
        BY <3>1, <3>2, <3>4
      <4>. QED BY <4>1
    <3>. QED BY <3>2, <3>3, <3>4
  <2>. QED BY <2>2, <2>3
<1>3. S \in G
  <2>. HIDE DEF G
  <2>. QED BY <1>1, <1>2, SubsetInduction
<1>4. \E x \in S : \A y \in S : x >= y
  BY <1>3
<1>. QED BY <1>4 DEF Max

\* A set of naturals that is not empty has a least element.
LEMMA MinIs ==
  ASSUME NEW S \in SUBSET Nat, S # {}
  PROVE  Min(S) \in S /\ \A y \in S : Min(S) <= y
<1>1. \E x \in S : \A y \in S : x <= y
  <2>. SUFFICES ASSUME \A x \in S : \E y \in S : ~(x <= y) PROVE FALSE
    OBVIOUS
  <2>. DEFINE N == {n \in Nat : \A k \in 0 .. n : k \notin S}
  <2>1. 0 \in N
    OBVIOUS
  <2>2. ASSUME NEW n \in N PROVE n + 1 \in N
    <3>1. \A y \in S : y \in Nat /\ ~(y <= n)
      <4>1. \A y \in Nat : y <= n => y \in 0 .. n
        OBVIOUS
      <4>. QED BY <4>1
    <3>2. n + 1 \notin S
      BY <3>1
    <3>3. \A k \in 0 .. (n + 1) : k \in 0 .. n \/ k = n + 1
      OBVIOUS
    <3>. QED BY <3>2, <3>3
  <2>3. N = Nat
    <3>1. N \in SUBSET Nat
      OBVIOUS
    <3>. HIDE DEF N
    <3>. QED BY <2>1, <2>2, <3>1, NatInductionSet
  <2>4. \A n \in Nat : n \in 0 .. n
    OBVIOUS
  <2>. QED BY <2>3, <2>4
<1>. QED BY <1>1 DEF Min

\* The functions FoldLeft is built from: what they yield on D when they go
\* through S from the least element to the greatest.
Steps(g, D, base, G) ==
  g = [T \in D |-> IF T = {} THEN base ELSE G[<<g[T \ {Max(T)}], Max(T)>>]]

\* There is such a function for every finite set of numbers.
LEMMA StepsExist ==
  ASSUME NEW S \in SUBSET Int, IsFiniteSet(S), NEW A, NEW base \in A,
         NEW G \in [A \X S -> A]
  PROVE  \E g \in [SUBSET S -> A] : Steps(g, SUBSET S, base, G)
<1>. DEFINE D(n) == {T \in SUBSET S : Cardinality(T) <= n}
            N == {n \in Nat : \E g \in [D(n) -> A] : Steps(g, D(n), base, G)}
<1>1. \A T \in SUBSET S : IsFiniteSet(T) /\ Cardinality(T) \in Nat
                            /\ (Cardinality(T) = 0 <=> T = {})
  BY FS_Subset, FS_CardinalityType, FS_EmptySet
<1>2. \A T \in SUBSET S : T # {} =>
        /\ Max(T) \in S /\ T \ {Max(T)} \in SUBSET S
        /\ Cardinality(T \ {Max(T)}) = Cardinality(T) - 1
  <2>. SUFFICES ASSUME NEW T \in SUBSET S, T # {}
                PROVE  Max(T) \in S /\ Cardinality(T \ {Max(T)}) = Cardinality(T) - 1
    OBVIOUS
  <2>1. Max(T) \in T
    BY <1>1, MaxIs
  <2>. QED BY <1>1, <2>1, FS_RemoveElement
<1>3. 0 \in N
  <2>1. D(0) = {{}}
    <3>1. {} \in SUBSET S /\ \A T \in SUBSET S : Cardinality(T) <= 0 <=> T = {}
      BY <1>1
    <3>. QED BY <3>1
  <2>. DEFINE f == [T \in {{}} |-> base]
  <2>2. f \in [{{}} -> A] /\ Steps(f, {{}}, base, G)
    BY DEF Steps
  <2>. QED BY <2>1, <2>2
<1>4. ASSUME NEW n \in N PROVE n + 1 \in N
  <2>1. PICK f \in [D(n) -> A] : Steps(f, D(n), base, G)
    OBVIOUS
  <2>. DEFINE g == [T \in D(n + 1) |->
                      IF T = {} THEN base ELSE G[<<f[T \ {Max(T)}], Max(T)>>]]
  <2>2. D(n) \subseteq D(n + 1)
    BY <1>1
  <2>3. \A T \in D(n) : g[T] = f[T]
    BY <2>1, <2>2 DEF Steps
  <2>4. \A T \in D(n + 1) : T # {} => T \ {Max(T)} \in D(n) /\ Max(T) \in S
    BY <1>1, <1>2, SMTT(30)
  <2>5. g = [T \in D(n + 1) |-> IF T = {} THEN base ELSE G[<<g[T \ {Max(T)}], Max(T)>>]]
    BY <2>3, <2>4
  <2>6. Steps(g, D(n + 1), base, G)
    BY <2>5 DEF Steps
  <2>7. g \in [D(n + 1) -> A]
    BY <2>1, <2>4
  <2>8. \E h \in [D(n + 1) -> A] : Steps(h, D(n + 1), base, G)
    <3>. HIDE DEF g
    <3>. QED BY <2>6, <2>7
  <2>. HIDE DEF D
  <2>. QED BY <2>8
<1>5. N = Nat
  <2>. HIDE DEF N
  <2>1. N \in SUBSET Nat
    BY DEF N
  <2>. QED BY <1>3, <1>4, <2>1, NatInductionSet
<1>6. Cardinality(S) \in Nat /\ D(Cardinality(S)) = SUBSET S
  <2>1. \A T \in SUBSET S : Cardinality(T) <= Cardinality(S)
    BY FS_Subset
  <2>. QED BY <1>1, <2>1
<1>7. \E g \in [D(Cardinality(S)) -> A] : Steps(g, D(Cardinality(S)), base, G)
  BY <1>5, <1>6
<1>. HIDE DEF D
<1>. QED BY <1>6, <1>7

\* They go through the first n numbers one by one.
LEMMA InTurn ==
  ASSUME NEW n \in Nat, n > 0
  PROVE  /\ Max(1 .. n) = n /\ (1 .. n) \ {n} = 1 .. (n - 1)
         /\ 1 .. n # {} /\ IsFiniteSet(1 .. n)
<1>1. IsFiniteSet(1 .. n) /\ n \in 1 .. n
  BY FS_Interval
<1>2. Max(1 .. n) \in 1 .. n /\ \A y \in 1 .. n : Max(1 .. n) >= y
  BY <1>1, MaxIs
<1>. QED BY <1>1, <1>2

-----------------------------------------------------------------------------
(***************************************************************************)
(* The free list.                                                          *)
(***************************************************************************)
Chunks == [qbase : Int, total : Nat]

\* The first queue behind a chunk
End(c) == c.qbase + c.total

\* The queues in the chunks of a list
QueuesIn(list) == UNION {ChunkQueues(list[i]) : i \in DOMAIN list}

\* Chunks in order, none of them empty, no two overlapping
FreeList(list) ==
  /\ list \in Seq(Chunks)
  /\ \A i \in DOMAIN list : list[i].total > 0
  /\ \A i, j \in DOMAIN list : i < j => End(list[i]) <= list[j].qbase

\* What Defragment() does with the next chunk of the list
Join(acc, c) ==
  IF acc # <<>> /\ Last(acc).qbase + Last(acc).total = c.qbase
  THEN Append(Front(acc), Chunk(Last(acc).qbase, Last(acc).total + c.total))
  ELSE Append(acc, c)

\* A chunk is a record of two numbers.
LEMMA ChunkIs ==
  ASSUME NEW b \in Int, NEW n \in Nat
  PROVE  /\ Chunk(b, n) \in Chunks /\ Chunk(b, n).qbase = b /\ Chunk(b, n).total = n
         /\ ChunkQueues(Chunk(b, n)) = b .. (b + n - 1)
BY DEF Chunk, Chunks, ChunkQueues

\* The last chunk of a list and the chunks before it.
LEMMA LastIs ==
  ASSUME NEW s \in Seq(Chunks), s # <<>>
  PROVE  /\ Last(s) \in Chunks /\ Last(s) = s[Len(s)] /\ Len(s) \in DOMAIN s
         /\ Front(s) \in Seq(Chunks) /\ Len(Front(s)) = Len(s) - 1
         /\ \A i \in 1 .. Len(s) - 1 : Front(s)[i] = s[i]
<1>1. Len(s) \in 1 .. Len(s) /\ Len(s) \in Nat
  OBVIOUS
<1>2. Last(s) = s[Len(s)] /\ s[Len(s)] \in Chunks
  BY <1>1 DEF Last
<1>3. Front(s) = SubSeq(s, 1, Len(s) - 1)
  BY DEF Front
<1>4. PICK k \in Nat : k = Len(s) - 1 /\ k <= Len(s)
  <2>1. Len(s) - 1 \in Nat /\ Len(s) - 1 <= Len(s)
    BY <1>1
  <2>. QED BY <2>1
<1>5. /\ SubSeq(s, 1, k) \in Seq(Chunks) /\ Len(SubSeq(s, 1, k)) = k
      /\ \A i \in 1 .. k : SubSeq(s, 1, k)[i] = s[i]
  BY ONLY <1>4, s \in Seq(Chunks)
<1>. QED BY ONLY <1>1, <1>2, <1>3, <1>4, <1>5

\* Join() yields a list of chunks.
LEMMA JoinType ==
  ASSUME NEW acc \in Seq(Chunks), NEW c \in Chunks
  PROVE  Join(acc, c) \in Seq(Chunks)
<1>1. CASE acc # <<>>
  <2>1. Last(acc).qbase \in Int /\ Last(acc).total + c.total \in Nat /\ Front(acc) \in Seq(Chunks)
    BY <1>1, LastIs DEF Chunks
  <2>2. Chunk(Last(acc).qbase, Last(acc).total + c.total) \in Chunks
    BY <2>1, ChunkIs
  <2>. QED BY <2>1, <2>2 DEF Join
<1>. QED BY <1>1 DEF Join

\* Defragment() is made up chunk by chunk.
LEMMA DefragmentSteps ==
  ASSUME NEW list \in Seq(Chunks)
  PROVE  \E a \in [0 .. Len(list) -> Seq(Chunks)] :
            /\ a[0] = <<>> /\ a[Len(list)] = Defragment(list)
            /\ \A n \in 1 .. Len(list) : a[n] = Join(a[n - 1], list[n])
<1>. DEFINE S == 1 .. Len(list)
            G == [p \in Seq(Chunks) \X S |-> Join(p[1], list[p[2]])]
            f == CHOOSE f : f = [T \in SUBSET (DOMAIN list) |->
                    IF T = {} THEN <<>>
                    ELSE IF f[T \ {Max(T)}] # <<>>
                            /\ Last(f[T \ {Max(T)}]).qbase + Last(f[T \ {Max(T)}]).total
                                  = list[Max(T)].qbase
                    THEN Append(Front(f[T \ {Max(T)}]),
                                Chunk(Last(f[T \ {Max(T)}]).qbase,
                                      Last(f[T \ {Max(T)}]).total + list[Max(T)].total))
                    ELSE Append(f[T \ {Max(T)}], list[Max(T)])]
<1>1. Defragment(list) = f[DOMAIN list]
  BY DEF Defragment, FoldLeft, MapThenFoldSet
<1>2. /\ S \in SUBSET Int /\ IsFiniteSet(S) /\ <<>> \in Seq(Chunks)
      /\ Len(list) \in Nat /\ DOMAIN list = S
      /\ \A i \in S : list[i] \in Chunks
  BY FS_Interval
<1>3. G \in [Seq(Chunks) \X S -> Seq(Chunks)]
  BY <1>2, JoinType
<1>4. PICK g \in [SUBSET S -> Seq(Chunks)] : Steps(g, SUBSET S, <<>>, G)
  <2>. HIDE DEF G, S
  <2>. QED BY <1>2, <1>3, StepsExist
<1>5. \A T \in SUBSET S : T # {} => Max(T) \in S /\ T \ {Max(T)} \in SUBSET S
  <2>. SUFFICES ASSUME NEW T \in SUBSET S, T # {} PROVE Max(T) \in T
    OBVIOUS
  <2>1. IsFiniteSet(T)
    BY <1>2, FS_Subset
  <2>. QED BY <1>2, <2>1, MaxIs
<1>6. g = [T \in SUBSET S |->
             IF T = {} THEN <<>> ELSE Join(g[T \ {Max(T)}], list[Max(T)])]
  <2>1. \A T \in SUBSET S : T # {} =>
          G[<<g[T \ {Max(T)}], Max(T)>>] = Join(g[T \ {Max(T)}], list[Max(T)])
    BY <1>4, <1>5
  <2>. HIDE DEF G
  <2>. QED BY <1>4, <2>1 DEF Steps
<1>7. f = [T \in SUBSET S |->
             IF T = {} THEN <<>> ELSE Join(f[T \ {Max(T)}], list[Max(T)])]
  <2>. HIDE DEF S
  <2>. SUFFICES f = [T \in SUBSET (DOMAIN list) |->
                    IF T = {} THEN <<>>
                    ELSE IF f[T \ {Max(T)}] # <<>>
                            /\ Last(f[T \ {Max(T)}]).qbase + Last(f[T \ {Max(T)}]).total
                                  = list[Max(T)].qbase
                    THEN Append(Front(f[T \ {Max(T)}]),
                                Chunk(Last(f[T \ {Max(T)}]).qbase,
                                      Last(f[T \ {Max(T)}]).total + list[Max(T)].total))
                    ELSE Append(f[T \ {Max(T)}], list[Max(T)])]
    BY <1>2 DEF Join
  <2>1. g = [T \in SUBSET (DOMAIN list) |->
                    IF T = {} THEN <<>>
                    ELSE IF g[T \ {Max(T)}] # <<>>
                            /\ Last(g[T \ {Max(T)}]).qbase + Last(g[T \ {Max(T)}]).total
                                  = list[Max(T)].qbase
                    THEN Append(Front(g[T \ {Max(T)}]),
                                Chunk(Last(g[T \ {Max(T)}]).qbase,
                                      Last(g[T \ {Max(T)}]).total + list[Max(T)].total))
                    ELSE Append(g[T \ {Max(T)}], list[Max(T)])]
    BY <1>2, <1>6 DEF Join
  <2>. QED BY <2>1, Zenon
<1>. HIDE DEF f, G
<1>8. f[1 .. 0] = <<>>
  BY <1>7
<1>9. \A n \in S : f[1 .. n] = Join(f[1 .. (n - 1)], list[n])
  <2>. SUFFICES ASSUME NEW n \in S PROVE f[1 .. n] = Join(f[1 .. (n - 1)], list[n])
    OBVIOUS
  <2>1. n \in Nat /\ n > 0 /\ 1 .. n \in SUBSET S
    BY <1>2
  <2>. QED BY <1>7, <2>1, InTurn
<1>. DEFINE N == {n \in Nat : n <= Len(list) => f[1 .. n] \in Seq(Chunks)}
<1>10. 0 \in N
  BY <1>2, <1>8
<1>11. ASSUME NEW n \in N PROVE n + 1 \in N
  <2>1. n + 1 <= Len(list) => n + 1 \in S /\ n <= Len(list) /\ (n + 1) - 1 = n
    BY <1>2
  <2>. SUFFICES ASSUME n + 1 <= Len(list) PROVE f[1 .. (n + 1)] \in Seq(Chunks)
    OBVIOUS
  <2>2. f[1 .. n] \in Seq(Chunks) /\ list[n + 1] \in Chunks
    BY <1>2, <2>1
  <2>3. f[1 .. (n + 1)] = Join(f[1 .. n], list[n + 1])
    BY <1>9, <2>1
  <2>. QED BY ONLY <2>2, <2>3, JoinType
<1>12. N = Nat
  <2>1. N \in SUBSET Nat
    OBVIOUS
  <2>. HIDE DEF N
  <2>. QED BY <1>10, <1>11, <2>1, NatInductionSet
<1>. DEFINE a == [n \in 0 .. Len(list) |-> f[1 .. n]]
<1>13. a \in [0 .. Len(list) -> Seq(Chunks)]
  BY <1>2, <1>12
<1>14. a[0] = <<>> /\ a[Len(list)] = Defragment(list)
  BY <1>1, <1>2, <1>8
<1>15. \A n \in 1 .. Len(list) : a[n] = Join(a[n - 1], list[n])
  BY <1>2, <1>9
<1>. HIDE DEF a
<1>. QED BY <1>13, <1>14, <1>15

\* Two lists, the second behind the first, make a list of the queues of both.
LEMMA Concatenated ==
  ASSUME NEW s, FreeList(s), NEW t, FreeList(t),
         \A i \in DOMAIN s, j \in DOMAIN t : End(s[i]) <= t[j].qbase
  PROVE  FreeList(s \o t) /\ QueuesIn(s \o t) = QueuesIn(s) \cup QueuesIn(t)
<1>. DEFINE u == s \o t
<1>1. PICK m \in Nat, n \in Nat :
        /\ m = Len(s) /\ n = Len(t) /\ DOMAIN s = 1 .. m /\ DOMAIN t = 1 .. n
  BY DEF FreeList
<1>2. s \in Seq(Chunks) /\ t \in Seq(Chunks)
  BY DEF FreeList
<1>3. /\ u \in Seq(Chunks) /\ Len(u) = m + n /\ DOMAIN u = 1 .. (m + n)
      /\ \A i \in 1 .. m : u[i] = s[i]
  BY <1>1, <1>2
<1>4. \A i \in 1 .. n : u[m + i] = t[i]
  <2>. SUFFICES ASSUME NEW i \in 1 .. n PROVE u[m + i] = t[i]
    OBVIOUS
  <2>1. m + i \in Len(s) + 1 .. Len(s) + Len(t) /\ (m + i) - Len(s) = i
    BY <1>1
  <2>. QED BY <1>2, <2>1
<1>. HIDE DEF u
<1>5. \A i \in 1 .. (m + n) : i \in 1 .. m \/ (i - m \in 1 .. n /\ i = m + (i - m))
  OBVIOUS
<1>6. \A i \in 1 .. (m + n) : i \notin 1 .. m => u[i] = t[i - m] /\ i - m \in 1 .. n
  BY <1>4, <1>5
<1>7. \A i \in DOMAIN u : u[i].total > 0
  BY <1>1, <1>3, <1>6 DEF FreeList
<1>8. ASSUME NEW i \in DOMAIN u, NEW j \in DOMAIN u, i < j PROVE End(u[i]) <= u[j].qbase
  <2>1. CASE j \in 1 .. m
    <3>1. i \in 1 .. m
      BY <1>3, <1>8, <2>1
    <3>. QED BY <1>1, <1>3, <1>8, <2>1, <3>1 DEF FreeList
  <2>2. CASE j \notin 1 .. m /\ i \in 1 .. m
    BY <1>1, <1>3, <1>6, <2>2
  <2>3. CASE j \notin 1 .. m /\ i \notin 1 .. m
    <3>1. i - m \in 1 .. n /\ j - m \in 1 .. n /\ u[i] = t[i - m] /\ u[j] = t[j - m]
      BY <1>3, <1>6, <2>3
    <3>2. i - m < j - m
      BY <1>3, <1>8
    <3>. QED BY <1>1, <3>1, <3>2 DEF FreeList
  <2>. QED BY <2>1, <2>2, <2>3
<1>9. QueuesIn(u) = QueuesIn(s) \cup QueuesIn(t)
  <2>1. ASSUME NEW i \in DOMAIN u
        PROVE  \/ \E k \in DOMAIN s : u[i] = s[k]
               \/ \E k \in DOMAIN t : u[i] = t[k]
    BY <1>1, <1>3, <1>6
  <2>2. ASSUME NEW k \in DOMAIN s PROVE \E i \in DOMAIN u : u[i] = s[k]
    <3>1. k \in DOMAIN u /\ u[k] = s[k]
      BY <1>1, <1>3
    <3>. QED BY <3>1
  <2>3. ASSUME NEW k \in DOMAIN t PROVE \E i \in DOMAIN u : u[i] = t[k]
    <3>1. m + k \in DOMAIN u /\ u[m + k] = t[k]
      BY <1>1, <1>3, <1>4
    <3>. QED BY <3>1
  <2>. QED BY <2>1, <2>2, <2>3 DEF QueuesIn
<1>. QED BY <1>3, <1>7, <1>8, <1>9 DEF FreeList, u

\* A list of one chunk, and the empty list.
LEMMA Single ==
  ASSUME NEW c \in Chunks
  PROVE  /\ c.total > 0 => FreeList(<<c>>)
         /\ QueuesIn(<<c>>) = ChunkQueues(c) /\ Len(<<c>>) = 1 /\ <<c>>[1] = c
         /\ FreeList(<<>>) /\ QueuesIn(<<>>) = {}
<1>1. DOMAIN <<c>> = {1} /\ <<c>>[1] = c /\ <<c>> \in Seq(Chunks) /\ Len(<<c>>) = 1
  OBVIOUS
<1>2. c.total > 0 => FreeList(<<c>>)
  <2>1. \A i, j \in {1} : ~(i < j)
    OBVIOUS
  <2>. QED BY <1>1, <2>1 DEF FreeList
<1>3. QueuesIn(<<c>>) = ChunkQueues(c)
  BY <1>1 DEF QueuesIn
<1>4. FreeList(<<>>) /\ QueuesIn(<<>>) = {}
  BY DEF FreeList, QueuesIn
<1>. QED BY <1>1, <1>2, <1>3, <1>4

\* A part of a list is a list.
LEMMA PartOf ==
  ASSUME NEW s, FreeList(s), NEW a \in Nat, NEW b \in Nat, a > 0, b <= Len(s)
  PROVE  /\ FreeList(SubSeq(s, a, b))
         /\ QueuesIn(SubSeq(s, a, b)) = UNION {ChunkQueues(s[i]) : i \in a .. b}
         /\ \A i \in DOMAIN SubSeq(s, a, b) :
               a + i - 1 \in a .. b /\ SubSeq(s, a, b)[i] = s[a + i - 1]
<1>. DEFINE u == SubSeq(s, a, b)
<1>1. PICK n \in Nat : n = Len(s) /\ DOMAIN s = 1 .. n /\ s \in Seq(Chunks) /\ b <= n
  BY DEF FreeList
<1>2. PICK m \in Nat : m = IF a <= b THEN b - a + 1 ELSE 0
  <2>1. (IF a <= b THEN b - a + 1 ELSE 0) \in Nat
    OBVIOUS
  <2>. QED BY <2>1
<1>3. u \in Seq(Chunks) /\ Len(u) = m /\ \A i \in 1 .. m : u[i] = s[a + i - 1]
  BY <1>1, <1>2
<1>4. DOMAIN u = 1 .. m
  BY <1>3
<1>5. \A i \in 1 .. m : a + i - 1 \in a .. b /\ a + i - 1 \in DOMAIN s
  BY <1>1, <1>2
<1>6. \A k \in a .. b : k - a + 1 \in 1 .. m /\ a + (k - a + 1) - 1 = k
  BY <1>2
<1>. HIDE DEF u
<1>7. \A i \in 1 .. m : u[i].total > 0
  BY <1>3, <1>5 DEF FreeList
<1>8. ASSUME NEW i \in 1 .. m, NEW j \in 1 .. m, i < j PROVE End(u[i]) <= u[j].qbase
  <2>1. a + i - 1 < a + j - 1
    BY <1>8
  <2>. QED BY <1>3, <1>5, <2>1 DEF FreeList
<1>9. QueuesIn(u) = UNION {ChunkQueues(s[k]) : k \in a .. b}
  <2>1. \A i \in 1 .. m : \E k \in a .. b : u[i] = s[k]
    BY <1>3, <1>5
  <2>2. \A k \in a .. b : \E i \in 1 .. m : u[i] = s[k]
    <3>. SUFFICES ASSUME NEW k \in a .. b PROVE \E i \in 1 .. m : u[i] = s[k]
      OBVIOUS
    <3>1. k - a + 1 \in 1 .. m /\ u[k - a + 1] = s[k]
      BY <1>3, <1>6
    <3>. QED BY <3>1
  <2>. QED BY <1>4, <2>1, <2>2 DEF QueuesIn
<1>. QED BY <1>3, <1>4, <1>5, <1>7, <1>8, <1>9 DEF FreeList, u

\* A chunk behind a list.
LEMMA Appended ==
  ASSUME NEW s, FreeList(s), NEW c \in Chunks, c.total > 0,
         \A i \in DOMAIN s : End(s[i]) <= c.qbase
  PROVE  /\ FreeList(Append(s, c)) /\ QueuesIn(Append(s, c)) = QueuesIn(s) \cup ChunkQueues(c)
         /\ Len(Append(s, c)) = Len(s) + 1 /\ Append(s, c)[Len(s) + 1] = c
         /\ Len(s) \in Nat /\ DOMAIN s = 1 .. Len(s)
         /\ \A i \in DOMAIN s : Append(s, c)[i] = s[i]
<1>1. s \in Seq(Chunks)
  BY DEF FreeList
<1>2. Append(s, c) = s \o <<c>>
  BY <1>1
<1>3. /\ FreeList(<<c>>) /\ QueuesIn(<<c>>) = ChunkQueues(c)
      /\ \A j \in DOMAIN <<c>> : <<c>>[j] = c
  BY Single
<1>4. FreeList(s \o <<c>>) /\ QueuesIn(s \o <<c>>) = QueuesIn(s) \cup ChunkQueues(c)
  BY <1>3, Concatenated
<1>5. /\ Len(Append(s, c)) = Len(s) + 1 /\ Append(s, c)[Len(s) + 1] = c
      /\ Len(s) \in Nat /\ DOMAIN s = 1 .. Len(s)
      /\ \A i \in DOMAIN s : Append(s, c)[i] = s[i]
  BY ONLY <1>1, c \in Chunks
<1>. QED BY <1>2, <1>4, <1>5

\* Chunk c lies within a chunk of the list.
Within(c, list) == \E k \in DOMAIN list : list[k].qbase <= c.qbase /\ End(c) <= End(list[k])

\* What Join() does with a chunk behind a list: no queue is lost, and every chunk lies within
\* one of the new list.
LEMMA JoinIs ==
  ASSUME NEW acc, FreeList(acc), NEW c \in Chunks, c.total > 0,
         \A i \in DOMAIN acc : End(acc[i]) <= c.qbase
  PROVE  /\ FreeList(Join(acc, c))
         /\ QueuesIn(Join(acc, c)) = QueuesIn(acc) \cup ChunkQueues(c)
         /\ \A i \in DOMAIN Join(acc, c) : End(Join(acc, c)[i]) <= End(c)
         /\ \A i \in DOMAIN acc : Within(acc[i], Join(acc, c))
         /\ Within(c, Join(acc, c))
<1>1. c.qbase \in Int /\ c.total \in Nat /\ End(c) = c.qbase + c.total
  BY DEF Chunks, End
<1>2. /\ acc \in Seq(Chunks) /\ Len(acc) \in Nat /\ DOMAIN acc = 1 .. Len(acc)
      /\ \A i \in DOMAIN acc : /\ acc[i].qbase \in Int /\ acc[i].total \in Nat
                                /\ End(acc[i]) \in Int /\ acc[i] \in Chunks
  <2>1. acc \in Seq(Chunks)
    BY DEF FreeList
  <2>2. \A x \in Chunks : x.qbase \in Int /\ x.total \in Nat /\ End(x) \in Int
    BY DEF Chunks, End
  <2>. QED BY <2>1, <2>2
<1>3. CASE acc # <<>> /\ Last(acc).qbase + Last(acc).total = c.qbase
  <2>. DEFINE l == Last(acc)
              m == Chunk(l.qbase, l.total + c.total)
              f == Front(acc)
              r == Append(f, m)
  <2>1. PICK n \in Nat : n + 1 = Len(acc)
    <3>1. Len(acc) - 1 \in Nat /\ (Len(acc) - 1) + 1 = Len(acc)
      BY <1>2, <1>3
    <3>. QED BY <3>1
  <2>2. /\ l = acc[n + 1] /\ n + 1 \in DOMAIN acc
        /\ l.qbase \in Int /\ l.total \in Nat /\ l.total > 0 /\ End(l) = c.qbase
        /\ l.qbase + l.total = c.qbase /\ End(l) = l.qbase + l.total
    BY <1>2, <1>3, <2>1, LastIs DEF FreeList, End
  <2>. HIDE DEF l
  <2>3. Join(acc, c) = r
    BY <1>3 DEF Join, l
  <2>4. /\ m \in Chunks /\ m.qbase = l.qbase /\ m.total = l.total + c.total /\ m.total > 0
        /\ ChunkQueues(m) = ChunkQueues(l) \cup ChunkQueues(c) /\ End(m) = End(c)
    <3>1. l.total + c.total \in Nat /\ l.total + c.total > 0
      BY <1>1, <2>2
    <3>2. /\ m \in Chunks /\ m.qbase = l.qbase /\ m.total = l.total + c.total
          /\ ChunkQueues(m) = l.qbase .. (l.qbase + (l.total + c.total) - 1)
      BY <2>2, <3>1, ChunkIs
    <3>3. l.qbase .. (l.qbase + (l.total + c.total) - 1)
            = (l.qbase .. (l.qbase + l.total - 1)) \cup (c.qbase .. (c.qbase + c.total - 1))
      BY <1>1, <2>2
    <3>. QED BY <1>1, <2>2, <3>1, <3>2, <3>3, SMTT(30) DEF ChunkQueues, End
  <2>. HIDE DEF m
  <2>5. /\ f = SubSeq(acc, 1, n) /\ Len(f) = n /\ f \in Seq(Chunks)
        /\ \A i \in 1 .. n : f[i] = acc[i]
    <3>1. f = SubSeq(acc, 1, Len(acc) - 1) /\ Len(acc) - 1 = n
      BY <2>1, <1>2 DEF Front
    <3>2. /\ f \in Seq(Chunks) /\ Len(f) = Len(acc) - 1
          /\ \A i \in 1 .. Len(acc) - 1 : f[i] = acc[i]
      BY <1>2, <1>3, LastIs
    <3>3. \A i \in 1 .. n : f[i] = acc[i]
      BY <3>1, <3>2
    <3>4. f = SubSeq(acc, 1, n) /\ Len(f) = n
      BY <3>1, <3>2
    <3>. QED BY ONLY <3>2, <3>3, <3>4
  <2>6. DOMAIN f = 1 .. n /\ DOMAIN acc = 1 .. (n + 1)
    <3>1. DOMAIN acc = 1 .. (n + 1)
      BY ONLY <1>2, <2>1
    <3>. HIDE DEF f
    <3>2. DOMAIN f = 1 .. Len(f)
      BY ONLY <2>5
    <3>. QED BY ONLY <2>5, <3>1, <3>2
  <2>7. FreeList(f) /\ QueuesIn(f) = UNION {ChunkQueues(acc[i]) : i \in 1 .. n}
    <3>1. n <= Len(acc)
      BY <1>2, <2>1
    <3>. QED BY <2>5, <3>1, PartOf
  <2>. HIDE DEF f
  <2>8. \A i \in DOMAIN f : End(f[i]) <= m.qbase
    BY <2>2, <2>4, <2>5, <2>6 DEF FreeList
  <2>9. /\ FreeList(r) /\ QueuesIn(r) = QueuesIn(f) \cup ChunkQueues(m)
        /\ Len(r) = n + 1 /\ r[n + 1] = m /\ \A i \in 1 .. n : r[i] = f[i]
    <3>1. /\ FreeList(r) /\ QueuesIn(r) = QueuesIn(f) \cup ChunkQueues(m)
          /\ Len(r) = Len(f) + 1 /\ r[Len(f) + 1] = m
          /\ \A i \in DOMAIN f : r[i] = f[i]
      BY <2>4, <2>7, <2>8, Appended
    <3>. HIDE DEF r
    <3>. QED BY <2>5, <2>6, <3>1
  <2>10. DOMAIN r = 1 .. (n + 1)
    BY <2>9 DEF FreeList
  <2>. HIDE DEF r
  <2>11. QueuesIn(acc) = QueuesIn(f) \cup ChunkQueues(l)
    <3>1. 1 .. (n + 1) = (1 .. n) \cup {n + 1}
      OBVIOUS
    <3>2. DOMAIN acc = (1 .. n) \cup {n + 1} /\ acc[n + 1] = l /\ DOMAIN f = 1 .. n
      BY ONLY <2>2, <2>6, <3>1
    <3>3. \A i \in 1 .. n : acc[i] = f[i]
      BY <2>5
    <3>4. \A q : (\E i \in DOMAIN acc : q \in ChunkQueues(acc[i]))
                <=> ((\E i \in DOMAIN f : q \in ChunkQueues(f[i])) \/ q \in ChunkQueues(l))
      BY ONLY <3>2, <3>3
    <3>. QED BY <3>4 DEF QueuesIn
  <2>12. QueuesIn(r) = QueuesIn(acc) \cup ChunkQueues(c)
    BY <2>4, <2>9, <2>11
  <2>13. \A i \in 1 .. (n + 1) : i \in 1 .. n \/ i = n + 1
    OBVIOUS
  <2>14. \A i \in DOMAIN r : End(r[i]) <= End(c)
    <3>1. \A i \in 1 .. n : End(r[i]) <= c.qbase /\ End(r[i]) \in Int
      BY <1>2, <2>5, <2>6, <2>9
    <3>. QED BY <1>1, <2>4, <2>9, <2>10, <2>13, <3>1
  <2>15. n + 1 \in DOMAIN r /\ r[n + 1].qbase <= c.qbase /\ End(c) <= End(r[n + 1])
    BY <1>1, <2>2, <2>4, <2>9, <2>10
  <2>16. ASSUME NEW i \in DOMAIN acc PROVE Within(acc[i], r)
    <3>1. CASE i \in 1 .. n
      <4>1. i \in DOMAIN r /\ r[i] = acc[i]
        BY <2>5, <2>9, <2>10, <3>1
      <4>. QED BY <1>2, <4>1 DEF Within
    <3>2. CASE i = n + 1
      <4>1. r[n + 1].qbase <= acc[i].qbase /\ End(acc[i]) <= End(r[n + 1])
        BY <1>1, <2>2, <2>4, <2>9, <3>2
      <4>. QED BY <2>15, <4>1 DEF Within
    <3>. QED BY <2>6, <2>13, <3>1, <3>2
  <2>17. Within(c, r)
    BY <2>15 DEF Within
  <2>. QED BY <2>3, <2>9, <2>12, <2>14, <2>16, <2>17
<1>4. CASE ~(acc # <<>> /\ Last(acc).qbase + Last(acc).total = c.qbase)
  <2>. DEFINE r == Append(acc, c)
  <2>1. Join(acc, c) = r
    BY <1>4 DEF Join
  <2>2. PICK n \in Nat : n = Len(acc) /\ DOMAIN acc = 1 .. n
    BY <1>2
  <2>3. /\ FreeList(r) /\ QueuesIn(r) = QueuesIn(acc) \cup ChunkQueues(c)
        /\ Len(r) = n + 1 /\ r[n + 1] = c /\ \A i \in DOMAIN acc : r[i] = acc[i]
    BY <2>2, Appended
  <2>4. DOMAIN r = 1 .. (n + 1)
    BY <2>3 DEF FreeList
  <2>. HIDE DEF r
  <2>5. \A i \in 1 .. (n + 1) : i \in 1 .. n \/ i = n + 1
    OBVIOUS
  <2>6. \A i \in DOMAIN r : End(r[i]) <= End(c)
    <3>1. \A i \in 1 .. n : End(r[i]) <= c.qbase /\ End(r[i]) \in Int
      BY <1>2, <2>2, <2>3
    <3>. QED BY <1>1, <2>3, <2>4, <2>5, <3>1
  <2>7. n + 1 \in DOMAIN r /\ r[n + 1].qbase <= c.qbase /\ End(c) <= End(r[n + 1])
    BY <1>1, <2>3, <2>4
  <2>8. ASSUME NEW i \in DOMAIN acc PROVE Within(acc[i], r)
    <3>1. i \in DOMAIN r /\ r[i] = acc[i]
      BY <2>2, <2>3, <2>4
    <3>. QED BY <1>2, <3>1 DEF Within
  <2>9. Within(c, r)
    BY <2>7 DEF Within
  <2>. QED BY <2>1, <2>3, <2>6, <2>8, <2>9
<1>. QED BY <1>3, <1>4

\* Defragment() keeps the queues of the list, and every chunk of it within one chunk.
LEMMA DefragmentIs ==
  ASSUME NEW list, FreeList(list)
  PROVE  /\ FreeList(Defragment(list)) /\ QueuesIn(Defragment(list)) = QueuesIn(list)
         /\ \A i \in DOMAIN list : Within(list[i], Defragment(list))
<1>1. /\ list \in Seq(Chunks) /\ Len(list) \in Nat /\ DOMAIN list = 1 .. Len(list)
      /\ \A i \in DOMAIN list : list[i] \in Chunks /\ list[i].total > 0
  BY DEF FreeList
<1>2. PICK a \in [0 .. Len(list) -> Seq(Chunks)] :
            /\ a[0] = <<>> /\ a[Len(list)] = Defragment(list)
            /\ \A n \in 1 .. Len(list) : a[n] = Join(a[n - 1], list[n])
  BY <1>1, DefragmentSteps
<1>. DEFINE Good(n) ==
              /\ FreeList(a[n])
              /\ QueuesIn(a[n]) = UNION {ChunkQueues(list[i]) : i \in 1 .. n}
              /\ \A k \in DOMAIN a[n] : n > 0 /\ End(a[n][k]) <= End(list[n])
              /\ \A i \in 1 .. n : Within(list[i], a[n])
            N == {n \in Nat : n <= Len(list) => Good(n)}
<1>3. 0 \in N
  <2>1. FreeList(<<>>) /\ QueuesIn(<<>>) = {} /\ DOMAIN <<>> = {}
    BY DEF FreeList, QueuesIn
  <2>2. 1 .. 0 = {}
    OBVIOUS
  <2>. QED BY <1>2, <2>1, <2>2
<1>4. ASSUME NEW n \in N PROVE n + 1 \in N
  <2>. SUFFICES ASSUME n + 1 <= Len(list) PROVE Good(n + 1)
    OBVIOUS
  <2>. DEFINE b == a[n]
              c == list[n + 1]
  <2>1. /\ n \in Nat /\ n <= Len(list) /\ n + 1 \in 1 .. Len(list) /\ (n + 1) - 1 = n
        /\ 1 .. (n + 1) = (1 .. n) \cup {n + 1}
        /\ \A i \in 1 .. n : i \in 1 .. Len(list)
    BY <1>1
  <2>2. Good(n)
    BY <2>1
  <2>3. a[n + 1] = Join(b, c) /\ c \in Chunks /\ c.total > 0
    BY <1>1, <1>2, <2>1
  <2>4. \A k \in DOMAIN b : End(b[k]) <= c.qbase
    <3>. SUFFICES ASSUME NEW k \in DOMAIN b PROVE End(b[k]) <= c.qbase
      OBVIOUS
    <3>1. n > 0 /\ End(b[k]) <= End(list[n]) /\ b[k] \in Chunks
      BY <2>2 DEF FreeList
    <3>2. n \in DOMAIN list /\ n + 1 \in DOMAIN list /\ n < n + 1
      BY <1>1, <2>1, <3>1
    <3>3. End(list[n]) <= c.qbase
      BY <3>2 DEF FreeList
    <3>4. End(b[k]) \in Int /\ End(list[n]) \in Int /\ c.qbase \in Int
      <4>1. \A x \in Chunks : x.qbase \in Int /\ End(x) \in Int
        BY DEF Chunks, End
      <4>. QED BY <1>1, <2>3, <3>1, <3>2, <4>1
    <3>. QED BY ONLY <3>1, <3>3, <3>4
  <2>5. /\ FreeList(Join(b, c)) /\ QueuesIn(Join(b, c)) = QueuesIn(b) \cup ChunkQueues(c)
        /\ \A i \in DOMAIN Join(b, c) : End(Join(b, c)[i]) <= End(c)
        /\ \A i \in DOMAIN b : Within(b[i], Join(b, c))
        /\ Within(c, Join(b, c))
    <3>. HIDE DEF b, c
    <3>. QED BY <2>2, <2>3, <2>4, JoinIs DEF b
  <2>6. QueuesIn(a[n + 1]) = UNION {ChunkQueues(list[i]) : i \in 1 .. (n + 1)}
    BY <2>1, <2>2, <2>3, <2>5
  <2>7. ASSUME NEW i \in 1 .. n PROVE Within(list[i], a[n + 1])
    <3>1. PICK k \in DOMAIN b : b[k].qbase <= list[i].qbase /\ End(list[i]) <= End(b[k])
      BY <2>2 DEF Within
    <3>2. PICK l \in DOMAIN a[n + 1] :
             a[n + 1][l].qbase <= b[k].qbase /\ End(b[k]) <= End(a[n + 1][l])
      BY <2>3, <2>5 DEF Within
    <3>3. \A x \in Chunks : x.qbase \in Int /\ End(x) \in Int
      BY DEF Chunks, End
    <3>4. b[k] \in Chunks /\ a[n + 1][l] \in Chunks /\ list[i] \in Chunks
      BY <1>1, <2>1, <2>2, <2>3, <2>5 DEF FreeList
    <3>5. a[n + 1][l].qbase <= list[i].qbase /\ End(list[i]) <= End(a[n + 1][l])
      BY ONLY <3>1, <3>2, <3>3, <3>4, SMTT(30)
    <3>. QED BY <3>5 DEF Within
  <2>8. \A k \in DOMAIN a[n + 1] : n + 1 > 0 /\ End(a[n + 1][k]) <= End(list[n + 1])
    BY <2>1, <2>3, <2>5
  <2>9. \A i \in 1 .. (n + 1) : Within(list[i], a[n + 1])
    <3>. HIDE DEF b
    <3>. QED BY <2>1, <2>3, <2>5, <2>7
  <2>. QED BY <2>3, <2>5, <2>6, <2>8, <2>9
<1>5. N = Nat
  <2>1. N \in SUBSET Nat
    OBVIOUS
  <2>. HIDE DEF N
  <2>. QED BY <1>3, <1>4, <2>1, NatInductionSet
<1>6. Good(Len(list))
  BY <1>1, <1>5
<1>. QED BY <1>1, <1>2, <1>6 DEF QueuesIn

\* A chunk none of whose queues are in another ends before it or begins behind it.
LEMMA ApartInOrder ==
  ASSUME NEW c \in Chunks, c.total > 0, NEW d \in Chunks, d.total > 0,
         ChunkQueues(c) \cap ChunkQueues(d) = {}
  PROVE  c.qbase <= d.qbase => End(c) <= d.qbase
<1>1. c.qbase \in Int /\ c.total \in Nat /\ d.qbase \in Int /\ d.total \in Nat
  BY DEF Chunks
<1>2. d.qbase \in ChunkQueues(d)
  BY <1>1 DEF ChunkQueues
<1>3. d.qbase \notin c.qbase .. (c.qbase + c.total - 1)
  BY <1>2 DEF ChunkQueues
<1>. QED BY <1>1, <1>3 DEF End

\* What qdma_submit_to_free_list() does: the chunk's queues are in the list.
LEMMA SubmitIs ==
  ASSUME NEW list, FreeList(list), NEW c \in Chunks,
         QueuesIn(list) \cap ChunkQueues(c) = {}
  PROVE  /\ FreeList(qdma_submit_to_free_list(list, c))
         /\ QueuesIn(qdma_submit_to_free_list(list, c)) = QueuesIn(list) \cup ChunkQueues(c)
         /\ c.total > 0 => Within(c, qdma_submit_to_free_list(list, c))
<1>1. /\ c.qbase \in Int /\ c.total \in Nat
      /\ list \in Seq(Chunks) /\ Len(list) \in Nat /\ DOMAIN list = 1 .. Len(list)
      /\ \A i \in DOMAIN list : list[i] \in Chunks /\ list[i].total > 0
  <2>1. c.qbase \in Int /\ c.total \in Nat
    BY DEF Chunks
  <2>. QED BY <2>1 DEF FreeList
<1>2. \A i \in DOMAIN list : list[i].qbase \in Int /\ list[i].total \in Nat /\ End(list[i]) \in Int
  <2>1. \A x \in Chunks : x.qbase \in Int /\ x.total \in Nat /\ End(x) \in Int
    BY DEF Chunks, End
  <2>. QED BY <1>1, <2>1
<1>3. CASE c.total = 0
  <2>1. ChunkQueues(c) = {}
    BY <1>1, <1>3 DEF ChunkQueues
  <2>. QED BY <1>3, <2>1 DEF qdma_submit_to_free_list
<1>4. CASE c.total > 0
  <2>. DEFINE later == {i \in DOMAIN list : list[i].qbase > c.qbase}
              at == IF later = {} THEN Len(list) + 1 ELSE Min(later)
              new == InsertAt(list, at, c)
  <2>1. qdma_submit_to_free_list(list, c) = Defragment(new)
    BY <1>1, <1>4 DEF qdma_submit_to_free_list
  <2>2. PICK p \in Nat : /\ p = at /\ p > 0 /\ p <= Len(list) + 1
                         /\ \A i \in 1 .. p - 1 : i \in DOMAIN list /\ list[i].qbase <= c.qbase
                         /\ \A i \in p .. Len(list) : i \in DOMAIN list /\ list[i].qbase > c.qbase
    <3>1. CASE later = {}
      <4>1. PICK p \in Nat : p = Len(list) + 1
        BY <1>1
      <4>2. \A i \in 1 .. p - 1 : i \in DOMAIN list
        BY <1>1, <4>1
      <4>3. \A i \in 1 .. p - 1 : list[i].qbase <= c.qbase
        BY <1>1, <1>2, <3>1, <4>2
      <4>4. \A i \in p .. Len(list) : FALSE
        BY <1>1, <4>1
      <4>. HIDE DEF later
      <4>. QED BY <3>1, <4>1, <4>2, <4>3, <4>4
    <3>2. CASE later # {}
      <4>1. later \in SUBSET Nat /\ later # {}
        BY <1>1, <3>2
      <4>2. PICK p \in Nat : p = Min(later) /\ p \in later /\ \A i \in later : p <= i
        <5>. HIDE DEF later
        <5>. QED BY <4>1, MinIs
      <4>3. p \in 1 .. Len(list) /\ list[p].qbase > c.qbase
        BY <1>1, <4>2
      <4>4. \A i \in 1 .. p - 1 : i \in DOMAIN list /\ ~(p <= i)
        BY <1>1, <4>3
      <4>5. \A i \in 1 .. p - 1 : list[i].qbase <= c.qbase
        <5>1. \A i \in 1 .. p - 1 : i \notin later
          <6>. HIDE DEF later
          <6>. QED BY ONLY <4>2, <4>4
        <5>2. \A i \in 1 .. p - 1 : i \in DOMAIN list /\ ~(list[i].qbase > c.qbase)
          BY <4>4, <5>1
        <5>. QED BY ONLY <1>1, <1>2, <5>2
      <4>6. ASSUME NEW i \in p .. Len(list) PROVE i \in DOMAIN list /\ list[i].qbase > c.qbase
        <5>1. i \in DOMAIN list /\ (i = p \/ p < i)
          BY <1>1, <4>3
        <5>2. CASE p < i
          <6>1. End(list[p]) <= list[i].qbase /\ p \in DOMAIN list
            BY <1>1, <4>3, <5>1, <5>2 DEF FreeList
          <6>2. list[p].qbase <= End(list[p])
            BY <1>2, <6>1 DEF End
          <6>. QED BY <1>1, <1>2, <4>3, <5>1, <6>1, <6>2
        <5>. QED BY <4>3, <5>1, <5>2
      <4>. HIDE DEF later
      <4>. QED BY <1>1, <3>2, <4>2, <4>3, <4>4, <4>5, <4>6
    <3>. QED BY <3>1, <3>2
  <2>. HIDE DEF at, later
  <2>. DEFINE u == SubSeq(list, 1, p - 1)
              v == SubSeq(list, p, Len(list))
  <2>3. new = (u \o <<c>>) \o v
    BY <2>2 DEF InsertAt
  <2>4. /\ FreeList(u) /\ QueuesIn(u) = UNION {ChunkQueues(list[i]) : i \in 1 .. p - 1}
        /\ \A i \in DOMAIN u : 1 + i - 1 \in 1 .. p - 1 /\ u[i] = list[1 + i - 1]
    <3>1. p - 1 \in Nat /\ 1 \in Nat /\ p - 1 <= Len(list)
      BY <1>1, <2>2
    <3>. QED BY ONLY <3>1, FreeList(list), PartOf
  <2>5. /\ FreeList(v) /\ QueuesIn(v) = UNION {ChunkQueues(list[i]) : i \in p .. Len(list)}
        /\ \A i \in DOMAIN v : p + i - 1 \in p .. Len(list) /\ v[i] = list[p + i - 1]
    <3>1. p \in Nat /\ p > 0 /\ Len(list) \in Nat /\ Len(list) <= Len(list)
      BY <1>1, <2>2
    <3>. QED BY ONLY <3>1, FreeList(list), PartOf
  <2>. HIDE DEF u, v
  <2>6. \A i \in DOMAIN u : \E k \in 1 .. p - 1 : u[i] = list[k]
    BY <2>4
  <2>7. \A i \in DOMAIN v : \E k \in p .. Len(list) : v[i] = list[k]
    BY <2>5
  <2>8. \A i \in DOMAIN list : ChunkQueues(list[i]) \cap ChunkQueues(c) = {}
    BY DEF QueuesIn
  <2>9. ASSUME NEW k \in 1 .. p - 1 PROVE End(list[k]) <= c.qbase
    BY <1>1, <1>4, <2>2, <2>8, ApartInOrder
  <2>10. ASSUME NEW k \in p .. Len(list) PROVE End(c) <= list[k].qbase
    <3>1. c.qbase <= list[k].qbase /\ k \in DOMAIN list
      BY <1>1, <1>2, <2>2
    <3>2. ChunkQueues(c) \cap ChunkQueues(list[k]) = {}
      BY <2>8, <3>1
    <3>. QED BY <1>1, <1>4, <3>1, <3>2, ApartInOrder
  <2>11. /\ FreeList(<<c>>) /\ QueuesIn(<<c>>) = ChunkQueues(c) /\ DOMAIN <<c>> = {1}
         /\ <<c>>[1] = c
    BY <1>4, Single
  <2>. DEFINE w == u \o <<c>>
  <2>12. FreeList(w) /\ QueuesIn(w) = QueuesIn(u) \cup ChunkQueues(c)
    <3>1. \A i \in DOMAIN u, j \in DOMAIN <<c>> : End(u[i]) <= <<c>>[j].qbase
      BY <2>6, <2>9, <2>11
    <3>. QED BY ONLY <2>4, <2>11, <3>1, Concatenated
  <2>13. \A i \in DOMAIN w, j \in DOMAIN v : End(w[i]) <= v[j].qbase
    <3>. SUFFICES ASSUME NEW i \in DOMAIN w, NEW j \in DOMAIN v PROVE End(w[i]) <= v[j].qbase
      OBVIOUS
    <3>1. PICK k \in p .. Len(list) : v[j] = list[k]
      BY <2>7
    <3>2. w[i] = c \/ \E l \in DOMAIN u : w[i] = u[l]
      <4>1. u \in Seq(Chunks)
        BY <2>4 DEF FreeList
      <4>. QED BY ONLY <4>1, i \in DOMAIN w
    <3>3. CASE w[i] = c
      BY <2>10, <3>1, <3>3
    <3>4. CASE \E l \in DOMAIN u : w[i] = u[l]
      <4>1. PICK l \in 1 .. p - 1 : w[i] = list[l]
        BY <2>6, <3>4
      <4>2. l \in DOMAIN list /\ k \in DOMAIN list /\ l < k
        BY <1>1, <2>2
      <4>. QED BY <3>1, <4>1, <4>2 DEF FreeList
    <3>. QED BY <3>2, <3>3, <3>4
  <2>. HIDE DEF w
  <2>14. FreeList(w \o v) /\ QueuesIn(w \o v) = QueuesIn(w) \cup QueuesIn(v)
    BY <2>5, <2>12, <2>13, Concatenated
  <2>15. QueuesIn(list) = QueuesIn(u) \cup QueuesIn(v)
    <3>1. \A i \in DOMAIN list : i \in 1 .. p - 1 \/ i \in p .. Len(list)
      BY <1>1, <2>2
    <3>2. \A i \in (1 .. p - 1) \cup (p .. Len(list)) : i \in DOMAIN list
      BY <1>1, <2>2
    <3>. QED BY <2>4, <2>5, <3>1, <3>2, SMTT(30) DEF QueuesIn
  <2>16. new = w \o v
    BY <2>3 DEF w
  <2>17. FreeList(new) /\ QueuesIn(new) = QueuesIn(list) \cup ChunkQueues(c)
    BY <2>12, <2>14, <2>15, <2>16
  <2>18. \E i \in DOMAIN new : new[i] = c
    <3>1. u \in Seq(Chunks) /\ v \in Seq(Chunks)
      BY <2>4, <2>5 DEF FreeList
    <3>2. PICK n \in Nat : n = Len(u)
      BY <3>1
    <3>3. Len(w) = n + 1 /\ w[n + 1] = c /\ w \in Seq(Chunks)
      BY ONLY <3>1, <3>2, c \in Chunks DEF w
    <3>4. n + 1 \in DOMAIN (w \o v) /\ (w \o v)[n + 1] = w[n + 1]
      BY ONLY <3>1, <3>2, <3>3
    <3>. QED BY <2>16, <3>3, <3>4
  <2>. HIDE DEF new
  <2>19. Within(c, Defragment(new))
    BY <2>17, <2>18, DefragmentIs
  <2>. QED BY <2>1, <2>17, <2>19, DefragmentIs
<1>. QED BY <1>1, <1>3, <1>4

\* A chunk of a concatenation is one of either list.
LEMMA InEither ==
  ASSUME NEW s, FreeList(s), NEW t, FreeList(t), NEW u, u = s \o t, NEW j \in DOMAIN u
  PROVE  \/ \E k \in DOMAIN s : u[j] = s[k]
         \/ \E k \in DOMAIN t : u[j] = t[k]
<1>1. s \in Seq(Chunks) /\ t \in Seq(Chunks)
  BY DEF FreeList
<1>2. /\ j \in 1 .. Len(s) + Len(t) /\ Len(s) \in Nat /\ Len(t) \in Nat
      /\ DOMAIN s = 1 .. Len(s) /\ DOMAIN t = 1 .. Len(t)
      /\ u[j] = IF j <= Len(s) THEN s[j] ELSE t[j - Len(s)]
  BY ONLY <1>1, u = s \o t, j \in DOMAIN u
<1>3. CASE j <= Len(s)
  <2>1. j \in DOMAIN s /\ u[j] = s[j]
    BY ONLY <1>2, <1>3
  <2>. QED BY <2>1
<1>4. CASE ~(j <= Len(s))
  <2>1. j - Len(s) \in DOMAIN t /\ u[j] = t[j - Len(s)]
    BY ONLY <1>2, <1>4
  <2>. QED BY <2>1
<1>. QED BY <1>3, <1>4

\* The numbers of the chunks of a list.
LEMMA EndsType ==
  ASSUME NEW s, FreeList(s), NEW i \in DOMAIN s
  PROVE  s[i] \in Chunks /\ s[i].qbase \in Int /\ s[i].total \in Nat /\ End(s[i]) \in Int
<1>1. s[i] \in Chunks
  BY DEF FreeList
<1>2. \A d \in Chunks : d.qbase \in Int /\ d.total \in Nat /\ End(d) \in Int
  BY DEF Chunks, End
<1>. QED BY <1>1, <1>2

\* What is left of a node is a list of at most one chunk.
LEMMA RemainderIs ==
  ASSUME NEW d \in Chunks
  PROVE  /\ FreeList(Remainder(d)) /\ QueuesIn(Remainder(d)) = ChunkQueues(d)
         /\ \A j \in DOMAIN Remainder(d) : Remainder(d)[j] = d
<1>1. CASE d.total > 0
  <2>1. Remainder(d) = <<d>> /\ DOMAIN <<d>> = {1} /\ <<d>>[1] = d
    BY <1>1 DEF Remainder
  <2>. QED BY <1>1, <2>1, Single
<1>2. CASE ~(d.total > 0)
  <2>1. d.qbase \in Int /\ d.total = 0
    BY <1>2 DEF Chunks
  <2>2. Remainder(d) = <<>> /\ ChunkQueues(d) = {} /\ DOMAIN <<>> = {}
    BY <1>2, <2>1 DEF Remainder, ChunkQueues
  <2>. QED BY <2>2, Single
<1>. QED BY <1>1, <1>2

\* A list without the queues b .. b + n - 1 of its i-th chunk
Without(list, i, b, n) ==
  SubSeq(list, 1, i - 1)
    \o Remainder(Chunk(list[i].qbase, b - list[i].qbase))
    \o Remainder(Chunk(b + n, list[i].qbase + list[i].total - b - n))
    \o SubSeq(list, i + 1, Len(list))

\* The list without the queues a request is served with: of the node that serves it the rest
\* stays on either side.
LEMMA TakeIs ==
  ASSUME NEW list, FreeList(list), NEW i \in DOMAIN list, NEW b \in Int, NEW n \in Nat,
         list[i].qbase <= b, b + n <= End(list[i]),
         NEW left, left = Without(list, i, b, n)
  PROVE  /\ FreeList(left) /\ QueuesIn(left) = QueuesIn(list) \ (b .. (b + n - 1))
         /\ b .. (b + n - 1) \subseteq QueuesIn(list)
<1>. DEFINE c == list[i]
            below == Chunk(c.qbase, b - c.qbase)
            above == Chunk(b + n, c.qbase + c.total - b - n)
            s == SubSeq(list, 1, i - 1)
            t == SubSeq(list, i + 1, Len(list))
            x == Remainder(below)
            y == Remainder(above)
            span == b .. (b + n - 1)
<1>1. /\ list \in Seq(Chunks) /\ Len(list) \in Nat /\ DOMAIN list = 1 .. Len(list)
      /\ i \in Nat /\ i > 0 /\ i <= Len(list)
      /\ \A k \in DOMAIN list : list[k] \in Chunks /\ list[k].total > 0
  BY DEF FreeList
<1>2. \A k \in DOMAIN list : /\ list[k].qbase \in Int /\ list[k].total \in Nat
                             /\ End(list[k]) \in Int /\ list[k].qbase < End(list[k])
                             /\ End(list[k]) = list[k].qbase + list[k].total
                             /\ ChunkQueues(list[k]) = list[k].qbase .. (End(list[k]) - 1)
  <2>1. \A d \in Chunks : /\ d.qbase \in Int /\ d.total \in Nat /\ End(d) \in Int
                          /\ (d.total > 0 => d.qbase < End(d)) /\ End(d) = d.qbase + d.total
                          /\ ChunkQueues(d) = d.qbase .. (End(d) - 1)
    BY DEF Chunks, End, ChunkQueues
  <2>. QED BY <1>1, <2>1
<1>c. /\ c.qbase \in Int /\ c.total \in Nat /\ End(c) = c.qbase + c.total /\ End(c) \in Int
      /\ c.qbase <= b /\ b + n <= End(c) /\ ChunkQueues(c) = c.qbase .. (End(c) - 1)
  BY <1>2
<1>3. /\ below \in Chunks /\ below.qbase = c.qbase /\ below.total = b - c.qbase
      /\ End(below) = b /\ ChunkQueues(below) = c.qbase .. (b - 1)
  <2>1. PICK k \in Nat : k = b - c.qbase
    <3>1. b - c.qbase \in Nat
      BY ONLY <1>c, b \in Int
    <3>. QED BY <3>1
  <2>2. /\ Chunk(c.qbase, k) \in Chunks /\ Chunk(c.qbase, k).qbase = c.qbase
        /\ Chunk(c.qbase, k).total = k
        /\ ChunkQueues(Chunk(c.qbase, k)) = c.qbase .. (c.qbase + k - 1)
    BY ONLY <1>c, ChunkIs
  <2>3. below = Chunk(c.qbase, k)
    BY ONLY <2>1 DEF below
  <2>. HIDE DEF below
  <2>4. c.qbase + k = b
    BY ONLY <1>c, <2>1, b \in Int
  <2>5. End(below) = b
    BY <2>2, <2>3, <2>4 DEF End
  <2>6. c.qbase + k - 1 = b - 1
    BY ONLY <1>c, <2>1, b \in Int
  <2>. QED BY ONLY <2>1, <2>2, <2>3, <2>5, <2>6
<1>4. /\ above \in Chunks /\ above.qbase = b + n /\ above.total = End(c) - (b + n)
      /\ End(above) = End(c) /\ ChunkQueues(above) = (b + n) .. (End(c) - 1)
  <2>1. /\ c.qbase \in Int /\ c.total \in Nat /\ End(c) = c.qbase + c.total
        /\ b + n \in Int /\ b + n <= End(c)
    BY ONLY <1>c, b \in Int, n \in Nat
  <2>. HIDE DEF c
  <2>2. /\ c.qbase + c.total - b - n \in Nat
        /\ c.qbase + c.total - b - n = End(c) - (b + n)
        /\ (b + n) + (c.qbase + c.total - b - n) = End(c)
    BY ONLY <2>1, b \in Int, n \in Nat
  <2>3. /\ above \in Chunks /\ above.qbase = b + n /\ above.total = c.qbase + c.total - b - n
        /\ ChunkQueues(above) = (b + n) .. ((b + n) + (c.qbase + c.total - b - n) - 1)
    BY ONLY <2>1, <2>2, ChunkIs
  <2>. HIDE DEF above
  <2>. QED BY <2>1, <2>2, <2>3 DEF End
<1>5. left = ((s \o x) \o y) \o t
  BY DEF Without
<1>6. /\ FreeList(s) /\ QueuesIn(s) = UNION {ChunkQueues(list[k]) : k \in 1 .. i - 1}
      /\ \A j \in DOMAIN s : 1 + j - 1 \in 1 .. i - 1 /\ s[j] = list[1 + j - 1]
  <2>1. PICK h \in Nat : h = i - 1 /\ h <= Len(list)
    <3>1. i - 1 \in Nat /\ i - 1 <= Len(list)
      BY <1>1
    <3>. QED BY <3>1
  <2>2. /\ FreeList(SubSeq(list, 1, h))
        /\ QueuesIn(SubSeq(list, 1, h)) = UNION {ChunkQueues(list[k]) : k \in 1 .. h}
        /\ \A j \in DOMAIN SubSeq(list, 1, h) :
               1 + j - 1 \in 1 .. h /\ SubSeq(list, 1, h)[j] = list[1 + j - 1]
    BY ONLY <2>1, FreeList(list), PartOf, SMTT(30)
  <2>. QED BY ONLY <2>1, <2>2
<1>7. /\ FreeList(t) /\ QueuesIn(t) = UNION {ChunkQueues(list[k]) : k \in i + 1 .. Len(list)}
      /\ \A j \in DOMAIN t : (i + 1) + j - 1 \in i + 1 .. Len(list)
                               /\ t[j] = list[(i + 1) + j - 1]
  <2>1. PICK h \in Nat, m \in Nat : h = i + 1 /\ h > 0 /\ m = Len(list) /\ m <= Len(list)
    <3>1. i + 1 \in Nat /\ i + 1 > 0 /\ Len(list) \in Nat /\ Len(list) <= Len(list)
      BY <1>1
    <3>. QED BY <3>1
  <2>a. h \in Nat /\ h > 0 /\ m \in Nat /\ m <= Len(list)
    BY <2>1
  <2>2. /\ FreeList(SubSeq(list, h, m))
        /\ QueuesIn(SubSeq(list, h, m)) = UNION {ChunkQueues(list[k]) : k \in h .. m}
        /\ \A j \in DOMAIN SubSeq(list, h, m) :
               h + j - 1 \in h .. m /\ SubSeq(list, h, m)[j] = list[h + j - 1]
    BY ONLY <2>a, FreeList(list), PartOf
  <2>. QED BY ONLY <2>1, <2>2
<1>8. \A j \in DOMAIN s : End(s[j]) <= c.qbase
  <2>1. \A k \in 1 .. i - 1 : k \in DOMAIN list /\ k < i
    BY ONLY <1>1
  <2>. QED BY <1>6, <2>1 DEF FreeList
<1>9. \A j \in DOMAIN t : End(c) <= t[j].qbase
  <2>1. \A k \in i + 1 .. Len(list) : k \in DOMAIN list /\ i < k
    BY ONLY <1>1
  <2>. QED BY <1>7, <2>1 DEF FreeList
<1>10. /\ FreeList(x) /\ QueuesIn(x) = ChunkQueues(below)
       /\ \A j \in DOMAIN x : x[j] = below
  BY <1>3, RemainderIs
<1>11. /\ FreeList(y) /\ QueuesIn(y) = ChunkQueues(above)
       /\ \A j \in DOMAIN y : y[j] = above
  BY <1>4, RemainderIs
<1>. HIDE DEF s, t, x, y, c, above, below
<1>12. /\ FreeList(s \o x) /\ QueuesIn(s \o x) = QueuesIn(s) \cup QueuesIn(x)
       /\ \A j \in DOMAIN (s \o x) : End((s \o x)[j]) <= b
  <2>1. \A k \in DOMAIN s, j \in DOMAIN x : End(s[k]) <= x[j].qbase
    BY <1>3, <1>8, <1>10
  <2>2. /\ FreeList(s \o x) /\ QueuesIn(s \o x) = QueuesIn(s) \cup QueuesIn(x)
    BY <1>6, <1>10, <2>1, Concatenated
  <2>3. ASSUME NEW j \in DOMAIN (s \o x) PROVE End((s \o x)[j]) <= b
    <3>1. \/ \E k \in DOMAIN s : (s \o x)[j] = s[k]
          \/ \E k \in DOMAIN x : (s \o x)[j] = x[k]
      <4>1. FreeList(s) /\ FreeList(x)
        BY <1>6, <1>10
      <4>2. PICK w : w = s \o x /\ j \in DOMAIN w
        OBVIOUS
      <4>3. \/ \E k \in DOMAIN s : w[j] = s[k]
            \/ \E k \in DOMAIN x : w[j] = x[k]
        BY ONLY <4>1, <4>2, InEither
      <4>. QED BY ONLY <4>2, <4>3
    <3>2. \A k \in DOMAIN s : End(s[k]) <= c.qbase /\ End(s[k]) \in Int
      BY <1>6, <1>8, EndsType
    <3>3. CASE \E k \in DOMAIN s : (s \o x)[j] = s[k]
      <4>1. PICK k \in DOMAIN s : End((s \o x)[j]) = End(s[k])
        BY <3>3
      <4>2. End(s[k]) <= c.qbase /\ End(s[k]) \in Int
        BY <3>2
      <4>. QED BY ONLY <1>c, <4>1, <4>2, b \in Int
    <3>4. CASE \E k \in DOMAIN x : (s \o x)[j] = x[k]
      <4>1. End((s \o x)[j]) = b
        BY <1>3, <1>10, <3>4
      <4>. QED BY ONLY <4>1, b \in Int
    <3>. QED BY <3>1, <3>3, <3>4
  <2>. QED BY <2>2, <2>3
<1>13. /\ FreeList((s \o x) \o y) /\ QueuesIn((s \o x) \o y) = QueuesIn(s \o x) \cup QueuesIn(y)
       /\ \A j \in DOMAIN ((s \o x) \o y) : End(((s \o x) \o y)[j]) <= End(c)
  <2>. DEFINE u == s \o x
  <2>1. \A k \in DOMAIN u, j \in DOMAIN y : End(u[k]) <= y[j].qbase
    <3>1. \A k \in DOMAIN u : End(u[k]) <= b /\ End(u[k]) \in Int
      BY <1>12, EndsType
    <3>2. \A j \in DOMAIN y : y[j].qbase = b + n
      BY <1>4, <1>11
    <3>. HIDE DEF u
    <3>. QED BY <3>1, <3>2
  <2>. HIDE DEF u
  <2>2. FreeList(u)
    BY <1>12 DEF u
  <2>3. FreeList(u \o y) /\ QueuesIn(u \o y) = QueuesIn(u) \cup QueuesIn(y)
    BY <1>11, <2>1, <2>2, Concatenated
  <2>4. ASSUME NEW j \in DOMAIN (u \o y) PROVE End((u \o y)[j]) <= End(c)
    <3>1. \/ \E k \in DOMAIN u : (u \o y)[j] = u[k]
          \/ \E k \in DOMAIN y : (u \o y)[j] = y[k]
      <4>1. FreeList(u) /\ FreeList(y)
        BY <1>11, <2>2
      <4>2. PICK w : w = u \o y /\ j \in DOMAIN w
        OBVIOUS
      <4>3. \/ \E k \in DOMAIN u : w[j] = u[k]
            \/ \E k \in DOMAIN y : w[j] = y[k]
        BY ONLY <4>1, <4>2, InEither
      <4>. QED BY ONLY <4>2, <4>3
    <3>2. \A k \in DOMAIN u : End(u[k]) <= b /\ End(u[k]) \in Int
      BY <1>12, EndsType DEF u
    <3>3. CASE \E k \in DOMAIN u : (u \o y)[j] = u[k]
      <4>1. PICK k \in DOMAIN u : End((u \o y)[j]) = End(u[k])
        BY <3>3
      <4>2. End(u[k]) <= b /\ End(u[k]) \in Int
        BY <3>2
      <4>. QED BY ONLY <1>c, <4>1, <4>2, b \in Int, n \in Nat
    <3>4. CASE \E k \in DOMAIN y : (u \o y)[j] = y[k]
      <4>1. End((u \o y)[j]) = End(c)
        BY <1>4, <1>11, <3>4
      <4>. QED BY ONLY <1>c, <4>1
    <3>. QED BY <3>1, <3>3, <3>4
  <2>. QED BY <2>3, <2>4 DEF u
<1>14. FreeList(left) /\ QueuesIn(left) = QueuesIn((s \o x) \o y) \cup QueuesIn(t)
  <2>. DEFINE u == (s \o x) \o y
  <2>1. \A k \in DOMAIN u, j \in DOMAIN t : End(u[k]) <= t[j].qbase
    <3>1. \A k \in DOMAIN u : End(u[k]) <= End(c) /\ End(u[k]) \in Int
      BY <1>13, EndsType
    <3>2. \A j \in DOMAIN t : t[j].qbase \in Int /\ End(c) <= t[j].qbase
      BY <1>7, <1>9, EndsType
    <3>3. End(c) \in Int
      BY <1>c
    <3>. HIDE DEF u
    <3>. QED BY ONLY <3>1, <3>2, <3>3
  <2>. HIDE DEF u
  <2>2. FreeList(u)
    BY <1>13 DEF u
  <2>. QED BY <1>5, <1>7, <2>1, <2>2, Concatenated DEF u
<1>15. QueuesIn(list) = QueuesIn(s) \cup ChunkQueues(c) \cup QueuesIn(t)
  <2>1. \A k \in DOMAIN list : k \in 1 .. i - 1 \/ k = i \/ k \in i + 1 .. Len(list)
    BY ONLY <1>1
  <2>2. \A k \in (1 .. i - 1) \cup (i + 1 .. Len(list)) : k \in DOMAIN list
    BY ONLY <1>1
  <2>. QED BY <1>6, <1>7, <2>1, <2>2 DEF QueuesIn, c
<1>16. ASSUME NEW k \in DOMAIN list, k # i PROVE ChunkQueues(list[k]) \cap ChunkQueues(c) = {}
  <2>1. k < i \/ i < k
    BY ONLY <1>1, <1>16
  <2>2. End(list[k]) <= c.qbase \/ End(c) <= list[k].qbase
    BY <2>1 DEF FreeList, c
  <2>3. /\ list[k].qbase \in Int /\ End(list[k]) \in Int
        /\ ChunkQueues(list[k]) = list[k].qbase .. (End(list[k]) - 1)
    BY <1>2
  <2>. QED BY ONLY <1>c, <2>2, <2>3
<1>17. (QueuesIn(s) \cup QueuesIn(t)) \cap ChunkQueues(c) = {}
  <2>1. \A k \in (1 .. i - 1) \cup (i + 1 .. Len(list)) : k \in DOMAIN list /\ k # i
    BY ONLY <1>1
  <2>2. \A k \in (1 .. i - 1) \cup (i + 1 .. Len(list)) :
          ChunkQueues(list[k]) \cap ChunkQueues(c) = {}
    BY <1>16, <2>1
  <2>. QED BY <1>6, <1>7, <2>2
<1>18. /\ ChunkQueues(c) = ChunkQueues(below) \cup span \cup ChunkQueues(above)
       /\ span \cap ChunkQueues(below) = {} /\ span \cap ChunkQueues(above) = {}
  <2>1. PICK p \in Int, r \in Int, e \in Int :
           p = c.qbase /\ r = b + n /\ e = End(c) /\ p <= b /\ b <= r /\ r <= e
    <3>1. b + n \in Int /\ b <= b + n
      BY ONLY b \in Int, n \in Nat
    <3>. QED BY <1>c, <3>1
  <2>2. /\ ChunkQueues(c) = p .. (e - 1) /\ ChunkQueues(below) = p .. (b - 1)
        /\ span = b .. (r - 1) /\ ChunkQueues(above) = r .. (e - 1)
    BY ONLY <1>c, <1>3, <1>4, <2>1 DEF span
  <2>3. /\ p .. (e - 1) = (p .. (b - 1)) \cup (b .. (r - 1)) \cup (r .. (e - 1))
        /\ (b .. (r - 1)) \cap (p .. (b - 1)) = {} /\ (b .. (r - 1)) \cap (r .. (e - 1)) = {}
    BY ONLY <2>1, b \in Int
  <2>. QED BY ONLY <2>2, <2>3
<1>. HIDE DEF span
<1>. QED BY <1>10, <1>11, <1>12, <1>13, <1>14, <1>15, <1>17, <1>18 DEF span

\* The node a request is served from holds the range it is served with; a range asked for that
\* lies within a node is served.
LEMMA NodesForIs ==
  ASSUME NEW list, FreeList(list), NEW qmax \in Nat, NEW qbase \in Int
  PROVE  /\ \A p \in NodesFor(list, qmax, qbase) :
              /\ p[1] \in DOMAIN list /\ p[2] \in Int
              /\ list[p[1]].qbase <= p[2] /\ p[2] + qmax <= End(list[p[1]])
         /\ qbase >= 0 /\ Within(Chunk(qbase, qmax), list) =>
              /\ NodesFor(list, qmax, qbase) # {}
              /\ \A p \in NodesFor(list, qmax, qbase) : p[2] = qbase
<1>. DEFINE holds == {i \in DOMAIN list :
                        /\ qbase >= list[i].qbase
                        /\ list[i].qbase + list[i].total >= qbase + qmax}
            fits == {i \in DOMAIN list : list[i].total >= qmax}
            best == {i \in fits : \A j \in fits : list[i].total <= list[j].total}
<1>1. NodesFor(list, qmax, qbase) =
        CASE qbase >= 0 /\ holds # {} -> {<<Min(holds), qbase>>}
          [] ~(qbase >= 0 /\ holds # {}) /\ fits # {} ->
                {<<Max(best), list[Max(best)].qbase>>}
          [] OTHER -> {}
  BY DEF NodesFor
<1>2. /\ DOMAIN list \in SUBSET Nat /\ DOMAIN list \in SUBSET Int /\ IsFiniteSet(DOMAIN list)
      /\ \A i \in DOMAIN list : /\ list[i].qbase \in Int /\ list[i].total \in Nat
                                 /\ End(list[i]) = list[i].qbase + list[i].total
  <2>1. list \in Seq(Chunks) /\ DOMAIN list = 1 .. Len(list) /\ Len(list) \in Nat
    BY DEF FreeList
  <2>2. IsFiniteSet(DOMAIN list)
    BY <2>1, FS_Interval
  <2>3. DOMAIN list \in SUBSET Nat /\ DOMAIN list \in SUBSET Int
    BY <2>1
  <2>. QED BY <2>2, <2>3, EndsType DEF End
<1>3. CASE qbase >= 0 /\ holds # {}
  <2>1. holds \in SUBSET Nat /\ holds \in SUBSET (DOMAIN list)
    BY <1>2
  <2>2. Min(holds) \in holds
    <3>. HIDE DEF holds
    <3>. QED BY <1>3, <2>1, MinIs
  <2>3. NodesFor(list, qmax, qbase) = {<<Min(holds), qbase>>}
    <3>. HIDE DEF holds, fits, best
    <3>. QED BY <1>1, <1>3
  <2>4. /\ Min(holds) \in DOMAIN list /\ list[Min(holds)].qbase <= qbase
        /\ qbase + qmax <= End(list[Min(holds)])
    <3>1. PICK m : m = Min(holds)
      OBVIOUS
    <3>2. m \in DOMAIN list /\ qbase >= list[m].qbase /\ list[m].qbase + list[m].total >= qbase + qmax
      BY <2>2, <3>1
    <3>3. list[m].qbase <= qbase /\ qbase + qmax <= End(list[m])
      BY <1>2, <3>2
    <3>. QED BY <3>1, <3>2, <3>3
  <2>. HIDE DEF holds, fits, best
  <2>. QED BY <2>3, <2>4
<1>4. CASE ~(qbase >= 0 /\ holds # {}) /\ fits # {}
  <2>1. best # {}
    <3>. DEFINE sizes == {list[i].total : i \in fits}
    <3>1. sizes \in SUBSET Nat /\ sizes # {}
      BY <1>2, <1>4
    <3>2. PICK s : s \in sizes /\ \A z \in sizes : s <= z
      <4>. HIDE DEF sizes
      <4>. QED BY <3>1, MinIs
    <3>3. PICK i \in fits : list[i].total = s
      BY <3>2
    <3>4. \A j \in fits : list[i].total <= list[j].total
      BY <3>2, <3>3
    <3>. HIDE DEF fits
    <3>. QED BY <3>4
  <2>2. best \in SUBSET Int /\ IsFiniteSet(best)
    <3>1. best \in SUBSET (DOMAIN list)
      OBVIOUS
    <3>. HIDE DEF best
    <3>. QED BY <1>2, <3>1, FS_Subset
  <2>3. Max(best) \in best
    <3>. HIDE DEF best
    <3>. QED BY <2>1, <2>2, MaxIs
  <2>4. PICK m \in DOMAIN list : m = Max(best) /\ list[m].total >= qmax
    BY <2>3
  <2>5. NodesFor(list, qmax, qbase) = {<<m, list[m].qbase>>}
    <3>. HIDE DEF holds, fits, best
    <3>. QED BY <1>1, <1>4, <2>4
  <2>6. list[m].qbase \in Int /\ list[m].qbase + qmax <= End(list[m])
    BY <1>2, <2>4
  <2>7. ~(qbase >= 0 /\ Within(Chunk(qbase, qmax), list))
    <3>. SUFFICES ASSUME qbase >= 0, Within(Chunk(qbase, qmax), list) PROVE FALSE
      OBVIOUS
    <3>1. Chunk(qbase, qmax).qbase = qbase /\ End(Chunk(qbase, qmax)) = qbase + qmax
      BY ChunkIs DEF End
    <3>2. PICK k \in DOMAIN list : list[k].qbase <= qbase /\ qbase + qmax <= End(list[k])
      BY <3>1 DEF Within
    <3>3. k \in holds
      BY <1>2, <3>2
    <3>. QED BY <1>4, <3>3
  <2>. HIDE DEF holds, fits, best
  <2>. QED BY <2>5, <2>6, <2>7
<1>5. CASE ~(qbase >= 0 /\ holds # {}) /\ fits = {}
  <2>1. NodesFor(list, qmax, qbase) = {}
    <3>. HIDE DEF holds, fits, best
    <3>. QED BY <1>1, <1>5
  <2>2. ~(qbase >= 0 /\ Within(Chunk(qbase, qmax), list))
    <3>. SUFFICES ASSUME qbase >= 0, Within(Chunk(qbase, qmax), list) PROVE FALSE
      OBVIOUS
    <3>1. Chunk(qbase, qmax).qbase = qbase /\ End(Chunk(qbase, qmax)) = qbase + qmax
      BY ChunkIs DEF End
    <3>2. PICK k \in DOMAIN list : list[k].qbase <= qbase /\ qbase + qmax <= End(list[k])
      BY <3>1 DEF Within
    <3>3. k \in holds
      BY <1>2, <3>2
    <3>. QED BY <1>5, <3>3
  <2>. HIDE DEF holds, fits, best
  <2>. QED BY <2>1, <2>2
<1>. QED BY <1>3, <1>4, <1>5

\* What qdma_get_resource_node() takes out of the list, and what it leaves.
LEMMA GetNodeIs ==
  ASSUME NEW list, FreeList(list), NEW qmax \in Nat, NEW qbase \in Int
  PROVE  /\ \A g \in qdma_get_resource_node(list, qmax, qbase) :
              /\ g.taken \in Chunks /\ g.taken.total = qmax
              /\ ChunkQueues(g.taken) \subseteq QueuesIn(list)
              /\ FreeList(g.left) /\ QueuesIn(g.left) = QueuesIn(list) \ ChunkQueues(g.taken)
         /\ qbase >= 0 /\ Within(Chunk(qbase, qmax), list) =>
              /\ qdma_get_resource_node(list, qmax, qbase) # {}
              /\ \A g \in qdma_get_resource_node(list, qmax, qbase) : g.taken = Chunk(qbase, qmax)
<1>. DEFINE P == NodesFor(list, qmax, qbase)
            Got == qdma_get_resource_node(list, qmax, qbase)
            Node(p) == [taken |-> Chunk(p[2], qmax), left |-> Without(list, p[1], p[2], qmax)]
<1>1. Got = {Node(p) : p \in P}
  BY DEF qdma_get_resource_node, Without
<1>2. ASSUME NEW p \in P
      PROVE  LET c == Chunk(p[2], qmax)
                 l == Without(list, p[1], p[2], qmax)
             IN /\ c \in Chunks /\ c.total = qmax /\ ChunkQueues(c) \subseteq QueuesIn(list)
                /\ FreeList(l) /\ QueuesIn(l) = QueuesIn(list) \ ChunkQueues(c)
  <2>1. PICK i, b : /\ i = p[1] /\ b = p[2] /\ i \in DOMAIN list /\ b \in Int
                    /\ list[i].qbase <= b /\ b + qmax <= End(list[i])
    BY NodesForIs
  <2>2. PICK l : l = Without(list, i, b, qmax)
    OBVIOUS
  <2>3. FreeList(l) /\ QueuesIn(l) = QueuesIn(list) \ (b .. (b + qmax - 1))
        /\ b .. (b + qmax - 1) \subseteq QueuesIn(list)
    BY <2>1, <2>2, TakeIs
  <2>4. /\ Chunk(b, qmax) \in Chunks /\ Chunk(b, qmax).total = qmax
        /\ ChunkQueues(Chunk(b, qmax)) = b .. (b + qmax - 1)
    BY <2>1, ChunkIs
  <2>. QED BY <2>1, <2>2, <2>3, <2>4
<1>3. qbase >= 0 /\ Within(Chunk(qbase, qmax), list) => P # {} /\ \A p \in P : p[2] = qbase
  BY NodesForIs
<1>4. \A p : /\ Node(p).taken = Chunk(p[2], qmax)
             /\ Node(p).left = Without(list, p[1], p[2], qmax)
  OBVIOUS
<1>. HIDE DEF P, Node, Got
<1>5. ASSUME NEW g \in Got
      PROVE  \E p \in P : /\ g.taken = Chunk(p[2], qmax)
                          /\ g.left = Without(list, p[1], p[2], qmax)
  <2>1. PICK p \in P : g = Node(p)
    BY <1>1
  <2>. QED BY <1>4, <2>1
<1>6. P # {} => Got # {}
  BY <1>1
<1>. QED BY <1>2, <1>3, <1>5, <1>6 DEF Got

-----------------------------------------------------------------------------
(***************************************************************************)
(* One request for a range of queues.                                      *)
(***************************************************************************)
\* A chunk without queues
LEMMA EmptyChunk ==
  ASSUME NEW c \in Chunks, c.total = 0
  PROVE  ChunkQueues(c) = {}
BY DEF Chunks, ChunkQueues

\* qdma_request_q_resource() trades the queues of an entry for others of the board: none is lost
\* and none is owned twice. A call that fails leaves the entry with the range it had.
LEMMA RequestIs ==
  ASSUME NEW list, FreeList(list), NEW old \in Chunks, NEW qmax \in Nat, NEW qbase \in Int,
         QueuesIn(list) \cap ChunkQueues(old) = {}, old.total > 0 => old.qbase >= 0,
         NEW r, r = qdma_request_q_resource(list, old, qmax, qbase)
  PROVE  /\ r.ok \in BOOLEAN /\ r.chunk \in Chunks /\ FreeList(r.free)
         /\ QueuesIn(r.free) \cap ChunkQueues(r.chunk) = {}
         /\ QueuesIn(r.free) \cup ChunkQueues(r.chunk) = QueuesIn(list) \cup ChunkQueues(old)
         /\ r.ok => r.chunk.total = qmax
         /\ ~r.ok => r.chunk.total = old.total /\ (old.total > 0 => r.chunk = old)
<1>. DEFINE free  == qdma_submit_to_free_list(list, old)
            got   == qdma_get_resource_node(free, qmax, qbase)
            again == qdma_get_resource_node(free, old.total, old.qbase)
            Node(set) == CHOOSE g \in set : TRUE
<1>1. r = CASE qmax = 0 ->
                 [ok |-> TRUE, free |-> free,
                  chunk |-> IF old.total = 0 THEN old ELSE NoChunk]
            [] qmax > 0 /\ got # {} ->
                 [ok |-> TRUE, chunk |-> Node(got).taken, free |-> Node(got).left]
            [] qmax > 0 /\ got = {} /\ again # {} ->
                 [ok |-> FALSE, chunk |-> Node(again).taken, free |-> Node(again).left]
            [] OTHER -> [ok |-> FALSE, chunk |-> NoChunk, free |-> free]
  BY DEF qdma_request_q_resource
<1>2. /\ FreeList(free) /\ QueuesIn(free) = QueuesIn(list) \cup ChunkQueues(old)
      /\ old.total > 0 => Within(old, free)
  BY SubmitIs
<1>3. /\ old.qbase \in Int /\ old.total \in Nat /\ old = Chunk(old.qbase, old.total)
      /\ NoChunk \in Chunks /\ NoChunk.total = 0 /\ ChunkQueues(NoChunk) = {}
  BY DEF Chunks, Chunk, NoChunk, ChunkQueues
<1>. HIDE DEF free
<1>4. \A g \in got : /\ g.taken \in Chunks /\ g.taken.total = qmax
                     /\ ChunkQueues(g.taken) \subseteq QueuesIn(free)
                     /\ FreeList(g.left) /\ QueuesIn(g.left) = QueuesIn(free) \ ChunkQueues(g.taken)
  BY <1>2, GetNodeIs
<1>5. \A g \in again : /\ g.taken \in Chunks /\ g.taken.total = old.total
                       /\ ChunkQueues(g.taken) \subseteq QueuesIn(free)
                       /\ FreeList(g.left) /\ QueuesIn(g.left) = QueuesIn(free) \ ChunkQueues(g.taken)
  BY <1>2, <1>3, GetNodeIs
<1>6. old.total > 0 => again # {} /\ \A g \in again : g.taken = old
  BY <1>2, <1>3, GetNodeIs
<1>. HIDE DEF got, again
<1>7. \A set : set # {} => Node(set) \in set
  OBVIOUS
<1>. HIDE DEF Node
<1>8. CASE qmax = 0
  <2>1. r = [ok |-> TRUE, free |-> free, chunk |-> IF old.total = 0 THEN old ELSE NoChunk]
    BY <1>1, <1>8
  <2>2. r.ok = TRUE /\ r.free = free /\ r.chunk = IF old.total = 0 THEN old ELSE NoChunk
    BY <2>1
  <2>3. CASE old.total = 0
    <3>1. ChunkQueues(old) = {} /\ r.chunk = old
      BY <2>2, <2>3, EmptyChunk
    <3>. QED BY <1>2, <1>8, <2>2, <2>3, <3>1
  <2>4. CASE old.total # 0
    <3>1. r.chunk = NoChunk
      BY <2>2, <2>4
    <3>. QED BY <1>2, <1>3, <1>8, <2>2, <3>1
  <2>. QED BY <2>3, <2>4
<1>9. CASE qmax > 0 /\ got # {}
  <2>1. r = [ok |-> TRUE, chunk |-> Node(got).taken, free |-> Node(got).left]
    BY ONLY <1>1, <1>9, qmax \in Nat
  <2>2. PICK g \in got : r.ok = TRUE /\ r.chunk = g.taken /\ r.free = g.left
    <3>1. Node(got) \in got
      BY <1>7, <1>9
    <3>. QED BY <2>1, <3>1
  <2>. QED BY <1>2, <1>4, <2>2
<1>10. CASE qmax > 0 /\ got = {} /\ again # {}
  <2>1. r = [ok |-> FALSE, chunk |-> Node(again).taken, free |-> Node(again).left]
    BY ONLY <1>1, <1>10, qmax \in Nat
  <2>2. PICK g \in again : r.ok = FALSE /\ r.chunk = g.taken /\ r.free = g.left
    <3>1. Node(again) \in again
      BY <1>7, <1>10
    <3>. QED BY <2>1, <3>1
  <2>. QED BY <1>2, <1>5, <1>6, <2>2
<1>11. CASE qmax > 0 /\ got = {} /\ again = {}
  <2>1. r = [ok |-> FALSE, chunk |-> NoChunk, free |-> free]
    BY <1>1, <1>11
  <2>2. r.ok = FALSE /\ r.free = free /\ r.chunk = NoChunk
    BY <2>1
  <2>3. old.total = 0 /\ ChunkQueues(old) = {}
    BY <1>3, <1>6, <1>11, EmptyChunk
  <2>4. /\ r.ok = FALSE /\ r.chunk \in Chunks /\ FreeList(r.free)
        /\ ChunkQueues(r.chunk) = {} /\ r.chunk.total = old.total
        /\ QueuesIn(r.free) = QueuesIn(list) /\ ~(old.total > 0)
    BY <1>2, <1>3, <2>2, <2>3
  <2>. QED BY <2>3, <2>4
<1>12. qmax = 0 \/ qmax > 0
  OBVIOUS
<1>. QED BY <1>8, <1>9, <1>10, <1>11, <1>12

-----------------------------------------------------------------------------
(***************************************************************************)
(* The master resource.                                                    *)
(***************************************************************************)
Entries == [chunk : Chunks, cnt : [QTypes -> Nat]]

Masters(F) == [idx : Nat, free : Seq(Chunks), act : Int,
            devs : UNION {[D -> Entries] : D \in SUBSET F}]

\* The masters that differ from m in the counts of active queues only
Recounts(m, F) ==
  {n \in Masters(F) : /\ n.idx = m.idx /\ n.free = m.free /\ DOMAIN n.devs = DOMAIN m.devs
                   /\ \A g \in DOMAIN m.devs : n.devs[g].chunk = m.devs[g].chunk}

\* Every queue of the board is free or in one entry, and the free list is in order.
Sound(m, F, N) ==
  /\ N \in Nat \ {0}
  /\ m \in Masters(F) /\ FreeList(m.free)
  /\ \A f \in DOMAIN m.devs : QueuesIn(m.free) \cap ChunkQueues(m.devs[f].chunk) = {}
  /\ \A f, g \in DOMAIN m.devs : f # g =>
        ChunkQueues(m.devs[f].chunk) \cap ChunkQueues(m.devs[g].chunk) = {}
  /\ QueuesIn(m.free) \cup UNION {ChunkQueues(m.devs[f].chunk) : f \in DOMAIN m.devs}
        = 0 .. (N - 1)

\* The fields of a master.
LEMMA MasterIs ==
  ASSUME NEW F, NEW m \in Masters(F)
  PROVE  /\ m.idx \in Nat /\ m.free \in Seq(Chunks) /\ m.act \in Int
         /\ DOMAIN m.devs \in SUBSET F /\ m.devs \in [DOMAIN m.devs -> Entries]
         /\ \A f \in DOMAIN m.devs : /\ m.devs[f] \in Entries /\ m.devs[f].chunk \in Chunks
                                      /\ m.devs[f].cnt \in [QTypes -> Nat]
<1>1. \A e \in Entries : e.chunk \in Chunks /\ e.cnt \in [QTypes -> Nat]
  BY DEF Entries
<1>2. m.devs \in UNION {[D -> Entries] : D \in SUBSET F}
  BY DEF Masters
<1>3. PICK D \in SUBSET F : m.devs \in [D -> Entries]
  BY <1>2
<1>4. DOMAIN m.devs = D /\ \A f \in D : m.devs[f] \in Entries
  BY <1>3
<1>5. m.idx \in Nat /\ m.free \in Seq(Chunks) /\ m.act \in Int
  BY DEF Masters
<1>. QED BY <1>1, <1>3, <1>4, <1>5

\* A master with a count set anew
SetCount(m, f, t, x, a) == [m EXCEPT !.devs[f].cnt[t] = x, !.act = a]

\* It keeps its chunks.
LEMMA CountSet ==
  ASSUME NEW F, NEW m \in Masters(F), NEW f \in DOMAIN m.devs,
         NEW t \in QTypes, NEW x \in Nat, NEW a \in Int
  PROVE  SetCount(m, f, t, x, a) \in Recounts(m, F)
<1>. DEFINE n == SetCount(m, f, t, x, a)
            e == [m.devs[f] EXCEPT !.cnt[t] = x]
            d == [m.devs EXCEPT ![f] = e]
<1>1. /\ m.devs \in [DOMAIN m.devs -> Entries] /\ DOMAIN m.devs \in SUBSET F
      /\ m.devs[f] \in Entries
  BY MasterIs
<1>2. e \in Entries /\ e.chunk = m.devs[f].chunk
  BY <1>1 DEF Entries
<1>3. n = [[m EXCEPT !.devs = d] EXCEPT !.act = a]
  BY DEF Masters, SetCount
<1>. HIDE DEF e, n
<1>4. /\ d \in [DOMAIN m.devs -> Entries] /\ DOMAIN d = DOMAIN m.devs
      /\ \A g \in DOMAIN m.devs : d[g].chunk = m.devs[g].chunk
  BY <1>1, <1>2
<1>. HIDE DEF d
<1>5. d \in UNION {[D -> Entries] : D \in SUBSET F}
  BY <1>1, <1>4
<1>6. /\ n \in Masters(F) /\ n.devs = d /\ n.idx = m.idx /\ n.free = m.free
  BY ONLY <1>3, <1>5, m \in Masters(F), a \in Int DEF Masters
<1>. QED BY <1>4, <1>6 DEF Recounts, n

\* A recount of a recount is one of the first master.
LEMMA RecountAgain ==
  ASSUME NEW F, NEW m \in Masters(F), NEW n \in Recounts(m, F)
  PROVE  n \in Masters(F) /\ Recounts(n, F) \subseteq Recounts(m, F)
BY DEF Recounts

\* Counting a queue, or taking it back, touches no chunk.
LEMMA CountIs ==
  ASSUME NEW F, NEW m \in Masters(F), NEW f, NEW t \in QTypes
  PROVE  /\ qdma_dev_increment_active_queue(m, f, t).m \in Recounts(m, F)
         /\ qdma_dev_increment_active_queue(m, f, t).ok \in BOOLEAN
         /\ qdma_dev_decrement_active_queue(m, f, t) \in Recounts(m, F)
<1>. DEFINE w == 2^CountWidth
<1>1. w \in Nat \ {0}
  BY CountWidthAssumption
<1>2. m.act \in Int /\ \A g \in DOMAIN m.devs : m.devs[g].cnt[t] \in Nat
  BY MasterIs
<1>3. m \in Recounts(m, F)
  BY DEF Recounts
<1>. HIDE DEF w
<1>4. (m.act + 1) % w \in Int /\ (m.act - 1) % w \in Int
  BY <1>1, <1>2
<1>5. /\ qdma_dev_increment_active_queue(m, f, t).m \in Recounts(m, F)
      /\ qdma_dev_increment_active_queue(m, f, t).ok \in BOOLEAN
  <2>. DEFINE n == [m EXCEPT !.devs[f].cnt[t] = @ + 1, !.act = (@ + 1) % w]
  <2>1. CASE HasEntry(m, f) /\ m.devs[f].chunk.total >= m.devs[f].cnt[t] + 1
    <3>1. qdma_dev_increment_active_queue(m, f, t) = [ok |-> TRUE, m |-> n]
      BY <2>1 DEF qdma_dev_increment_active_queue, w
    <3>2. n = SetCount(m, f, t, m.devs[f].cnt[t] + 1, (m.act + 1) % w)
      BY <1>2, <2>1 DEF HasEntry, Masters, SetCount
    <3>3. f \in DOMAIN m.devs /\ m.devs[f].cnt[t] + 1 \in Nat
      BY <1>2, <2>1 DEF HasEntry
    <3>. HIDE DEF n
    <3>4. n \in Recounts(m, F)
      BY <1>4, <3>2, <3>3, CountSet
    <3>. QED BY <3>1, <3>4
  <2>2. CASE ~(HasEntry(m, f) /\ m.devs[f].chunk.total >= m.devs[f].cnt[t] + 1)
    <3>1. qdma_dev_increment_active_queue(m, f, t) = [ok |-> FALSE, m |-> m]
      BY <2>2 DEF qdma_dev_increment_active_queue
    <3>. QED BY <1>3, <3>1
  <2>. QED BY <2>1, <2>2
<1>6. qdma_dev_decrement_active_queue(m, f, t) \in Recounts(m, F)
  <2>. DEFINE y == IF m.devs[f].cnt[t] > 0 THEN m.devs[f].cnt[t] - 1 ELSE 0
  <2>1. CASE HasEntry(m, f)
    <3>1. qdma_dev_decrement_active_queue(m, f, t)
            = SetCount(m, f, t, y, (m.act - 1) % w)
      BY <1>2, <2>1 DEF qdma_dev_decrement_active_queue, w, HasEntry, Masters, SetCount
    <3>2. f \in DOMAIN m.devs /\ y \in Nat
      BY <1>2, <2>1 DEF HasEntry
    <3>. HIDE DEF y
    <3>. QED BY <1>4, <3>1, <3>2, CountSet
  <2>2. CASE ~HasEntry(m, f)
    BY <1>3, <2>2 DEF qdma_dev_decrement_active_queue
  <2>. QED BY <2>1, <2>2
<1>. QED BY <1>5, <1>6

\* What it counts: the function's queues of one type, and no other function's.
LEMMA CountsOneType ==
  ASSUME NEW F, NEW m \in Masters(F), NEW f \in DOMAIN m.devs, NEW t \in QTypes
  PROVE  LET up   == qdma_dev_increment_active_queue(m, f, t)
             down == qdma_dev_decrement_active_queue(m, f, t)
             c    == m.devs[f].cnt[t]
         IN /\ up.ok => m.devs[f].chunk.total >= c + 1 /\ up.m.devs[f].cnt[t] = c + 1
            /\ ~up.ok => ~(m.devs[f].chunk.total >= c + 1) /\ up.m.devs[f].cnt[t] = c
            /\ \A g \in DOMAIN m.devs \ {f} : up.m.devs[g] = m.devs[g]
            /\ down.devs[f].cnt[t] = IF c > 0 THEN c - 1 ELSE 0
            /\ \A g \in DOMAIN m.devs \ {f} : down.devs[g] = m.devs[g]
<1>1. /\ m.devs \in [DOMAIN m.devs -> Entries] /\ m.devs[f] \in Entries
      /\ m.devs[f].cnt \in [QTypes -> Nat]
  BY MasterIs
<1>2. ASSUME NEW x, NEW a
      PROVE  LET n == [m EXCEPT !.devs[f].cnt[t] = x, !.act = a]
             IN  n.devs[f].cnt[t] = x /\ \A g \in DOMAIN m.devs \ {f} : n.devs[g] = m.devs[g]
  BY <1>1 DEF Entries, Masters
<1>. DEFINE up   == qdma_dev_increment_active_queue(m, f, t)
            down == qdma_dev_decrement_active_queue(m, f, t)
            c    == m.devs[f].cnt[t]
            w    == 2^CountWidth
            Set(x, a) == [m EXCEPT !.devs[f].cnt[t] = x, !.act = a]
<1>3. CASE m.devs[f].chunk.total >= c + 1
  <2>1. up = [ok |-> TRUE, m |-> Set(c + 1, (m.act + 1) % w)]
    BY <1>3 DEF HasEntry, qdma_dev_increment_active_queue
  <2>2. up.ok = TRUE /\ up.m = Set(c + 1, (m.act + 1) % w)
    BY <2>1
  <2>3. down = Set(IF c > 0 THEN c - 1 ELSE 0, (m.act - 1) % w)
    BY DEF HasEntry, qdma_dev_decrement_active_queue
  <2>. HIDE DEF up, down, w
  <2>4. /\ up.m.devs[f].cnt[t] = c + 1 /\ \A g \in DOMAIN m.devs \ {f} : up.m.devs[g] = m.devs[g]
    BY ONLY <1>2, <2>2
  <2>5. /\ down.devs[f].cnt[t] = IF c > 0 THEN c - 1 ELSE 0
        /\ \A g \in DOMAIN m.devs \ {f} : down.devs[g] = m.devs[g]
    BY ONLY <1>2, <2>3
  <2>. QED BY <1>3, <2>2, <2>4, <2>5 DEF up, down
<1>4. CASE ~(m.devs[f].chunk.total >= c + 1)
  <2>1. up = [ok |-> FALSE, m |-> m]
    BY <1>4 DEF HasEntry, qdma_dev_increment_active_queue
  <2>2. up.ok = FALSE /\ up.m = m
    BY <2>1
  <2>3. down = Set(IF c > 0 THEN c - 1 ELSE 0, (m.act - 1) % w)
    BY DEF HasEntry, qdma_dev_decrement_active_queue
  <2>. HIDE DEF up, down, w
  <2>4. /\ up.m.devs[f].cnt[t] = c /\ \A g \in DOMAIN m.devs \ {f} : up.m.devs[g] = m.devs[g]
    BY ONLY <2>2
  <2>5. /\ down.devs[f].cnt[t] = IF c > 0 THEN c - 1 ELSE 0
        /\ \A g \in DOMAIN m.devs \ {f} : down.devs[g] = m.devs[g]
    BY ONLY <1>2, <2>3
  <2>. QED BY <1>4, <2>2, <2>4, <2>5 DEF up, down
<1>. QED BY <1>3, <1>4

\* What a fold starts with, and each step keeps, holds of its result.
LEMMA Stays ==
  ASSUME NEW S \in SUBSET Int, IsFiniteSet(S), NEW f, NEW A, f[{}] \in A,
         \A T \in SUBSET S : T # {} /\ f[T \ {Max(T)}] \in A => f[T] \in A
  PROVE  f[S] \in A
<1>. DEFINE G == {T \in SUBSET S : f[T] \in A}
<1>1. G \in SUBSET (SUBSET S) /\ {} \in G
  OBVIOUS
<1>2. ASSUME NEW T \in SUBSET S, T # {}, \A x \in T : T \ {x} \in G PROVE T \in G
  <2>1. Max(T) \in T
    BY <1>2, FS_Subset, MaxIs
  <2>2. f[T \ {Max(T)}] \in A
    BY <1>2, <2>1
  <2>. QED BY <1>2, <2>2
<1>3. S \in G
  <2>. HIDE DEF G
  <2>. QED BY <1>1, <1>2, SubsetInduction
<1>. QED BY <1>3

\* The greatest element of a part of a finite set of numbers
LEMMA MaxOfPart ==
  ASSUME NEW S \in SUBSET Int, IsFiniteSet(S), NEW T \in SUBSET S, T # {}
  PROVE  Max(T) \in S /\ T \ {Max(T)} \in SUBSET S
<1>1. IsFiniteSet(T) /\ T \in SUBSET Int
  BY FS_Subset
<1>. QED BY <1>1, MaxIs

\* A recount of a sound master is sound.
LEMMA RecountSound ==
  ASSUME NEW F, NEW N, NEW m, Sound(m, F, N), NEW n \in Recounts(m, F)
  PROVE  Sound(n, F, N) /\ n.idx = m.idx /\ DOMAIN n.devs = DOMAIN m.devs
         /\ \A g \in DOMAIN m.devs : n.devs[g].chunk = m.devs[g].chunk
<1>1. /\ n \in Masters(F) /\ n.idx = m.idx /\ n.free = m.free /\ DOMAIN n.devs = DOMAIN m.devs
      /\ \A g \in DOMAIN m.devs : n.devs[g].chunk = m.devs[g].chunk
  BY DEF Recounts
<1>2. {ChunkQueues(n.devs[f].chunk) : f \in DOMAIN n.devs}
        = {ChunkQueues(m.devs[f].chunk) : f \in DOMAIN m.devs}
  BY <1>1
<1>. QED BY <1>1, <1>2 DEF Sound

\* A sound master keeps the queues partitioned.
LEMMA SoundPartitioned ==
  ASSUME NEW F, NEW N, NEW m, Sound(m, F, N)
  PROVE  Partitioned(m, N)
<1>1. /\ FreeList(m.free)
      /\ \A f \in DOMAIN m.devs : QueuesIn(m.free) \cap ChunkQueues(m.devs[f].chunk) = {}
  BY DEF Sound
<1>2. \A i, j \in DOMAIN m.free : i < j => m.free[i].qbase + m.free[i].total <= m.free[j].qbase
  BY <1>1 DEF FreeList, End
<1>3. \A f \in DOMAIN m.devs, i \in DOMAIN m.free :
         ChunkQueues(m.devs[f].chunk) \cap ChunkQueues(m.free[i]) = {}
  BY <1>1 DEF QueuesIn
<1>4. UNION ({ChunkQueues(m.free[i]) : i \in DOMAIN m.free} \cup
             {ChunkQueues(m.devs[f].chunk) : f \in DOMAIN m.devs})
        = QueuesIn(m.free) \cup UNION {ChunkQueues(m.devs[f].chunk) : f \in DOMAIN m.devs}
  BY DEF QueuesIn
<1>. QED BY <1>1, <1>2, <1>3, <1>4 DEF Sound, Partitioned, FreeList

\* The master of a board that has just been found: all queues are free.
LEMMA NewMasterIs ==
  ASSUME NEW F, NEW N \in Nat \ {0}, NEW idx \in Nat
  PROVE  Sound(NewMaster(idx, N), F, N)
<1>. DEFINE m == NewMaster(idx, N)
            c == Chunk(0, N)
<1>1. N \in Nat /\ N > 0
  OBVIOUS
<1>2. c \in Chunks /\ c.total = N /\ ChunkQueues(c) = 0 .. (N - 1)
  <2>1. c \in Chunks /\ c.total = N /\ ChunkQueues(c) = 0 .. (0 + N - 1)
    BY <1>1, ChunkIs
  <2>2. 0 + N - 1 = N - 1
    BY <1>1
  <2>. QED BY <2>1, <2>2
<1>. HIDE DEF c
<1>3. FreeList(<<c>>) /\ QueuesIn(<<c>>) = ChunkQueues(c)
  BY <1>1, <1>2, Single
<1>4. /\ m.idx = idx /\ m.free = <<c>> /\ m.act = 0 /\ m.devs = <<>>
      /\ m = [idx |-> idx, free |-> <<c>>, act |-> 0, devs |-> <<>>]
  BY DEF NewMaster, c
<1>5. DOMAIN <<>> = {} /\ <<>> \in [{} -> Entries]
  OBVIOUS
<1>6. m \in Masters(F)
  <2>1. <<>> \in UNION {[D -> Entries] : D \in SUBSET F}
    BY <1>5
  <2>2. <<c>> \in Seq(Chunks)
    BY <1>2
  <2>. QED BY <1>4, <2>1, <2>2 DEF Masters
<1>. HIDE DEF m
<1>. QED BY <1>2, <1>3, <1>4, <1>5, <1>6 DEF Sound, m

\* A new entry owns no queue.
LEMMA CreateIs ==
  ASSUME NEW F, NEW N, NEW m, Sound(m, F, N), NEW f \in F,
         NEW n, n = qdma_dev_entry_create(m, f)
  PROVE  /\ Sound(n, F, N) /\ n.idx = m.idx /\ DOMAIN n.devs = DOMAIN m.devs \cup {f}
         /\ \A g \in DOMAIN m.devs : n.devs[g] = m.devs[g]
         /\ f \notin DOMAIN m.devs =>
              n.devs[f] = [chunk |-> NoChunk, cnt |-> [t \in QTypes |-> 0]]
<1>. DEFINE e == [chunk |-> NoChunk, cnt |-> [t \in QTypes |-> 0]]
            d == [g \in DOMAIN m.devs \cup {f} |-> IF g \in DOMAIN m.devs THEN m.devs[g] ELSE e]
<1>1. /\ m \in Masters(F) /\ DOMAIN m.devs \in SUBSET F
      /\ \A g \in DOMAIN m.devs : m.devs[g] \in Entries
  BY MasterIs DEF Sound
<1>2. e \in Entries /\ e.chunk = NoChunk /\ ChunkQueues(NoChunk) = {}
  BY DEF Entries, NoChunk, Chunk, Chunks, ChunkQueues
<1>3. n = [m EXCEPT !.devs = d]
  BY DEF qdma_dev_entry_create
<1>4. /\ DOMAIN d = DOMAIN m.devs \cup {f} /\ d \in [DOMAIN m.devs \cup {f} -> Entries]
      /\ \A g \in DOMAIN m.devs : d[g] = m.devs[g]
      /\ f \notin DOMAIN m.devs => d[f] = e
  <2>. HIDE DEF e
  <2>. QED BY <1>1, <1>2
<1>. HIDE DEF d
<1>5. d \in UNION {[D -> Entries] : D \in SUBSET F}
  BY <1>1, <1>4
<1>6. n \in Masters(F) /\ n.devs = d /\ n.idx = m.idx /\ n.free = m.free
  BY <1>1, <1>3, <1>5 DEF Masters
<1>. HIDE DEF e
<1>7. \A g \in DOMAIN n.devs : \/ g \in DOMAIN m.devs /\ n.devs[g].chunk = m.devs[g].chunk
                               \/ g \notin DOMAIN m.devs /\ ChunkQueues(n.devs[g].chunk) = {}
  BY <1>2, <1>4, <1>6
<1>8. UNION {ChunkQueues(n.devs[g].chunk) : g \in DOMAIN n.devs}
        = UNION {ChunkQueues(m.devs[g].chunk) : g \in DOMAIN m.devs}
  BY <1>4, <1>6, <1>7
<1>9. Sound(n, F, N)
  BY ONLY <1>6, <1>7, <1>8, Sound(m, F, N) DEF Sound
<1>. QED BY <1>4, <1>6, <1>9 DEF e

\* The queues of an entry lie on the board.
LEMMA EntryOnBoard ==
  ASSUME NEW F, NEW N, NEW m, Sound(m, F, N), NEW f \in DOMAIN m.devs
  PROVE  LET c == m.devs[f].chunk IN c \in Chunks /\ (c.total > 0 => c.qbase >= 0)
<1>. DEFINE c == m.devs[f].chunk
<1>1. c \in Chunks /\ c.qbase \in Int /\ c.total \in Nat
  <2>1. c \in Chunks
    BY MasterIs DEF Sound
  <2>. QED BY <2>1 DEF Chunks
<1>2. ChunkQueues(c) \subseteq 0 .. (N - 1)
  BY DEF Sound
<1>3. c.total > 0 => c.qbase \in ChunkQueues(c)
  BY <1>1 DEF ChunkQueues
<1>. HIDE DEF c
<1>4. c.total > 0 => c.qbase \in 0 .. (N - 1)
  BY <1>2, <1>3
<1>5. c.total > 0 => c.qbase >= 0
  BY <1>4
<1>. QED BY <1>1, <1>5 DEF c

\* The queues of a closed function are free again.
LEMMA DestroyIs ==
  ASSUME NEW F, NEW N, NEW m, Sound(m, F, N), NEW f \in DOMAIN m.devs,
         NEW n, n = qdma_dev_entry_destroy(m, f)
  PROVE  /\ Sound(n, F, N) /\ n.idx = m.idx /\ DOMAIN n.devs = DOMAIN m.devs \ {f}
         /\ \A g \in DOMAIN m.devs \ {f} : n.devs[g] = m.devs[g]
<1>. DEFINE c == m.devs[f].chunk
            free == qdma_submit_to_free_list(m.free, c)
            d == Restrict(m.devs, DOMAIN m.devs \ {f})
<1>1. /\ m \in Masters(F) /\ DOMAIN m.devs \in SUBSET F /\ FreeList(m.free)
      /\ \A g \in DOMAIN m.devs : m.devs[g] \in Entries
      /\ QueuesIn(m.free) \cap ChunkQueues(c) = {}
  BY MasterIs DEF Sound
<1>2. FreeList(free) /\ QueuesIn(free) = QueuesIn(m.free) \cup ChunkQueues(c)
  BY <1>1, EntryOnBoard, SubmitIs
<1>3. n = [m EXCEPT !.free = free, !.devs = d]
  BY DEF qdma_dev_entry_destroy
<1>4. /\ DOMAIN d = DOMAIN m.devs \ {f} /\ d \in [DOMAIN m.devs \ {f} -> Entries]
      /\ \A g \in DOMAIN m.devs \ {f} : d[g] = m.devs[g]
  BY <1>1 DEF Restrict
<1>. HIDE DEF d, free
<1>5. d \in UNION {[D -> Entries] : D \in SUBSET F} /\ free \in Seq(Chunks)
  BY <1>1, <1>2, <1>4 DEF FreeList
<1>6. n \in Masters(F) /\ n.devs = d /\ n.idx = m.idx /\ n.free = free
  BY <1>1, <1>3, <1>5 DEF Masters
<1>7. /\ \A g \in DOMAIN n.devs : /\ g \in DOMAIN m.devs /\ g # f
                                  /\ n.devs[g].chunk = m.devs[g].chunk
      /\ \A g \in DOMAIN m.devs : g # f => g \in DOMAIN n.devs
  BY <1>4, <1>6
<1>8. \A g \in DOMAIN m.devs : g # f => ChunkQueues(m.devs[g].chunk) \cap ChunkQueues(c) = {}
  BY DEF Sound
<1>9. UNION {ChunkQueues(m.devs[g].chunk) : g \in DOMAIN m.devs}
        = ChunkQueues(c) \cup UNION {ChunkQueues(n.devs[g].chunk) : g \in DOMAIN n.devs}
  <2>1. ASSUME NEW q PROVE (\E g \in DOMAIN m.devs : q \in ChunkQueues(m.devs[g].chunk))
          <=> (q \in ChunkQueues(c) \/ \E g \in DOMAIN n.devs : q \in ChunkQueues(n.devs[g].chunk))
    BY <1>7
  <2>. HIDE DEF c
  <2>. QED BY <2>1
<1>10. Sound(n, F, N)
  <2>1. \A g \in DOMAIN n.devs : QueuesIn(n.free) \cap ChunkQueues(n.devs[g].chunk) = {}
    BY <1>2, <1>6, <1>7, <1>8 DEF Sound
  <2>2. \A g, h \in DOMAIN n.devs : g # h =>
          ChunkQueues(n.devs[g].chunk) \cap ChunkQueues(n.devs[h].chunk) = {}
    BY <1>7 DEF Sound
  <2>3. QueuesIn(n.free) \cup UNION {ChunkQueues(n.devs[g].chunk) : g \in DOMAIN n.devs}
          = 0 .. (N - 1)
    <3>1. QueuesIn(m.free) \cup UNION {ChunkQueues(m.devs[g].chunk) : g \in DOMAIN m.devs}
            = 0 .. (N - 1)
      BY DEF Sound
    <3>. HIDE DEF c
    <3>. QED BY <1>2, <1>6, <1>9, <3>1
  <2>. QED BY <1>2, <1>6, <2>1, <2>2, <2>3 DEF Sound
<1>. QED BY <1>4, <1>6, <1>10

\* A changed range: the queues stay partitioned, no other function is touched, and a refused
\* change leaves the function with the range it had.
LEMMA UpdateIs ==
  ASSUME NEW F, NEW N, NEW m, Sound(m, F, N), NEW f \in DOMAIN m.devs,
         NEW qmax \in Nat, NEW qbase \in Int,
         NEW r, r = qdma_dev_update(m, f, qmax, qbase),
         NEW old, old = m.devs[f].chunk
  PROVE  /\ r.ok \in BOOLEAN /\ Sound(r.m, F, N) /\ r.m.idx = m.idx
         /\ DOMAIN r.m.devs = DOMAIN m.devs
         /\ \A g \in DOMAIN m.devs : g # f => r.m.devs[g] = m.devs[g]
         /\ r.m.devs[f].cnt = m.devs[f].cnt
         /\ r.ok => /\ r.m.devs[f].chunk.total = qmax
                    /\ \A t \in QTypes : ~(m.devs[f].cnt[t] > 0)
         /\ ~r.ok => /\ r.m.devs[f].chunk.total = old.total
                     /\ old.total > 0 => r.m.devs[f].chunk = old
<1>. DEFINE s == qdma_request_q_resource(m.free, old, qmax, qbase)
            n == [m EXCEPT !.free = s.free, !.devs[f].chunk = s.chunk]
<1>1. CASE \E t \in QTypes : m.devs[f].cnt[t] > 0
  <2>1. r = [ok |-> FALSE, m |-> m]
    BY <1>1 DEF qdma_dev_update
  <2>2. r.ok = FALSE /\ r.m = m
    BY <2>1
  <2>. QED BY <2>2
<1>2. CASE ~\E t \in QTypes : m.devs[f].cnt[t] > 0
  <2>1. r = [ok |-> s.ok, m |-> n]
    BY <1>2 DEF qdma_dev_update
  <2>2. /\ m \in Masters(F) /\ DOMAIN m.devs \in SUBSET F /\ FreeList(m.free)
        /\ m.devs \in [DOMAIN m.devs -> Entries] /\ m.devs[f] \in Entries
        /\ QueuesIn(m.free) \cap ChunkQueues(old) = {}
    BY MasterIs DEF Sound
  <2>3. old \in Chunks /\ (old.total > 0 => old.qbase >= 0)
    BY EntryOnBoard
  <2>4. /\ s.ok \in BOOLEAN /\ s.chunk \in Chunks /\ FreeList(s.free)
        /\ QueuesIn(s.free) \cap ChunkQueues(s.chunk) = {}
        /\ QueuesIn(s.free) \cup ChunkQueues(s.chunk) = QueuesIn(m.free) \cup ChunkQueues(old)
        /\ s.ok => s.chunk.total = qmax
        /\ ~s.ok => s.chunk.total = old.total /\ (old.total > 0 => s.chunk = old)
    BY ONLY <2>2, <2>3, qmax \in Nat, qbase \in Int, RequestIs
  <2>. DEFINE e == [m.devs[f] EXCEPT !.chunk = s.chunk]
              d == [m.devs EXCEPT ![f] = e]
  <2>5. n = [[m EXCEPT !.free = s.free] EXCEPT !.devs = d]
    BY <2>2 DEF Masters
  <2>. HIDE DEF s, n
  <2>6. e \in Entries /\ e.chunk = s.chunk /\ e.cnt = m.devs[f].cnt
    BY <2>2, <2>4 DEF Entries
  <2>. HIDE DEF e
  <2>7. /\ d \in [DOMAIN m.devs -> Entries] /\ DOMAIN d = DOMAIN m.devs /\ d[f].chunk = s.chunk
        /\ d[f].cnt = m.devs[f].cnt
        /\ \A g \in DOMAIN m.devs : g # f => d[g] = m.devs[g]
    BY <2>2, <2>6
  <2>. HIDE DEF d
  <2>8. d \in UNION {[D -> Entries] : D \in SUBSET F} /\ s.free \in Seq(Chunks)
    BY <2>2, <2>4, <2>7 DEF FreeList
  <2>9. n \in Masters(F) /\ n.devs = d /\ n.idx = m.idx /\ n.free = s.free
    BY <2>2, <2>5, <2>8 DEF Masters
  <2>10. /\ DOMAIN n.devs = DOMAIN m.devs /\ n.devs[f].chunk = s.chunk
         /\ n.devs[f].cnt = m.devs[f].cnt
         /\ \A g \in DOMAIN m.devs : g # f => n.devs[g] = m.devs[g]
    BY <2>7, <2>9
  <2>11. /\ QueuesIn(n.free) \cap ChunkQueues(n.devs[f].chunk) = {}
         /\ QueuesIn(n.free) \cup ChunkQueues(n.devs[f].chunk) = QueuesIn(m.free) \cup ChunkQueues(old)
    BY <2>4, <2>9, <2>10
  <2>12. \A g \in DOMAIN m.devs : g # f =>
            /\ ChunkQueues(n.devs[g].chunk) \cap ChunkQueues(old) = {}
            /\ ChunkQueues(n.devs[g].chunk) \cap QueuesIn(m.free) = {}
    BY <2>10 DEF Sound
  <2>13. \A g \in DOMAIN n.devs : QueuesIn(n.free) \cap ChunkQueues(n.devs[g].chunk) = {}
    BY <2>10, <2>11, <2>12
  <2>14. \A g, h \in DOMAIN n.devs : g # h =>
            ChunkQueues(n.devs[g].chunk) \cap ChunkQueues(n.devs[h].chunk) = {}
    BY <2>10, <2>11, <2>12 DEF Sound
  <2>15. QueuesIn(n.free) \cup UNION {ChunkQueues(n.devs[g].chunk) : g \in DOMAIN n.devs}
            = 0 .. (N - 1)
    <3>1. QueuesIn(m.free) \cup UNION {ChunkQueues(m.devs[g].chunk) : g \in DOMAIN m.devs}
            = 0 .. (N - 1)
      BY DEF Sound
    <3>2. ASSUME NEW q
          PROVE  (q \in QueuesIn(n.free) \/ \E g \in DOMAIN n.devs : q \in ChunkQueues(n.devs[g].chunk))
            <=> (q \in QueuesIn(m.free) \/ \E g \in DOMAIN m.devs : q \in ChunkQueues(m.devs[g].chunk))
      BY <2>10, <2>11
    <3>. QED BY <3>1, <3>2
  <2>16. Sound(n, F, N)
    BY <2>4, <2>9, <2>13, <2>14, <2>15 DEF Sound
  <2>17. r.ok = s.ok /\ r.m = n
    BY <2>1
  <2>. QED BY <1>2, <2>4, <2>9, <2>10, <2>16, <2>17
<1>. QED BY <1>1, <1>2

=============================================================================
