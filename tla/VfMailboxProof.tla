--------------------------- MODULE VfMailboxProof ---------------------------
(***************************************************************************)
(* Theorems about the mailbox (VfMailbox), for any virtual functions, any  *)
(* number of queues, calls and retries.  Until a call times out, a message *)
(* is dropped, or a call has gone on before its reply was copied, the      *)
(* hardware maps a function only to its own queues, a caller that may go on*)
(* has the answer to its own request or its own request still, and the     *)
(* physical function's records agree with the functions'.                  *)
(*                                                                         *)
(* The invariant follows a request through the two mailboxes.  The call of *)
(* a virtual function is in one of six stages, from the list of the sender *)
(* to the copy of the answer; at each stage the request or its one answer  *)
(* is in exactly one place, and what the physical function holds of the    *)
(* virtual one is what the call found (Before) or what it brought about    *)
(* (After).                                                                *)
(***************************************************************************)
EXTENDS VfMailbox, QueueResourcesProof, SequenceTheorems

-----------------------------------------------------------------------------
(***************************************************************************)
(* What the variables range over, as long as there is no fault.            *)
(***************************************************************************)
Asking == {"HELLO", "QREQ", "CSR", "FMAP", "QADD", "QDEL", "WRT", "CLR"}

Ops == Asking \cup {"BYE", "PF_BYE", "none"}

Messages == [op : Ops, resp : BOOLEAN, from : Funcs \cup {NoVf}, to : Funcs \cup {NoVf},
             ok : BOOLEAN, arg : Chunks, tag : Nat]

Items == [m : Messages, wait : BOOLEAN, retry : Nat]

Works == [at : {"idle", "sent", "matched"}, m : Messages, stale : BOOLEAN]

Legs == Ops \X Chunks

Plans == Seq(Legs)

Calls == [pc : {"idle", "queued", "asleep", "woken", "late"}, plan : Plans, force : BOOLEAN,
          matched : BOOLEAN, ans : Messages]

Devices == [st : {"down", "coming", "up", "leaving"}, chunk : Chunks, qrange : BOOLEAN,
            q : {"off", "enabled", "online"}, bye : BOOLEAN]

TypeInv ==
  /\ hw \in [fmap : [Vfs -> Chunks], ctx : [0 .. (TotalQ - 1) -> Vfs \cup {NoVf}]]
  /\ vf \in [Vfs -> Devices]
  /\ call \in [Funcs -> Calls]
  /\ todo \in [Funcs -> Seq(Items)]
  /\ DOMAIN pend = Funcs
  /\ work \in [Funcs -> Works]
  /\ out \in [Funcs -> Messages]
  /\ calls \in [Vfs -> Nat]

\* The thread of the PF asks the functions of vf_info one by one.
TriggerInv ==
  /\ trigger \in [pc : {"idle", "loop", "asked", "bye", "done"}, i : Nat, n : Nat,
                  asked : SUBSET (Vfs \cup {NoVf}), were : SUBSET Vfs]
  /\ trigger.pc \in {"loop", "asked", "bye"} => trigger.i \in Slots
  /\ ~work[Pf].stale /\ work[Pf].at # "matched"
  /\ work[Pf].at = "sent" => todo[Pf] # <<>> /\ Head(todo[Pf]).wait

\* The functions with an entry are the ones in vf_info, each in one slot.
SlotsInv ==
  LET there == {v \in Vfs : HasEntry(master, v)}
  IN  /\ online.slot \in [Slots -> Vfs \cup {NoVf}]
      /\ online.count = Cardinality(there)
      /\ \A i \in Slots : online.slot[i] # NoVf => online.slot[i] \in there
      /\ \A v \in there : \E i \in Slots : online.slot[i] = v
      /\ \A i, j \in Slots : online.slot[i] = online.slot[j] => i = j \/ online.slot[i] = NoVf

(***************************************************************************)
(* What the PF and the hardware hold of a function.                        *)
(***************************************************************************)
Board(v) ==
  [here  |-> HasEntry(master, v),
   chunk |-> IF HasEntry(master, v) THEN master.devs[v].chunk ELSE NoChunk,
   cnt   |-> IF HasEntry(master, v) THEN master.devs[v].cnt["H2C"] ELSE 0,
   fmap  |-> hw.fmap[v],
   ctx   |-> {q \in 0 .. (TotalQ - 1) : hw.ctx[q] = v}]

\* Nothing of it: it has not been greeted, or has said farewell.
Absent(b) == ~b.here /\ b.ctx = {} /\ ChunkQueues(b.fmap) = {}

\* It has an entry, n active queues, contexts of the queues in S only, and no others' queues.
Present(b, n, S) ==
  b.here /\ b.cnt = n /\ b.ctx \subseteq S /\ ChunkQueues(b.fmap) \subseteq ChunkQueues(b.chunk)

\* It has an entry still, and no context any more.
Parting(b) == b.here /\ b.ctx = {} /\ ChunkQueues(b.fmap) \subseteq ChunkQueues(b.chunk)

\* The function knows its range.
Knows(d, b) == d.chunk.total > 0 => d.chunk = b.chunk

One(d) == {d.chunk.qbase}

\* The states of the queue between two calls
Settled(d, b) ==
  /\ Knows(d, b)
  /\ \/ d.q = "off" /\ Present(b, 0, {})
     \/ d.q = "enabled" /\ d.chunk.total > 0 /\ Present(b, 1, {})
     \/ d.q = "online" /\ d.chunk.total > 0 /\ Present(b, 1, One(d))

(***************************************************************************)
(* The calls of a function: at rest, before the PF has seen the request,   *)
(* and after it has given the answer m.                                    *)
(***************************************************************************)
\* listed, sent: the farewell is in the function's list, or in its mailbox
Rest(d, b, listed, sent) ==
  \/ d.st = "up" /\ ~listed /\ ~sent /\ Settled(d, b)
  \/ /\ d.st = "leaving" /\ ~(listed /\ sent)
     /\ IF listed \/ sent THEN Parting(b) ELSE Absent(b)
  \/ /\ d = DownVf /\ ~listed
     /\ IF sent THEN Parting(b) ELSE Absent(b)

\* The queue the function's calls are about
OneQueue(d) == Chunk(d.chunk.qbase, 1)

\* A call of this device that has come to the message op
CallOf(d, plan, force, op) ==
  CASE op = "HELLO" -> /\ d.st = "coming" /\ d.chunk.total = 0 /\ d.q = "off" /\ ~force
                       /\ plan = <<<<"HELLO", NoChunk>>>>
    [] op = "QREQ"  -> /\ d.st = "up" /\ ~force /\ Len(plan) = 1
                       /\ plan[1][1] = "QREQ"
    [] op = "CSR"   -> /\ d.st = "up" /\ ~force /\ d.q = "enabled" /\ d.chunk.total > 0
                       /\ plan = <<<<"CSR", NoChunk>>, <<"FMAP", d.chunk>>, <<"QADD", OneQueue(d)>>>>
    [] op = "FMAP"  -> /\ d.st = "up" /\ ~force /\ d.q = "enabled" /\ d.chunk.total > 0
                       /\ plan = <<<<"FMAP", d.chunk>>, <<"QADD", OneQueue(d)>>>>
    [] op = "QADD"  -> /\ d.st = "up" /\ ~force /\ d.q = "enabled" /\ d.chunk.total > 0
                       /\ plan = <<<<"QADD", OneQueue(d)>>>>
    [] op = "WRT"   -> /\ d.st = "up" /\ ~force /\ d.q = "enabled" /\ d.chunk.total > 0
                       /\ plan = <<<<"WRT", OneQueue(d)>>>>
    [] op = "CLR"   -> /\ d.q = "online" /\ d.chunk.total > 0
                       /\ \/ d.st = "up" /\ ~force /\ plan = <<<<"CLR", OneQueue(d)>>>>
                          \/ d.st = "leaving" /\ force
                             /\ plan = <<<<"CLR", OneQueue(d)>>, <<"QDEL", OneQueue(d)>>, <<"BYE", NoChunk>>>>
    [] op = "QDEL"  -> /\ d.q = "enabled" /\ d.chunk.total > 0
                       /\ \/ d.st = "up" /\ ~force /\ plan = <<<<"QDEL", OneQueue(d)>>>>
                          \/ d.st = "leaving" /\ force
                             /\ plan = <<<<"QDEL", OneQueue(d)>>, <<"BYE", NoChunk>>>>
    [] OTHER -> FALSE

\* sent: a farewell of the last time is still in the mailbox
Before(d, b, op, sent) ==
  CASE op = "HELLO" -> IF sent THEN Parting(b) ELSE Absent(b)
    [] op = "QREQ"  -> ~sent /\ Settled(d, b)
    [] op \in {"CSR", "FMAP", "QADD"} -> ~sent /\ Knows(d, b) /\ Present(b, 0, {})
    [] op \in {"WRT", "QDEL"} -> ~sent /\ Knows(d, b) /\ Present(b, 1, {})
    [] op = "CLR"   -> ~sent /\ Knows(d, b) /\ Present(b, 1, One(d))
    [] OTHER -> FALSE

After(d, b, op, m) ==
  CASE op = "HELLO" -> m.ok /\ Present(b, 0, {})
    [] op = "QREQ"  -> IF m.ok THEN d.q = "off" /\ m.arg = b.chunk /\ Present(b, 0, {})
                       ELSE Settled(d, b)
    [] op \in {"CSR", "FMAP"} -> m.ok /\ Knows(d, b) /\ Present(b, 0, {})
    [] op = "QADD"  -> m.ok /\ Knows(d, b) /\ Present(b, 1, {})
    [] op = "WRT"   -> m.ok /\ Knows(d, b) /\ Present(b, 1, One(d))
    [] op = "CLR"   -> m.ok /\ Knows(d, b) /\ Present(b, 1, {})
    [] op = "QDEL"  -> m.ok /\ Knows(d, b) /\ Present(b, 0, {})
    [] OTHER -> FALSE

(***************************************************************************)
(* Where a request and its answer are.                                     *)
(***************************************************************************)
Free(s, A) == \A i \in DOMAIN s : s[i] \notin A

OnlyOne(s, A, m, wait) ==
  \E i \in DOMAIN s : /\ s[i].m = m /\ s[i].wait = wait /\ s[i] \in A
                      /\ \A j \in DOMAIN s : s[j] \in A => j = i

\* A function's own messages, as against the answer to PF_BYE
OwnItems == {e \in Items : e.wait \/ e.m.op # "PF_BYE"}

\* The PF's answers to a function
Answers(v) == {e \in Items : e.m.resp /\ e.m.to = v}

Op(v) == Head(call[v].plan)[1]

\* The request of the call that is under way, and the last message of a session
Request(v) == Message(Op(v), FALSE, v, Pf, TRUE, Head(call[v].plan)[2], calls[v])

Farewell(v, tag) == Message("BYE", FALSE, v, Pf, TRUE, NoChunk, tag)

\* An answer to that request
Fits(v, m) == m.resp /\ m.to = v /\ m.op = Op(v) /\ m.tag = calls[v]

\* Neither the PF's list nor its mailbox has an answer for the function.
NoAnswer(v) == Free(todo[Pf], Answers(v)) /\ ~(out[Pf].resp /\ out[Pf].to = v)

\* There is one, in one of the two.
AnswerIs(v, m) ==
  \/ OnlyOne(todo[Pf], Answers(v), m, FALSE) /\ ~(out[Pf].resp /\ out[Pf].to = v)
  \/ Free(todo[Pf], Answers(v)) /\ out[Pf] = m

InFlight == {out[Pf]} \cup {todo[Pf][i].m : i \in DOMAIN todo[Pf]}

SentBye(v) == out[v].op = "BYE"

\* The PF has not seen the request, or has given the answer m to it.
Untold(v) ==
  CallOf(vf[v], call[v].plan, call[v].force, Op(v)) /\ Before(vf[v], Board(v), Op(v), SentBye(v))

Told(v, m) ==
  /\ CallOf(vf[v], call[v].plan, call[v].force, Op(v))
  /\ Fits(v, m) /\ After(vf[v], Board(v), Op(v), m)
  /\ out[v].op \notin Asking \cup {"BYE"}

\* The request is in the mailbox, or there is one answer.
Asked(v) ==
  \/ out[v] = Request(v) /\ NoAnswer(v) /\ Untold(v)
  \/ \E m \in InFlight : AnswerIs(v, m) /\ Told(v, m)

(***************************************************************************)
(* The six stages of a call.                                               *)
(***************************************************************************)
\* Until the answer is copied over it the caller holds its own request.
Waits(v) ==
  call[v].pc \in {"queued", "asleep"} /\ ~call[v].matched /\ call[v].ans = Request(v)

AtRest(v) ==
  /\ call[v] = Idle /\ work[v].at = "idle" /\ pend[v] = <<>>
  /\ out[v].op \notin Asking /\ NoAnswer(v)
  /\ \/ Free(todo[v], OwnItems) /\ Rest(vf[v], Board(v), FALSE, SentBye(v))
     \/ OnlyOne(todo[v], OwnItems, Farewell(v, calls[v]), FALSE)
        /\ Rest(vf[v], Board(v), TRUE, SentBye(v))

Listed(v) ==
  /\ Waits(v) /\ work[v].at = "idle" /\ pend[v] = <<>>
  /\ OnlyOne(todo[v], OwnItems, Request(v), TRUE)
  /\ out[v].op \notin Asking /\ NoAnswer(v) /\ Untold(v)

Entered(v) == [at |-> "sent", stale |-> FALSE, m |-> Request(v)]

Sent(v) ==
  /\ Waits(v) /\ work[v] = Entered(v) /\ pend[v] = <<>>
  /\ OnlyOne(todo[v], OwnItems, Request(v), TRUE) /\ Head(todo[v]).wait
  /\ Asked(v)

Pending(v) ==
  /\ Waits(v) /\ work[v].at = "idle" /\ pend[v] = <<Entered(v)>>
  /\ Free(todo[v], OwnItems)
  /\ Asked(v)

\* The caller may have been woken already.
Matched(v) ==
  /\ call[v].pc \in {"queued", "asleep", "woken"} /\ call[v].matched
  /\ call[v].ans = Request(v)
  /\ work[v].at = "matched" /\ ~work[v].stale /\ pend[v] = <<Entered(v)>>
  /\ Free(todo[v], OwnItems)
  /\ NoAnswer(v) /\ Told(v, work[v].m)

Copied(v) ==
  /\ call[v].pc = "woken" \/ (call[v].pc = "queued" /\ call[v].matched)
  /\ work[v].at = "idle" /\ pend[v] = <<>>
  /\ Free(todo[v], OwnItems)
  /\ NoAnswer(v) /\ Told(v, call[v].ans)

Stage(v) == AtRest(v) \/ Listed(v) \/ Sent(v) \/ Pending(v) \/ Matched(v) \/ Copied(v)
-----------------------------------------------------------------------------
(***************************************************************************)
(* The inductive invariant: nothing is claimed after a fault.              *)
(***************************************************************************)
Calm == TypeInv /\ TriggerInv /\ SlotsInv /\ Sound(master, Vfs, TotalQ)
        /\ \A v \in Vfs : Stage(v)

IInv == faults \in Nat /\ (faults = 0 => Calm)

-----------------------------------------------------------------------------
(***************************************************************************)
(* Lists of messages.                                                      *)
(***************************************************************************)
\* A message that is appended to a list is looked for, or is not.
LEMMA Appending ==
  ASSUME NEW s \in Seq(Items), NEW e \in Items, NEW A
  PROVE  /\ Append(s, e) \in Seq(Items) /\ Append(s, e) # <<>>
         /\ s # <<>> => Head(Append(s, e)) = Head(s)
         /\ e \notin A => /\ Free(s, A) => Free(Append(s, e), A)
                          /\ \A m, w : OnlyOne(s, A, m, w) => OnlyOne(Append(s, e), A, m, w)
         /\ e \in A /\ Free(s, A) => OnlyOne(Append(s, e), A, e.m, e.wait)
<1>. DEFINE n == Len(s)
            t == Append(s, e)
<1>1. /\ t \in Seq(Items) /\ DOMAIN s = 1 .. n /\ n \in Nat /\ DOMAIN t = 1 .. (n + 1)
      /\ t[n + 1] = e /\ (\A i \in 1 .. n : t[i] = s[i]) /\ t # <<>>
      /\ s # <<>> => Head(t) = Head(s)
  <2>1. /\ t \in Seq(Items) /\ DOMAIN s = 1 .. n /\ n \in Nat /\ Len(t) = n + 1
        /\ DOMAIN t = 1 .. Len(t)
    OBVIOUS
  <2>2. t[n + 1] = e /\ \A i \in 1 .. n : t[i] = s[i]
    OBVIOUS
  <2>. HIDE DEF t
  <2>3. t # <<>>
    BY <2>1
  <2>4. s # <<>> => 1 \in 1 .. n /\ Head(t) = t[1] /\ Head(s) = s[1]
    BY <2>1, <2>3
  <2>. QED BY <2>1, <2>2, <2>3, <2>4
<1>. HIDE DEF t, n
<1>2. \A i \in 1 .. (n + 1) : i \in 1 .. n \/ i = n + 1
  BY <1>1
<1>3. ASSUME e \notin A, Free(s, A) PROVE Free(t, A)
  BY <1>1, <1>2, <1>3 DEF Free
<1>4. ASSUME e \notin A, NEW m, NEW w, OnlyOne(s, A, m, w) PROVE OnlyOne(t, A, m, w)
  <2>1. PICK i \in DOMAIN s : /\ s[i].m = m /\ s[i].wait = w /\ s[i] \in A
                              /\ \A j \in DOMAIN s : s[j] \in A => j = i
    BY <1>4 DEF OnlyOne
  <2>2. i \in DOMAIN t /\ t[i] = s[i]
    BY <1>1
  <2>3. \A j \in DOMAIN t : t[j] \in A => j = i
    BY <1>1, <1>2, <1>4, <2>1
  <2>. QED BY <2>1, <2>2, <2>3 DEF OnlyOne
<1>5. ASSUME e \in A, Free(s, A) PROVE OnlyOne(t, A, e.m, e.wait)
  <2>1. n + 1 \in DOMAIN t /\ \A j \in DOMAIN t : t[j] \in A => j = n + 1
    BY <1>1, <1>2, <1>5 DEF Free
  <2>. QED BY <1>1, <1>5, <2>1 DEF OnlyOne
<1>. QED BY <1>1, <1>3, <1>4, <1>5 DEF t

\* The head of a list is taken off: it is the one that is looked for, or it is not.
LEMMA Taking ==
  ASSUME NEW s \in Seq(Items), s # <<>>, NEW A
  PROVE  /\ Tail(s) \in Seq(Items) /\ Head(s) \in Items /\ Head(s) = s[1]
         /\ Free(s, A) => Free(Tail(s), A) /\ Head(s) \notin A
         /\ \A m, w : OnlyOne(s, A, m, w) =>
              IF Head(s) \in A THEN Head(s).m = m /\ Head(s).wait = w /\ Free(Tail(s), A)
              ELSE OnlyOne(Tail(s), A, m, w)
<1>. DEFINE n == Len(s)
            t == Tail(s)
<1>1. /\ t \in Seq(Items) /\ DOMAIN s = 1 .. n /\ n \in Nat \ {0} /\ DOMAIN t = 1 .. (n - 1)
      /\ Head(s) = s[1] /\ (\A i \in 1 .. (n - 1) : t[i] = s[i + 1]) /\ s[1] \in Items
  OBVIOUS
<1>. HIDE DEF t, n
<1>2. /\ \A i \in 1 .. (n - 1) : i + 1 \in 1 .. n /\ i + 1 # 1
      /\ \A i \in 1 .. n : i = 1 \/ (i - 1 \in 1 .. (n - 1) /\ (i - 1) + 1 = i)
      /\ 1 \in 1 .. n
  BY <1>1
<1>3. ASSUME Free(s, A) PROVE Free(t, A) /\ Head(s) \notin A
  BY <1>1, <1>2, <1>3 DEF Free
<1>4. ASSUME NEW m, NEW w, OnlyOne(s, A, m, w)
      PROVE  IF Head(s) \in A THEN Head(s).m = m /\ Head(s).wait = w /\ Free(t, A)
             ELSE OnlyOne(t, A, m, w)
  <2>1. PICK i \in DOMAIN s : /\ s[i].m = m /\ s[i].wait = w /\ s[i] \in A
                              /\ \A j \in DOMAIN s : s[j] \in A => j = i
    BY <1>4 DEF OnlyOne
  <2>2. CASE Head(s) \in A
    <3>1. i = 1
      BY <1>1, <1>2, <2>1, <2>2
    <3>2. Free(t, A)
      BY <1>1, <1>2, <2>1, <3>1 DEF Free
    <3>. QED BY <1>1, <2>1, <2>2, <3>1, <3>2
  <2>3. CASE Head(s) \notin A
    <3>1. i - 1 \in DOMAIN t /\ t[i - 1] = s[i]
      BY <1>1, <1>2, <2>1, <2>3
    <3>2. \A j \in DOMAIN t : t[j] \in A => j = i - 1
      <4>. SUFFICES ASSUME NEW j \in DOMAIN t, t[j] \in A PROVE j = i - 1
        OBVIOUS
      <4>1. j + 1 \in DOMAIN s /\ s[j + 1] \in A
        BY <1>1, <1>2
      <4>2. j + 1 = i /\ j \in Int
        BY <1>1, <2>1, <4>1
      <4>. QED BY <4>2
    <3>3. OnlyOne(t, A, m, w)
      BY <2>1, <3>1, <3>2 DEF OnlyOne
    <3>. QED BY <2>3, <3>3
  <2>. QED BY <2>2, <2>3
<1>. QED BY <1>1, <1>3, <1>4 DEF t

\* Only the retries of a message change.
LEMMA Retrying ==
  ASSUME NEW s \in Seq(Items), s # <<>>, s[1].retry > 1,
         NEW A \in SUBSET Items,
         \A e, d \in Items : e.m = d.m /\ e.wait = d.wait /\ e \in A => d \in A,
         NEW t, t = [s EXCEPT ![1].retry = @ - 1]
  PROVE  /\ t \in Seq(Items) /\ t # <<>> /\ Head(t).wait = Head(s).wait
         /\ Free(s, A) => Free(t, A)
         /\ \A m, w : OnlyOne(s, A, m, w) => OnlyOne(t, A, m, w)
<1>. DEFINE n == Len(s)
<1>1. DOMAIN s = 1 .. n /\ n \in Nat \ {0} /\ \A i \in 1 .. n : s[i] \in Items
  OBVIOUS
<1>2. s[1].retry - 1 \in Nat
  BY <1>1 DEF Items
<1>3. [s[1] EXCEPT !.retry = @ - 1] \in Items
  BY <1>1, <1>2 DEF Items
<1>4. [s[1] EXCEPT !.retry = @ - 1].m = s[1].m /\ [s[1] EXCEPT !.retry = @ - 1].wait = s[1].wait
  BY <1>1 DEF Items
<1>5. /\ DOMAIN t = 1 .. n /\ t[1] = [s[1] EXCEPT !.retry = @ - 1]
      /\ \A i \in 1 .. n : i # 1 => t[i] = s[i]
  BY <1>1
<1>6. t \in [1 .. n -> Items]
  BY <1>1, <1>3
<1>7. t \in Seq(Items)
  BY <1>1, <1>6
<1>8. t # <<>> /\ Head(t) = t[1] /\ Head(s) = s[1] /\ 1 \in 1 .. n
  BY <1>1, <1>5, <1>7
<1>9. \A i \in 1 .. n : /\ t[i] \in Items /\ t[i].m = s[i].m /\ t[i].wait = s[i].wait
  BY <1>1, <1>3, <1>4, <1>5
<1>10. \A i \in 1 .. n : t[i] \in A <=> s[i] \in A
  BY <1>1, <1>9
<1>11. Free(s, A) => Free(t, A)
  BY <1>1, <1>5, <1>10 DEF Free
<1>12. \A m, w : OnlyOne(s, A, m, w) => OnlyOne(t, A, m, w)
  BY <1>1, <1>5, <1>9, <1>10 DEF OnlyOne
<1>. QED BY <1>7, <1>8, <1>9, <1>11, <1>12

-----------------------------------------------------------------------------
(***************************************************************************)
(* What the steps do to the lists, calls and mailboxes.                    *)
(***************************************************************************)
\* The messages and records the steps write
LEMMA Written ==
  /\ Vfs \subseteq Funcs /\ Pf \in Funcs /\ Pf \notin Vfs /\ NoVf \notin Funcs
  /\ Idle \in Calls /\ IdleWork \in Works /\ DownVf \in Devices /\ NoMessage \in Messages
  /\ NoChunk \in Chunks
  /\ Idle.pc = "idle" /\ ~Idle.matched /\ IdleWork.at = "idle" /\ ~IdleWork.stale
  /\ NoMessage.op = "none" /\ ~NoMessage.resp
  /\ \A op \in Ops, resp \in BOOLEAN, from, to \in Funcs \cup {NoVf}, ok \in BOOLEAN,
        arg \in Chunks, tag \in Nat : Message(op, resp, from, to, ok, arg, tag) \in Messages
  /\ \A m \in Messages, wait \in BOOLEAN :
        Item(m, wait) \in Items /\ Item(m, wait).m = m /\ Item(m, wait).wait = wait
<1>1. Vfs \subseteq Funcs /\ Pf \in Funcs /\ Pf \notin Vfs /\ NoVf \notin Funcs /\ Retries \in Nat
  BY MailboxAssumption DEF Funcs
<1>2. NoChunk \in Chunks /\ Chunk(0, 0) \in Chunks
  BY DEF NoChunk, Chunk, Chunks
<1>3. \A op \in Ops, resp \in BOOLEAN, from, to \in Funcs \cup {NoVf}, ok \in BOOLEAN,
        arg \in Chunks, tag \in Nat : Message(op, resp, from, to, ok, arg, tag) \in Messages
  BY DEF Message, Messages
<1>4. NoMessage \in Messages
  <2>1. "none" \in Ops /\ FALSE \in BOOLEAN /\ 0 \in Nat /\ NoVf \in Funcs \cup {NoVf}
    BY DEF Ops
  <2>. QED BY <1>2, <1>3, <2>1 DEF NoMessage
<1>5. Idle \in Calls
  <2>1. <<>> \in Plans
    BY DEF Plans
  <2>. QED BY <1>4, <2>1 DEF Idle, Calls
<1>6. IdleWork \in Works /\ DownVf \in Devices
  BY <1>2, <1>4 DEF IdleWork, Works, DownVf, Devices
<1>7. \A m \in Messages, wait \in BOOLEAN :
        Item(m, wait) \in Items /\ Item(m, wait).m = m /\ Item(m, wait).wait = wait
  BY <1>1 DEF Item, Items
<1>8. /\ Idle.pc = "idle" /\ ~Idle.matched /\ IdleWork.at = "idle" /\ ~IdleWork.stale
      /\ NoMessage.op = "none" /\ ~NoMessage.resp
  BY DEF Idle, IdleWork, NoMessage, Message
<1>. QED BY <1>1, <1>2, <1>3, <1>4, <1>5, <1>6, <1>7, <1>8

\* What the variables hold for one function
LEMMA Local ==
  ASSUME TypeInv, NEW f \in Funcs
  PROVE  /\ call[f] \in Calls /\ todo[f] \in Seq(Items) /\ work[f] \in Works /\ out[f] \in Messages
         /\ f \in Vfs => vf[f] \in Devices /\ calls[f] \in Nat /\ hw.fmap[f] \in Chunks
BY DEF TypeInv

\* The list of a sender after a message has been put on it
LEMMA Queued ==
  ASSUME TypeInv, NEW f \in Funcs, NEW e \in Items, todo' = [todo EXCEPT ![f] = Append(@, e)]
  PROVE  /\ todo' \in [Funcs -> Seq(Items)] /\ todo'[f] = Append(todo[f], e)
         /\ \A g \in Funcs : g # f => todo'[g] = todo[g]
<1>1. Append(todo[f], e) \in Seq(Items)
  BY Local, Appending
<1>2. todo \in [Funcs -> Seq(Items)]
  BY DEF TypeInv
<1>. QED BY <1>1, <1>2

\* The list of a sender after its first message has been taken off
LEMMA Dequeued ==
  ASSUME TypeInv, NEW f \in Funcs, todo[f] # <<>>, todo' = [todo EXCEPT ![f] = Tail(@)]
  PROVE  /\ todo' \in [Funcs -> Seq(Items)] /\ todo'[f] = Tail(todo[f])
         /\ \A g \in Funcs : g # f => todo'[g] = todo[g]
<1>1. Tail(todo[f]) \in Seq(Items)
  BY Local, Taking
<1>2. todo \in [Funcs -> Seq(Items)]
  BY DEF TypeInv
<1>. QED BY <1>1, <1>2

\* A caller that waits
Asker(plan, force, m) ==
  [pc |-> "queued", plan |-> plan, force |-> force, matched |-> FALSE, ans |-> m]

\* A caller queues the first message of its plan, and waits unless that is the farewell.
LEMMA Submitted ==
  ASSUME TypeInv, NEW v \in Vfs, NEW tag \in Nat, NEW plan \in Plans, plan # <<>>,
         NEW force \in BOOLEAN, Submit(v, tag, plan, force)
  PROVE  /\ todo' \in [Funcs -> Seq(Items)] /\ call' \in [Funcs -> Calls]
         /\ \A f \in Funcs : f # v => todo'[f] = todo[f] /\ call'[f] = call[f]
         /\ \E m \in Messages, e \in Items, op \in Ops :
               /\ op = Head(plan)[1]
               /\ m = Message(op, FALSE, v, Pf, TRUE, Head(plan)[2], tag)
               /\ e.m = m /\ todo'[v] = Append(todo[v], e)
               /\ op = "BYE" => e.wait = FALSE /\ call'[v] = Idle
               /\ op # "BYE" => /\ e.wait = TRUE
                                /\ call'[v] = Asker(plan, force, m)
<1>. DEFINE op == Head(plan)[1]
            m == Message(op, FALSE, v, Pf, TRUE, Head(plan)[2], tag)
            e == Item(m, op # "BYE")
<1>1. Head(plan) \in Ops \X Chunks
  BY DEF Plans, Legs
<1>2. op \in Ops /\ Head(plan)[2] \in Chunks
  BY <1>1
<1>3. m \in Messages
  <2>1. v \in Funcs \cup {NoVf} /\ Pf \in Funcs \cup {NoVf} /\ FALSE \in BOOLEAN /\ TRUE \in BOOLEAN
    BY Written
  <2>. QED BY <1>2, <2>1, Written
<1>4. /\ e \in Items /\ e.m = m
      /\ op = "BYE" => e.wait = FALSE
      /\ op # "BYE" => e.wait = TRUE
  <2>1. CASE op = "BYE"
    <3>1. e = Item(m, FALSE)
      BY <2>1
    <3>. HIDE DEF m, e
    <3>. QED BY <1>3, <2>1, <3>1, Written
  <2>2. CASE op # "BYE"
    <3>1. e = Item(m, TRUE)
      BY <2>2
    <3>. HIDE DEF m, e
    <3>. QED BY <1>3, <2>2, <3>1, Written
  <2>. QED BY <2>1, <2>2
<1>5. v \in Funcs /\ call \in [Funcs -> Calls]
  BY Written DEF TypeInv
<1>. DEFINE c == Asker(plan, force, m)
<1>6. /\ todo' = [todo EXCEPT ![v] = Append(@, e)]
      /\ call' = [call EXCEPT ![v] = IF op = "BYE" THEN Idle ELSE c]
  BY DEF Submit, Asker
<1>. HIDE DEF e
<1>7. Idle \in Calls /\ c \in Calls
  <2>. HIDE DEF m
  <2>. QED BY <1>3, Written DEF Calls, Asker
<1>. HIDE DEF c
<1>8. /\ todo' \in [Funcs -> Seq(Items)] /\ todo'[v] = Append(todo[v], e)
      /\ \A f \in Funcs : f # v => todo'[f] = todo[f]
  BY <1>4, <1>5, <1>6, Queued
<1>9. /\ call' \in [Funcs -> Calls] /\ \A f \in Funcs : f # v => call'[f] = call[f]
  BY <1>5, <1>6, <1>7
<1>10. /\ op = "BYE" => call'[v] = Idle
       /\ op # "BYE" => call'[v] = c
  BY <1>5, <1>6, <1>7
<1>11. /\ m \in Messages /\ e \in Items
       /\ m = Message(op, FALSE, v, Pf, TRUE, Head(plan)[2], tag)
       /\ e.m = m /\ todo'[v] = Append(todo[v], e)
       /\ op = "BYE" => e.wait = FALSE /\ call'[v] = Idle
       /\ op # "BYE" => /\ e.wait = TRUE
                        /\ call'[v] = Asker(plan, force, m)
  <2>1. m = Message(op, FALSE, v, Pf, TRUE, Head(plan)[2], tag)
    OBVIOUS
  <2>. HIDE DEF m
  <2>. QED BY <1>3, <1>4, <1>8, <1>10, <2>1 DEF c
<1>. HIDE DEF m, op
<1>. QED BY <1>2, <1>8, <1>9, <1>11 DEF op

-----------------------------------------------------------------------------
(***************************************************************************)
(* What a step may change without touching the stage of a call.            *)
(***************************************************************************)
\* The device, the call and what the PF holds of the function stay.
Core(w) ==
  /\ vf'[w] = vf[w] /\ call'[w].plan = call[w].plan /\ call'[w].force = call[w].force
  /\ calls'[w] = calls[w] /\ Board(w)' = Board(w)

\* So do the answers to it.
Kept(w) ==
  /\ NoAnswer(w) => NoAnswer(w)'
  /\ \A m : m.resp /\ m.to = w /\ AnswerIs(w, m) => AnswerIs(w, m)'

\* And its lists and its mailbox.
Same(w) ==
  /\ Core(w) /\ call'[w] = call[w] /\ todo'[w] = todo[w] /\ pend'[w] = pend[w]
  /\ work'[w] = work[w] /\ out'[w] = out[w]

LEMMA CoreKept ==
  ASSUME NEW w \in Vfs, Core(w)
  PROVE  /\ Op(w)' = Op(w) /\ Request(w)' = Request(w)
         /\ (SentBye(w) <=> SentBye(w)') /\ Untold(w) => Untold(w)'
         /\ \A m : Told(w, m) /\ out'[w].op \notin Asking \cup {"BYE"} => Told(w, m)'
         /\ out'[w] = out[w] /\ Kept(w) /\ Asked(w) => Asked(w)'
<1>1. Op(w)' = Op(w)
  BY DEF Core, Op
<1>2. Request(w)' = Request(w)
  BY <1>1 DEF Core, Request
<1>3. ASSUME SentBye(w) <=> SentBye(w)', Untold(w) PROVE Untold(w)'
  <2>1. SentBye(w)' = SentBye(w)
    BY <1>3 DEF SentBye
  <2>. QED BY <1>1, <1>3, <2>1 DEF Untold, Core
<1>4. ASSUME NEW m, Told(w, m), out'[w].op \notin Asking \cup {"BYE"} PROVE Told(w, m)'
  <2>1. Fits(w, m)'
    BY <1>1, <1>4 DEF Told, Fits, Core
  <2>. QED BY <1>1, <1>4, <2>1 DEF Told, Core
<1>5. ASSUME out'[w] = out[w], Kept(w), Asked(w) PROVE Asked(w)'
  <2>1. CASE out[w] = Request(w) /\ NoAnswer(w) /\ Untold(w)
    <3>1. SentBye(w) <=> SentBye(w)'
      BY <1>5 DEF SentBye
    <3>2. out'[w] = Request(w)' /\ NoAnswer(w)' /\ Untold(w)'
      BY <1>2, <1>3, <1>5, <2>1, <3>1 DEF Kept
    <3>. QED BY <3>2 DEF Asked
  <2>2. ASSUME NEW m \in InFlight, AnswerIs(w, m), Told(w, m) PROVE Asked(w)'
    <3>1. m.resp /\ m.to = w /\ out[w].op \notin Asking \cup {"BYE"}
      BY <2>2 DEF Told, Fits
    <3>2. AnswerIs(w, m)' /\ Told(w, m)'
      BY <1>4, <1>5, <2>2, <3>1 DEF Kept
    <3>3. m \in InFlight'
      BY <3>2 DEF AnswerIs, InFlight, OnlyOne
    <3>. QED BY <3>2, <3>3 DEF Asked
  <2>. QED BY <1>5, <2>1, <2>2 DEF Asked
<1>. QED BY <1>1, <1>2, <1>3, <1>4, <1>5

\* The stage of a call that a step has nothing to do with
LEMMA Frame ==
  ASSUME NEW w \in Vfs, Stage(w), Same(w), Kept(w)
  PROVE  Stage(w)'
<1>1. /\ Op(w)' = Op(w) /\ Request(w)' = Request(w) /\ Core(w)
      /\ (NoAnswer(w) => NoAnswer(w)')
      /\ out'[w] = out[w] /\ call'[w] = call[w] /\ todo'[w] = todo[w] /\ pend'[w] = pend[w]
      /\ work'[w] = work[w] /\ vf'[w] = vf[w] /\ Board(w)' = Board(w) /\ calls'[w] = calls[w]
  BY CoreKept DEF Same, Kept, Core
<1>2. /\ Untold(w) => Untold(w)'
      /\ Asked(w) => Asked(w)'
      /\ \A m : Told(w, m) => Told(w, m)'
  <2>1. SentBye(w) <=> SentBye(w)'
    BY <1>1 DEF SentBye
  <2>2. \A m : Told(w, m) => out'[w].op \notin Asking \cup {"BYE"}
    BY <1>1 DEF Told
  <2>. QED BY <1>1, <2>1, <2>2, CoreKept
<1>3. SentBye(w)' = SentBye(w) /\ Farewell(w, calls[w])' = Farewell(w, calls[w])
      /\ Entered(w)' = Entered(w)
  BY <1>1 DEF SentBye, Farewell, Entered
<1>4. CASE AtRest(w)
  <2>1. AtRest(w)'
    BY <1>1, <1>3, <1>4 DEF AtRest
  <2>. QED BY <2>1 DEF Stage
<1>5. CASE Listed(w)
  <2>1. Listed(w)'
    BY <1>1, <1>2, <1>5 DEF Listed, Waits
  <2>. QED BY <2>1 DEF Stage
<1>6. CASE Sent(w)
  <2>1. Sent(w)'
    BY <1>1, <1>2, <1>3, <1>6 DEF Sent, Waits
  <2>. QED BY <2>1 DEF Stage
<1>7. CASE Pending(w)
  <2>1. Pending(w)'
    BY <1>1, <1>2, <1>3, <1>7 DEF Pending, Waits
  <2>. QED BY <2>1 DEF Stage
<1>8. CASE Matched(w)
  <2>1. Matched(w)'
    BY <1>1, <1>2, <1>3, <1>8 DEF Matched
  <2>. QED BY <2>1 DEF Stage
<1>9. CASE Copied(w)
  <2>1. Copied(w)'
    BY <1>1, <1>2, <1>9 DEF Copied
  <2>. QED BY <2>1 DEF Stage
<1>. QED BY <1>4, <1>5, <1>6, <1>7, <1>8, <1>9 DEF Stage

\* Nothing happens to the PF's list and mailbox.
LEMMA PfStill ==
  ASSUME NEW w \in Vfs, todo'[Pf] = todo[Pf], out'[Pf] = out[Pf]
  PROVE  Kept(w) /\ (NoAnswer(w)' => NoAnswer(w))
BY DEF Kept, NoAnswer, AnswerIs

\* The PF puts a message on its list that does not answer the function.
LEMMA PfLists ==
  ASSUME TypeInv, NEW w \in Vfs, NEW e \in Items, e \notin Answers(w),
         todo'[Pf] = Append(todo[Pf], e), out'[Pf] = out[Pf]
  PROVE  Kept(w)
<1>1. todo[Pf] \in Seq(Items)
  BY Local, Written
<1>2. /\ Free(todo[Pf], Answers(w)) => Free(todo'[Pf], Answers(w))
      /\ \A m, b : OnlyOne(todo[Pf], Answers(w), m, b) => OnlyOne(todo'[Pf], Answers(w), m, b)
  BY <1>1, Appending
<1>. QED BY <1>2 DEF Kept, NoAnswer, AnswerIs

\* The message in the PF's mailbox has been read by another function.
LEMMA PfReads ==
  ASSUME NEW w \in Vfs, todo'[Pf] = todo[Pf], out'[Pf] = NoMessage, out[Pf].to # w
  PROVE  Kept(w)
<1>1. ~NoMessage.resp
  BY DEF NoMessage, Message
<1>2. NoAnswer(w) => NoAnswer(w)'
  BY <1>1 DEF NoAnswer
<1>3. ASSUME NEW m, m.resp, m.to = w, AnswerIs(w, m) PROVE AnswerIs(w, m)'
  BY <1>1, <1>3 DEF AnswerIs
<1>. QED BY <1>2, <1>3 DEF Kept

\* The PF sends the first message of its list.
LEMMA PfSends ==
  ASSUME TypeInv, NEW w \in Vfs, todo[Pf] # <<>>, out[Pf] = NoMessage,
         out'[Pf] = Head(todo[Pf]).m,
         IF Head(todo[Pf]).wait THEN todo'[Pf] = todo[Pf] ELSE todo'[Pf] = Tail(todo[Pf])
  PROVE  Kept(w)
<1>. DEFINE s == todo[Pf]
            A == Answers(w)
            h == Head(s)
<1>1. s \in Seq(Items) /\ ~NoMessage.resp
  BY Local, Written DEF NoMessage, Message
<1>2. /\ h \in Items
      /\ Free(s, A) => Free(Tail(s), A) /\ h \notin A
      /\ \A m, b : OnlyOne(s, A, m, b) =>
           IF h \in A THEN h.m = m /\ h.wait = b /\ Free(Tail(s), A)
           ELSE OnlyOne(Tail(s), A, m, b)
  BY <1>1, Taking
<1>3. h \in A <=> h.m.resp /\ h.m.to = w
  BY <1>2 DEF Answers
<1>4. ASSUME NoAnswer(w) PROVE NoAnswer(w)'
  <2>1. Free(s, A) /\ Free(Tail(s), A) /\ h \notin A
    BY <1>2, <1>4 DEF NoAnswer
  <2>2. Free(todo'[Pf], A)
    BY <2>1
  <2>. QED BY <1>3, <2>1, <2>2 DEF NoAnswer
<1>5. ASSUME NEW m, m.resp, m.to = w, AnswerIs(w, m) PROVE AnswerIs(w, m)'
  <2>1. OnlyOne(s, A, m, FALSE)
    BY <1>1, <1>5 DEF AnswerIs
  <2>2. CASE h \in A
    <3>1. h.m = m /\ h.wait = FALSE /\ Free(Tail(s), A)
      BY <1>2, <2>1, <2>2
    <3>2. todo'[Pf] = Tail(s) /\ out'[Pf] = m
      BY <3>1
    <3>. QED BY <3>1, <3>2 DEF AnswerIs
  <2>3. CASE h \notin A
    <3>1. OnlyOne(Tail(s), A, m, FALSE)
      BY <1>2, <2>1, <2>3
    <3>2. OnlyOne(todo'[Pf], A, m, FALSE)
      BY <2>1, <3>1
    <3>3. ~(out'[Pf].resp /\ out'[Pf].to = w)
      BY <1>3, <2>3
    <3>. QED BY <3>2, <3>3 DEF AnswerIs
  <2>. QED BY <2>2, <2>3
<1>. QED BY <1>4, <1>5 DEF Kept

\* The PF's request leaves its list.
LEMMA PfMoves ==
  ASSUME TypeInv, NEW w \in Vfs, todo[Pf] # <<>>, Head(todo[Pf]).wait,
         todo'[Pf] = Tail(todo[Pf]), out'[Pf] = out[Pf]
  PROVE  Kept(w)
<1>. DEFINE s == todo[Pf]
            A == Answers(w)
<1>1. s \in Seq(Items)
  BY Local, Written
<1>2. /\ Free(s, A) => Free(Tail(s), A)
      /\ \A m : OnlyOne(s, A, m, FALSE) => OnlyOne(Tail(s), A, m, FALSE)
  BY <1>1, Taking
<1>. QED BY <1>2 DEF Kept, NoAnswer, AnswerIs

\* The PF's message has to be sent again.
LEMMA PfRetries ==
  ASSUME TypeInv, NEW w \in Vfs, todo[Pf] # <<>>, todo[Pf][1].retry > 1,
         todo'[Pf] = [todo[Pf] EXCEPT ![1].retry = @ - 1], out'[Pf] = out[Pf]
  PROVE  Kept(w)
<1>. DEFINE s == todo[Pf]
            A == Answers(w)
<1>1. s \in Seq(Items) /\ A \in SUBSET Items
      /\ \A e, d \in Items : e.m = d.m /\ e.wait = d.wait /\ e \in A => d \in A
  BY Local, Written DEF Answers
<1>2. /\ Free(s, A) => Free(todo'[Pf], A)
      /\ \A m, b : OnlyOne(s, A, m, b) => OnlyOne(todo'[Pf], A, m, b)
  <2>. HIDE DEF A
  <2>. QED BY <1>1, Retrying
<1>. QED BY <1>2 DEF Kept, NoAnswer, AnswerIs

\* The board does not change.
LEMMA BoardStill ==
  ASSUME NEW w \in Vfs, master' = master, hw' = hw
  PROVE  Board(w)' = Board(w)
BY DEF Board, HasEntry

-----------------------------------------------------------------------------
(***************************************************************************)
(* The steps of a caller and of its work queue.                            *)
(***************************************************************************)
\* Every call that waits has come to a request.
LEMMA CallOps ==
  ASSUME NEW d, NEW plan, NEW force, NEW op, CallOf(d, plan, force, op)
  PROVE  op \in Asking
BY DEF CallOf, Asking

\* The request of a call that the PF has not seen, or has answered
LEMMA OpIs ==
  ASSUME NEW w \in Vfs, Untold(w) \/ \E m : Told(w, m)
  PROVE  Op(w) \in Asking /\ Request(w).op = Op(w) /\ Op(w) # "BYE" /\ Op(w) # "PF_BYE" /\ Op(w) # "none"
<1>1. Op(w) \in Asking
  BY CallOps DEF Untold, Told
<1>. QED BY <1>1 DEF Asking, Request, Message

\* An answer that is given is in flight.
LEMMA AnswerGiven ==
  ASSUME NEW w \in Vfs, NEW m, AnswerIs(w, m)', Told(w, m)'
  PROVE  Asked(w)'
<1>1. m \in InFlight'
  BY DEF AnswerIs, InFlight, OnlyOne
<1>. QED BY <1>1 DEF Asked

\* A step of one function, seen from another
LEMMA Elsewhere ==
  ASSUME NEW v \in Funcs, NEW w \in Vfs, w # v, Stage(w), Kept(w), Board(w)' = Board(w),
         vf'[w] = vf[w], call'[w] = call[w], todo'[w] = todo[w], pend'[w] = pend[w],
         work'[w] = work[w], out'[w] = out[w], calls'[w] = calls[w]
  PROVE  Stage(w)'
BY Frame DEF Same, Core

\* A caller looks at the mark, before it sleeps or when its time is up.
LEMMA SleepKeeps ==
  ASSUME TypeInv, NEW f \in Funcs, Sleep(f) \/ TimeOut(f), faults \in Nat, faults' = faults
  PROVE  TypeInv' /\ \A w \in Vfs : Stage(w) => Stage(w)'
<1>. DEFINE x == IF call[f].matched THEN "woken" ELSE "asleep"
<1>1. /\ call[f].pc \in {"queued", "asleep"}
      /\ call' = [call EXCEPT ![f].pc = x]
      /\ UNCHANGED <<master, hw, vf, todo, pend, work, out, calls>>
  <2>1. CASE Sleep(f)
    BY <2>1 DEF Sleep
  <2>2. CASE TimeOut(f)
    <3>1. ~Fault
      BY DEF Fault
    <3>2. call[f].matched
      BY <2>2, <3>1 DEF TimeOut
    <3>. QED BY <2>2, <3>2 DEF TimeOut
  <2>. QED BY <2>1, <2>2
<1>2. call \in [Funcs -> Calls] /\ call[f] \in Calls
  BY DEF TypeInv
<1>3. /\ call'[f] = [call[f] EXCEPT !.pc = x]
      /\ \A g \in Funcs : g # f => call'[g] = call[g]
  BY <1>1, <1>2
<1>4. /\ [call[f] EXCEPT !.pc = x] \in Calls /\ call'[f].pc = x
      /\ call'[f].plan = call[f].plan /\ call'[f].force = call[f].force
      /\ call'[f].matched = call[f].matched /\ call'[f].ans = call[f].ans
  BY <1>2, <1>3 DEF Calls
<1>5. TypeInv'
  <2>1. call' \in [Funcs -> Calls]
    BY <1>1, <1>2, <1>4
  <2>. QED BY <1>1, <2>1 DEF TypeInv
<1>6. ASSUME NEW w \in Vfs, Stage(w) PROVE Stage(w)'
  <2>1. Kept(w) /\ Board(w)' = Board(w) /\ w \in Funcs
    BY <1>1, PfStill, BoardStill, Written
  <2>2. CASE w # f
    <3>1. /\ vf'[w] = vf[w] /\ call'[w] = call[w] /\ todo'[w] = todo[w] /\ pend'[w] = pend[w]
          /\ work'[w] = work[w] /\ out'[w] = out[w] /\ calls'[w] = calls[w]
      BY <1>1, <1>3, <2>1, <2>2
    <3>. QED BY <1>6, <2>1, <2>2, <3>1, Elsewhere
  <2>3. CASE w = f
    <3>1. Core(w)
      BY <1>1, <1>4, <2>1, <2>3 DEF Core
    <3>2. /\ Op(w)' = Op(w) /\ Request(w)' = Request(w)
          /\ Untold(w) => Untold(w)'
      <4>1. SentBye(w) <=> SentBye(w)'
        BY <1>1 DEF SentBye
      <4>. QED BY <3>1, <4>1, CoreKept
    <3>3. \A m : Told(w, m) => Told(w, m)'
      <4>1. \A m : Told(w, m) => out'[w].op \notin Asking \cup {"BYE"}
        BY <1>1 DEF Told
      <4>. QED BY <3>1, <4>1, CoreKept
    <3>4. Asked(w) => Asked(w)'
      BY <1>1, <2>1, <3>1, CoreKept
    <3>5. NoAnswer(w) => NoAnswer(w)'
      BY <2>1 DEF Kept
    <3>6. Entered(w)' = Entered(w)
      BY <3>2 DEF Entered
    <3>7. call[w].pc # "idle"
      BY <1>1, <2>3
    <3>8. ~AtRest(w)
      BY <3>7, Written DEF AtRest
    <3>9. Matched(w) => Matched(w)'
      BY <1>1, <1>4, <2>3, <3>2, <3>3, <3>5, <3>6 DEF Matched
    <3>10. Waits(w) => Waits(w)'
      BY <1>4, <2>3, <3>2 DEF Waits
    <3>11. Listed(w) => Listed(w)'
      BY <1>1, <3>2, <3>5, <3>10 DEF Listed
    <3>12. Sent(w) => Sent(w)'
      BY <1>1, <3>2, <3>4, <3>6, <3>10 DEF Sent
    <3>13. Pending(w) => Pending(w)'
      BY <1>1, <3>2, <3>4, <3>6, <3>10 DEF Pending
    <3>14. Copied(w) => Copied(w)'
      BY <1>1, <1>4, <2>3, <3>3, <3>5 DEF Copied
    <3>. QED BY <1>6, <3>8, <3>9, <3>11, <3>12, <3>13, <3>14 DEF Stage
  <2>. QED BY <2>2, <2>3
<1>. QED BY <1>5, <1>6

LEMMA TxSendKeeps ==
  ASSUME TypeInv, NEW f \in Funcs, TxSend(f)
  PROVE  TypeInv' /\ \A w \in Vfs : Stage(w) => Stage(w)'
<1>. DEFINE s == todo[f]
            h == Head(s)
            sent == [at |-> "sent", stale |-> FALSE, m |-> h.m]
<1>1. /\ work[f].at = "idle" /\ s # <<>> /\ out[f] = NoMessage
      /\ out' = [out EXCEPT ![f] = h.m]
      /\ IF h.wait THEN work' = [work EXCEPT ![f] = sent] /\ todo' = todo
         ELSE todo' = [todo EXCEPT ![f] = Tail(@)] /\ work' = work
      /\ UNCHANGED <<master, hw, vf, call, pend, calls>>
  BY DEF TxSend, qdma_mbox_send
<1>2. s \in Seq(Items) /\ h \in Items /\ h.m \in Messages /\ h.wait \in BOOLEAN
  <2>1. s \in Seq(Items) /\ h \in Items
    BY <1>1, Local, Taking
  <2>. HIDE DEF h
  <2>. QED BY <2>1 DEF Items
<1>3. todo \in [Funcs -> Seq(Items)] /\ work \in [Funcs -> Works] /\ out \in [Funcs -> Messages]
  BY DEF TypeInv
<1>4. /\ todo' \in [Funcs -> Seq(Items)]
      /\ todo'[f] = IF h.wait THEN s ELSE Tail(s)
      /\ \A g \in Funcs : g # f => todo'[g] = todo[g]
  BY <1>1, <1>3, Dequeued
<1>5. /\ work' \in [Funcs -> Works]
      /\ work'[f] = IF h.wait THEN sent ELSE work[f]
      /\ \A g \in Funcs : g # f => work'[g] = work[g]
  <2>1. sent \in Works
    BY <1>2 DEF Works
  <2>. HIDE DEF h
  <2>. QED BY <1>1, <1>3, <2>1
<1>6. /\ out' \in [Funcs -> Messages] /\ out'[f] = h.m
      /\ \A g \in Funcs : g # f => out'[g] = out[g]
  BY <1>1, <1>2, <1>3
<1>7. TypeInv'
  BY <1>1, <1>4, <1>5, <1>6 DEF TypeInv
<1>8. ASSUME NEW w \in Vfs, Stage(w) PROVE Stage(w)'
  <2>1. w \in Funcs /\ Pf \in Funcs /\ w # Pf /\ Board(w)' = Board(w)
    BY <1>1, BoardStill, Written
  <2>2. Kept(w)
    <3>1. CASE f = Pf
      BY <1>1, <1>4, <1>6, <3>1, PfSends
    <3>2. CASE f # Pf
      BY <1>4, <1>6, <2>1, <3>2, PfStill
    <3>. QED BY <3>1, <3>2
  <2>3. CASE w # f
    BY <1>1, <1>4, <1>5, <1>6, <1>8, <2>1, <2>2, <2>3, Elsewhere
  <2>4. CASE w = f
    <3>. HIDE DEF s, h, sent
    <3>1. Core(w)
      BY <1>1, <2>1 DEF Core
    <3>2. /\ Op(w)' = Op(w) /\ Request(w)' = Request(w)
          /\ (NoAnswer(w) => NoAnswer(w)') /\ calls'[w] = calls[w]
      BY <1>1, <2>2, <3>1, CoreKept DEF Kept
    <3>3. /\ ~SentBye(w)
          /\ out'[w].op # "BYE" /\ Untold(w) => Untold(w)'
      BY <1>1, <2>4, <3>1, CoreKept, Written DEF SentBye
    <3>4. /\ h \in OwnItems <=> (h.wait \/ h.m.op # "PF_BYE")
          /\ Free(s, OwnItems) => Free(Tail(s), OwnItems) /\ h \notin OwnItems
          /\ \A m, b : OnlyOne(s, OwnItems, m, b) =>
               IF h \in OwnItems THEN h.m = m /\ h.wait = b /\ Free(Tail(s), OwnItems)
               ELSE OnlyOne(Tail(s), OwnItems, m, b)
      BY <1>1, <1>2, Taking DEF OwnItems, h
    <3>5. h \notin OwnItems => /\ todo'[w] = Tail(s) /\ work'[w] = work[w]
                               /\ out'[w].op = "PF_BYE" /\ out'[w].op \notin Asking \cup {"BYE"}
      BY <1>4, <1>5, <1>6, <2>4, <3>4 DEF Asking
    <3>6. h \notin OwnItems => \A m : Told(w, m) => Told(w, m)'
      BY <3>1, <3>5, CoreKept
    <3>7. s = todo[w] /\ ~Sent(w) /\ ~Matched(w)
      <4>1. s = todo[w] /\ work[w].at = "idle"
        BY <1>1, <2>4 DEF s
      <4>2. Entered(w).at = "sent"
        BY DEF Entered
      <4>3. ~Sent(w)
        BY ONLY <4>1, <4>2 DEF Sent
      <4>4. ~Matched(w)
        BY ONLY <4>1 DEF Matched
      <4>. QED BY ONLY <4>1, <4>3, <4>4
    <3>8. CASE AtRest(w)
      <4>1. /\ call'[w] = Idle /\ work[w].at = "idle" /\ pend'[w] = <<>>
            /\ NoAnswer(w)' /\ vf'[w] = vf[w]
        BY <1>1, <3>2, <3>8 DEF AtRest
      <4>2. Farewell(w, calls[w])' = Farewell(w, calls[w])
        BY <3>2 DEF Farewell
      <4>3. CASE Free(s, OwnItems) /\ Rest(vf[w], Board(w), FALSE, SentBye(w))
        <5>1. /\ Free(todo'[w], OwnItems) /\ work'[w] = work[w] /\ out'[w].op \notin Asking
              /\ SentBye(w)' = FALSE /\ SentBye(w) = FALSE
          BY <3>3, <3>4, <3>5, <4>3 DEF SentBye
        <5>2. AtRest(w)'
          BY <2>1, <4>1, <4>3, <5>1 DEF AtRest
        <5>. QED BY <5>2 DEF Stage
      <4>4. CASE OnlyOne(s, OwnItems, Farewell(w, calls[w]), FALSE) /\ Rest(vf[w], Board(w), TRUE, SentBye(w))
        <5>1. CASE h \in OwnItems
          <6>1. h.m = Farewell(w, calls[w]) /\ ~h.wait /\ Free(Tail(s), OwnItems)
            BY <3>4, <4>4, <5>1
          <6>2. /\ todo'[w] = Tail(s) /\ work'[w] = work[w] /\ out'[w].op = "BYE"
            BY <1>4, <1>5, <1>6, <2>4, <6>1 DEF Farewell, Message
          <6>3. SentBye(w)' = TRUE /\ SentBye(w) = FALSE /\ out'[w].op \notin Asking
            BY <3>3, <6>2 DEF SentBye, Asking
          <6>4. Rest(vf[w], Board(w), FALSE, TRUE)
            BY <4>4, <6>3 DEF Rest
          <6>5. AtRest(w)'
            BY <2>1, <4>1, <6>1, <6>2, <6>3, <6>4 DEF AtRest
          <6>. QED BY <6>5 DEF Stage
        <5>2. CASE h \notin OwnItems
          <6>1. OnlyOne(todo'[w], OwnItems, Farewell(w, calls[w]), FALSE)
            BY <3>4, <3>5, <4>4, <5>2
          <6>2. SentBye(w)' = FALSE /\ SentBye(w) = FALSE
            BY <3>3, <3>5, <5>2 DEF SentBye
          <6>3. AtRest(w)'
            BY <2>1, <3>5, <4>1, <4>2, <4>4, <5>2, <6>1, <6>2 DEF AtRest
          <6>. QED BY <6>3 DEF Stage
        <5>. QED BY <5>1, <5>2
      <4>. QED BY <3>7, <3>8, <4>3, <4>4 DEF AtRest
    <3>9. CASE Listed(w)
      <4>1. /\ Waits(w)' /\ NoAnswer(w)' /\ pend'[w] = <<>> /\ OnlyOne(s, OwnItems, Request(w), TRUE)
            /\ Untold(w) /\ work[w].at = "idle"
        BY <1>1, <3>2, <3>7, <3>9 DEF Listed, Waits
      <4>2. CASE h \in OwnItems
        <5>1. h.m = Request(w) /\ h.wait = TRUE
          BY <3>4, <4>1, <4>2
        <5>2. /\ out'[w] = Request(w)' /\ todo'[w] = s /\ work'[w] = sent
          BY <1>4, <1>5, <1>6, <2>4, <3>2, <5>1
        <5>3. work'[w] = Entered(w)'
          BY <3>2, <5>1, <5>2 DEF Entered, sent
        <5>4. out'[w].op # "BYE"
          BY <3>2, <4>1, <5>2, OpIs
        <5>5. Asked(w)'
          BY <3>3, <4>1, <5>2, <5>4 DEF Asked
        <5>6. Sent(w)'
          BY <3>2, <4>1, <5>1, <5>2, <5>3, <5>5 DEF Sent, h
        <5>. QED BY <5>6 DEF Stage
      <4>3. CASE h \notin OwnItems
        <5>1. OnlyOne(todo'[w], OwnItems, Request(w)', TRUE)
          BY <3>2, <3>4, <3>5, <4>1, <4>3
        <5>2. Untold(w)' /\ out'[w].op \notin Asking
          BY <3>3, <3>5, <4>1, <4>3
        <5>3. Listed(w)'
          BY <3>5, <4>1, <4>3, <5>1, <5>2 DEF Listed
        <5>. QED BY <5>3 DEF Stage
      <4>. QED BY <4>2, <4>3
    <3>10. CASE Pending(w)
      <4>1. /\ Waits(w)' /\ Entered(w)' = Entered(w) /\ pend'[w] = <<Entered(w)>>
            /\ h \notin OwnItems /\ Free(todo'[w], OwnItems) /\ work'[w].at = "idle"
        BY <1>1, <3>2, <3>4, <3>5, <3>7, <3>10 DEF Pending, Waits, Entered
      <4>2. ~(out[w] = Request(w) /\ Untold(w))
        BY <1>1, <2>4, OpIs, Written
      <4>3. PICK m : AnswerIs(w, m) /\ Told(w, m)
        BY <3>10, <4>2 DEF Pending, Asked
      <4>4. AnswerIs(w, m)' /\ Told(w, m)'
        BY <2>2, <3>6, <4>1, <4>3 DEF Kept, Told, Fits
      <4>5. Asked(w)'
        BY <4>4, AnswerGiven
      <4>6. Pending(w)'
        BY <4>1, <4>5 DEF Pending
      <4>. QED BY <4>6 DEF Stage
    <3>11. CASE Copied(w)
      <4>1. /\ h \notin OwnItems /\ Free(todo'[w], OwnItems) /\ work'[w].at = "idle"
            /\ pend'[w] = <<>> /\ call'[w] = call[w] /\ Told(w, call[w].ans) /\ NoAnswer(w)'
        BY <1>1, <3>2, <3>4, <3>5, <3>7, <3>11 DEF Copied
      <4>2. Told(w, call[w].ans)'
        BY <3>6, <4>1
      <4>3. Copied(w)'
        BY <3>11, <4>1, <4>2 DEF Copied
      <4>. QED BY <4>3 DEF Stage
    <3>. QED BY <1>8, <3>7, <3>8, <3>9, <3>10, <3>11 DEF Stage
  <2>. QED BY <2>3, <2>4
<1>. QED BY <1>7, <1>8

\* The work queue of a caller moves the request when it has been sent.
LEMMA TxMoveKeeps ==
  ASSUME TypeInv, TriggerInv, \A w \in Vfs : Stage(w), NEW f \in Funcs, TxMove(f)
  PROVE  TypeInv' /\ \A w \in Vfs : Stage(w)'
<1>. DEFINE s == todo[f]
<1>1. /\ work[f].at = "sent" /\ pend' = [pend EXCEPT ![f] = Append(@, work[f])]
      /\ todo' = IF work[f].stale THEN todo ELSE [todo EXCEPT ![f] = Tail(@)]
      /\ work' = [work EXCEPT ![f] = IdleWork]
      /\ UNCHANGED <<master, hw, vf, call, out, calls>>
  BY DEF TxMove
<1>2. f \in Vfs => Sent(f)
  <2>. SUFFICES ASSUME f \in Vfs PROVE Sent(f)
    OBVIOUS
  <2>1. Stage(f)
    OBVIOUS
  <2>2. ~AtRest(f) /\ ~Listed(f)
    BY <1>1 DEF AtRest, Listed
  <2>3. ~Pending(f) /\ ~Matched(f) /\ ~Copied(f)
    BY <1>1 DEF Pending, Matched, Copied
  <2>. QED BY <2>1, <2>2, <2>3 DEF Stage
<1>3. ~work[f].stale /\ s # <<>> /\ Head(s).wait
  <2>1. CASE f = Pf
    BY <1>1, <2>1 DEF TriggerInv
  <2>2. CASE f \in Vfs
    <3>1. work[f] = Entered(f) /\ Head(s).wait /\ OnlyOne(s, OwnItems, Request(f), TRUE)
      BY <1>2, <2>2 DEF Sent
    <3>2. ~Entered(f).stale
      BY DEF Entered
    <3>3. s # <<>>
      BY <3>1 DEF OnlyOne
    <3>. QED BY <3>1, <3>2, <3>3
  <2>. QED BY <2>1, <2>2 DEF Funcs
<1>4. work \in [Funcs -> Works] /\ DOMAIN pend = Funcs
  BY DEF TypeInv
<1>5. /\ todo' \in [Funcs -> Seq(Items)] /\ todo'[f] = Tail(s)
      /\ \A g \in Funcs : g # f => todo'[g] = todo[g]
  BY <1>1, <1>3, Dequeued
<1>6. /\ work' \in [Funcs -> Works] /\ work'[f] = IdleWork
      /\ \A g \in Funcs : g # f => work'[g] = work[g]
  BY <1>1, <1>4, Written
<1>7. /\ DOMAIN pend' = Funcs /\ pend'[f] = Append(pend[f], work[f])
      /\ \A g \in Funcs : g # f => pend'[g] = pend[g]
  BY <1>1, <1>4
<1>8. TypeInv'
  BY <1>1, <1>5, <1>6, <1>7 DEF TypeInv
<1>9. ASSUME NEW w \in Vfs PROVE Stage(w)'
  <2>1. w \in Funcs /\ Pf \in Funcs /\ w # Pf /\ Board(w)' = Board(w) /\ Stage(w)
    BY <1>1, BoardStill, Written
  <2>2. Kept(w)
    <3>1. CASE f = Pf
      BY <1>1, <1>3, <1>5, <3>1, PfMoves
    <3>2. CASE f # Pf
      BY <1>1, <1>5, <2>1, <3>2, PfStill
    <3>. QED BY <3>1, <3>2
  <2>3. CASE w # f
    BY <1>1, <1>5, <1>6, <1>7, <2>1, <2>2, <2>3, Elsewhere
  <2>4. CASE w = f
    <3>1. Sent(w) /\ s \in Seq(Items) /\ s = todo[w] /\ Head(s) \in Items
      BY <1>2, <1>3, <2>4, Local, Taking
    <3>2. Free(Tail(s), OwnItems)
      <4>1. Head(s) \in OwnItems
        BY <1>3, <3>1 DEF OwnItems
      <4>2. OnlyOne(s, OwnItems, Request(w), TRUE)
        BY <3>1 DEF Sent
      <4>. QED BY <1>3, <3>1, <4>1, <4>2, Taking
    <3>3. /\ Waits(w) /\ work[w] = Entered(w) /\ pend[w] = <<>> /\ Asked(w)
      BY <3>1 DEF Sent
    <3>. HIDE DEF s
    <3>4. pend'[w] = <<Entered(w)>>
      BY <1>7, <2>4, <3>3
    <3>5. Core(w)
      BY <1>1, <2>1 DEF Core
    <3>6. Asked(w)' /\ Request(w)' = Request(w)
      BY <1>1, <2>2, <3>3, <3>5, CoreKept
    <3>7. Entered(w)' = Entered(w) /\ Waits(w)'
      BY <1>1, <3>3, <3>6 DEF Entered, Waits
    <3>8. work'[w].at = "idle" /\ Free(todo'[w], OwnItems)
      BY <1>5, <1>6, <2>4, <3>2, Written
    <3>9. Pending(w)'
      BY <3>4, <3>6, <3>7, <3>8 DEF Pending
    <3>. QED BY <3>9 DEF Stage
  <2>. QED BY <2>3, <2>4
<1>. QED BY <1>8, <1>9

\* A message that cannot be sent yet is tried again.
LEMMA TxBusyKeeps ==
  ASSUME TypeInv, NEW f \in Funcs, TxBusy(f), faults = 0, faults' = 0
  PROVE  TypeInv' /\ \A w \in Vfs : Stage(w) => Stage(w)'
<1>. DEFINE s == todo[f]
            t == [s EXCEPT ![1].retry = @ - 1]
<1>1. /\ s # <<>> /\ Head(s).retry > 1 /\ todo' = [todo EXCEPT ![f][1].retry = @ - 1]
      /\ UNCHANGED <<master, hw, vf, call, pend, work, out, calls>>
  BY DEF TxBusy, Fault
<1>2. s \in Seq(Items) /\ Head(s) = s[1] /\ todo \in [Funcs -> Seq(Items)]
  BY <1>1, Local, Taking DEF TypeInv
<1>3. OwnItems \in SUBSET Items
      /\ \A e, d \in Items : e.m = d.m /\ e.wait = d.wait /\ e \in OwnItems => d \in OwnItems
  BY DEF OwnItems
<1>4. /\ t \in Seq(Items)
      /\ Free(s, OwnItems) => Free(t, OwnItems)
      /\ \A m, b : OnlyOne(s, OwnItems, m, b) => OnlyOne(t, OwnItems, m, b)
      /\ Head(t).wait = Head(s).wait
  <2>. HIDE DEF s
  <2>. QED BY <1>1, <1>2, <1>3, Retrying
<1>5. todo' = [todo EXCEPT ![f] = t]
  BY <1>1, <1>2
<1>. HIDE DEF t
<1>6. /\ todo' \in [Funcs -> Seq(Items)] /\ todo'[f] = t
      /\ \A g \in Funcs : g # f => todo'[g] = todo[g]
  BY <1>2, <1>4, <1>5
<1>7. TypeInv'
  BY <1>1, <1>6 DEF TypeInv
<1>8. ASSUME NEW w \in Vfs, Stage(w) PROVE Stage(w)'
  <2>1. w \in Funcs /\ Pf \in Funcs /\ w # Pf /\ Board(w)' = Board(w)
    BY <1>1, BoardStill, Written
  <2>2. Kept(w)
    <3>1. CASE f = Pf
      <4>1. todo'[Pf] = [todo[Pf] EXCEPT ![1].retry = @ - 1]
        BY <1>6, <3>1 DEF t
      <4>. QED BY <1>1, <1>2, <3>1, <4>1, PfRetries
    <3>2. CASE f # Pf
      BY <1>1, <1>6, <2>1, <3>2, PfStill
    <3>. QED BY <3>1, <3>2
  <2>3. CASE w # f
    BY <1>1, <1>6, <1>8, <2>1, <2>2, <2>3, Elsewhere
  <2>4. CASE w = f
    <3>1. Core(w) /\ s = todo[w] /\ todo'[w] = t
      BY <1>1, <1>6, <2>1, <2>4 DEF Core
    <3>. HIDE DEF s
    <3>2. /\ Op(w)' = Op(w) /\ Request(w)' = Request(w)
          /\ (NoAnswer(w) => NoAnswer(w)') /\ calls'[w] = calls[w]
          /\ (Asked(w) => Asked(w)')
      BY <1>1, <2>2, <3>1, CoreKept DEF Kept
    <3>3. /\ Untold(w) => Untold(w)'
          /\ \A m : Told(w, m) => Told(w, m)'
          /\ SentBye(w)' = SentBye(w)
      <4>1. \A m : Told(w, m) => out'[w].op \notin Asking \cup {"BYE"}
        BY <1>1 DEF Told
      <4>2. SentBye(w) <=> SentBye(w)'
        BY <1>1 DEF SentBye
      <4>. QED BY <1>1, <3>1, <4>1, <4>2, CoreKept DEF SentBye
    <3>4. Entered(w)' = Entered(w) /\ Farewell(w, calls[w])' = Farewell(w, calls[w])
          /\ (Waits(w) => Waits(w)')
      BY <1>1, <3>2 DEF Entered, Farewell, Waits
    <3>5. AtRest(w) => AtRest(w)'
      BY <1>1, <1>4, <2>1, <3>1, <3>2, <3>3, <3>4 DEF AtRest
    <3>6. Listed(w) => Listed(w)'
      BY <1>1, <1>4, <3>1, <3>2, <3>3, <3>4 DEF Listed
    <3>7. Sent(w) => Sent(w)'
      BY <1>1, <1>4, <3>1, <3>2, <3>4 DEF Sent
    <3>8. Pending(w) => Pending(w)'
      BY <1>1, <1>4, <3>1, <3>2, <3>4 DEF Pending
    <3>9. Matched(w) => Matched(w)'
      BY <1>1, <1>4, <3>1, <3>2, <3>3, <3>4 DEF Matched
    <3>10. Copied(w) => Copied(w)'
      BY <1>1, <1>4, <3>1, <3>2, <3>3 DEF Copied
    <3>. QED BY <1>8, <3>5, <3>6, <3>7, <3>8, <3>9, <3>10 DEF Stage
  <2>. QED BY <2>3, <2>4
<1>. QED BY <1>7, <1>8

\* A device that is about to be reset is otherwise the same.
LEMMA AboutToReset ==
  ASSUME NEW d \in Devices, d.st # "down", NEW e, e = [d EXCEPT !.bye = TRUE]
  PROVE  /\ e \in Devices
         /\ \A b, x, y : Rest(d, b, x, y) => Rest(e, b, x, y)
         /\ \A p, x, op : CallOf(d, p, x, op) => CallOf(e, p, x, op)
         /\ \A b, op, x : Before(d, b, op, x) => Before(e, b, op, x)
         /\ \A b, op, m : After(d, b, op, m) => After(e, b, op, m)
<1>1. /\ e \in Devices /\ e.st = d.st /\ e.chunk = d.chunk /\ e.q = d.q
  BY DEF Devices
<1>2. d # DownVf
  BY DEF DownVf
<1>3. /\ OneQueue(e) = OneQueue(d) /\ One(e) = One(d)
      /\ \A b : Knows(d, b) => Knows(e, b)
      /\ \A b : Settled(d, b) => Settled(e, b)
  BY <1>1 DEF OneQueue, One, Knows, Settled
<1>. HIDE DEF Devices
<1>4. \A b, x, y : Rest(d, b, x, y) => Rest(e, b, x, y)
  BY ONLY <1>1, <1>2, <1>3 DEF Rest
<1>5. \A p, x, op : CallOf(d, p, x, op) => CallOf(e, p, x, op)
  BY ONLY <1>1, <1>3 DEF CallOf
<1>6. ASSUME NEW b, NEW op, NEW x, Before(d, b, op, x) PROVE Before(e, b, op, x)
  BY ONLY <1>3, <1>6 DEF Before
<1>7. ASSUME NEW b, NEW op, NEW m, After(d, b, op, m) PROVE After(e, b, op, m)
  BY ONLY <1>1, <1>3, <1>7 DEF After
<1>. QED BY <1>1, <1>4, <1>5, <1>6, <1>7

\* The one request that waits is answered, or is not.
LEMMA AnsweredIs ==
  ASSUME NEW v \in Vfs, NEW m
  PROVE  /\ pend[v] = <<>> => Answered(v, m) = {}
         /\ pend[v] = <<Entered(v)>> =>
              /\ m.resp /\ m.op = Op(v) => Answered(v, m) = {1}
              /\ ~(m.resp /\ m.op = Op(v)) => Answered(v, m) = {}
<1>1. pend[v] = <<>> => Answered(v, m) = {}
  BY DEF Answered
<1>2. ASSUME pend[v] = <<Entered(v)>>
      PROVE  /\ m.resp /\ m.op = Op(v) => Answered(v, m) = {1}
             /\ ~(m.resp /\ m.op = Op(v)) => Answered(v, m) = {}
  <2>1. DOMAIN pend[v] = {1} /\ pend[v][1] = Entered(v)
    BY <1>2
  <2>2. Entered(v).m.op = Op(v)
    BY DEF Entered, Request, Message
  <2>3. \A i \in DOMAIN pend[v] : i = 1 /\ pend[v][i].m.op = Op(v)
    BY <2>1, <2>2
  <2>4. Answered(v, m) = {i \in DOMAIN pend[v] : m.resp /\ m.op = pend[v][i].m.op}
    BY DEF Answered, qdma_mbox_is_msg_response
  <2>. QED BY ONLY <2>1, <2>3, <2>4
<1>. QED BY <1>1, <1>2

LEMMA MinOne == Min({1}) = 1
BY MinIs

LEMMA VfReceiveKeeps ==
  ASSUME TypeInv, NEW v \in Vfs, Stage(v), VfReceive(v)
  PROVE  TypeInv' /\ \A w \in Vfs : Stage(w) => Stage(w)'
<1>. DEFINE m == out[Pf]
            k == [at |-> "matched", m |-> m, stale |-> pend[v][1].stale]
            r == qdma_mbox_vf_rcv_msg_handler(m)
            d == [vf[v] EXCEPT !.bye = TRUE]
            Hit == /\ Answered(v, m) # {} /\ UNCHANGED <<todo, vf>>
                   /\ work' = [work EXCEPT ![v] = [at |-> "matched", m |-> m,
                                                   stale |-> pend[v][Min(Answered(v, m))].stale]]
                   /\ call' = IF pend[v][Min(Answered(v, m))].stale THEN call
                              ELSE [call EXCEPT ![v].matched = TRUE]
            Asks == /\ Answered(v, m) = {} /\ pend[v] = <<>> /\ m.op = "PF_BYE"
                    /\ todo' = [todo EXCEPT ![v] = Append(@, Item(r, FALSE))]
                    /\ vf' = [vf EXCEPT ![v] = d] /\ UNCHANGED <<call, work>>
            Drops == Answered(v, m) = {} /\ UNCHANGED <<todo, vf, call, work>>
<1>1. /\ work[v].at = "idle" /\ vf[v].st # "down" /\ m.to = v
      /\ out' = [out EXCEPT ![Pf] = NoMessage]
      /\ Hit \/ Asks \/ Drops
      /\ UNCHANGED <<master, hw, pend, calls>>
  BY DEF VfReceive, qdma_mbox_rcv
<1>2. /\ v \in Funcs /\ Pf \in Funcs /\ v # Pf /\ m \in Messages
      /\ vf[v] \in Devices /\ call[v] \in Calls /\ todo[v] \in Seq(Items)
  BY Written, Local
<1>3. out \in [Funcs -> Messages] /\ work \in [Funcs -> Works] /\ call \in [Funcs -> Calls]
      /\ vf \in [Vfs -> Devices] /\ todo \in [Funcs -> Seq(Items)]
  BY DEF TypeInv
<1>4. /\ out' \in [Funcs -> Messages] /\ out'[Pf] = NoMessage
      /\ \A g \in Funcs : g # Pf => out'[g] = out[g]
  BY <1>1, <1>3, Written
<1>5. ASSUME NEW w \in Vfs, w # v, Stage(w),
             vf'[w] = vf[w], call'[w] = call[w], todo'[w] = todo[w], todo'[Pf] = todo[Pf],
             work'[w] = work[w]
      PROVE  Stage(w)'
  <2>1. Kept(w) /\ w \in Funcs /\ w # Pf /\ Board(w)' = Board(w)
    BY <1>1, <1>4, <1>5, PfReads, BoardStill, Written
  <2>. QED BY <1>1, <1>4, <1>5, <2>1, Elsewhere
<1>6. NoAnswer(v) => NoAnswer(v)' /\ ~m.resp
  <2>1. (todo'[Pf] = todo[Pf] /\ NoAnswer(v)) => NoAnswer(v)'
    BY <1>4, Written DEF NoAnswer
  <2>2. todo'[Pf] = todo[Pf]
    BY <1>1, <1>2, <1>3
  <2>. QED BY <1>1, <2>1, <2>2 DEF NoAnswer
<1>7. Board(v)' = Board(v) /\ out'[v] = out[v] /\ pend'[v] = pend[v] /\ calls'[v] = calls[v]
  BY <1>1, <1>2, <1>4, BoardStill
<1>8. ~Sent(v) /\ ~Matched(v)
  <2>1. Entered(v).at = "sent"
    BY DEF Entered
  <2>. QED BY <1>1, <2>1 DEF Sent, Matched
<1>. HIDE DEF Hit, Asks, Drops
<1>9. CASE Hit
  <2>1. Pending(v)
    <3>1. pend[v] # <<>>
      BY <1>9, AnsweredIs DEF Hit
    <3>. QED BY <1>8, <3>1 DEF Stage, AtRest, Listed, Copied
  <2>2. pend[v] = <<Entered(v)>> /\ Waits(v) /\ Free(todo[v], OwnItems) /\ Asked(v)
    BY <2>1 DEF Pending
  <2>3. m.resp /\ m.op = Op(v) /\ Answered(v, m) = {1}
    BY <1>9, <2>2, AnsweredIs DEF Hit
  <2>4. pend[v][1].stale = FALSE
    <3>1. Entered(v).stale = FALSE
      BY DEF Entered
    <3>. QED BY ONLY <2>2, <3>1
  <2>5. /\ work' = [work EXCEPT ![v] = k] /\ call' = [call EXCEPT ![v].matched = TRUE]
        /\ UNCHANGED <<todo, vf>>
    BY <1>9, <2>3, <2>4, MinOne DEF Hit
  <2>6. k \in Works /\ [call[v] EXCEPT !.matched = TRUE] \in Calls
    BY <1>2, <2>4 DEF Works, Calls
  <2>7. /\ work' \in [Funcs -> Works] /\ work'[v] = k
        /\ \A g \in Funcs : g # v => work'[g] = work[g]
    BY <1>2, <1>3, <2>5, <2>6
  <2>8. /\ call' \in [Funcs -> Calls] /\ call'[v] = [call[v] EXCEPT !.matched = TRUE]
        /\ \A g \in Funcs : g # v => call'[g] = call[g]
    BY <1>2, <1>3, <2>5, <2>6
  <2>9. TypeInv'
    BY <1>1, <1>4, <2>5, <2>7, <2>8 DEF TypeInv
  <2>10. ASSUME NEW w \in Vfs, w # v, Stage(w) PROVE Stage(w)'
    BY <1>5, <2>5, <2>7, <2>8, <2>10, Written
  <2>11. Stage(v)'
    <3>1. /\ call'[v].pc = call[v].pc /\ call'[v].matched = TRUE
          /\ call'[v].plan = call[v].plan /\ call'[v].force = call[v].force
          /\ call'[v].ans = call[v].ans
      BY <1>2, <2>8 DEF Calls
    <3>2. Core(v)
      BY <1>7, <2>5, <3>1 DEF Core
    <3>3. ~NoAnswer(v)
      BY <1>1, <2>3 DEF NoAnswer
    <3>4. PICK a \in InFlight : AnswerIs(v, a) /\ Told(v, a)
      BY <2>2, <3>3 DEF Asked
    <3>5. a = m /\ Free(todo[Pf], Answers(v)) /\ Told(v, m)
      BY <1>1, <2>3, <3>4 DEF AnswerIs
    <3>6. NoAnswer(v)'
      BY <1>4, <2>5, <3>5, Written DEF NoAnswer
    <3>7. Told(v, a)'
      <4>1. out'[v].op \notin Asking \cup {"BYE"}
        BY <1>7, <3>5 DEF Told
      <4>. QED BY <3>2, <3>4, <4>1, CoreKept
    <3>8. /\ call'[v].pc \in {"queued", "asleep"} /\ call'[v].matched
          /\ call'[v].ans = Request(v)' /\ Entered(v)' = Entered(v)
      BY <2>2, <3>1, <3>2, CoreKept DEF Waits, Entered
    <3>9. /\ work'[v].at = "matched" /\ ~work'[v].stale /\ work'[v].m = a
          /\ pend'[v] = <<Entered(v)>> /\ Free(todo'[v], OwnItems)
      BY <1>7, <2>2, <2>4, <2>5, <2>7, <3>5
    <3>10. Matched(v)'
      BY <3>6, <3>7, <3>8, <3>9 DEF Matched
    <3>. QED BY <3>10 DEF Stage
  <2>. QED BY <2>9, <2>10, <2>11
<1>10. CASE Asks
  <2>1. m.op = "PF_BYE" /\ pend[v] = <<>> /\ vf[v].st # "down" /\ UNCHANGED <<call, work>>
    BY <1>1, <1>10 DEF Asks
  <2>2. r \in Messages /\ r.op = "PF_BYE"
    <3>1. "PF_BYE" \in Ops /\ TRUE \in BOOLEAN /\ m.to \in Funcs \cup {NoVf} /\ m.from \in Funcs \cup {NoVf}
      BY <1>2 DEF Ops, Messages
    <3>2. r = Message("PF_BYE", TRUE, m.to, m.from, TRUE, NoChunk, 0)
      BY <2>1 DEF qdma_mbox_vf_rcv_msg_handler
    <3>3. r.op = "PF_BYE"
      BY <3>2 DEF Message
    <3>. HIDE DEF m
    <3>4. Message("PF_BYE", TRUE, m.to, m.from, TRUE, NoChunk, 0) \in Messages
      BY ONLY <3>1, Written
    <3>. QED BY ONLY <3>2, <3>3, <3>4
  <2>. DEFINE e == Item(r, FALSE)
  <2>3. e \in Items /\ e.wait = FALSE /\ e.m.op = "PF_BYE" /\ e \notin OwnItems
    <3>1. e \in Items /\ e.wait = FALSE /\ e.m = r
      <4>. HIDE DEF r
      <4>. QED BY <2>2, Written
    <3>. QED BY <2>2, <3>1 DEF OwnItems
  <2>4. todo' = [todo EXCEPT ![v] = Append(@, e)] /\ vf' = [vf EXCEPT ![v] = d]
    BY <1>10 DEF Asks
  <2>. HIDE DEF e, r
  <2>5. /\ todo' \in [Funcs -> Seq(Items)] /\ todo'[v] = Append(todo[v], e)
        /\ \A g \in Funcs : g # v => todo'[g] = todo[g]
    BY <1>2, <2>3, <2>4, Queued
  <2>6. /\ d \in Devices
        /\ \A b, x, y : Rest(vf[v], b, x, y) => Rest(d, b, x, y)
        /\ \A p, x, op : CallOf(vf[v], p, x, op) => CallOf(d, p, x, op)
        /\ \A b, op, x : Before(vf[v], b, op, x) => Before(d, b, op, x)
        /\ \A b, op, x : After(vf[v], b, op, x) => After(d, b, op, x)
    BY <1>2, <2>1, AboutToReset
  <2>. HIDE DEF d
  <2>7. vf' \in [Vfs -> Devices] /\ vf'[v] = d /\ \A g \in Vfs : g # v => vf'[g] = vf[g]
    BY <1>3, <2>4, <2>6
  <2>8. TypeInv'
    BY <1>1, <1>4, <2>1, <2>5, <2>7 DEF TypeInv
  <2>9. ASSUME NEW w \in Vfs, w # v, Stage(w) PROVE Stage(w)'
    BY <1>2, <1>5, <2>1, <2>5, <2>7, <2>9, Written
  <2>10. /\ Free(todo[v], OwnItems) => Free(todo'[v], OwnItems)
         /\ \A x, b : OnlyOne(todo[v], OwnItems, x, b) => OnlyOne(todo'[v], OwnItems, x, b)
    BY <1>2, <2>3, <2>5, Appending
  <2>11. /\ Op(v)' = Op(v) /\ Request(v)' = Request(v) /\ SentBye(v)' = SentBye(v)
         /\ Farewell(v, calls[v])' = Farewell(v, calls[v]) /\ call'[v] = call[v]
    BY <1>7, <2>1 DEF Op, Request, SentBye, Farewell
  <2>12. Untold(v) => Untold(v)'
    BY <1>7, <2>6, <2>7, <2>11 DEF Untold
  <2>13. ASSUME NEW a, Told(v, a) PROVE Told(v, a)'
    <3>1. Fits(v, a)'
      BY <1>7, <2>11, <2>13 DEF Told, Fits
    <3>. QED BY <1>7, <2>6, <2>7, <2>11, <2>13, <3>1 DEF Told
  <2>14. AtRest(v) => AtRest(v)'
    BY <1>6, <1>7, <2>1, <2>6, <2>7, <2>10, <2>11 DEF AtRest
  <2>15. Listed(v) => Listed(v)'
    BY <1>6, <1>7, <2>1, <2>10, <2>11, <2>12 DEF Listed, Waits
  <2>16. Copied(v) => Copied(v)'
    BY <1>6, <1>7, <2>1, <2>10, <2>11, <2>13 DEF Copied
  <2>17. ~Pending(v)
    BY <2>1 DEF Pending
  <2>. QED BY <1>8, <2>8, <2>9, <2>14, <2>15, <2>16, <2>17 DEF Stage
<1>11. CASE Drops
  <2>1. UNCHANGED <<todo, vf, call, work>> /\ Answered(v, m) = {}
    BY <1>11 DEF Drops
  <2>2. TypeInv'
    BY <1>1, <1>4, <2>1 DEF TypeInv
  <2>3. ASSUME NEW w \in Vfs, w # v, Stage(w) PROVE Stage(w)'
    BY <1>5, <2>1, <2>3
  <2>4. Core(v) /\ call'[v] = call[v] /\ todo'[v] = todo[v] /\ work'[v] = work[v]
    BY <1>7, <2>1 DEF Core
  <2>5. /\ Op(v)' = Op(v) /\ Request(v)' = Request(v) /\ SentBye(v)' = SentBye(v)
        /\ Farewell(v, calls[v])' = Farewell(v, calls[v]) /\ Entered(v)' = Entered(v)
    BY <1>7, <2>1 DEF Op, Request, SentBye, Farewell, Entered
  <2>6. /\ Untold(v) => Untold(v)'
        /\ \A a : Told(v, a) => Told(v, a)'
    <3>1. SentBye(v) <=> SentBye(v)'
      BY <1>7 DEF SentBye
    <3>2. \A a : Told(v, a) => out'[v].op \notin Asking \cup {"BYE"}
      BY <1>7 DEF Told
    <3>. QED BY <2>4, <3>1, <3>2, CoreKept
  <2>7. AtRest(v) => AtRest(v)'
    BY <1>6, <1>7, <2>1, <2>4, <2>5 DEF AtRest
  <2>8. Listed(v) => Listed(v)'
    BY <1>6, <1>7, <2>4, <2>5, <2>6 DEF Listed, Waits
  <2>9. Copied(v) => Copied(v)'
    BY <1>6, <1>7, <2>4, <2>5, <2>6 DEF Copied
  <2>10. ASSUME Pending(v) PROVE Pending(v)'
    <3>1. Asked(v)'
      <4>1. CASE out[v] = Request(v) /\ NoAnswer(v) /\ Untold(v)
        BY <1>6, <1>7, <2>5, <2>6, <4>1 DEF Asked
      <4>2. ASSUME NEW a, AnswerIs(v, a), Told(v, a) PROVE Asked(v)'
        <5>1. out[Pf] # a
          <6>1. a.resp /\ a.op = Op(v) /\ pend[v] = <<Entered(v)>>
            BY <2>10, <4>2 DEF Told, Fits, Pending
          <6>. QED BY <2>1, <6>1, AnsweredIs
        <5>2. OnlyOne(todo[Pf], Answers(v), a, FALSE)
          BY <4>2, <5>1 DEF AnswerIs
        <5>3. AnswerIs(v, a)'
          BY <1>4, <2>1, <5>2, Written DEF AnswerIs
        <5>. QED BY <2>6, <4>2, <5>3, AnswerGiven
      <4>. QED BY <2>10, <4>1, <4>2 DEF Pending, Asked
    <3>. QED BY <1>7, <2>4, <2>5, <2>10, <3>1 DEF Pending, Waits
  <2>. QED BY <1>8, <2>2, <2>3, <2>7, <2>8, <2>9, <2>10 DEF Stage
<1>. QED BY <1>1, <1>9, <1>10, <1>11

\* The answer is copied over the request, and its caller is woken.
LEMMA VfWakeKeeps ==
  ASSUME TypeInv, NEW v \in Vfs, Stage(v), VfWake(v)
  PROVE  TypeInv' /\ \A w \in Vfs : Stage(w) => Stage(w)'
<1>. DEFINE m == work[v].m
            c == [call[v] EXCEPT !.ans = m, !.pc = IF @ = "asleep" THEN "woken" ELSE @]
<1>1. /\ work[v].at = "matched" /\ work' = [work EXCEPT ![v] = IdleWork]
      /\ pend' = [pend EXCEPT ![v] = IF Answered(v, m) = {} THEN @ ELSE RemoveAt(@, Min(Answered(v, m)))]
      /\ call' = IF work[v].stale THEN call
                 ELSE [call EXCEPT ![v].ans = m, ![v].pc = IF @ = "asleep" THEN "woken" ELSE @]
      /\ UNCHANGED <<master, hw, vf, todo, out, calls>>
  BY DEF VfWake
<1>2. Matched(v)
  <2>1. ~AtRest(v) /\ ~Listed(v)
    BY <1>1 DEF AtRest, Listed
  <2>2. Entered(v).at = "sent"
    BY DEF Entered
  <2>3. ~Sent(v) /\ ~Pending(v) /\ ~Copied(v)
    BY <1>1, <2>2 DEF Sent, Pending, Copied
  <2>. QED BY <2>1, <2>3 DEF Stage
<1>3. /\ v \in Funcs /\ Pf \in Funcs /\ v # Pf /\ m \in Messages
      /\ call[v] \in Calls /\ work \in [Funcs -> Works] /\ call \in [Funcs -> Calls]
      /\ DOMAIN pend = Funcs
  <2>1. work[v] \in Works /\ call[v] \in Calls
    BY Written, Local
  <2>. QED BY <2>1, Written DEF TypeInv, Works
<1>4. /\ call[v].pc \in {"queued", "asleep", "woken"} /\ call[v].matched
      /\ ~work[v].stale /\ pend[v] = <<Entered(v)>> /\ Free(todo[v], OwnItems)
      /\ NoAnswer(v) /\ Told(v, m)
  BY <1>2 DEF Matched
<1>. HIDE DEF m
<1>5. Answered(v, m) = {1}
  BY <1>4, AnsweredIs DEF Told, Fits
<1>6. /\ pend'[v] = <<>> /\ \A g \in Funcs : g # v => pend'[g] = pend[g]
      /\ DOMAIN pend' = Funcs
  <2>1. RemoveAt(<<Entered(v)>>, 1) = <<>>
    BY DEF RemoveAt
  <2>2. pend' = [pend EXCEPT ![v] = RemoveAt(@, 1)]
    BY <1>1, <1>5, MinOne
  <2>. QED BY <1>3, <1>4, <2>1, <2>2
<1>7. /\ work' \in [Funcs -> Works] /\ work'[v] = IdleWork
      /\ \A g \in Funcs : g # v => work'[g] = work[g]
  BY <1>1, <1>3, Written
<1>8. /\ c \in Calls /\ c.ans = m /\ c.plan = call[v].plan /\ c.force = call[v].force
      /\ c.matched = call[v].matched /\ c.pc = IF call[v].pc = "asleep" THEN "woken" ELSE call[v].pc
  BY <1>3 DEF Calls
<1>9. call' = [call EXCEPT ![v] = c]
  BY <1>1, <1>3, <1>4
<1>. HIDE DEF c
<1>10. /\ call' \in [Funcs -> Calls] /\ call'[v] = c
       /\ \A g \in Funcs : g # v => call'[g] = call[g]
  BY <1>3, <1>8, <1>9
<1>11. TypeInv'
  BY <1>1, <1>6, <1>7, <1>10 DEF TypeInv
<1>12. ASSUME NEW w \in Vfs, Stage(w) PROVE Stage(w)'
  <2>1. w \in Funcs /\ Board(w)' = Board(w) /\ Kept(w)
    BY <1>1, BoardStill, PfStill, Written
  <2>2. CASE w # v
    BY <1>1, <1>3, <1>6, <1>7, <1>10, <1>12, <2>1, <2>2, Elsewhere
  <2>3. CASE w = v
    <3>1. Core(v)
      BY <1>1, <1>8, <1>10, <2>1, <2>3 DEF Core
    <3>2. PICK a : a = m
      OBVIOUS
    <3>3. Told(v, a)'
      <4>1. out'[v].op \notin Asking \cup {"BYE"} /\ Told(v, a)
        BY <1>1, <1>4, <3>2 DEF Told
      <4>. QED BY <3>1, <4>1, CoreKept
    <3>4. /\ call'[v].ans = a /\ work'[v].at = "idle" /\ pend'[v] = <<>>
          /\ Free(todo'[v], OwnItems) /\ NoAnswer(v)'
      BY <1>1, <1>4, <1>6, <1>7, <1>8, <1>10, <2>1, <2>3, <3>2, Written DEF Kept
    <3>5. call'[v].pc = "woken" \/ (call'[v].pc = "queued" /\ call'[v].matched)
      BY <1>4, <1>8, <1>10
    <3>6. Copied(v)'
      BY <3>3, <3>4, <3>5 DEF Copied
    <3>. QED BY <2>3, <3>6 DEF Stage
  <2>. QED BY <2>2, <2>3
<1>. QED BY <1>11, <1>12

-----------------------------------------------------------------------------
(***************************************************************************)
(* The calls of a virtual function.                                        *)
(***************************************************************************)
\* A function between two calls
LEMMA RestIs ==
  ASSUME NEW v \in Vfs, Stage(v), call[v] = Idle
  PROVE  /\ AtRest(v) /\ work[v].at = "idle" /\ pend[v] = <<>> /\ out[v].op \notin Asking /\ NoAnswer(v)
         /\ vf[v].st = "up" => Free(todo[v], OwnItems) /\ Settled(vf[v], Board(v)) /\ ~SentBye(v)
         /\ vf[v].st = "down" => /\ Free(todo[v], OwnItems) /\ vf[v] = DownVf
                                 /\ IF SentBye(v) THEN Parting(Board(v)) ELSE Absent(Board(v))
         /\ vf[v].st = "leaving" /\ todo[v] = <<>> =>
              IF SentBye(v) THEN Parting(Board(v)) ELSE Absent(Board(v))
<1>1. AtRest(v)
  <2>1. call[v].pc = "idle" /\ ~call[v].matched
    BY Written
  <2>. QED BY <2>1 DEF Stage, Listed, Sent, Pending, Matched, Copied, Waits
<1>2. DownVf.st = "down"
  BY DEF DownVf
<1>3. vf[v].st = "up" => Free(todo[v], OwnItems) /\ Settled(vf[v], Board(v)) /\ ~SentBye(v)
  BY <1>1, <1>2 DEF AtRest, Rest
<1>4. vf[v].st = "down" => /\ Free(todo[v], OwnItems) /\ vf[v] = DownVf
                           /\ IF SentBye(v) THEN Parting(Board(v)) ELSE Absent(Board(v))
  BY <1>1 DEF AtRest, Rest
<1>5. vf[v].st = "leaving" /\ todo[v] = <<>> =>
        IF SentBye(v) THEN Parting(Board(v)) ELSE Absent(Board(v))
  BY <1>1, <1>2 DEF AtRest, Rest, OnlyOne
<1>. QED BY <1>1, <1>3, <1>4, <1>5 DEF AtRest

\* A message that is queued when nothing is under way
LEMMA Begins ==
  ASSUME TypeInv, NEW v \in Vfs, NEW tag \in Nat, NEW plan \in Plans, plan # <<>>,
         NEW force \in BOOLEAN, Submit(v, tag, plan, force), NEW op, op = Head(plan)[1],
         work[v].at = "idle", Free(todo[v], OwnItems), out[v].op \notin Asking,
         NoAnswer(v)', pend'[v] = <<>>, work'[v] = work[v], calls'[v] = tag, out'[v] = out[v],
         op # "BYE" => /\ CallOf(vf'[v], plan, force, op)
                       /\ Before(vf'[v], Board(v)', op, SentBye(v)),
         op = "BYE" => Head(plan)[2] = NoChunk /\ Rest(vf'[v], Board(v)', TRUE, SentBye(v))
  PROVE  Stage(v)'
<1>1. PICK m \in Messages, e \in Items :
        /\ m = Message(op, FALSE, v, Pf, TRUE, Head(plan)[2], tag)
        /\ e.m = m /\ todo'[v] = Append(todo[v], e)
        /\ op = "BYE" => e.wait = FALSE /\ call'[v] = Idle
        /\ op # "BYE" => /\ e.wait = TRUE
                         /\ call'[v] = Asker(plan, force, m)
  <2>1. \E m \in Messages, e \in Items, x \in Ops :
          /\ x = Head(plan)[1]
          /\ m = Message(x, FALSE, v, Pf, TRUE, Head(plan)[2], tag)
          /\ e.m = m /\ todo'[v] = Append(todo[v], e)
          /\ x = "BYE" => e.wait = FALSE /\ call'[v] = Idle
          /\ x # "BYE" => /\ e.wait = TRUE
                           /\ call'[v] = Asker(plan, force, m)
    BY ONLY TypeInv, v \in Vfs, tag \in Nat, plan \in Plans, plan # <<>>, force \in BOOLEAN,
            Submit(v, tag, plan, force), Submitted
  <2>. QED BY <2>1
<1>4. SentBye(v)' = SentBye(v) /\ out'[v].op \notin Asking
  BY DEF SentBye
<1>5. todo[v] \in Seq(Items)
  BY Written, Local
<1>6. CASE op # "BYE"
  <2>1. e \in OwnItems
    BY <1>1, <1>6 DEF OwnItems
  <2>2. OnlyOne(todo'[v], OwnItems, m, TRUE)
    BY <1>1, <1>5, <1>6, <2>1, Appending
  <2>3. /\ call'[v].pc = "queued" /\ call'[v].plan = plan /\ call'[v].force = force
        /\ call'[v].matched = FALSE /\ call'[v].ans = m
    <3>1. call'[v] = Asker(plan, force, m)
      BY <1>1, <1>6
    <3>. QED BY ONLY <3>1 DEF Asker
  <2>4. Op(v)' = op /\ Request(v)' = m
    BY <1>1, <2>3 DEF Op, Request
  <2>5. Waits(v)'
    BY <2>3, <2>4 DEF Waits
  <2>6. Untold(v)'
    BY <1>4, <1>6, <2>3, <2>4 DEF Untold
  <2>7. Listed(v)'
    BY <1>4, <2>2, <2>4, <2>5, <2>6 DEF Listed
  <2>. QED BY <2>7 DEF Stage
<1>7. CASE op = "BYE"
  <2>1. m.op = "BYE"
    BY <1>1, <1>7 DEF Message
  <2>2. e \in OwnItems
    BY <1>1, <2>1 DEF OwnItems
  <2>3. OnlyOne(todo'[v], OwnItems, m, FALSE)
    BY <1>1, <1>5, <1>7, <2>2, Appending
  <2>4. Farewell(v, calls[v])' = m
    BY <1>1, <1>7 DEF Farewell
  <2>5. AtRest(v)'
    BY <1>1, <1>4, <1>7, <2>3, <2>4 DEF AtRest
  <2>. QED BY <2>5 DEF Stage
<1>. QED BY <1>6, <1>7

\* The PF is no part of a call, nor are the other functions.
LEMMA CallTouches ==
  ASSUME TypeInv, NEW v \in Vfs, NEW plan \in Plans, plan # <<>>, NEW force \in BOOLEAN,
         NEW tag \in Nat, Submit(v, tag, plan, force)
  PROVE  /\ todo' \in [Funcs -> Seq(Items)] /\ call' \in [Funcs -> Calls]
         /\ todo'[Pf] = todo[Pf] /\ v \in Funcs /\ Pf \in Funcs /\ v # Pf
         /\ \A f \in Funcs : f # v => todo'[f] = todo[f] /\ call'[f] = call[f]
<1>1. /\ todo' \in [Funcs -> Seq(Items)] /\ call' \in [Funcs -> Calls]
      /\ \A f \in Funcs : f # v => todo'[f] = todo[f] /\ call'[f] = call[f]
  BY Submitted
<1>2. v \in Funcs /\ Pf \in Funcs /\ v # Pf
  BY Written
<1>. QED BY <1>1, <1>2

\* A call of a function that is up
LEMMA CallKeeps ==
  ASSUME TypeInv, NEW v \in Vfs, Stage(v), NEW plan \in Plans, plan # <<>>,
         NEW force \in BOOLEAN, Call(v, plan, force), NEW d \in Devices,
         vf' = [vf EXCEPT ![v] = d], UNCHANGED <<pend, out>>, vf[v].st = "up",
         NEW op, op = Head(plan)[1],
         op # "BYE" => CallOf(d, plan, force, op) /\ Before(d, Board(v), op, FALSE),
         op = "BYE" => Head(plan)[2] = NoChunk /\ Rest(d, Board(v), TRUE, FALSE)
  PROVE  TypeInv' /\ \A w \in Vfs : Stage(w) => Stage(w)'
<1>1. /\ call[v] = Idle /\ calls' = [calls EXCEPT ![v] = @ + 1]
      /\ Submit(v, calls[v] + 1, plan, force)
      /\ UNCHANGED <<master, hw, work>>
  BY DEF Call
<1>2. vf \in [Vfs -> Devices] /\ calls \in [Vfs -> Nat]
  BY DEF TypeInv
<1>3. /\ calls' \in [Vfs -> Nat] /\ calls'[v] = calls[v] + 1 /\ calls'[v] \in Nat
      /\ \A w \in Vfs : w # v => calls'[w] = calls[w]
  BY <1>1, <1>2
<1>4. vf' \in [Vfs -> Devices] /\ vf'[v] = d /\ \A w \in Vfs : w # v => vf'[w] = vf[w]
  BY <1>2
<1>5. /\ todo' \in [Funcs -> Seq(Items)] /\ call' \in [Funcs -> Calls]
      /\ todo'[Pf] = todo[Pf] /\ v \in Funcs /\ Pf \in Funcs /\ v # Pf
      /\ \A f \in Funcs : f # v => todo'[f] = todo[f] /\ call'[f] = call[f]
  BY <1>1, <1>3, CallTouches
<1>6. TypeInv'
  BY <1>1, <1>3, <1>4, <1>5 DEF TypeInv
<1>7. ASSUME NEW w \in Vfs, Stage(w) PROVE Stage(w)'
  <2>1. w \in Funcs /\ Board(w)' = Board(w) /\ Kept(w)
    BY <1>1, <1>5, BoardStill, PfStill, Written
  <2>2. CASE w # v
    BY <1>1, <1>3, <1>4, <1>5, <1>7, <2>1, <2>2, Elsewhere
  <2>3. CASE w = v
    <3>1. /\ work[v].at = "idle" /\ pend[v] = <<>> /\ out[v].op \notin Asking /\ NoAnswer(v)
          /\ Free(todo[v], OwnItems) /\ ~SentBye(v)
      BY <1>1, RestIs
    <3>2. SentBye(v) = FALSE
      BY <3>1 DEF SentBye
    <3>3. NoAnswer(v)' /\ pend'[v] = <<>> /\ work'[v] = work[v] /\ out'[v] = out[v]
      BY <1>1, <2>1, <2>3, <3>1 DEF Kept
    <3>4. /\ op # "BYE" => CallOf(vf'[v], plan, force, op) /\ Before(vf'[v], Board(v)', op, SentBye(v))
          /\ op = "BYE" => Head(plan)[2] = NoChunk /\ Rest(vf'[v], Board(v)', TRUE, SentBye(v))
      BY <1>4, <2>1, <2>3, <3>2
    <3>5. Stage(v)'
      BY <1>1, <1>3, <3>1, <3>3, <3>4, Begins
    <3>. QED BY <2>3, <3>5
  <2>. QED BY <2>2, <2>3
<1>. QED BY <1>6, <1>7

\* Plans of two and three messages, put together
LEMMA AtTheEnd ==
  ASSUME NEW M, NEW u \in Seq(M), NEW e \in M, NEW s, s = Append(u, e)
  PROVE  /\ s \in Seq(M) /\ Len(s) = Len(u) + 1 /\ s[Len(u) + 1] = e
         /\ \A i \in 1 .. Len(u) : s[i] = u[i]
BY AppendProperties

LEMMA PairIs ==
  ASSUME NEW M, NEW x \in M, NEW y \in M
  PROVE  <<x>> \o <<y>> = <<x, y>>
<1>. DEFINE u == <<x>>
            p == <<x, y>>
            s == Append(u, y)
<1>1. u \in Seq(M) /\ Len(u) = 1 /\ u[1] = x /\ p \in Seq(M) /\ Len(p) = 2 /\ p[1] = x /\ p[2] = y
  OBVIOUS
<1>. HIDE DEF u, p
<1>2. s \in Seq(M) /\ Len(s) = 2 /\ s[1] = x /\ s[2] = y
  <2>0. u \in Seq(M) /\ y \in M
    BY <1>1
  <2>1. 1 \in 1 .. Len(u) /\ Len(u) + 1 = 2
    BY <1>1
  <2>2. /\ s \in Seq(M) /\ Len(s) = Len(u) + 1 /\ s[Len(u) + 1] = y
        /\ \A i \in 1 .. Len(u) : s[i] = u[i]
    BY ONLY <2>0, AtTheEnd
  <2>. HIDE DEF s
  <2>. QED BY ONLY <1>1, <2>1, <2>2
<1>. HIDE DEF s
<1>3. \A i \in 1 .. 2 : i = 1 \/ i = 2
  OBVIOUS
<1>4. \A i \in 1 .. Len(s) : s[i] = p[i]
  BY <1>1, <1>2, <1>3
<1>5. s = p
  BY <1>1, <1>2, <1>4, SeqEqual
<1>6. u \o <<y>> = s
  BY <1>1, AppendIsConcat DEF s
<1>. QED BY <1>5, <1>6 DEF u, p

LEMMA TripleIs ==
  ASSUME NEW M, NEW x \in M, NEW y \in M, NEW z \in M
  PROVE  <<x, y>> \o <<z>> = <<x, y, z>>
<1>. DEFINE u == <<x, y>>
            p == <<x, y, z>>
            s == Append(u, z)
<1>1. /\ u \in Seq(M) /\ Len(u) = 2 /\ u[1] = x /\ u[2] = y
      /\ p \in Seq(M) /\ Len(p) = 3 /\ p[1] = x /\ p[2] = y /\ p[3] = z
  OBVIOUS
<1>. HIDE DEF u, p
<1>2. s \in Seq(M) /\ Len(s) = 3 /\ s[1] = x /\ s[2] = y /\ s[3] = z
  <2>0. u \in Seq(M) /\ z \in M
    BY <1>1
  <2>1. 1 \in 1 .. Len(u) /\ 2 \in 1 .. Len(u) /\ Len(u) + 1 = 3
    BY <1>1
  <2>2. /\ s \in Seq(M) /\ Len(s) = Len(u) + 1 /\ s[Len(u) + 1] = z
        /\ \A i \in 1 .. Len(u) : s[i] = u[i]
    BY ONLY <2>0, AtTheEnd
  <2>. HIDE DEF s
  <2>. QED BY ONLY <1>1, <2>1, <2>2
<1>. HIDE DEF s
<1>3. \A i \in 1 .. 3 : i = 1 \/ i = 2 \/ i = 3
  OBVIOUS
<1>4. \A i \in 1 .. Len(s) : s[i] = p[i]
  BY <1>1, <1>2, <1>3
<1>5. s = p
  BY <1>1, <1>2, <1>4, SeqEqual
<1>6. u \o <<z>> = s
  BY <1>1, AppendIsConcat DEF s
<1>. QED BY <1>5, <1>6 DEF u, p

\* Plans of one to three messages
LEMMA OneMessage ==
  ASSUME NEW a \in Legs
  PROVE  /\ <<a>> \in Plans /\ <<a>> # <<>> /\ Head(<<a>>) = a /\ Tail(<<a>>) = <<>>
         /\ <<>> \o <<>> = <<>> /\ <<>> \o <<a>> = <<a>> /\ <<a>> \o <<>> = <<a>>
<1>1. /\ <<a>> \in Seq(Legs) /\ <<a>> # <<>> /\ Head(<<a>>) = a /\ Tail(<<a>>) = <<>>
      /\ <<>> \in Seq(Legs)
  OBVIOUS
<1>. QED BY <1>1, ConcatEmptySeq DEF Plans

LEMMA TwoMessages ==
  ASSUME NEW a \in Legs, NEW b \in Legs
  PROVE  /\ <<a, b>> \in Plans /\ <<a, b>> # <<>> /\ Head(<<a, b>>) = a /\ Tail(<<a, b>>) = <<b>>
         /\ <<a>> \o <<b>> = <<a, b>>
<1>1. <<a, b>> \in Seq(Legs) /\ <<a, b>> # <<>> /\ Head(<<a, b>>) = a /\ Tail(<<a, b>>) = <<b>>
  OBVIOUS
<1>2. <<a>> \o <<b>> = <<a, b>>
  BY PairIs
<1>. QED BY <1>1, <1>2 DEF Plans

LEMMA ThreeMessages ==
  ASSUME NEW a \in Legs, NEW b \in Legs, NEW c \in Legs
  PROVE  /\ <<a, b, c>> \in Plans /\ <<a, b, c>> # <<>> /\ Head(<<a, b, c>>) = a
         /\ Tail(<<a, b, c>>) = <<b, c>> /\ <<a, b>> \o <<c>> = <<a, b, c>>
<1>1. /\ <<a, b, c>> \in Seq(Legs) /\ <<a, b, c>> # <<>> /\ Head(<<a, b, c>>) = a
      /\ Tail(<<a, b, c>>) = <<b, c>>
  OBVIOUS
<1>2. <<a, b>> \o <<c>> = <<a, b, c>>
  BY TripleIs
<1>. QED BY <1>1, <1>2 DEF Plans

\* What the messages of a call are about
LEMMA Asks ==
  ASSUME NEW d \in Devices
  PROVE  /\ d.st \in {"down", "coming", "up", "leaving"} /\ d.chunk \in Chunks
         /\ d.q \in {"off", "enabled", "online"} /\ d.chunk.total \in Nat /\ d.chunk.qbase \in Int
         /\ OneQueue(d) \in Chunks /\ OneQueue(d).qbase = d.chunk.qbase
<1>1. /\ d.st \in {"down", "coming", "up", "leaving"} /\ d.chunk \in Chunks
      /\ d.q \in {"off", "enabled", "online"} 
  BY DEF Devices
<1>2. d.chunk.total \in Nat /\ d.chunk.qbase \in Int
  BY <1>1 DEF Chunks
<1>3. OneQueue(d) \in Chunks /\ OneQueue(d).qbase = d.chunk.qbase
  BY <1>2, ChunkIs DEF OneQueue
<1>. QED BY <1>1, <1>2, <1>3

LEMMA OpsAre == Asking \subseteq Ops /\ "BYE" \in Ops
BY DEF Asking, Ops

\* A function asks for a range of queues.
LEMMA QconfKeeps ==
  ASSUME TypeInv, NEW v \in Vfs, Stage(v), NEW qmax \in Qmaxes, qdma_vf_qconf(v, qmax)
  PROVE  TypeInv' /\ \A w \in Vfs : Stage(w) => Stage(w)'
<1>. DEFINE a == <<"QREQ", Chunk(-1, qmax)>>
<1>1. /\ vf[v].st = "up" /\ Call(v, <<a>>, FALSE) /\ call[v] = Idle
      /\ UNCHANGED <<vf, pend, out>>
  BY DEF qdma_vf_qconf, Call
<1>2. vf[v] \in Devices /\ vf' = [vf EXCEPT ![v] = vf[v]]
  BY <1>1 DEF TypeInv
<1>3. a \in Legs
  <2>1. qmax \in Nat /\ "QREQ" \in Ops
    BY MailboxAssumption DEF Ops, Asking
  <2>2. Chunk(-1, qmax) \in Chunks
    BY <2>1, ChunkIs
  <2>. QED BY <2>1, <2>2 DEF Legs
<1>4. a[1] = "QREQ" /\ <<a>>[1] = a /\ Len(<<a>>) = 1
  OBVIOUS
<1>. HIDE DEF a
<1>5. <<a>> \in Plans /\ <<a>> # <<>> /\ Head(<<a>>) = a
  BY <1>3, OneMessage
<1>6. CallOf(vf[v], <<a>>, FALSE, "QREQ")
  BY <1>1, <1>4 DEF CallOf
<1>7. Before(vf[v], Board(v), "QREQ", FALSE)
  BY <1>1, RestIs DEF Before
<1>8. PICK op : op = "QREQ"
  OBVIOUS
<1>. QED BY <1>1, <1>2, <1>4, <1>5, <1>6, <1>7, <1>8, CallKeeps

\* A queue whose call is about the function's one queue, of one message
LEMMA OneKeeps ==
  ASSUME TypeInv, NEW v \in Vfs, Stage(v), NEW op \in {"WRT", "CLR", "QDEL"},
         vf[v].st = "up", vf[v].q = IF op = "CLR" THEN "online" ELSE "enabled",
         Call(v, <<<<op, Queue(v)>>>>, FALSE), UNCHANGED <<vf, pend, out>>
  PROVE  TypeInv' /\ \A w \in Vfs : Stage(w) => Stage(w)'
<1>. DEFINE a == <<op, OneQueue(vf[v])>>
<1>1. Call(v, <<a>>, FALSE) /\ call[v] = Idle
  BY DEF Call, Queue, OneQueue
<1>2. vf[v] \in Devices /\ vf' = [vf EXCEPT ![v] = vf[v]]
  BY DEF TypeInv
<1>3. a \in Legs
  <2>1. op \in Ops
    BY DEF Ops, Asking
  <2>2. OneQueue(vf[v]) \in Chunks
    BY <1>2, Asks
  <2>. QED BY <2>1, <2>2 DEF Legs
<1>4. a[1] = op /\ op # "BYE"
  OBVIOUS
<1>5. Settled(vf[v], Board(v))
  BY <1>1, RestIs
<1>6. CallOf(vf[v], <<a>>, FALSE, op)
  BY <1>5 DEF CallOf, Settled
<1>7. Before(vf[v], Board(v), op, FALSE)
  <2>1. ~FALSE
    OBVIOUS
  <2>. QED BY <1>5, <2>1 DEF Before, Settled
<1>. HIDE DEF a
<1>8. <<a>> \in Plans /\ <<a>> # <<>> /\ Head(<<a>>) = a
  BY <1>3, OneMessage
<1>. QED BY <1>1, <1>2, <1>4, <1>6, <1>7, <1>8, CallKeeps

\* A queue is added; the first one after the range has been mapped.
LEMMA AddKeeps ==
  ASSUME TypeInv, NEW v \in Vfs, Stage(v), qdma_queue_add(v)
  PROVE  TypeInv' /\ \A w \in Vfs : Stage(w) => Stage(w)'
<1>. DEFINE d == [vf[v] EXCEPT !.q = "enabled"]
            a == <<"CSR", NoChunk>>
            b == <<"FMAP", d.chunk>>
            c == <<"QADD", OneQueue(d)>>
            p == IF vf[v].qrange THEN <<c>> ELSE <<a, b, c>>
            op == IF vf[v].qrange THEN "QADD" ELSE "CSR"
<1>0. vf[v] \in Devices /\ vf \in [Vfs -> Devices]
  BY DEF TypeInv
<1>1. /\ d \in Devices /\ d.chunk = vf[v].chunk /\ d.st = vf[v].st /\ d.q = "enabled"
      /\ OneQueue(d) = Queue(v)
  BY <1>0 DEF Devices, OneQueue, Queue
<1>2. /\ vf[v].st = "up" /\ vf[v].q = "off" /\ vf[v].chunk.total > 0
      /\ vf' = [vf EXCEPT ![v] = d] /\ call[v] = Idle
      /\ Call(v, (IF vf[v].qrange THEN <<>> ELSE <<a, b>>) \o <<c>>, FALSE)
      /\ UNCHANGED <<pend, out>>
  BY <1>1 DEF qdma_queue_add, Call
<1>3. a \in Legs /\ b \in Legs /\ c \in Legs
  <2>1. "CSR" \in Ops /\ "FMAP" \in Ops /\ "QADD" \in Ops
    BY DEF Ops, Asking
  <2>2. OneQueue(d) \in Chunks /\ d.chunk \in Chunks /\ NoChunk \in Chunks
    <3>. HIDE DEF d
    <3>. QED BY <1>1, Asks, Written
  <2>. QED BY <2>1, <2>2 DEF Legs
<1>4. a[1] = "CSR" /\ c[1] = "QADD"
  OBVIOUS
<1>5. Settled(vf[v], Board(v))
  BY <1>2, RestIs
<1>6. CallOf(d, p, FALSE, op)
  BY <1>1, <1>2 DEF CallOf
<1>7. Before(d, Board(v), op, FALSE)
  BY <1>1, <1>2, <1>5 DEF Before, Settled, Knows
<1>. HIDE DEF a, b, c, d
<1>8. /\ p \in Plans /\ p # <<>> /\ Head(p)[1] = op
      /\ (IF vf[v].qrange THEN <<>> ELSE <<a, b>>) \o <<c>> = p
  <2>1. CASE vf[v].qrange
    BY <1>3, <1>4, <2>1, OneMessage
  <2>2. CASE ~vf[v].qrange
    <3>1. /\ <<a, b, c>> \in Plans /\ <<a, b, c>> # <<>> /\ Head(<<a, b, c>>) = a
          /\ <<a, b>> \o <<c>> = <<a, b, c>>
      BY <1>3, ThreeMessages
    <3>. QED BY <1>4, <2>2, <3>1
  <2>. QED BY <2>1, <2>2
<1>9. op # "BYE" /\ Call(v, p, FALSE)
  BY <1>2, <1>8
<1>. HIDE DEF p, op
<1>. QED BY <1>1, <1>2, <1>6, <1>7, <1>8, <1>9, CallKeeps

\* The device is taken offline: what is left of its queue, and the farewell.
LEMMA OfflineKeeps ==
  ASSUME TypeInv, NEW v \in Vfs, Stage(v), qdma_device_offline(v)
  PROVE  TypeInv' /\ \A w \in Vfs : Stage(w) => Stage(w)'
<1>. DEFINE d == [vf[v] EXCEPT !.st = "leaving"]
            a == <<"CLR", OneQueue(d)>>
            b == <<"QDEL", OneQueue(d)>>
            c == <<"BYE", NoChunk>>
            p == IF vf[v].q = "online" THEN <<a, b, c>>
                 ELSE IF vf[v].q = "enabled" THEN <<b, c>> ELSE <<c>>
            op == IF vf[v].q = "online" THEN "CLR"
                  ELSE IF vf[v].q = "enabled" THEN "QDEL" ELSE "BYE"
<1>0. vf[v] \in Devices /\ vf \in [Vfs -> Devices]
  BY DEF TypeInv
<1>1. /\ d \in Devices /\ d.chunk = vf[v].chunk /\ d.st = "leaving" /\ d.q = vf[v].q
      /\ OneQueue(d) = Queue(v) /\ vf[v].q \in {"off", "enabled", "online"}
  BY <1>0 DEF Devices, OneQueue, Queue
<1>2. /\ vf[v].st = "up" /\ vf' = [vf EXCEPT ![v] = d] /\ call[v] = Idle
      /\ Call(v, ((IF vf[v].q = "online" THEN <<a>> ELSE <<>>)
                  \o (IF vf[v].q # "off" THEN <<b>> ELSE <<>>)) \o <<c>>, TRUE)
      /\ UNCHANGED <<pend, out>>
  BY <1>1 DEF qdma_device_offline, Call, Cleanup
<1>3. a \in Legs /\ b \in Legs /\ c \in Legs
  <2>1. "CLR" \in Ops /\ "QDEL" \in Ops /\ "BYE" \in Ops
    BY DEF Ops, Asking
  <2>2. OneQueue(d) \in Chunks /\ d.chunk \in Chunks /\ NoChunk \in Chunks
    <3>. HIDE DEF d
    <3>. QED BY <1>1, Asks, Written
  <2>. QED BY <2>1, <2>2 DEF Legs
<1>4. a[1] = "CLR" /\ b[1] = "QDEL" /\ c[1] = "BYE" /\ c[2] = NoChunk
  OBVIOUS
<1>5. Settled(vf[v], Board(v))
  BY <1>2, RestIs
<1>6. op # "BYE" => CallOf(d, p, TRUE, op) /\ Before(d, Board(v), op, FALSE)
  <2>1. op # "BYE" => CallOf(d, p, TRUE, op)
    BY <1>1, <1>5 DEF CallOf, Settled
  <2>2. op # "BYE" => Before(d, Board(v), op, FALSE)
    BY <1>1, <1>5 DEF Before, Settled, Knows, One
  <2>. QED BY <2>1, <2>2
<1>7. op = "BYE" => Rest(d, Board(v), TRUE, FALSE)
  BY <1>1, <1>5 DEF Rest, Settled, Present, Parting
<1>. HIDE DEF a, b, c, d
<1>8. /\ p \in Plans /\ p # <<>> /\ Head(p)[1] = op /\ (op = "BYE" => Head(p)[2] = NoChunk)
      /\ ((IF vf[v].q = "online" THEN <<a>> ELSE <<>>)
          \o (IF vf[v].q # "off" THEN <<b>> ELSE <<>>)) \o <<c>> = p
  <2>1. CASE vf[v].q = "online"
    <3>1. /\ <<a, b, c>> \in Plans /\ <<a, b, c>> # <<>> /\ Head(<<a, b, c>>) = a
          /\ <<a, b>> \o <<c>> = <<a, b, c>>
      BY <1>3, ThreeMessages
    <3>2. <<a>> \o <<b>> = <<a, b>>
      BY <1>3, TwoMessages
    <3>. QED BY <1>4, <2>1, <3>1, <3>2
  <2>2. CASE vf[v].q = "enabled"
    BY <1>3, <1>4, <2>2, OneMessage, TwoMessages
  <2>3. CASE vf[v].q = "off"
    BY <1>3, <1>4, <2>3, OneMessage
  <2>. QED BY <1>1, <2>1, <2>2, <2>3
<1>9. Call(v, p, TRUE)
  BY <1>2, <1>8
<1>. HIDE DEF p, op
<1>. QED BY <1>1, <1>2, <1>6, <1>7, <1>8, <1>9, CallKeeps

\* A function comes back: what was left for it in the PF's mailbox is acknowledged.
LEMMA OnlineKeeps ==
  ASSUME TypeInv, NEW v \in Vfs, Stage(v), qdma_device_online(v)
  PROVE  TypeInv' /\ \A w \in Vfs : Stage(w) => Stage(w)'
<1>. DEFINE a == <<"HELLO", NoChunk>>
            d == [vf[v] EXCEPT !.st = "coming"]
<1>1. /\ vf[v].st = "down" /\ call[v] = Idle
      /\ calls' = [calls EXCEPT ![v] = @ + 1]
      /\ Submit(v, calls[v] + 1, <<a>>, FALSE)
      /\ vf' = [vf EXCEPT ![v] = d] /\ pend' = [pend EXCEPT ![v] = <<>>]
      /\ out' = IF out[Pf].to = v THEN [out EXCEPT ![Pf] = NoMessage] ELSE out
      /\ UNCHANGED <<master, hw, work>>
  BY DEF qdma_device_online, Call, qdma_mbox_hw_init
<1>2. /\ vf \in [Vfs -> Devices] /\ calls \in [Vfs -> Nat] /\ vf[v] \in Devices
      /\ out \in [Funcs -> Messages] /\ DOMAIN pend = Funcs
  BY DEF TypeInv
<1>3. /\ calls' \in [Vfs -> Nat] /\ calls'[v] = calls[v] + 1 /\ calls[v] + 1 \in Nat
      /\ \A w \in Vfs : w # v => calls'[w] = calls[w]
  BY <1>1, <1>2
<1>4. /\ AtRest(v) /\ work[v].at = "idle" /\ pend[v] = <<>> /\ out[v].op \notin Asking /\ NoAnswer(v)
      /\ Free(todo[v], OwnItems) /\ vf[v] = DownVf
      /\ IF SentBye(v) THEN Parting(Board(v)) ELSE Absent(Board(v))
  BY <1>1, RestIs
<1>5. d \in Devices /\ d.st = "coming" /\ d.chunk.total = 0 /\ d.q = "off"
  <2>1. DownVf.chunk.total = 0 /\ DownVf.q = "off"
    BY ChunkIs DEF DownVf
  <2>2. d \in Devices /\ d.st = "coming" /\ d.chunk = vf[v].chunk /\ d.q = vf[v].q
    BY <1>2 DEF Devices
  <2>. QED BY <1>4, <2>1, <2>2
<1>. HIDE DEF d
<1>6. vf' \in [Vfs -> Devices] /\ vf'[v] = d /\ \A w \in Vfs : w # v => vf'[w] = vf[w]
  BY <1>1, <1>2, <1>5
<1>7. v \in Funcs /\ Pf \in Funcs /\ v # Pf /\ NoMessage \in Messages /\ ~NoMessage.resp
  BY Written
<1>8. /\ out' \in [Funcs -> Messages]
      /\ out'[Pf] = (IF out[Pf].to = v THEN NoMessage ELSE out[Pf])
      /\ \A f \in Funcs : f # Pf => out'[f] = out[f]
  BY <1>1, <1>2, <1>7
<1>9. DOMAIN pend' = Funcs /\ pend'[v] = <<>> /\ \A f \in Funcs : f # v => pend'[f] = pend[f]
  BY <1>1, <1>2, <1>7
<1>10. /\ a \in Legs /\ a[1] = "HELLO"
  <2>1. "HELLO" \in Ops /\ NoChunk \in Chunks
    BY Written DEF Ops, Asking
  <2>. QED BY <2>1 DEF Legs
<1>11. CallOf(d, <<a>>, FALSE, "HELLO")
  BY <1>5 DEF CallOf
<1>. HIDE DEF a
<1>12. <<a>> \in Plans /\ <<a>> # <<>> /\ Head(<<a>>) = a
  BY <1>10, OneMessage
<1>13. /\ todo' \in [Funcs -> Seq(Items)] /\ call' \in [Funcs -> Calls]
       /\ todo'[Pf] = todo[Pf]
       /\ \A f \in Funcs : f # v => todo'[f] = todo[f] /\ call'[f] = call[f]
  BY <1>1, <1>3, <1>12, CallTouches
<1>14. TypeInv'
  BY <1>1, <1>3, <1>6, <1>8, <1>9, <1>13 DEF TypeInv
<1>15. ASSUME NEW w \in Vfs, Stage(w) PROVE Stage(w)'
  <2>1. w \in Funcs /\ w # Pf /\ Board(w)' = Board(w)
    BY <1>1, BoardStill, Written
  <2>2. CASE w # v
    <3>1. Kept(w)
      <4>1. CASE out[Pf].to = v
        BY <1>8, <1>13, <2>2, <4>1, PfReads
      <4>2. CASE out[Pf].to # v
        BY <1>8, <1>13, <4>2, PfStill
      <4>. QED BY <4>1, <4>2
    <3>. QED BY <1>1, <1>3, <1>6, <1>8, <1>9, <1>13, <1>7, <1>15, <2>1, <2>2, <3>1, Elsewhere
  <2>3. CASE w = v
    <3>1. NoAnswer(v)'
      BY <1>4, <1>7, <1>8, <1>13 DEF NoAnswer
    <3>2. Before(d, Board(v), "HELLO", SentBye(v))
      BY <1>4 DEF Before
    <3>3. out'[v] = out[v] /\ work'[v] = work[v]
      BY <1>1, <1>7, <1>8
    <3>4. PICK op : op = "HELLO"
      OBVIOUS
    <3>5. CallOf(vf'[v], <<a>>, FALSE, op) /\ Before(vf'[v], Board(v)', op, SentBye(v))
      BY <1>6, <1>11, <2>1, <2>3, <3>2, <3>4
    <3>6. op = Head(<<a>>)[1] /\ op # "BYE"
      BY <1>10, <1>12, <3>4
    <3>7. Stage(v)'
      BY <1>1, <1>3, <1>4, <1>9, <1>12, <3>1, <3>3, <3>5, <3>6, Begins
    <3>. QED BY <2>3, <3>7
  <2>. QED BY <2>2, <2>3
<1>. QED BY <1>14, <1>15

\* The mailbox of a device that is offline is stopped.
LEMMA StopKeeps ==
  ASSUME TypeInv, NEW v \in Vfs, Stage(v), qdma_mbox_stop(v)
  PROVE  TypeInv' /\ \A w \in Vfs : Stage(w) => Stage(w)'
<1>1. /\ vf[v].st = "leaving" /\ call[v] = Idle /\ todo[v] = <<>> /\ work[v].at = "idle"
      /\ vf' = [vf EXCEPT ![v] = DownVf]
      /\ UNCHANGED <<master, hw, call, todo, pend, work, out, calls>>
  BY DEF qdma_mbox_stop
<1>2. vf \in [Vfs -> Devices] /\ DownVf \in Devices
  BY Written DEF TypeInv
<1>3. vf' \in [Vfs -> Devices] /\ vf'[v] = DownVf /\ \A w \in Vfs : w # v => vf'[w] = vf[w]
  BY <1>1, <1>2
<1>4. TypeInv'
  BY <1>1, <1>3 DEF TypeInv
<1>5. ASSUME NEW w \in Vfs, Stage(w) PROVE Stage(w)'
  <2>1. w \in Funcs /\ v \in Funcs /\ Board(w)' = Board(w) /\ Kept(w)
    BY <1>1, BoardStill, PfStill, Written
  <2>2. CASE w # v
    BY <1>1, <1>3, <1>5, <2>1, <2>2, Elsewhere
  <2>3. CASE w = v
    <3>1. /\ work[v].at = "idle" /\ pend[v] = <<>> /\ out[v].op \notin Asking /\ NoAnswer(v)
          /\ IF SentBye(v) THEN Parting(Board(v)) ELSE Absent(Board(v))
      BY <1>1, RestIs
    <3>2. Free(todo'[v], OwnItems)
      BY <1>1 DEF Free
    <3>3. NoAnswer(v)' /\ SentBye(v)' = SentBye(v)
      BY <1>1, <2>1, <2>3, <3>1 DEF Kept, SentBye
    <3>4. Rest(DownVf, Board(v), FALSE, SentBye(v))
      BY <3>1 DEF Rest
    <3>5. AtRest(v)'
      BY <1>1, <1>3, <2>1, <2>3, <3>1, <3>2, <3>3, <3>4 DEF AtRest
    <3>. QED BY <2>3, <3>5 DEF Stage
  <2>. QED BY <2>2, <2>3
<1>. QED BY <1>4, <1>5

-----------------------------------------------------------------------------
(***************************************************************************)
(* The caller has the answer.                                              *)
(***************************************************************************)
\* What a call may go on with: nothing, the farewell, or its next request
Follows(e, next, force, b) ==
  /\ e \in Devices /\ next \in Plans
  /\ next = <<>> => Rest(e, b, FALSE, FALSE)
  /\ next # <<>> =>
       /\ Head(next)[1] # "BYE" => /\ CallOf(e, next, force, Head(next)[1])
                                   /\ Before(e, b, Head(next)[1], FALSE)
       /\ Head(next)[1] = "BYE" => Head(next)[2] = NoChunk /\ Rest(e, b, TRUE, FALSE)

\* A queue changes its state, a device its own.
LEMMA QueueAfter ==
  ASSUME NEW d \in Devices, NEW q \in {"off", "enabled", "online"}, NEW e, e = [d EXCEPT !.q = q]
  PROVE  /\ e \in Devices /\ e.st = d.st /\ e.chunk = d.chunk /\ e.q = q
         /\ OneQueue(e) = OneQueue(d) /\ One(e) = One(d)
<1>1. e \in Devices /\ e.st = d.st /\ e.chunk = d.chunk /\ e.q = q
  BY DEF Devices
<1>. QED BY <1>1 DEF OneQueue, One

LEMMA RangeAfter ==
  ASSUME NEW d \in Devices, NEW e, e = [d EXCEPT !.qrange = TRUE]
  PROVE  /\ e \in Devices /\ e.st = d.st /\ e.chunk = d.chunk /\ e.q = d.q
         /\ OneQueue(e) = OneQueue(d) /\ One(e) = One(d)
<1>1. e \in Devices /\ e.st = d.st /\ e.chunk = d.chunk /\ e.q = d.q
  BY DEF Devices
<1>. QED BY <1>1 DEF OneQueue, One

\* A function that is up comes to rest.
LEMMA ComesToRest ==
  ASSUME NEW e \in Devices, NEW b, NEW force, e.st = "up", Knows(e, b),
         \/ e.q = "off" /\ Present(b, 0, {})
         \/ e.q = "enabled" /\ e.chunk.total > 0 /\ Present(b, 1, {})
         \/ e.q = "online" /\ e.chunk.total > 0 /\ Present(b, 1, One(e))
  PROVE  Follows(e, <<>>, force, b)
<1>1. Rest(e, b, FALSE, FALSE)
  BY DEF Rest, Settled
<1>2. <<>> \in Plans
  BY DEF Plans
<1>. QED BY <1>1, <1>2 DEF Follows

LEMMA Replied ==
  ASSUME TypeInv, NEW v \in Vfs, NEW m \in Messages, Told(v, m),
         NEW ok \in BOOLEAN, ok = m.ok,
         NEW op, op = Op(v), NEW force \in BOOLEAN, force = call[v].force,
         NEW e, e = AfterReply(v, op, ok, m.arg), NEW next, next = NextPlan(v, op, ok)
  PROVE  Follows(e, next, force, Board(v)) /\ (op = "QREQ" => next = <<>>)
<1>. DEFINE d == vf[v]
            p == call[v].plan
            b == Board(v)
<1>1. /\ d \in Devices /\ p \in Plans /\ m.arg \in Chunks
      /\ CallOf(d, p, force, op) /\ After(d, b, op, m) /\ op \in Asking
  <2>1. d \in Devices /\ call[v] \in Calls /\ CallOf(d, p, force, op) /\ After(d, b, op, m)
    BY Local, Written DEF Told
  <2>. QED BY <2>1, CallOps DEF Calls, Messages
<1>. DEFINE bye == <<"BYE", NoChunk>>
            csr == <<"CSR", NoChunk>>
            fmap == <<"FMAP", d.chunk>>
            add == <<"QADD", OneQueue(d)>>
            clr == <<"CLR", OneQueue(d)>>
            del == <<"QDEL", OneQueue(d)>>
            wrt == <<"WRT", OneQueue(d)>>
<1>2. /\ bye[1] = "BYE" /\ bye[2] = NoChunk /\ fmap[1] = "FMAP" /\ add[1] = "QADD" /\ del[1] = "QDEL"
  OBVIOUS
<1>3. /\ bye \in Legs /\ csr \in Legs /\ fmap \in Legs /\ add \in Legs /\ clr \in Legs /\ del \in Legs
      /\ wrt \in Legs
  <2>1. OneQueue(d) \in Chunks /\ d.chunk \in Chunks /\ NoChunk \in Chunks
    BY <1>1, Asks, Written
  <2>2. {"BYE", "CSR", "FMAP", "QADD", "CLR", "QDEL", "WRT"} \subseteq Ops
    BY DEF Ops, Asking
  <2>. QED BY <2>1, <2>2 DEF Legs
<1>4. CASE op = "HELLO"
  <2>1. e = [d EXCEPT !.st = "up"] /\ next = <<>>
    BY <1>1, <1>4 DEF AfterReply, NextPlan, After
  <2>2. d.chunk.total = 0 /\ d.q = "off" /\ Present(b, 0, {})
    BY <1>1, <1>4 DEF CallOf, After
  <2>3. e \in Devices /\ e.st = "up" /\ e.chunk = d.chunk /\ e.q = d.q
    BY <1>1, <2>1 DEF Devices
  <2>4. Knows(e, b)
    BY <2>2, <2>3 DEF Knows
  <2>. HIDE DEF b
  <2>5. Follows(e, <<>>, force, b)
    BY <2>2, <2>3, <2>4, ComesToRest
  <2>. QED BY <1>4, <2>1, <2>5 DEF b
<1>5. CASE op = "QREQ" /\ ok
  <2>1. e = [d EXCEPT !.chunk = m.arg, !.qrange = FALSE, !.q = "off"] /\ next = Cleanup(v)
    BY <1>5 DEF AfterReply, NextPlan
  <2>2. d.q = "off" /\ m.arg = b.chunk /\ Present(b, 0, {}) /\ d.st = "up"
    BY <1>1, <1>5 DEF After, CallOf
  <2>3. next = <<>>
    <3>1. <<>> \o <<>> = <<>>
      BY <1>3, OneMessage
    <3>. QED BY <2>1, <2>2, <3>1 DEF Cleanup
  <2>4. e \in Devices /\ e.st = "up" /\ e.chunk = m.arg /\ e.q = "off"
    BY <1>1, <2>1, <2>2 DEF Devices
  <2>5. Knows(e, b)
    BY <2>2, <2>4 DEF Knows
  <2>. HIDE DEF b
  <2>6. Follows(e, <<>>, force, b)
    BY <2>2, <2>4, <2>5, ComesToRest
  <2>. QED BY <1>5, <2>3, <2>6 DEF b
<1>6. CASE op = "QREQ" /\ ~ok
  <2>1. e = d /\ next = <<>>
    BY <1>6 DEF AfterReply, NextPlan
  <2>2. Settled(d, b) /\ d.st = "up"
    BY <1>1, <1>6 DEF After, CallOf
  <2>. HIDE DEF b
  <2>3. Follows(e, <<>>, force, b)
    BY <1>1, <2>1, <2>2, ComesToRest DEF Settled
  <2>. QED BY <1>6, <2>1, <2>3 DEF b
<1>7. CASE op = "CSR"
  <2>1. e = d /\ next = Tail(p)
    BY <1>1, <1>7 DEF AfterReply, NextPlan, After
  <2>2. /\ d.st = "up" /\ ~force /\ d.q = "enabled" /\ d.chunk.total > 0 /\ p = <<csr, fmap, add>>
        /\ Knows(d, b) /\ Present(b, 0, {})
    BY <1>1, <1>7 DEF CallOf, After
  <2>. HIDE DEF b, csr, fmap, add
  <2>3. next = <<fmap, add>> /\ next \in Plans /\ next # <<>> /\ Head(next)[1] = "FMAP"
    <3>1. Tail(<<csr, fmap, add>>) = <<fmap, add>>
      BY <1>3, ThreeMessages
    <3>2. <<fmap, add>> \in Plans /\ <<fmap, add>> # <<>> /\ Head(<<fmap, add>>) = fmap
      BY <1>3, TwoMessages
    <3>. QED BY <1>2, <2>1, <2>2, <3>1, <3>2
  <2>4. CallOf(e, next, force, "FMAP") /\ Before(e, b, "FMAP", FALSE)
    BY <2>1, <2>2, <2>3 DEF CallOf, Before, fmap, add
  <2>. QED BY <1>1, <1>7, <2>1, <2>3, <2>4 DEF Follows, b
<1>8. CASE op = "FMAP"
  <2>1. e = [d EXCEPT !.qrange = TRUE] /\ next = Tail(p)
    BY <1>1, <1>8 DEF AfterReply, NextPlan, After
  <2>2. /\ d.st = "up" /\ ~force /\ d.q = "enabled" /\ d.chunk.total > 0 /\ p = <<fmap, add>>
        /\ Knows(d, b) /\ Present(b, 0, {})
    BY <1>1, <1>8 DEF CallOf, After
  <2>. HIDE DEF b, fmap, add
  <2>3. next = <<add>> /\ next \in Plans /\ next # <<>> /\ Head(next)[1] = "QADD"
    BY <1>2, <1>3, <2>1, <2>2, OneMessage, TwoMessages
  <2>4. e \in Devices /\ e.st = d.st /\ e.chunk = d.chunk /\ e.q = d.q /\ OneQueue(e) = OneQueue(d)
    BY <1>1, <2>1, RangeAfter
  <2>5. CallOf(e, next, force, "QADD") /\ Before(e, b, "QADD", FALSE)
    BY <2>2, <2>3, <2>4 DEF CallOf, Before, Knows, add
  <2>. QED BY <1>8, <2>3, <2>4, <2>5 DEF Follows, b
<1>9. CASE op = "QADD"
  <2>1. e = d /\ next = Tail(p)
    BY <1>1, <1>9 DEF AfterReply, NextPlan, After
  <2>2. /\ d.st = "up" /\ d.q = "enabled" /\ d.chunk.total > 0 /\ p = <<add>>
        /\ Knows(d, b) /\ Present(b, 1, {})
    BY <1>1, <1>9 DEF CallOf, After
  <2>. HIDE DEF b, add
  <2>3. next = <<>>
    BY <1>3, <2>1, <2>2, OneMessage
  <2>4. Follows(e, <<>>, force, b)
    BY <1>1, <2>1, <2>2, ComesToRest
  <2>. QED BY <1>9, <2>3, <2>4 DEF b
<1>10. CASE op = "WRT"
  <2>1. e = [d EXCEPT !.q = "online"] /\ next = Tail(p)
    BY <1>1, <1>10 DEF AfterReply, NextPlan, After
  <2>2. /\ d.st = "up" /\ d.chunk.total > 0 /\ p = <<wrt>>
        /\ Knows(d, b) /\ Present(b, 1, One(d))
    BY <1>1, <1>10 DEF CallOf, After
  <2>. HIDE DEF b, wrt
  <2>3. next = <<>>
    BY <1>3, <2>1, <2>2, OneMessage
  <2>4. e \in Devices /\ e.st = d.st /\ e.chunk = d.chunk /\ e.q = "online" /\ One(e) = One(d)
    BY <1>1, <2>1, QueueAfter
  <2>5. Knows(e, b)
    BY <2>2, <2>4 DEF Knows
  <2>6. Follows(e, <<>>, force, b)
    BY <2>2, <2>4, <2>5, ComesToRest
  <2>. QED BY <1>10, <2>3, <2>6 DEF b
<1>11. CASE op = "CLR"
  <2>1. e = [d EXCEPT !.q = "enabled"] /\ next = Tail(p)
    BY <1>1, <1>11 DEF AfterReply, NextPlan, After, CallOf
  <2>2. /\ d.chunk.total > 0 /\ Knows(d, b) /\ Present(b, 1, {})
        /\ \/ d.st = "up" /\ p = <<clr>>
           \/ d.st = "leaving" /\ force /\ p = <<clr, del, bye>>
    BY <1>1, <1>11 DEF CallOf, After
  <2>. HIDE DEF b, clr, del, bye
  <2>3. /\ e \in Devices /\ e.st = d.st /\ e.chunk = d.chunk /\ e.q = "enabled" 
        /\ OneQueue(e) = OneQueue(d)
    BY <1>1, <2>1, QueueAfter
  <2>4. Knows(e, b)
    BY <2>2, <2>3 DEF Knows
  <2>5. CASE d.st = "up" /\ p = <<clr>>
    <3>1. next = <<>>
      BY <1>3, <2>1, <2>5, OneMessage
    <3>2. Follows(e, <<>>, force, b)
      BY <2>2, <2>3, <2>4, <2>5, ComesToRest
    <3>. QED BY <1>11, <3>1, <3>2 DEF b
  <2>6. CASE d.st = "leaving" /\ force /\ p = <<clr, del, bye>>
    <3>1. next = <<del, bye>> /\ next \in Plans /\ next # <<>> /\ Head(next)[1] = "QDEL"
      <4>1. Tail(<<clr, del, bye>>) = <<del, bye>>
        BY <1>3, ThreeMessages
      <4>2. <<del, bye>> \in Plans /\ <<del, bye>> # <<>> /\ Head(<<del, bye>>) = del
        BY <1>3, TwoMessages
      <4>. QED BY <1>2, <2>1, <2>6, <4>1, <4>2
    <3>2. CallOf(e, next, force, "QDEL") /\ Before(e, b, "QDEL", FALSE)
      BY <2>2, <2>3, <2>4, <2>6, <3>1 DEF CallOf, Before, del, bye
    <3>. QED BY <1>11, <2>3, <3>1, <3>2 DEF Follows, b
  <2>. QED BY <2>2, <2>5, <2>6
<1>12. CASE op = "QDEL"
  <2>1. e = [d EXCEPT !.q = "off"] /\ next = Tail(p)
    BY <1>1, <1>12 DEF AfterReply, NextPlan, After, CallOf
  <2>2. /\ d.chunk.total > 0 /\ Knows(d, b) /\ Present(b, 0, {})
        /\ \/ d.st = "up" /\ p = <<del>>
           \/ d.st = "leaving" /\ force /\ p = <<del, bye>>
    BY <1>1, <1>12 DEF CallOf, After
  <2>. HIDE DEF b, del, bye
  <2>3. e \in Devices /\ e.st = d.st /\ e.chunk = d.chunk /\ e.q = "off"
    BY <1>1, <2>1, QueueAfter
  <2>4. Knows(e, b)
    BY <2>2, <2>3 DEF Knows
  <2>5. CASE d.st = "up" /\ p = <<del>>
    <3>1. next = <<>>
      BY <1>3, <2>1, <2>5, OneMessage
    <3>2. Follows(e, <<>>, force, b)
      BY <2>2, <2>3, <2>4, <2>5, ComesToRest
    <3>. QED BY <1>12, <3>1, <3>2 DEF b
  <2>6. CASE d.st = "leaving" /\ force /\ p = <<del, bye>>
    <3>1. next = <<bye>> /\ next \in Plans /\ next # <<>> /\ Head(next) = bye
      BY <1>3, <2>1, <2>6, OneMessage, TwoMessages
    <3>2. Rest(e, b, TRUE, FALSE)
      BY <2>2, <2>3, <2>6 DEF Rest, Present, Parting
    <3>. QED BY <1>2, <1>12, <2>3, <3>1, <3>2 DEF Follows, b
  <2>. QED BY <2>2, <2>5, <2>6
<1>. QED BY <1>1, <1>4, <1>5, <1>6, <1>7, <1>8, <1>9, <1>10, <1>11, <1>12 DEF Asking

\* The caller goes on.
LEMMA ReturnKeeps ==
  ASSUME TypeInv, NEW v \in Vfs, Stage(v), Return(v), faults \in Nat, faults' = faults
  PROVE  TypeInv' /\ \A w \in Vfs : Stage(w) => Stage(w)'
<1>. DEFINE m == call[v].ans
            e == AfterReply(v, Op(v), m.ok, m.arg)
            next == NextPlan(v, Op(v), m.ok)
            force == call[v].force
<1>1. /\ call[v].pc \in {"woken", "late"} /\ ~Uncopied(v)
      /\ UNCHANGED <<master, hw, pend, work, out, calls>>
  <2>1. ~Fault
    BY DEF Fault
  <2>. QED BY <2>1 DEF Return
<1>2. Copied(v) /\ call[v].pc = "woken"
  <2>1. call[v].pc # "idle" /\ call[v].pc \notin {"queued", "asleep"}
    BY <1>1
  <2>2. ~AtRest(v)
    BY <2>1, Written DEF AtRest
  <2>3. ~Matched(v)
    BY <1>1 DEF Matched, Uncopied
  <2>4. Copied(v)
    BY <2>1, <2>2, <2>3 DEF Stage, Listed, Sent, Pending, Waits
  <2>. QED BY <2>1, <2>4 DEF Copied
<1>3. /\ work[v].at = "idle" /\ pend[v] = <<>> /\ Free(todo[v], OwnItems)
      /\ NoAnswer(v) /\ Told(v, m) /\ out[v].op \notin Asking \cup {"BYE"}
  BY <1>2 DEF Copied, Told
<1>4. /\ call[v] \in Calls /\ vf \in [Vfs -> Devices] /\ calls \in [Vfs -> Nat]
      /\ call \in [Funcs -> Calls] /\ v \in Funcs
  BY Local, Written DEF TypeInv
<1>5. m \in Messages /\ m.ok \in BOOLEAN /\ force \in BOOLEAN
  BY <1>4 DEF Calls, Messages
<1>6. Follows(e, next, force, Board(v)) /\ (Op(v) = "QREQ" => next = <<>>)
  <2>1. PICK ok \in BOOLEAN : ok = m.ok
    BY <1>5
  <2>2. PICK op, x, n : op = Op(v) /\ x = e /\ n = next
    OBVIOUS
  <2>3. x = AfterReply(v, op, ok, m.arg) /\ n = NextPlan(v, op, ok)
    BY <2>1, <2>2
  <2>. HIDE DEF m, e, next, force
  <2>4. PICK fc \in BOOLEAN : fc = force
    BY <1>5
  <2>. QED BY <1>3, <1>5, <2>1, <2>2, <2>3, <2>4, Replied DEF force
<1>7. /\ vf' = [vf EXCEPT ![v] = e]
      /\ IF next = <<>> THEN call' = [call EXCEPT ![v] = Idle] /\ UNCHANGED todo
         ELSE Submit(v, calls[v], next, force \/ Op(v) = "QREQ")
  <2>1. (call[v].pc = "woken" /\ m.ok) = m.ok
    BY <1>2, <1>5
  <2>. QED BY <2>1 DEF Return, Op
<1>8. e \in Devices /\ next \in Plans
  BY <1>6 DEF Follows
<1>. HIDE DEF e, next
<1>9. vf' \in [Vfs -> Devices] /\ vf'[v] = e /\ \A w \in Vfs : w # v => vf'[w] = vf[w]
  BY <1>4, <1>7, <1>8
<1>10. next # <<>> => \E fc \in BOOLEAN : fc = force /\ Submit(v, calls[v], next, fc)
  <2>1. next # <<>> => (force \/ Op(v) = "QREQ") = force
    BY <1>5, <1>6
  <2>. QED BY <1>5, <1>7, <2>1
<1>11. /\ todo' \in [Funcs -> Seq(Items)] /\ call' \in [Funcs -> Calls] /\ todo'[Pf] = todo[Pf]
       /\ \A f \in Funcs : f # v => todo'[f] = todo[f] /\ call'[f] = call[f]
  <2>1. CASE next = <<>>
    <3>1. call' = [call EXCEPT ![v] = Idle] /\ todo' = todo
      BY <1>7, <2>1
    <3>2. Idle \in Calls /\ todo \in [Funcs -> Seq(Items)]
      BY Written DEF TypeInv
    <3>. QED BY <1>4, <3>1, <3>2
  <2>2. CASE next # <<>>
    BY <1>4, <1>8, <1>10, <2>2, CallTouches
  <2>. QED BY <2>1, <2>2
<1>12. TypeInv'
  BY <1>1, <1>9, <1>11 DEF TypeInv
<1>13. ASSUME NEW w \in Vfs, Stage(w) PROVE Stage(w)'
  <2>1. w \in Funcs /\ w # Pf /\ Board(w)' = Board(w) /\ Kept(w)
    BY <1>1, <1>11, BoardStill, PfStill, Written
  <2>2. CASE w # v
    BY <1>1, <1>4, <1>9, <1>11, <1>13, <2>1, <2>2, Elsewhere
  <2>3. CASE w = v
    <3>1. NoAnswer(v)' /\ SentBye(v) = FALSE /\ SentBye(v)' = FALSE /\ out[v].op \notin Asking
      BY <1>1, <1>3, <2>1, <2>3 DEF Kept, SentBye
    <3>2. CASE next = <<>>
      <4>1. Rest(e, Board(v), FALSE, FALSE)
        BY <1>6, <3>2 DEF Follows
      <4>2. call'[v] = Idle /\ todo'[v] = todo[v]
        BY <1>4, <1>7, <3>2
      <4>3. AtRest(v)'
        BY <1>1, <1>3, <1>9, <2>1, <2>3, <3>1, <4>1, <4>2 DEF AtRest
      <4>. QED BY <2>3, <4>3 DEF Stage
    <3>3. CASE next # <<>>
      <4>1. PICK fc \in BOOLEAN : fc = force /\ Submit(v, calls[v], next, fc)
        BY <1>10, <3>3
      <4>2. PICK op : op = Head(next)[1]
        OBVIOUS
      <4>3. /\ op # "BYE" => CallOf(e, next, fc, op) /\ Before(e, Board(v), op, FALSE)
            /\ op = "BYE" => Head(next)[2] = NoChunk /\ Rest(e, Board(v), TRUE, FALSE)
        BY <1>6, <3>3, <4>1, <4>2 DEF Follows
      <4>4. /\ op # "BYE" => CallOf(vf'[v], next, fc, op) /\ Before(vf'[v], Board(v)', op, SentBye(v))
            /\ op = "BYE" => Head(next)[2] = NoChunk /\ Rest(vf'[v], Board(v)', TRUE, SentBye(v))
        BY <1>9, <2>1, <2>3, <3>1, <4>3
      <4>5. calls'[v] = calls[v] /\ calls[v] \in Nat /\ pend'[v] = <<>> /\ work'[v] = work[v] /\ out'[v] = out[v]
        BY <1>1, <1>3, <1>4
      <4>6. Stage(v)'
        BY <1>3, <1>8, <3>1, <3>3, <4>1, <4>2, <4>4, <4>5, Begins
      <4>. QED BY <2>3, <4>6
    <3>. QED BY <3>2, <3>3
  <2>. QED BY <2>2, <2>3
<1>. QED BY <1>12, <1>13

-----------------------------------------------------------------------------
(***************************************************************************)
(* The physical function.                                                  *)
(***************************************************************************)
\* The request of a function that the PF is about to read
LEMMA PfRequest ==
  ASSUME NEW v \in Vfs, Stage(v), NEW op \in Asking, out[v].op = op
  PROVE  /\ Sent(v) \/ Pending(v)
         /\ op = Op(v) /\ out[v].tag = calls[v] /\ out[v].arg = Head(call[v].plan)[2]
         /\ NoAnswer(v)
         /\ CallOf(vf[v], call[v].plan, call[v].force, op) /\ Before(vf[v], Board(v), op, FALSE)
<1>1. ~AtRest(v) /\ ~Listed(v)
  BY DEF AtRest, Listed
<1>2. \A m : ~Told(v, m)
  BY DEF Told
<1>3. ~Matched(v) /\ ~Copied(v)
  BY <1>2 DEF Matched, Copied
<1>4. Sent(v) \/ Pending(v)
  BY <1>1, <1>3 DEF Stage
<1>5. Asked(v)
  BY <1>4 DEF Sent, Pending
<1>6. out[v] = Request(v) /\ NoAnswer(v) /\ Untold(v)
  BY <1>2, <1>5 DEF Asked
<1>7. op = Op(v) /\ out[v].tag = calls[v] /\ out[v].arg = Head(call[v].plan)[2]
  BY <1>6 DEF Request, Message
<1>8. SentBye(v) = FALSE
  BY DEF SentBye, Asking
<1>. QED BY <1>4, <1>6, <1>7, <1>8 DEF Untold

\* The PF reads a request and puts the answer on its list.
LEMMA PfAnswers ==
  ASSUME TypeInv, NEW v \in Vfs, Stage(v), NEW op \in Asking, PfTakes(v, op),
         NEW ok \in BOOLEAN, NEW arg \in Chunks, Reply(v, ok, arg),
         NEW m, m = Message(op, TRUE, Pf, v, ok, arg, out[v].tag),
         After(vf[v], Board(v)', op, m),
         \A w \in Vfs : w # v => Board(w)' = Board(w),
         hw' \in [fmap : [Vfs -> Chunks], ctx : [0 .. (TotalQ - 1) -> Vfs \cup {NoVf}]]
  PROVE  TypeInv' /\ \A w \in Vfs : Stage(w) => Stage(w)'
<1>. DEFINE e == Item(m, FALSE)
<1>1. /\ out[v].op = op /\ out' = [out EXCEPT ![v] = NoMessage]
      /\ todo' = [todo EXCEPT ![Pf] = Append(@, e)]
      /\ UNCHANGED <<vf, work, calls, call, pend>>
  BY DEF PfTakes, Reply, qdma_mbox_rcv
<1>2. /\ v \in Funcs /\ Pf \in Funcs /\ v # Pf /\ out[v] \in Messages /\ op \in Ops
      /\ NoMessage \in Messages /\ NoMessage.op = "none" /\ ~NoMessage.resp
  BY Local, Written, OpsAre
<1>3. m \in Messages /\ m.resp = TRUE /\ m.to = v /\ m.op = op /\ m.tag = out[v].tag
  <2>1. out[v].tag \in Nat /\ TRUE \in BOOLEAN /\ Pf \in Funcs \cup {NoVf} /\ v \in Funcs \cup {NoVf}
    BY <1>2 DEF Messages
  <2>2. m \in Messages
    BY ONLY <1>2, <2>1, Written, ok \in BOOLEAN, arg \in Chunks, 
            m = Message(op, TRUE, Pf, v, ok, arg, out[v].tag)
  <2>. QED BY <2>2 DEF Message
<1>4. e \in Items /\ e.m = m /\ e.wait = FALSE
  <2>1. FALSE \in BOOLEAN
    OBVIOUS
  <2>. QED BY ONLY <1>3, <2>1, Written
<1>. HIDE DEF e
<1>5. /\ todo' \in [Funcs -> Seq(Items)] /\ todo'[Pf] = Append(todo[Pf], e)
      /\ \A g \in Funcs : g # Pf => todo'[g] = todo[g]
  BY <1>1, <1>2, <1>4, Queued
<1>6. /\ out' \in [Funcs -> Messages] /\ out'[v] = NoMessage
      /\ \A g \in Funcs : g # v => out'[g] = out[g]
  BY <1>1, <1>2 DEF TypeInv
<1>7. TypeInv'
  BY <1>1, <1>5, <1>6 DEF TypeInv
<1>8. ASSUME NEW w \in Vfs, Stage(w) PROVE Stage(w)'
  <2>1. w \in Funcs /\ w # Pf
    BY Written
  <2>2. CASE w # v
    <3>1. e \notin Answers(w)
      BY <1>3, <1>4, <2>2 DEF Answers
    <3>2. Kept(w)
      BY <1>2, <1>4, <1>5, <1>6, <3>1, PfLists
    <3>. QED BY <1>1, <1>2, <1>5, <1>6, <1>8, <2>1, <2>2, <3>2, Elsewhere
  <2>3. CASE w = v
    <3>1. /\ Sent(v) \/ Pending(v)
          /\ op = Op(v) /\ out[v].tag = calls[v] /\ NoAnswer(v)
          /\ CallOf(vf[v], call[v].plan, call[v].force, op)
      BY <1>1, PfRequest
    <3>2. /\ Op(v)' = Op(v) /\ Request(v)' = Request(v) /\ Entered(v)' = Entered(v)
          /\ (Waits(v) => Waits(v)')
      BY <1>1 DEF Op, Request, Entered, Waits
    <3>3. OnlyOne(todo'[Pf], Answers(v), m, FALSE)
      <4>1. e \in Answers(v)
        BY <1>3, <1>4 DEF Answers
      <4>2. todo[Pf] \in Seq(Items) /\ Free(todo[Pf], Answers(v))
        BY <1>2, <3>1, Local DEF NoAnswer
      <4>. QED BY <1>4, <1>5, <4>1, <4>2, Appending
    <3>4. ~(out'[Pf].resp /\ out'[Pf].to = v)
      BY <1>2, <1>6, <3>1 DEF NoAnswer
    <3>5. AnswerIs(v, m)'
      BY <3>3, <3>4 DEF AnswerIs
    <3>6. Fits(v, m)'
      BY <1>1, <1>3, <3>1, <3>2 DEF Fits
    <3>7. Told(v, m)'
      <4>1. out'[v].op \notin Asking \cup {"BYE"}
        BY <1>2, <1>6 DEF Asking
      <4>2. CallOf(vf[v], call[v].plan, call[v].force, Op(v))'
        BY <1>1, <3>1, <3>2
      <4>3. After(vf[v], Board(v), Op(v), m)'
        BY <1>1, <3>1, <3>2
      <4>. QED BY <3>6, <4>1, <4>2, <4>3 DEF Told
    <3>8. Asked(v)'
      BY <3>5, <3>7, AnswerGiven
    <3>9. Sent(v) => Sent(v)'
      BY <1>1, <1>2, <1>5, <3>2, <3>8 DEF Sent
    <3>10. Pending(v) => Pending(v)'
      BY <1>1, <1>2, <1>5, <3>2, <3>8 DEF Pending
    <3>. QED BY <2>3, <3>1, <3>9, <3>10 DEF Stage
  <2>. QED BY <2>2, <2>3
<1>. QED BY <1>7, <1>8

(***************************************************************************)
(* What the hardware holds of a function is within its entry.              *)
(***************************************************************************)
OwnsAll(b) ==
  LET mine == IF b.here THEN ChunkQueues(b.chunk) ELSE {}
  IN  ChunkQueues(b.fmap) \subseteq mine /\ b.ctx \subseteq mine

\* The queue of a function that has a range is in the range.
LEMMA OneIsMine ==
  ASSUME NEW d \in Devices, NEW b, Knows(d, b), d.chunk.total > 0
  PROVE  d.chunk = b.chunk /\ d.chunk.qbase \in ChunkQueues(b.chunk) /\ One(d) \subseteq ChunkQueues(b.chunk)
<1>1. d.chunk = b.chunk /\ d.chunk.total \in Nat /\ d.chunk.qbase \in Int
  BY Asks DEF Knows
<1>2. d.chunk.qbase \in ChunkQueues(d.chunk)
  BY <1>1 DEF ChunkQueues
<1>. QED BY <1>1, <1>2 DEF One

LEMMA Owning ==
  ASSUME NEW d \in Devices, NEW b
  PROVE  /\ Absent(b) \/ Parting(b) \/ Settled(d, b) => OwnsAll(b)
         /\ \A n : Present(b, n, {}) => OwnsAll(b)
         /\ \A n : Present(b, n, One(d)) /\ Knows(d, b) /\ d.chunk.total > 0 => OwnsAll(b)
         /\ \A x, y : Rest(d, b, x, y) => OwnsAll(b)
         /\ \A p, force, op, x : CallOf(d, p, force, op) /\ Before(d, b, op, x) => OwnsAll(b)
         /\ \A p, force, op, m : CallOf(d, p, force, op) /\ After(d, b, op, m) => OwnsAll(b)
<1>1. Absent(b) \/ Parting(b) => OwnsAll(b)
  BY DEF Absent, Parting, OwnsAll
<1>2. ASSUME NEW n, Present(b, n, {}) PROVE OwnsAll(b)
  BY <1>2 DEF Present, OwnsAll
<1>3. ASSUME NEW n, Present(b, n, One(d)), Knows(d, b), d.chunk.total > 0 PROVE OwnsAll(b)
  BY <1>3, OneIsMine DEF Present, OwnsAll
<1>4. Settled(d, b) => OwnsAll(b)
  BY <1>2, <1>3 DEF Settled
<1>5. ASSUME NEW x, NEW y, Rest(d, b, x, y) PROVE OwnsAll(b)
  BY <1>1, <1>4, <1>5 DEF Rest
<1>6. ASSUME NEW p, NEW force, NEW op, CallOf(d, p, force, op) PROVE op = "CLR" \/ op = "WRT" => d.chunk.total > 0
  BY <1>6 DEF CallOf
<1>7. ASSUME NEW p, NEW force, NEW op, NEW x, CallOf(d, p, force, op), Before(d, b, op, x) PROVE OwnsAll(b)
  <2>1. op = "CLR" \/ op = "WRT" => d.chunk.total > 0
    BY <1>6, <1>7
  <2>. QED BY <1>1, <1>2, <1>3, <1>4, <1>7, <2>1 DEF Before
<1>8. ASSUME NEW p, NEW force, NEW op, NEW m, CallOf(d, p, force, op), After(d, b, op, m) PROVE OwnsAll(b)
  <2>1. op = "CLR" \/ op = "WRT" => d.chunk.total > 0
    BY <1>6, <1>8
  <2>. QED BY <1>1, <1>2, <1>3, <1>4, <1>8, <2>1 DEF After
<1>. QED BY <1>1, <1>2, <1>3, <1>4, <1>5, <1>7, <1>8

LEMMA Owned ==
  ASSUME TypeInv, NEW v \in Vfs, Stage(v)
  PROVE  OwnsAll(Board(v))
<1>1. vf[v] \in Devices
  BY DEF TypeInv
<1>2. CASE AtRest(v)
  BY <1>1, <1>2, Owning DEF AtRest
<1>3. CASE Untold(v)
  BY <1>1, <1>3, Owning DEF Untold
<1>4. ASSUME NEW m, Told(v, m) PROVE OwnsAll(Board(v))
  BY <1>1, <1>4, Owning DEF Told
<1>. QED BY <1>2, <1>3, <1>4 DEF Stage, Listed, Sent, Pending, Matched, Copied, Asked

(***************************************************************************)
(* The board of one function, when that of another changes.                *)
(***************************************************************************)
LEMMA BoardElse ==
  ASSUME NEW w \in Vfs, HasEntry(master', w) <=> HasEntry(master, w),
         HasEntry(master, w) => master'.devs[w] = master.devs[w],
         hw'.fmap[w] = hw.fmap[w],
         \A q \in 0 .. (TotalQ - 1) : hw'.ctx[q] = w <=> hw.ctx[q] = w
  PROVE  Board(w)' = Board(w)
<1>1. HasEntry(master', w) = HasEntry(master, w)
  BY DEF HasEntry
<1>2. {q \in 0 .. (TotalQ - 1) : hw'.ctx[q] = w} = {q \in 0 .. (TotalQ - 1) : hw.ctx[q] = w}
  OBVIOUS
<1>3. CASE HasEntry(master, w)
  BY <1>1, <1>2, <1>3 DEF Board
<1>4. CASE ~HasEntry(master, w)
  BY <1>1, <1>2, <1>4 DEF Board
<1>. QED BY <1>3, <1>4

\* The fields of a board
LEMMA BoardFields ==
  ASSUME NEW v \in Vfs
  PROVE  /\ Board(v).here = HasEntry(master, v) /\ Board(v).fmap = hw.fmap[v]
         /\ Board(v).ctx = {q \in 0 .. (TotalQ - 1) : hw.ctx[q] = v}
         /\ HasEntry(master, v) => /\ Board(v).chunk = master.devs[v].chunk
                                   /\ Board(v).cnt = master.devs[v].cnt["H2C"]
BY DEF Board

LEMMA BoardFieldsNext ==
  ASSUME NEW v \in Vfs
  PROVE  /\ Board(v)'.here = HasEntry(master', v) /\ Board(v)'.fmap = hw'.fmap[v]
         /\ Board(v)'.ctx = {q \in 0 .. (TotalQ - 1) : hw'.ctx[q] = v}
         /\ HasEntry(master', v) => /\ Board(v)'.chunk = master'.devs[v].chunk
                                    /\ Board(v)'.cnt = master'.devs[v].cnt["H2C"]
<1>1. Board(v)' = [here  |-> HasEntry(master', v),
                   chunk |-> IF HasEntry(master', v) THEN master'.devs[v].chunk ELSE NoChunk,
                   cnt   |-> IF HasEntry(master', v) THEN master'.devs[v].cnt["H2C"] ELSE 0,
                   fmap  |-> hw'.fmap[v],
                   ctx   |-> {q \in 0 .. (TotalQ - 1) : hw'.ctx[q] = v}]
  BY DEF Board, HasEntry
<1>. QED BY <1>1

\* The range of a function is cleared.
LEMMA UnmappedIs ==
  ASSUME TypeInv, NEW v \in Vfs, NEW c \in Chunks, hw' = [hw EXCEPT !.fmap[v] = c]
  PROVE  /\ hw' \in [fmap : [Vfs -> Chunks], ctx : [0 .. (TotalQ - 1) -> Vfs \cup {NoVf}]]
         /\ hw'.fmap[v] = c /\ hw'.ctx = hw.ctx
         /\ \A w \in Vfs : w # v => hw'.fmap[w] = hw.fmap[w]
BY DEF TypeInv

\* A function asks for the registers: nothing changes.
LEMMA CsrKeeps ==
  ASSUME TypeInv, NEW v \in Vfs, Stage(v), PfCsr(v)
  PROVE  TypeInv' /\ \A w \in Vfs : Stage(w) => Stage(w)'
<1>1. PfTakes(v, "CSR") /\ Reply(v, TRUE, NoChunk) /\ UNCHANGED <<master, hw>> /\ out[v].op = "CSR"
  BY DEF PfCsr, PfTakes
<1>2. PICK op \in Asking : op = "CSR"
  BY DEF Asking
<1>3. PICK m : m = Message(op, TRUE, Pf, v, TRUE, NoChunk, out[v].tag)
  OBVIOUS
<1>4. Before(vf[v], Board(v), op, FALSE)
  BY <1>1, <1>2, PfRequest
<1>5. Board(v)' = Board(v) /\ \A w \in Vfs : Board(w)' = Board(w)
  BY <1>1, BoardStill
<1>6. After(vf[v], Board(v)', op, m)
  <2>1. m.ok = TRUE
    BY <1>3 DEF Message
  <2>2. Knows(vf[v], Board(v)) /\ Present(Board(v), 0, {})
    BY <1>2, <1>4 DEF Before
  <2>. QED BY <1>2, <1>5, <2>1, <2>2 DEF After
<1>7. hw' \in [fmap : [Vfs -> Chunks], ctx : [0 .. (TotalQ - 1) -> Vfs \cup {NoVf}]]
  BY <1>1 DEF TypeInv
<1>8. PICK ok \in BOOLEAN, arg \in Chunks : ok = TRUE /\ arg = NoChunk
  BY Written
<1>. QED BY <1>1, <1>2, <1>3, <1>5, <1>6, <1>7, <1>8, PfAnswers

\* A range is mapped: the one the function has asked for is its own.
LEMMA FmapKeeps ==
  ASSUME TypeInv, NEW v \in Vfs, Stage(v), PfFmap(v)
  PROVE  TypeInv' /\ \A w \in Vfs : Stage(w) => Stage(w)'
<1>1. /\ PfTakes(v, "FMAP") /\ Reply(v, TRUE, NoChunk) /\ master' = master /\ out[v].op = "FMAP"
      /\ hw' = [hw EXCEPT !.fmap[v] = out[v].arg]
  BY DEF PfFmap, PfTakes
<1>2. PICK op \in Asking : op = "FMAP"
  BY DEF Asking
<1>3. PICK m : m = Message(op, TRUE, Pf, v, TRUE, NoChunk, out[v].tag)
  OBVIOUS
<1>4. /\ Before(vf[v], Board(v), op, FALSE) /\ out[v].arg = Head(call[v].plan)[2]
      /\ CallOf(vf[v], call[v].plan, call[v].force, op)
  BY <1>1, <1>2, PfRequest
<1>5. /\ vf[v].chunk.total > 0 /\ out[v].arg = vf[v].chunk
      /\ Knows(vf[v], Board(v)) /\ Present(Board(v), 0, {})
  <2>1. /\ call[v].plan = <<<<"FMAP", vf[v].chunk>>, <<"QADD", OneQueue(vf[v])>>>>
        /\ vf[v].chunk.total > 0
    BY <1>2, <1>4 DEF CallOf
  <2>2. Head(<<<<"FMAP", vf[v].chunk>>, <<"QADD", OneQueue(vf[v])>>>>)[2] = vf[v].chunk
    OBVIOUS
  <2>3. Knows(vf[v], Board(v)) /\ Present(Board(v), 0, {})
    BY <1>2, <1>4 DEF Before
  <2>. QED BY <1>4, <2>1, <2>2, <2>3
<1>6. vf[v].chunk \in Chunks
  BY Asks DEF TypeInv
<1>7. /\ hw' \in [fmap : [Vfs -> Chunks], ctx : [0 .. (TotalQ - 1) -> Vfs \cup {NoVf}]]
      /\ hw'.fmap[v] = vf[v].chunk /\ hw'.ctx = hw.ctx
      /\ \A w \in Vfs : w # v => hw'.fmap[w] = hw.fmap[w]
  BY <1>1, <1>5, <1>6, UnmappedIs
<1>8. \A w \in Vfs : w # v => Board(w)' = Board(w)
  BY <1>1, <1>7, BoardElse
<1>9. After(vf[v], Board(v)', op, m)
  <2>1. m.ok = TRUE
    BY <1>3 DEF Message
  <2>2. HasEntry(master, v) /\ HasEntry(master', v)
    BY <1>1, <1>5, BoardFields DEF Present
  <2>3. /\ Board(v)'.here = Board(v).here /\ Board(v)'.chunk = Board(v).chunk
        /\ Board(v)'.cnt = Board(v).cnt /\ Board(v)'.ctx = Board(v).ctx
        /\ Board(v)'.fmap = vf[v].chunk /\ Board(v).here
    <3>1. /\ Board(v)'.chunk = Board(v).chunk /\ Board(v)'.cnt = Board(v).cnt
          /\ Board(v).here = TRUE /\ Board(v)'.here = TRUE
      BY <1>1, <2>2, BoardFields, BoardFieldsNext
    <3>2. Board(v)'.ctx = Board(v).ctx
      BY <1>7 DEF Board
    <3>3. Board(v)'.fmap = vf[v].chunk
      BY <1>7 DEF Board
    <3>. QED BY <3>1, <3>2, <3>3
  <2>4. vf[v].chunk = Board(v).chunk
    BY <1>5 DEF Knows
  <2>5. PICK b : b = Board(v)'
    OBVIOUS
  <2>6. Knows(vf[v], b) /\ Present(b, 0, {})
    BY <1>5, <2>3, <2>4, <2>5 DEF Knows, Present
  <2>. QED BY <1>2, <2>1, <2>5, <2>6 DEF After
<1>10. PICK ok \in BOOLEAN, arg \in Chunks : ok = TRUE /\ arg = NoChunk
  BY Written
<1>. QED BY <1>1, <1>2, <1>3, <1>7, <1>8, <1>9, <1>10, PfAnswers

\* The queue of a request about the function's one queue
LEMMA AskedQueue ==
  ASSUME TypeInv, Sound(master, Vfs, TotalQ), NEW v \in Vfs, Stage(v),
         NEW op \in {"QADD", "QDEL", "WRT", "CLR"}, out[v].op = op
  PROVE  /\ out[v].arg.qbase = vf[v].chunk.qbase /\ HasEntry(master, v)
         /\ master.devs[v].chunk = vf[v].chunk /\ vf[v].chunk.total > 0
         /\ qdma_dev_is_queue_in_range(master, v, vf[v].chunk.qbase)
         /\ vf[v].chunk.qbase \in 0 .. (TotalQ - 1)
         /\ Present(Board(v), IF op = "QADD" THEN 0 ELSE 1, IF op = "CLR" THEN One(vf[v]) ELSE {})
         /\ v \in DOMAIN master.devs
<1>. DEFINE d == vf[v]
            b == Board(v)
<1>1. op \in Asking
  BY DEF Asking
<1>2. /\ Before(d, b, op, FALSE) /\ out[v].arg = Head(call[v].plan)[2]
      /\ CallOf(d, call[v].plan, call[v].force, op)
  BY <1>1, PfRequest
<1>3. d \in Devices /\ OneQueue(d).qbase = d.chunk.qbase
  BY Asks DEF TypeInv
<1>. HIDE DEF b, d
<1>4. d.chunk.total > 0 /\ Head(call[v].plan)[2] = OneQueue(d)
  <2>1. CASE op = "QADD"
    <3>1. d.chunk.total > 0 /\ call[v].plan = <<<<"QADD", OneQueue(d)>>>>
      BY <1>2, <2>1 DEF CallOf
    <3>. QED BY <3>1
  <2>2. CASE op = "WRT"
    <3>1. d.chunk.total > 0 /\ call[v].plan = <<<<"WRT", OneQueue(d)>>>>
      BY <1>2, <2>2 DEF CallOf
    <3>. QED BY <3>1
  <2>3. CASE op = "CLR"
    <3>1. /\ d.chunk.total > 0
          /\ \/ call[v].plan = <<<<"CLR", OneQueue(d)>>>>
             \/ call[v].plan = <<<<"CLR", OneQueue(d)>>, <<"QDEL", OneQueue(d)>>, <<"BYE", NoChunk>>>>
      BY <1>2, <2>3 DEF CallOf
    <3>. QED BY <3>1
  <2>4. CASE op = "QDEL"
    <3>1. /\ d.chunk.total > 0
          /\ \/ call[v].plan = <<<<"QDEL", OneQueue(d)>>>>
             \/ call[v].plan = <<<<"QDEL", OneQueue(d)>>, <<"BYE", NoChunk>>>>
      BY <1>2, <2>4 DEF CallOf
    <3>. QED BY <3>1
  <2>. QED BY <2>1, <2>2, <2>3, <2>4
<1>5. Knows(d, b) /\ Present(b, IF op = "QADD" THEN 0 ELSE 1, IF op = "CLR" THEN One(d) ELSE {})
  BY <1>2 DEF Before
<1>6. /\ d.chunk = b.chunk /\ d.chunk.qbase \in ChunkQueues(b.chunk)
  BY <1>3, <1>4, <1>5, OneIsMine
<1>7. HasEntry(master, v) /\ b.chunk = master.devs[v].chunk
  BY <1>5, BoardFields DEF Present, b
<1>8. v \in DOMAIN master.devs /\ ChunkQueues(master.devs[v].chunk) \subseteq 0 .. (TotalQ - 1)
  BY <1>7 DEF HasEntry, Sound
<1>9. qdma_dev_is_queue_in_range(master, v, d.chunk.qbase)
  BY <1>6, <1>7 DEF qdma_dev_is_queue_in_range
<1>. QED BY <1>2, <1>3, <1>4, <1>5, <1>6, <1>7, <1>8, <1>9 DEF d, b

\* An entry that keeps its range: the counts and the contexts may have changed.
LEMMA BoardOf ==
  ASSUME NEW v \in Vfs, HasEntry(master, v), HasEntry(master', v),
         master'.devs[v].chunk = master.devs[v].chunk, hw'.fmap[v] = hw.fmap[v],
         NEW k, NEW T, Present(Board(v), k, T),
         NEW n, master'.devs[v].cnt["H2C"] = n,
         NEW S, {q \in 0 .. (TotalQ - 1) : hw'.ctx[q] = v} \subseteq S,
         NEW d
  PROVE  /\ Present(Board(v)', n, S) /\ Board(v)'.chunk = Board(v).chunk
         /\ Knows(d, Board(v)) => Knows(d, Board(v)')
<1>. DEFINE b == Board(v)
            c == Board(v)'
<1>1. /\ b.chunk = master.devs[v].chunk /\ b.fmap = hw.fmap[v]
      /\ ChunkQueues(b.fmap) \subseteq ChunkQueues(b.chunk)
  BY BoardFields DEF Present
<1>2. /\ c.here = HasEntry(master', v) /\ c.fmap = hw'.fmap[v] /\ c.chunk = master'.devs[v].chunk
      /\ c.cnt = n /\ c.ctx = {q \in 0 .. (TotalQ - 1) : hw'.ctx[q] = v}
  BY BoardFieldsNext
<1>. HIDE DEF b, c
<1>3. c.chunk = b.chunk /\ c.fmap = b.fmap
  BY <1>1, <1>2
<1>4. Present(c, n, S)
  BY <1>1, <1>2, <1>3 DEF Present
<1>5. Knows(d, b) => Knows(d, c)
  BY <1>3 DEF Knows
<1>. QED BY <1>3, <1>4, <1>5 DEF b, c

\* A queue of a function has no other function's context.
LEMMA NotOthers ==
  ASSUME TypeInv, Sound(master, Vfs, TotalQ), NEW v \in Vfs, HasEntry(master, v),
         NEW q \in 0 .. (TotalQ - 1), qdma_dev_is_queue_in_range(master, v, q),
         NEW w \in Vfs, w # v, Stage(w)
  PROVE  hw.ctx[q] # w
<1>. SUFFICES ASSUME hw.ctx[q] = w PROVE FALSE
  OBVIOUS
<1>1. q \in Board(w).ctx
  BY BoardFields
<1>2. Board(w).here /\ q \in ChunkQueues(Board(w).chunk)
  BY <1>1, Owned DEF OwnsAll
<1>3. HasEntry(master, w) /\ q \in ChunkQueues(master.devs[w].chunk)
  BY <1>2, BoardFields
<1>4. q \in ChunkQueues(master.devs[v].chunk)
  BY DEF qdma_dev_is_queue_in_range
<1>. QED BY <1>3, <1>4 DEF Sound, HasEntry

\* The contexts of the function's queue are written, or cleared.
LEMMA ContextKeeps ==
  ASSUME TypeInv, Sound(master, Vfs, TotalQ), NEW v \in Vfs, NEW op \in {"WRT", "CLR"},
         \A w \in Vfs : Stage(w), PfContext(v, op)
  PROVE  TypeInv' /\ \A w \in Vfs : Stage(w) => Stage(w)'
<1>. DEFINE d == vf[v]
            q == vf[v].chunk.qbase
            owner == IF op = "WRT" THEN v ELSE NoVf
<1>1. /\ PfTakes(v, op) /\ out[v].op = op /\ Stage(v) /\ op \in Asking
      /\ Reply(v, HasEntry(master, v), NoChunk) /\ master' = master
      /\ hw' = SetContext(v, owner)
  BY DEF PfContext, PfTakes, mbox_write_queue_contexts, mbox_clear_queue_contexts, Asking
<1>2. /\ out[v].arg.qbase = q /\ HasEntry(master, v) /\ qdma_dev_is_queue_in_range(master, v, q)
      /\ q \in 0 .. (TotalQ - 1)
      /\ Present(Board(v), 1, IF op = "CLR" THEN One(d) ELSE {})
  BY <1>1, AskedQueue
<1>3. hw' = [hw EXCEPT !.ctx[q] = owner]
  BY <1>1, <1>2 DEF SetContext
<1>4. owner \in Vfs \cup {NoVf} /\ NoVf \notin Vfs
  BY MailboxAssumption
<1>5. /\ hw' \in [fmap : [Vfs -> Chunks], ctx : [0 .. (TotalQ - 1) -> Vfs \cup {NoVf}]]
      /\ hw'.fmap = hw.fmap /\ hw'.ctx[q] = owner
      /\ \A p \in 0 .. (TotalQ - 1) : p # q => hw'.ctx[p] = hw.ctx[p]
  <2>. HIDE DEF owner, q
  <2>. QED BY <1>2, <1>3, <1>4 DEF TypeInv
<1>6. ASSUME NEW w \in Vfs, w # v PROVE Board(w)' = Board(w)
  <2>1. hw.ctx[q] # w /\ hw'.ctx[q] # w
    BY <1>2, <1>4, <1>5, <1>6, NotOthers
  <2>2. \A p \in 0 .. (TotalQ - 1) : hw'.ctx[p] = w <=> hw.ctx[p] = w
    BY <1>5, <2>1
  <2>3. hw'.fmap[w] = hw.fmap[w]
    BY <1>5
  <2>. QED BY <1>1, <2>2, <2>3, BoardElse
<1>7. Before(d, Board(v), op, FALSE)
  BY <1>1, PfRequest
<1>8. Knows(d, Board(v))
  BY <1>7 DEF Before
<1>9. PICK m : m = Message(op, TRUE, Pf, v, TRUE, NoChunk, out[v].tag)
  OBVIOUS
<1>10. After(d, Board(v)', op, m)
  <2>1. m.ok = TRUE
    BY <1>9 DEF Message
  <2>2. master.devs[v].cnt["H2C"] = 1 /\ {p \in 0 .. (TotalQ - 1) : hw.ctx[p] = v} \subseteq One(d)
    BY <1>2, BoardFields DEF Present
  <2>3. {p \in 0 .. (TotalQ - 1) : hw'.ctx[p] = v} \subseteq IF op = "WRT" THEN One(d) ELSE {}
    BY <1>4, <1>5, <2>2 DEF One
  <2>4. HasEntry(master', v) /\ master'.devs[v].chunk = master.devs[v].chunk /\ hw'.fmap[v] = hw.fmap[v]
        /\ master'.devs[v].cnt["H2C"] = 1
    BY <1>1, <1>2, <1>5, <2>2
  <2>5. /\ Present(Board(v)', 1, IF op = "WRT" THEN One(d) ELSE {})
        /\ Knows(d, Board(v)')
    <3>1. PICK S : S = IF op = "WRT" THEN One(d) ELSE {}
      OBVIOUS
    <3>2. Present(Board(v)', 1, S) /\ Knows(d, Board(v)')
      BY <1>2, <1>8, <2>3, <2>4, <3>1, BoardOf
    <3>. QED BY <3>1, <3>2
  <2>. QED BY <2>1, <2>5 DEF After
<1>11. PICK ok \in BOOLEAN, arg \in Chunks : ok = TRUE /\ arg = NoChunk
  BY Written
<1>12. Reply(v, TRUE, NoChunk)
  <2>1. HasEntry(master, v) = TRUE
    BY <1>2 DEF HasEntry
  <2>. QED BY <1>1, <2>1
<1>. QED BY <1>1, <1>5, <1>6, <1>9, <1>10, <1>11, <1>12, PfAnswers

\* The PF counts the function's queue: there is room for it in the range.
LEMMA QueueAddKeeps ==
  ASSUME TypeInv, Sound(master, Vfs, TotalQ), NEW v \in Vfs, Stage(v), PfQueueAdd(v)
  PROVE  /\ TypeInv' /\ \A w \in Vfs : Stage(w) => Stage(w)'
         /\ Sound(master', Vfs, TotalQ) /\ DOMAIN master'.devs = DOMAIN master.devs
<1>. DEFINE d == vf[v]
            up == qdma_dev_increment_active_queue(master, v, "H2C")
<1>1. PICK op \in {"QADD", "QDEL"} : op = "QADD"
  OBVIOUS
<1>2. /\ out[v].op = op /\ op \in Asking /\ PfTakes(v, op) /\ hw' = hw
  BY <1>1 DEF PfQueueAdd, PfTakes, Asking
<1>3. /\ out[v].arg.qbase = d.chunk.qbase /\ HasEntry(master, v)
      /\ master.devs[v].chunk = d.chunk /\ d.chunk.total > 0
      /\ qdma_dev_is_queue_in_range(master, v, d.chunk.qbase)
      /\ Present(Board(v), 0, {})
  BY <1>1, <1>2, AskedQueue
<1>4. master.devs[v].cnt["H2C"] = 0 /\ {q \in 0 .. (TotalQ - 1) : hw.ctx[q] = v} \subseteq {}
  BY <1>3, BoardFields DEF Present
<1>5. up.ok = TRUE
  <2>1. master.devs[v].chunk.total >= master.devs[v].cnt["H2C"] + 1
    <3>1. d.chunk.total \in Nat
      BY Asks DEF TypeInv
    <3>. QED BY <1>3, <1>4, <3>1
  <2>. QED BY <1>3, <2>1 DEF qdma_dev_increment_active_queue
<1>6. master' = up.m /\ Reply(v, TRUE, NoChunk)
  <2>1. qdma_dev_is_queue_in_range(master, v, out[v].arg.qbase) = TRUE
    BY <1>3 DEF qdma_dev_is_queue_in_range, HasEntry
  <2>2. (TRUE /\ up.ok) = TRUE
    BY <1>5
  <2>. QED BY <1>5, <2>1, <2>2 DEF PfQueueAdd
<1>7. /\ Sound(master', Vfs, TotalQ) /\ DOMAIN master'.devs = DOMAIN master.devs
      /\ HasEntry(master', v) /\ master'.devs[v].chunk = master.devs[v].chunk
      /\ \A w \in Vfs : w # v /\ HasEntry(master, w) => master'.devs[w] = master.devs[w]
      /\ master'.devs[v].cnt["H2C"] = 1
  <2>. HIDE DEF up
  <2>1. master \in Masters(Vfs) /\ v \in DOMAIN master.devs /\ "H2C" \in QTypes
    BY <1>3 DEF Sound, HasEntry, QTypes
  <2>2. master' \in Recounts(master, Vfs)
    BY <1>6, <2>1, CountIs DEF up
  <2>3. /\ Sound(master', Vfs, TotalQ) /\ DOMAIN master'.devs = DOMAIN master.devs
        /\ master'.devs[v].chunk = master.devs[v].chunk
    BY <2>1, <2>2, RecountSound
  <2>4. /\ up.ok => up.m.devs[v].cnt["H2C"] = master.devs[v].cnt["H2C"] + 1
        /\ \A g \in DOMAIN master.devs \ {v} : up.m.devs[g] = master.devs[g]
    BY <2>1, CountsOneType DEF up
  <2>5. master'.devs[v].cnt["H2C"] = 1
    BY <1>4, <1>5, <1>6, <2>4
  <2>6. \A w \in Vfs : w # v /\ HasEntry(master, w) => master'.devs[w] = master.devs[w]
    BY <1>6, <2>4 DEF HasEntry
  <2>7. HasEntry(master', v)
    BY <2>1, <2>3 DEF HasEntry
  <2>. QED BY <2>3, <2>5, <2>6, <2>7
<1>. HIDE DEF up
<1>8. \A w \in Vfs : w # v => Board(w)' = Board(w)
  <2>1. \A w \in Vfs : HasEntry(master', w) <=> HasEntry(master, w)
    BY <1>7 DEF HasEntry
  <2>. QED BY <1>2, <1>7, <2>1, BoardElse
<1>9. PICK m : m = Message(op, TRUE, Pf, v, TRUE, NoChunk, out[v].tag)
  OBVIOUS
<1>10. After(d, Board(v)', op, m)
  <2>1. m.ok = TRUE
    BY <1>9 DEF Message
  <2>2. Knows(d, Board(v))
    BY <1>1, <1>2, PfRequest DEF Before
  <2>3. {q \in 0 .. (TotalQ - 1) : hw'.ctx[q] = v} \subseteq {} /\ hw'.fmap[v] = hw.fmap[v]
    BY <1>2, <1>4
  <2>4. Present(Board(v)', 1, {}) /\ Knows(d, Board(v)')
    BY <1>3, <1>7, <2>2, <2>3, BoardOf
  <2>. QED BY <1>1, <2>1, <2>4 DEF After
<1>11. PICK ok \in BOOLEAN, arg \in Chunks : ok = TRUE /\ arg = NoChunk
  BY Written
<1>12. hw' \in [fmap : [Vfs -> Chunks], ctx : [0 .. (TotalQ - 1) -> Vfs \cup {NoVf}]]
  BY <1>2 DEF TypeInv
<1>. QED BY <1>2, <1>6, <1>7, <1>8, <1>9, <1>10, <1>11, <1>12, PfAnswers

\* The PF counts it no more.
LEMMA QueueDelKeeps ==
  ASSUME TypeInv, Sound(master, Vfs, TotalQ), NEW v \in Vfs, Stage(v), PfQueueDel(v)
  PROVE  /\ TypeInv' /\ \A w \in Vfs : Stage(w) => Stage(w)'
         /\ Sound(master', Vfs, TotalQ) /\ DOMAIN master'.devs = DOMAIN master.devs
<1>. DEFINE d == vf[v]
<1>1. PICK op \in {"QADD", "QDEL"} : op = "QDEL"
  OBVIOUS
<1>2. /\ out[v].op = op /\ op \in Asking /\ PfTakes(v, op) /\ hw' = hw
  BY <1>1 DEF PfQueueDel, PfTakes, Asking
<1>3. /\ out[v].arg.qbase = d.chunk.qbase /\ HasEntry(master, v)
      /\ qdma_dev_is_queue_in_range(master, v, d.chunk.qbase)
      /\ Present(Board(v), 1, {})
  BY <1>1, <1>2, AskedQueue
<1>4. master.devs[v].cnt["H2C"] = 1 /\ {q \in 0 .. (TotalQ - 1) : hw.ctx[q] = v} \subseteq {}
  BY <1>3, BoardFields DEF Present
<1>5. master' = qdma_dev_decrement_active_queue(master, v, "H2C") /\ Reply(v, TRUE, NoChunk)
  <2>1. qdma_dev_is_queue_in_range(master, v, out[v].arg.qbase) = TRUE
    BY <1>3 DEF qdma_dev_is_queue_in_range, HasEntry
  <2>. QED BY <2>1 DEF PfQueueDel
<1>6. /\ Sound(master', Vfs, TotalQ) /\ DOMAIN master'.devs = DOMAIN master.devs
      /\ HasEntry(master', v) /\ master'.devs[v].chunk = master.devs[v].chunk
      /\ \A w \in Vfs : w # v /\ HasEntry(master, w) => master'.devs[w] = master.devs[w]
      /\ master'.devs[v].cnt["H2C"] = 0
  <2>1. master \in Masters(Vfs) /\ v \in DOMAIN master.devs /\ "H2C" \in QTypes
    BY <1>3 DEF Sound, HasEntry, QTypes
  <2>2. master' \in Recounts(master, Vfs)
    BY <1>5, <2>1, CountIs
  <2>3. /\ Sound(master', Vfs, TotalQ) /\ DOMAIN master'.devs = DOMAIN master.devs
        /\ master'.devs[v].chunk = master.devs[v].chunk
    BY <2>1, <2>2, RecountSound
  <2>4. /\ master'.devs[v].cnt["H2C"] = IF master.devs[v].cnt["H2C"] > 0 THEN master.devs[v].cnt["H2C"] - 1 ELSE 0
        /\ \A g \in DOMAIN master.devs \ {v} : master'.devs[g] = master.devs[g]
    BY <1>5, <2>1, CountsOneType
  <2>5. master'.devs[v].cnt["H2C"] = 0
    BY <1>4, <2>4
  <2>6. \A w \in Vfs : w # v /\ HasEntry(master, w) => master'.devs[w] = master.devs[w]
    BY <2>4 DEF HasEntry
  <2>7. HasEntry(master', v)
    BY <2>1, <2>3 DEF HasEntry
  <2>. QED BY <2>3, <2>5, <2>6, <2>7
<1>8. \A w \in Vfs : w # v => Board(w)' = Board(w)
  <2>1. \A w \in Vfs : HasEntry(master', w) <=> HasEntry(master, w)
    BY <1>6 DEF HasEntry
  <2>. QED BY <1>2, <1>6, <2>1, BoardElse
<1>9. PICK m : m = Message(op, TRUE, Pf, v, TRUE, NoChunk, out[v].tag)
  OBVIOUS
<1>10. After(d, Board(v)', op, m)
  <2>1. m.ok = TRUE
    BY <1>9 DEF Message
  <2>2. Knows(d, Board(v))
    BY <1>1, <1>2, PfRequest DEF Before
  <2>3. {q \in 0 .. (TotalQ - 1) : hw'.ctx[q] = v} \subseteq {} /\ hw'.fmap[v] = hw.fmap[v]
    BY <1>2, <1>4
  <2>4. Present(Board(v)', 0, {}) /\ Knows(d, Board(v)')
    BY <1>3, <1>6, <2>2, <2>3, BoardOf
  <2>. QED BY <1>1, <2>1, <2>4 DEF After
<1>11. PICK ok \in BOOLEAN, arg \in Chunks : ok = TRUE /\ arg = NoChunk
  BY Written
<1>12. hw' \in [fmap : [Vfs -> Chunks], ctx : [0 .. (TotalQ - 1) -> Vfs \cup {NoVf}]]
  BY <1>2 DEF TypeInv
<1>. QED BY <1>2, <1>5, <1>6, <1>8, <1>9, <1>10, <1>11, <1>12, PfAnswers

\* A board that was settled, and has kept its queues, is settled.
LEMMA StillSettled ==
  ASSUME NEW d, NEW b, NEW c, Settled(d, b), c.here, c.cnt = b.cnt, c.ctx = b.ctx, c.fmap = b.fmap,
         ChunkQueues(c.chunk) = ChunkQueues(b.chunk), d.chunk.total > 0 => c.chunk = b.chunk
  PROVE  Settled(d, c)
<1>1. \A n, S : Present(b, n, S) => Present(c, n, S)
  BY DEF Present
<1>2. Knows(d, b) => Knows(d, c)
  BY DEF Knows
<1>. QED BY <1>1, <1>2 DEF Settled

\* The range of a function is changed, or is not: then it has the queues it had.
LEMMA QreqKeeps ==
  ASSUME TypeInv, Sound(master, Vfs, TotalQ), NEW v \in Vfs, Stage(v), PfQreq(v)
  PROVE  /\ TypeInv' /\ \A w \in Vfs : Stage(w) => Stage(w)'
         /\ Sound(master', Vfs, TotalQ) /\ DOMAIN master'.devs = DOMAIN master.devs
<1>. DEFINE d == vf[v]
            qmax == out[v].arg.total
            qbase == out[v].arg.qbase
<1>1. PICK op \in Asking : op = "QREQ"
  BY DEF Asking
<1>2. out[v].op = op /\ PfTakes(v, op)
  BY <1>1 DEF PfQreq, PfTakes
<1>3. Settled(d, Board(v))
  BY <1>1, <1>2, PfRequest DEF Before
<1>4. HasEntry(master, v) /\ v \in DOMAIN master.devs
  BY <1>3, BoardFields DEF Settled, Present, HasEntry
<1>5. qmax \in Nat /\ qbase \in Int
  <2>1. out[v] \in Messages
    BY Local, Written
  <2>2. out[v].arg \in Chunks
    BY <2>1 DEF Messages
  <2>. QED BY <2>2 DEF Chunks
<1>6. PICK r : r = qdma_dev_update(master, v, qmax, qbase)
  OBVIOUS
<1>7. PICK old : old = master.devs[v].chunk
  OBVIOUS
<1>8. /\ r.ok \in BOOLEAN /\ Sound(r.m, Vfs, TotalQ) /\ DOMAIN r.m.devs = DOMAIN master.devs
      /\ \A g \in DOMAIN master.devs : g # v => r.m.devs[g] = master.devs[g]
      /\ r.m.devs[v].cnt = master.devs[v].cnt
      /\ r.ok => \A t \in QTypes : ~(master.devs[v].cnt[t] > 0)
      /\ ~r.ok => /\ r.m.devs[v].chunk.total = old.total
                  /\ old.total > 0 => r.m.devs[v].chunk = old
  <2>. HIDE DEF qmax, qbase
  <2>. QED BY <1>4, <1>5, <1>6, <1>7, UpdateIs
<1>9. /\ master' = r.m /\ hw' = IF r.ok THEN Unmapped(v) ELSE hw
      /\ Reply(v, r.ok, IF r.ok THEN qdma_dev_qinfo_get(r.m, v) ELSE NoChunk)
  BY <1>4, <1>6 DEF PfQreq
<1>10. PICK arg : arg = IF r.ok THEN r.m.devs[v].chunk ELSE NoChunk
  OBVIOUS
<1>11. Reply(v, r.ok, arg)
  BY <1>9, <1>10 DEF qdma_dev_qinfo_get
<1>12. master'.devs[v].chunk \in Chunks /\ old \in Chunks /\ master.devs[v].cnt["H2C"] \in Nat
  <2>1. /\ master \in Masters(Vfs) /\ master' \in Masters(Vfs) /\ v \in DOMAIN master'.devs
        /\ "H2C" \in QTypes
    BY <1>4, <1>8, <1>9 DEF Sound, QTypes
  <2>. QED BY <1>4, <1>7, <2>1, MasterIs
<1>13. arg \in Chunks
  BY <1>9, <1>10, <1>12, Written
<1>14. hw' = hw \/ hw' = [hw EXCEPT !.fmap[v] = Chunk(0, 0)]
  BY <1>9 DEF Unmapped
<1>15. Chunk(0, 0) \in Chunks /\ ChunkQueues(Chunk(0, 0)) = {}
  BY ChunkIs, EmptyChunk
<1>16. /\ hw' \in [fmap : [Vfs -> Chunks], ctx : [0 .. (TotalQ - 1) -> Vfs \cup {NoVf}]]
       /\ hw'.ctx = hw.ctx /\ \A w \in Vfs : w # v => hw'.fmap[w] = hw.fmap[w]
  <2>1. CASE hw' = hw
    BY <2>1 DEF TypeInv
  <2>2. CASE hw' = [hw EXCEPT !.fmap[v] = Chunk(0, 0)]
    BY <1>15, <2>2, UnmappedIs
  <2>. QED BY <1>14, <2>1, <2>2
<1>17. \A w \in Vfs : w # v => Board(w)' = Board(w)
  <2>1. \A w \in Vfs : HasEntry(master', w) <=> HasEntry(master, w)
    BY <1>8, <1>9 DEF HasEntry
  <2>2. \A w \in Vfs : w # v /\ HasEntry(master, w) => master'.devs[w] = master.devs[w]
    BY <1>8, <1>9 DEF HasEntry
  <2>. QED BY <1>16, <2>1, <2>2, BoardElse
<1>18. PICK m : m = Message(op, TRUE, Pf, v, r.ok, arg, out[v].tag)
  OBVIOUS
<1>19. m.ok = r.ok /\ m.arg = arg
  BY <1>18 DEF Message
<1>20. /\ Board(v)'.here = TRUE /\ Board(v)'.chunk = master'.devs[v].chunk
       /\ Board(v)'.cnt = Board(v).cnt /\ Board(v)'.ctx = Board(v).ctx /\ Board(v)'.fmap = hw'.fmap[v]
  <2>1. HasEntry(master', v) /\ HasEntry(master', v) = TRUE
    BY <1>4, <1>8, <1>9 DEF HasEntry
  <2>2. /\ Board(v)'.here = TRUE /\ Board(v)'.chunk = master'.devs[v].chunk
        /\ Board(v)'.fmap = hw'.fmap[v] /\ Board(v)'.cnt = master'.devs[v].cnt["H2C"]
    BY <2>1, BoardFieldsNext
  <2>3. Board(v)'.ctx = Board(v).ctx
    BY <1>16 DEF Board
  <2>4. Board(v).cnt = master.devs[v].cnt["H2C"] /\ master'.devs[v].cnt["H2C"] = master.devs[v].cnt["H2C"]
    BY <1>4, <1>8, <1>9, BoardFields
  <2>. QED BY <2>2, <2>3, <2>4
<1>21. Board(v).chunk = old /\ Board(v).fmap = hw.fmap[v] /\ Board(v).cnt = master.devs[v].cnt["H2C"]
  BY <1>4, <1>7, BoardFields
<1>22. PICK c : c = Board(v)'
  OBVIOUS
<1>23. CASE r.ok
  <2>1. d.q = "off" /\ Present(Board(v), 0, {})
    <3>1. ~(Board(v).cnt > 0)
      BY <1>8, <1>21, <1>23 DEF QTypes
    <3>. QED BY <1>3, <3>1 DEF Settled, Present
  <2>2. c.fmap = Chunk(0, 0)
    <3>1. hw' = [hw EXCEPT !.fmap[v] = Chunk(0, 0)]
      BY <1>9, <1>23 DEF Unmapped
    <3>2. hw'.fmap[v] = Chunk(0, 0)
      BY <1>15, <3>1, UnmappedIs
    <3>. QED BY <1>20, <1>22, <3>2
  <2>3. Present(c, 0, {})
    BY <1>15, <1>20, <1>22, <2>1, <2>2 DEF Present
  <2>4. m.arg = c.chunk
    BY <1>9, <1>10, <1>19, <1>20, <1>22, <1>23
  <2>5. After(d, c, op, m)
    BY <1>1, <1>19, <1>23, <2>1, <2>3, <2>4 DEF After
  <2>. QED BY <1>2, <1>8, <1>9, <1>11, <1>13, <1>16, <1>17, <1>18, <1>22, <2>5, PfAnswers
<1>24. CASE ~r.ok
  <2>1. c.chunk.total = old.total /\ (old.total > 0 => c.chunk = old) /\ c.chunk \in Chunks
    BY <1>8, <1>9, <1>12, <1>20, <1>22, <1>24
  <2>2. ChunkQueues(c.chunk) = ChunkQueues(Board(v).chunk)
    <3>1. CASE old.total > 0
      BY <1>21, <2>1, <3>1
    <3>2. CASE ~(old.total > 0)
      <4>1. old.total = 0
        BY <1>12, <3>2 DEF Chunks
      <4>2. ChunkQueues(old) = {}
        BY <1>12, <4>1, EmptyChunk
      <4>3. ChunkQueues(c.chunk) = {}
        BY <2>1, <4>1, EmptyChunk
      <4>. QED BY <1>21, <4>2, <4>3
    <3>. QED BY <3>1, <3>2
  <2>3. d.chunk.total > 0 => c.chunk = Board(v).chunk
    BY <1>3, <1>21, <2>1 DEF Settled, Knows
  <2>4. c.here /\ c.cnt = Board(v).cnt /\ c.ctx = Board(v).ctx /\ c.fmap = Board(v).fmap
    BY <1>9, <1>20, <1>21, <1>22, <1>24
  <2>5. Settled(d, c)
    BY <1>3, <2>2, <2>3, <2>4, StillSettled
  <2>6. After(d, c, op, m)
    BY <1>1, <1>19, <1>24, <2>5 DEF After
  <2>. QED BY <1>2, <1>8, <1>9, <1>11, <1>13, <1>16, <1>17, <1>18, <1>22, <2>6, PfAnswers
<1>. QED BY <1>23, <1>24

\* A function is greeted: it gets an entry, without queues.
LEMMA HelloKeeps ==
  ASSUME TypeInv, Sound(master, Vfs, TotalQ), NEW v \in Vfs, Stage(v), PfHello(v)
  PROVE  /\ TypeInv' /\ \A w \in Vfs : Stage(w) => Stage(w)'
         /\ Sound(master', Vfs, TotalQ) /\ v \notin DOMAIN master.devs
         /\ DOMAIN master'.devs = DOMAIN master.devs \cup {v}
<1>1. PICK op \in Asking : op = "HELLO"
  BY DEF Asking
<1>2. /\ out[v].op = op /\ PfTakes(v, op) /\ Reply(v, TRUE, NoChunk)
      /\ hw' = [hw EXCEPT !.fmap[v] = Chunk(0, 0)]
  BY <1>1 DEF PfHello, PfTakes, Unmapped
<1>3. Absent(Board(v))
  BY <1>1, <1>2, PfRequest DEF Before
<1>4. ~HasEntry(master, v) /\ v \notin DOMAIN master.devs
  BY <1>3, BoardFields DEF Absent, HasEntry
<1>5. master' = qdma_dev_entry_create(master, v)
  BY <1>4 DEF PfHello
<1>6. /\ Sound(master', Vfs, TotalQ) /\ DOMAIN master'.devs = DOMAIN master.devs \cup {v}
      /\ \A g \in DOMAIN master.devs : master'.devs[g] = master.devs[g]
      /\ master'.devs[v] = [chunk |-> NoChunk, cnt |-> [t \in QTypes |-> 0]]
  BY <1>4, <1>5, CreateIs
<1>7. Chunk(0, 0) \in Chunks /\ ChunkQueues(Chunk(0, 0)) = {}
  BY ChunkIs, EmptyChunk
<1>8. /\ hw' \in [fmap : [Vfs -> Chunks], ctx : [0 .. (TotalQ - 1) -> Vfs \cup {NoVf}]]
      /\ hw'.ctx = hw.ctx /\ hw'.fmap[v] = Chunk(0, 0)
      /\ \A w \in Vfs : w # v => hw'.fmap[w] = hw.fmap[w]
  BY <1>2, <1>7, UnmappedIs
<1>9. \A w \in Vfs : w # v => Board(w)' = Board(w)
  <2>1. \A w \in Vfs : w # v => (HasEntry(master', w) <=> HasEntry(master, w))
    BY <1>6 DEF HasEntry
  <2>2. \A w \in Vfs : w # v /\ HasEntry(master, w) => master'.devs[w] = master.devs[w]
    BY <1>6 DEF HasEntry
  <2>. QED BY <1>8, <2>1, <2>2, BoardElse
<1>10. PICK m : m = Message(op, TRUE, Pf, v, TRUE, NoChunk, out[v].tag)
  OBVIOUS
<1>11. After(vf[v], Board(v)', op, m)
  <2>1. m.ok = TRUE
    BY <1>10 DEF Message
  <2>2. HasEntry(master', v)
    BY <1>6 DEF HasEntry
  <2>3. Board(v)'.here /\ Board(v)'.cnt = 0 /\ Board(v)'.fmap = Chunk(0, 0)
    <3>1. "H2C" \in QTypes
      BY DEF QTypes
    <3>. QED BY <1>6, <1>8, <2>2, <3>1, BoardFieldsNext
  <2>4. Board(v)'.ctx = {}
    <3>1. Board(v)'.ctx = Board(v).ctx
      BY <1>8 DEF Board
    <3>. QED BY <1>3, <3>1 DEF Absent
  <2>5. PICK c : c = Board(v)'
    OBVIOUS
  <2>6. Present(c, 0, {})
    BY <1>7, <2>3, <2>4, <2>5 DEF Present
  <2>. QED BY <1>1, <2>1, <2>5, <2>6 DEF After
<1>12. PICK ok \in BOOLEAN, arg \in Chunks : ok = TRUE /\ arg = NoChunk
  BY Written
<1>. QED BY <1>2, <1>4, <1>6, <1>8, <1>9, <1>10, <1>11, <1>12, PfAnswers

\* The stage of a function whose farewell is in its mailbox
LEMMA PfFarewell ==
  ASSUME NEW v \in Vfs, Stage(v), SentBye(v)
  PROVE  /\ AtRest(v) \/ Listed(v)
         /\ AtRest(v) => Free(todo[v], OwnItems) /\ (vf[v].st = "leaving" \/ vf[v] = DownVf)
         /\ Listed(v) => Op(v) = "HELLO"
         /\ Parting(Board(v))
<1>1. out[v].op = "BYE" /\ SentBye(v) = TRUE
  BY DEF SentBye
<1>2. \A m : ~Told(v, m)
  BY <1>1 DEF Told
<1>3. ~Matched(v) /\ ~Copied(v)
  BY <1>2 DEF Matched, Copied
<1>4. Untold(v) => Op(v) = "HELLO" /\ Parting(Board(v))
  BY <1>1 DEF Untold, CallOf, Before
<1>5. ~Asked(v)
  <2>. SUFFICES ASSUME Asked(v) PROVE FALSE
    OBVIOUS
  <2>1. out[v] = Request(v) /\ Untold(v)
    BY <1>2 DEF Asked
  <2>2. out[v].op = Op(v)
    BY <2>1 DEF Request, Message
  <2>. QED BY <1>1, <1>4, <2>1, <2>2
<1>6. AtRest(v) \/ Listed(v)
  BY <1>3, <1>5 DEF Stage, Sent, Pending
<1>7. \A x : Rest(vf[v], Board(v), x, TRUE) =>
        ~x /\ Parting(Board(v)) /\ (vf[v].st = "leaving" \/ vf[v] = DownVf)
  BY DEF Rest
<1>8. AtRest(v) => /\ Free(todo[v], OwnItems) /\ Parting(Board(v))
                   /\ vf[v].st = "leaving" \/ vf[v] = DownVf
  BY <1>1, <1>7 DEF AtRest
<1>9. Listed(v) => Untold(v)
  BY DEF Listed
<1>. QED BY <1>4, <1>6, <1>8, <1>9

\* A function has said farewell: its entry is gone, and its queues are free.
LEMMA ByeKeeps ==
  ASSUME TypeInv, Sound(master, Vfs, TotalQ), NEW v \in Vfs, Stage(v), PfBye(v)
  PROVE  /\ TypeInv' /\ \A w \in Vfs : Stage(w) => Stage(w)'
         /\ Sound(master', Vfs, TotalQ) /\ v \in DOMAIN master.devs
         /\ DOMAIN master'.devs = DOMAIN master.devs \ {v}
<1>1. /\ SentBye(v) /\ out' = [out EXCEPT ![v] = NoMessage]
      /\ hw' = [hw EXCEPT !.fmap[v] = Chunk(0, 0)]
      /\ UNCHANGED <<vf, work, calls, call, todo, pend>>
  BY DEF PfBye, PfTakes, qdma_mbox_rcv, SentBye, Unmapped
<1>2. Parting(Board(v))
  BY <1>1, PfFarewell
<1>3. HasEntry(master, v) /\ v \in DOMAIN master.devs
  BY <1>2, BoardFields DEF Parting, HasEntry
<1>4. master' = qdma_dev_entry_destroy(master, v)
  BY <1>3 DEF PfBye
<1>5. /\ Sound(master', Vfs, TotalQ) /\ DOMAIN master'.devs = DOMAIN master.devs \ {v}
      /\ \A g \in DOMAIN master.devs \ {v} : master'.devs[g] = master.devs[g]
  BY <1>3, <1>4, DestroyIs
<1>6. Chunk(0, 0) \in Chunks /\ ChunkQueues(Chunk(0, 0)) = {}
  BY ChunkIs, EmptyChunk
<1>7. /\ hw' \in [fmap : [Vfs -> Chunks], ctx : [0 .. (TotalQ - 1) -> Vfs \cup {NoVf}]]
      /\ hw'.ctx = hw.ctx /\ hw'.fmap[v] = Chunk(0, 0)
      /\ \A w \in Vfs : w # v => hw'.fmap[w] = hw.fmap[w]
  BY <1>1, <1>6, UnmappedIs
<1>8. /\ v \in Funcs /\ Pf \in Funcs /\ v # Pf /\ NoMessage \in Messages /\ NoMessage.op = "none"
  BY Written
<1>9. /\ out' \in [Funcs -> Messages] /\ out'[v] = NoMessage
      /\ \A g \in Funcs : g # v => out'[g] = out[g]
  BY <1>1, <1>8 DEF TypeInv
<1>10. TypeInv'
  BY <1>1, <1>7, <1>9 DEF TypeInv
<1>11. ASSUME NEW w \in Vfs, w # v, Stage(w) PROVE Stage(w)'
  <2>1. (HasEntry(master', w) <=> HasEntry(master, w)) /\ (HasEntry(master, w) => master'.devs[w] = master.devs[w])
    BY <1>5, <1>11 DEF HasEntry
  <2>2. Board(w)' = Board(w)
    BY <1>7, <1>11, <2>1, BoardElse
  <2>3. w \in Funcs /\ Kept(w)
    BY <1>1, <1>8, <1>9, Written, PfStill
  <2>. QED BY <1>1, <1>8, <1>9, <1>11, <2>2, <2>3, Elsewhere
<1>12. Absent(Board(v)')
  <2>1. ~Board(v)'.here /\ Board(v)'.fmap = Chunk(0, 0)
    BY <1>5, <1>7, BoardFieldsNext DEF HasEntry
  <2>2. Board(v)'.ctx = {}
    <3>1. Board(v)'.ctx = Board(v).ctx
      BY <1>7 DEF Board
    <3>. QED BY <1>2, <3>1 DEF Parting
  <2>3. PICK c : c = Board(v)'
    OBVIOUS
  <2>4. Absent(c)
    BY <1>6, <2>1, <2>2, <2>3 DEF Absent
  <2>. QED BY <2>3, <2>4
<1>13. SentBye(v)' = FALSE /\ out'[v].op \notin Asking /\ (NoAnswer(v) => NoAnswer(v)')
  <2>1. Kept(v)
    BY <1>1, <1>8, <1>9, PfStill
  <2>. QED BY <1>8, <1>9, <2>1 DEF SentBye, Asking, Kept
<1>14. Stage(v)'
  <2>1. CASE AtRest(v)
    <3>1. Free(todo[v], OwnItems) /\ (vf[v].st = "leaving" \/ vf[v] = DownVf)
      BY <1>1, <2>1, PfFarewell
    <3>2. PICK c : c = Board(v)'
      OBVIOUS
    <3>3. Rest(vf[v], c, FALSE, FALSE)
      BY <1>12, <3>1, <3>2 DEF Rest
    <3>4. AtRest(v)'
      BY <1>1, <1>13, <2>1, <3>1, <3>2, <3>3 DEF AtRest
    <3>. QED BY <3>4 DEF Stage
  <2>2. CASE Listed(v)
    <3>1. Op(v) = "HELLO" /\ Op(v)' = Op(v) /\ Request(v)' = Request(v)
      BY <1>1, <2>2, PfFarewell DEF Op, Request
    <3>2. Untold(v)'
      <4>1. CallOf(vf[v], call[v].plan, call[v].force, Op(v))
        BY <2>2 DEF Listed, Untold
      <4>2. Before(vf[v], Board(v)', "HELLO", FALSE)
        BY <1>12 DEF Before
      <4>. QED BY <1>1, <1>13, <3>1, <4>1, <4>2 DEF Untold
    <3>3. Listed(v)'
      BY <1>1, <1>13, <2>2, <3>1, <3>2 DEF Listed, Waits
    <3>. QED BY <3>3 DEF Stage
  <2>. QED BY <1>1, <2>1, <2>2, PfFarewell
<1>. QED BY <1>3, <1>5, <1>10, <1>11, <1>14

\* The answer of a function that was asked to leave wakes the PF's thread.
LEMMA ByeReplyKeeps ==
  ASSUME TypeInv, NEW v \in Vfs, Stage(v), PfByeReply(v)
  PROVE  TypeInv' /\ \A w \in Vfs : Stage(w) => Stage(w)'
<1>. DEFINE hit == Answered(Pf, out[v])
            c == [call[Pf] EXCEPT !.matched = TRUE, !.ans = out[v],
                                  !.pc = IF @ = "asleep" THEN "woken" ELSE @]
<1>1. /\ out[v].op = "PF_BYE" /\ out' = [out EXCEPT ![v] = NoMessage]
      /\ UNCHANGED <<master, hw, vf, work, calls, todo>>
      /\ pend' = IF hit = {} THEN pend ELSE [pend EXCEPT ![Pf] = RemoveAt(@, Min(hit))]
  BY DEF PfByeReply, PfTakes, qdma_mbox_rcv
<1>2. call' = call \/ call' = [call EXCEPT ![Pf] = c]
  BY DEF PfByeReply
<1>3. /\ v \in Funcs /\ Pf \in Funcs /\ Pf \notin Vfs /\ v # Pf /\ NoMessage \in Messages /\ NoMessage.op = "none"
  BY Written
<1>4. /\ out' \in [Funcs -> Messages] /\ out'[v] = NoMessage
      /\ \A g \in Funcs : g # v => out'[g] = out[g]
  BY <1>1, <1>3 DEF TypeInv
<1>5. c \in Calls
  BY <1>3, Local DEF Calls
<1>. HIDE DEF c
<1>6. call' \in [Funcs -> Calls] /\ \A g \in Funcs : g # Pf => call'[g] = call[g]
  <2>1. call \in [Funcs -> Calls]
    BY DEF TypeInv
  <2>2. CASE call' = call
    BY <2>1, <2>2
  <2>3. CASE call' = [call EXCEPT ![Pf] = c]
    BY ONLY <1>3, <1>5, <2>1, <2>3
  <2>. QED BY <1>2, <2>2, <2>3
<1>7. DOMAIN pend' = Funcs /\ \A g \in Funcs : g # Pf => pend'[g] = pend[g]
  BY <1>1, <1>3 DEF TypeInv
<1>8. TypeInv'
  BY <1>1, <1>4, <1>6, <1>7 DEF TypeInv
<1>9. \A w \in Vfs : w \in Funcs /\ w # Pf /\ Kept(w) /\ Board(w)' = Board(w)
  BY <1>1, <1>3, <1>4, Written, PfStill, BoardStill
<1>10. ASSUME NEW w \in Vfs, w # v, Stage(w) PROVE Stage(w)'
  BY <1>1, <1>3, <1>4, <1>6, <1>7, <1>9, <1>10, Elsewhere
<1>11. Stage(v)'
  <2>1. /\ Core(v) /\ call'[v] = call[v] /\ pend'[v] = pend[v] /\ todo'[v] = todo[v]
        /\ out'[v].op \notin Asking \cup {"BYE"}
        /\ SentBye(v) = FALSE /\ SentBye(v)' = FALSE
    BY <1>1, <1>3, <1>4, <1>6, <1>7, <1>9 DEF Core, SentBye, Asking
  <2>2. /\ Op(v)' = Op(v) /\ Request(v)' = Request(v) /\ (Untold(v) => Untold(v)')
        /\ \A m : Told(v, m) => Told(v, m)'
    BY <2>1, CoreKept
  <2>3. NoAnswer(v) => NoAnswer(v)'
    BY <1>9 DEF Kept
  <2>4. Asked(v) => Asked(v)'
    <3>1. Untold(v) => Op(v) \in Asking
      BY DEF Untold, CallOf, Asking
    <3>2. out[v] = Request(v) => out[v].op = Op(v)
      BY DEF Request, Message
    <3>3. ~(out[v] = Request(v) /\ Untold(v))
      BY <1>1, <3>1, <3>2 DEF Asking
    <3>4. ASSUME NEW m \in InFlight, AnswerIs(v, m), Told(v, m) PROVE Asked(v)'
      <4>1. InFlight' = InFlight
        BY <1>1, <1>3, <1>4 DEF InFlight
      <4>2. m.resp /\ m.to = v
        BY <3>4 DEF Told, Fits
      <4>3. AnswerIs(v, m)' /\ Told(v, m)'
        BY <1>9, <2>2, <3>4, <4>2 DEF Kept
      <4>. QED BY <4>1, <4>3, <3>4 DEF Asked
    <3>. QED BY <3>3, <3>4 DEF Asked
  <2>5. Entered(v)' = Entered(v) /\ Farewell(v, calls[v])' = Farewell(v, calls[v])
    BY <1>1, <2>2 DEF Entered, Farewell
  <2>6. AtRest(v) => AtRest(v)'
    BY <1>1, <1>9, <2>1, <2>3, <2>5 DEF AtRest
  <2>7. Listed(v) => Listed(v)'
    BY <1>1, <2>1, <2>2, <2>3 DEF Listed, Waits
  <2>8. Sent(v) => Sent(v)'
    BY <1>1, <2>1, <2>2, <2>4, <2>5 DEF Sent, Waits
  <2>9. Pending(v) => Pending(v)'
    BY <1>1, <2>1, <2>2, <2>4, <2>5 DEF Pending, Waits
  <2>10. Matched(v) => Matched(v)'
    BY <1>1, <2>1, <2>2, <2>3, <2>5 DEF Matched
  <2>11. Copied(v) => Copied(v)'
    BY <1>1, <2>1, <2>2, <2>3 DEF Copied
  <2>. QED BY <2>6, <2>7, <2>8, <2>9, <2>10, <2>11 DEF Stage
<1>. QED BY <1>8, <1>10, <1>11

-----------------------------------------------------------------------------
(***************************************************************************)
(* The slots of vf_info.                                                   *)
(***************************************************************************)
There == {v \in Vfs : HasEntry(master, v)}

LEMMA SlotsAre ==
  /\ Cardinality(Vfs) \in Nat /\ IsFiniteSet(Slots) /\ Cardinality(Slots) = Cardinality(Vfs)
  /\ Slots \subseteq Nat /\ IsFiniteSet(There) /\ Cardinality(There) \in Nat
  /\ Cardinality(There) <= Cardinality(Vfs)
<1>1. IsFiniteSet(Vfs)
  BY MailboxAssumption
<1>2. Cardinality(Vfs) \in Nat
  BY <1>1, FS_CardinalityType
<1>3. IsFiniteSet(1 .. Cardinality(Vfs)) /\ Cardinality(1 .. Cardinality(Vfs)) = Cardinality(Vfs)
  BY <1>2, FS_Interval
<1>4. There \in SUBSET Vfs
  BY DEF There
<1>5. IsFiniteSet(There) /\ Cardinality(There) <= Cardinality(Vfs)
  BY <1>1, <1>4, FS_Subset
<1>6. Cardinality(There) \in Nat
  BY <1>5, FS_CardinalityType
<1>. QED BY <1>2, <1>3, <1>5, <1>6 DEF Slots

\* Nobody comes or goes.
LEMMA SlotsKept ==
  ASSUME SlotsInv, online' = online, DOMAIN master'.devs = DOMAIN master.devs
  PROVE  SlotsInv'
BY DEF SlotsInv, HasEntry

\* A function that comes takes a slot: one is free.
LEMMA SlotTaken ==
  ASSUME SlotsInv, NEW v \in Vfs, v \notin DOMAIN master.devs,
         DOMAIN master'.devs = DOMAIN master.devs \cup {v}, online' = xdev_sriov_vf_online(v)
  PROVE  SlotsInv'
<1>. DEFINE s == online.slot
            free == {i \in Slots : s[i] = NoVf}
<1>1. /\ s \in [Slots -> Vfs \cup {NoVf}] /\ online.count = Cardinality(There)
      /\ \A i \in Slots : s[i] # NoVf => s[i] \in There
      /\ \A w \in There : \E i \in Slots : s[i] = w
      /\ \A i, j \in Slots : s[i] = s[j] => i = j \/ s[i] = NoVf
  BY DEF SlotsInv, There
<1>2. v \notin There /\ There' = There \cup {v} /\ NoVf # v /\ NoVf \notin There
  BY MailboxAssumption DEF There, HasEntry
<1>3. Cardinality(There') = Cardinality(There) + 1 /\ IsFiniteSet(There')
  BY <1>2, SlotsAre, FS_AddElement
<1>4. free # {}
  <2>. SUFFICES ASSUME free = {} PROVE FALSE
    OBVIOUS
  <2>1. s \in [Slots -> There]
    BY <1>1
  <2>2. Cardinality(There) < Cardinality(Slots)
    <3>1. There \cup {v} \in SUBSET Vfs /\ IsFiniteSet(Vfs)
      BY MailboxAssumption DEF There
    <3>2. Cardinality(There \cup {v}) <= Cardinality(Vfs)
      BY <3>1, FS_Subset
    <3>. QED BY <1>2, <1>3, <3>2, SlotsAre
  <2>3. PICK i \in Slots, j \in Slots : i # j /\ s[i] = s[j]
    <3>1. IsFiniteSet(Slots) /\ IsFiniteSet(There)
      BY SlotsAre
    <3>2. PICK f \in [Slots -> There] : f = s
      BY <2>1
    <3>3. \E x, y \in Slots : x # y /\ f[x] = f[y]
      BY ONLY <2>2, <3>1, f \in [Slots -> There], FS_PigeonHole
    <3>. QED BY <3>2, <3>3
  <2>. QED BY <1>1, <2>3
<1>5. Min(free) \in free
  <2>1. free \in SUBSET Nat
    BY SlotsAre
  <2>. QED BY <1>4, <2>1, MinIs
<1>6. PICK k \in Slots : k = Min(free) /\ s[k] = NoVf
  BY <1>5
<1>7. online' = [count |-> online.count + 1, slot |-> [s EXCEPT ![k] = v]]
  BY <1>4, <1>6 DEF xdev_sriov_vf_online
<1>. HIDE DEF free, s
<1>8. /\ online'.slot \in [Slots -> Vfs \cup {NoVf}] /\ online'.slot[k] = v
      /\ \A i \in Slots : i # k => online'.slot[i] = s[i]
  BY <1>1, <1>7
<1>9. online'.count = Cardinality(There')
  BY <1>1, <1>3, <1>7
<1>10. \A i \in Slots : online'.slot[i] # NoVf => online'.slot[i] \in There'
  BY <1>1, <1>2, <1>8
<1>11. \A w \in There' : \E i \in Slots : online'.slot[i] = w
  <2>. SUFFICES ASSUME NEW w \in There' PROVE \E i \in Slots : online'.slot[i] = w
    OBVIOUS
  <2>1. CASE w = v
    BY <1>8, <2>1
  <2>2. CASE w # v
    <3>1. PICK i \in Slots : s[i] = w
      BY <1>1, <1>2, <2>2
    <3>2. i # k
      BY <1>2, <1>6, <2>2, <3>1
    <3>. QED BY <1>8, <3>1, <3>2
  <2>. QED BY <2>1, <2>2
<1>12. \A i, j \in Slots : online'.slot[i] = online'.slot[j] => i = j \/ online'.slot[i] = NoVf
  <2>1. \A i \in Slots : s[i] # v
    BY <1>1, <1>2
  <2>. QED BY <1>1, <1>8, <2>1
<1>. QED BY <1>8, <1>9, <1>10, <1>11, <1>12 DEF SlotsInv, There

\* A function that goes leaves its slot.
LEMMA SlotLeft ==
  ASSUME SlotsInv, NEW v \in DOMAIN master.devs, v \in Vfs,
         DOMAIN master'.devs = DOMAIN master.devs \ {v}, online' = xdev_sriov_vf_offline(v)
  PROVE  SlotsInv'
<1>. DEFINE s == online.slot
<1>1. /\ s \in [Slots -> Vfs \cup {NoVf}] /\ online.count = Cardinality(There)
      /\ \A i \in Slots : s[i] # NoVf => s[i] \in There
      /\ \A w \in There : \E i \in Slots : s[i] = w
      /\ \A i, j \in Slots : s[i] = s[j] => i = j \/ s[i] = NoVf
  BY DEF SlotsInv, There
<1>2. v \in There /\ There' = There \ {v}
  BY DEF There, HasEntry
<1>3. Cardinality(There') = Cardinality(There) - 1
  BY <1>2, SlotsAre, FS_RemoveElement
<1>4. online' = [count |-> online.count - 1,
                 slot |-> [i \in Slots |-> IF s[i] = v THEN NoVf ELSE s[i]]]
  BY DEF xdev_sriov_vf_offline
<1>. HIDE DEF s
<1>5. /\ online'.slot \in [Slots -> Vfs \cup {NoVf}]
      /\ \A i \in Slots : online'.slot[i] = IF s[i] = v THEN NoVf ELSE s[i]
  BY <1>1, <1>4
<1>6. online'.count = Cardinality(There')
  BY <1>1, <1>3, <1>4
<1>7. \A i \in Slots : online'.slot[i] # NoVf => online'.slot[i] \in There'
  BY <1>1, <1>2, <1>5
<1>8. \A w \in There' : \E i \in Slots : online'.slot[i] = w
  BY <1>1, <1>2, <1>5
<1>9. \A i, j \in Slots : online'.slot[i] = online'.slot[j] => i = j \/ online'.slot[i] = NoVf
  BY <1>1, <1>5
<1>. QED BY <1>5, <1>6, <1>7, <1>8, <1>9 DEF SlotsInv, There

(***************************************************************************)
(* The thread of the PF that asks the functions to leave.                  *)
(***************************************************************************)
\* The PF's work queue and its thread stand still.
LEMMA TriggerKept ==
  ASSUME TypeInv, TypeInv', TriggerInv, trigger' = trigger, work'[Pf] = work[Pf],
         todo'[Pf] = todo[Pf] \/ \E e : todo'[Pf] = Append(todo[Pf], e)
  PROVE  TriggerInv'
<1>1. todo[Pf] \in Seq(Items) /\ todo'[Pf] \in Seq(Items)
  BY Written DEF TypeInv
<1>2. ASSUME todo[Pf] # <<>>, NEW e, todo'[Pf] = Append(todo[Pf], e)
      PROVE  todo'[Pf] # <<>> /\ Head(todo'[Pf]) = Head(todo[Pf])
  <2>1. PICK s \in Seq(Items), t \in Seq(Items) : s = todo[Pf] /\ t = todo'[Pf]
    BY <1>1
  <2>2. t = Append(s, e) /\ s # <<>>
    BY <1>2, <2>1
  <2>3. Len(s) \in Nat /\ Len(s) > 0 /\ Len(t) = Len(s) + 1 /\ t[Len(s) + 1] = e
    BY <2>2
  <2>4. e \in Items
    BY <2>3
  <2>5. t # <<>> /\ Head(t) = Head(s)
    BY <2>2, <2>4, Appending
  <2>. QED BY <2>1, <2>5
<1>. QED BY <1>2 DEF TriggerInv

LEMMA NextVfIs ==
  ASSUME TriggerInv, trigger.n \in Nat, trigger.i \in Slots
  PROVE  /\ NextVf \in [pc : {"idle", "loop", "asked", "bye", "done"}, i : Nat, n : Nat,
                        asked : SUBSET (Vfs \cup {NoVf}), were : SUBSET Vfs]
         /\ NextVf.pc \in {"loop", "done"} /\ (NextVf.pc = "loop" => NextVf.i \in Slots)
<1>. DEFINE c == Cardinality(Vfs)
            M == Min({trigger.n, c})
<1>1. c \in Nat
  BY SlotsAre
<1>2. M \in Nat /\ M <= c
  <2>1. {trigger.n, c} \in SUBSET Nat /\ {trigger.n, c} # {}
    BY <1>1
  <2>2. M \in {trigger.n, c} /\ M <= c
    <3>. HIDE DEF c
    <3>. QED BY <2>1, MinIs
  <2>. QED BY <2>1, <2>2
<1>3. /\ NextVf.i = trigger.i + 1
      /\ NextVf.pc = IF trigger.i < M THEN "loop" ELSE "done"
      /\ NextVf \in [pc : {"idle", "loop", "asked", "bye", "done"}, i : Nat, n : Nat,
                     asked : SUBSET (Vfs \cup {NoVf}), were : SUBSET Vfs]
  <2>. HIDE DEF M
  <2>1. NextVf = [trigger EXCEPT !.i = @ + 1, !.pc = IF trigger.i < M THEN "loop" ELSE "done"]
    BY DEF NextVf, M
  <2>2. trigger \in [pc : {"idle", "loop", "asked", "bye", "done"}, i : Nat, n : Nat,
                     asked : SUBSET (Vfs \cup {NoVf}), were : SUBSET Vfs]
    BY DEF TriggerInv
  <2>3. trigger.i + 1 \in Nat
    BY <2>2
  <2>. QED BY ONLY <2>1, <2>2, <2>3
<1>4. trigger.i < M => trigger.i + 1 \in Slots
  <2>1. trigger.i \in 1 .. c
    BY DEF Slots
  <2>. HIDE DEF M, c
  <2>2. trigger.i < M => trigger.i + 1 \in 1 .. c
    BY <1>1, <1>2, <2>1
  <2>. QED BY <2>2 DEF Slots, c
<1>. QED BY <1>3, <1>4

\* A step of that thread: none of the functions' calls is touched.
LEMMA TriggerSteps ==
  ASSUME TypeInv, TriggerInv, SlotsInv,
         qdma_pf_trigger_vf_offline \/ TriggerAsk \/ TriggerBye \/ \E rv \in BOOLEAN : TriggerWoken(rv)
  PROVE  /\ TypeInv' /\ TriggerInv' /\ \A w \in Vfs : Stage(w) => Stage(w)'
         /\ master' = master /\ online' = online
<1>1. /\ UNCHANGED <<master, hw, online, vf, pend, work, out, calls>>
  BY DEF qdma_pf_trigger_vf_offline, TriggerAsk, TriggerBye, TriggerWoken
<1>2. Pf \in Funcs /\ Pf \notin Vfs /\ Vfs \subseteq Funcs /\ Idle \in Calls
  BY Written
<1>3. trigger \in [pc : {"idle", "loop", "asked", "bye", "done"}, i : Nat, n : Nat,
                   asked : SUBSET (Vfs \cup {NoVf}), were : SUBSET Vfs]
  BY DEF TriggerInv
<1>4. ASSUME call' \in [Funcs -> Calls], todo' \in [Funcs -> Seq(Items)],
             \A w \in Vfs : call'[w] = call[w] /\ todo'[w] = todo[w] /\ Kept(w)
      PROVE  TypeInv' /\ \A w \in Vfs : Stage(w) => Stage(w)'
  <2>1. TypeInv'
    BY <1>1, <1>4 DEF TypeInv
  <2>2. \A w \in Vfs : Stage(w) => Stage(w)'
    <3>1. \A w \in Vfs : w # Pf /\ Board(w)' = Board(w)
      BY <1>1, <1>2, BoardStill
    <3>. QED BY <1>1, <1>2, <1>4, <3>1, Elsewhere
  <2>. QED BY <2>1, <2>2
<1>5. CASE qdma_pf_trigger_vf_offline
  <2>1. /\ trigger' = [pc |-> IF online.count > 0 THEN "loop" ELSE "done", i |-> 1,
                       n |-> online.count, asked |-> {}, were |-> There]
        /\ call' = call /\ todo' = todo
    BY <1>5 DEF qdma_pf_trigger_vf_offline, There
  <2>2. online.count = Cardinality(There) /\ online.count \in Nat
    BY SlotsAre DEF SlotsInv, There
  <2>3. There \in SUBSET Vfs
    BY DEF There
  <2>4. online.count > 0 => 1 \in Slots
    <3>1. Cardinality(Vfs) \in Nat /\ online.count <= Cardinality(Vfs)
      BY <2>2, SlotsAre
    <3>2. online.count > 0 => 1 \in 1 .. Cardinality(Vfs)
      BY <2>2, <3>1
    <3>. QED BY <3>2 DEF Slots
  <2>5. TriggerInv'
    BY <1>1, <2>1, <2>2, <2>3, <2>4 DEF TriggerInv
  <2>6. call' \in [Funcs -> Calls] /\ todo' \in [Funcs -> Seq(Items)]
    BY <2>1 DEF TypeInv
  <2>. QED BY <1>1, <1>4, <2>1, <2>5, <2>6, PfStill
<1>6. CASE TriggerAsk
  <2>. DEFINE to == online.slot[trigger.i]
  <2>1. PICK m : m = Message("PF_BYE", FALSE, Pf, to, TRUE, NoChunk, 0)
    OBVIOUS
  <2>2. PICK e : e = Item(m, TRUE)
    OBVIOUS
  <2>3. /\ trigger.pc = "loop"
        /\ trigger' = [trigger EXCEPT !.pc = "asked", !.asked = @ \union {to}]
        /\ todo' = [todo EXCEPT ![Pf] = Append(@, e)]
        /\ call' = [call EXCEPT ![Pf] = [Idle EXCEPT !.pc = "queued"]]
    BY <1>6, <2>1, <2>2 DEF TriggerAsk
  <2>4. trigger.i \in Slots /\ to \in Vfs \cup {NoVf}
    BY <2>3 DEF TriggerInv, SlotsInv
  <2>5. m \in Messages /\ m.resp = FALSE
    <3>1. "PF_BYE" \in Ops /\ FALSE \in BOOLEAN /\ TRUE \in BOOLEAN /\ 0 \in Nat
          /\ Pf \in Funcs \cup {NoVf} /\ to \in Funcs \cup {NoVf}
      BY <1>2, <2>4, OpsAre DEF Ops
    <3>2. m \in Messages
      BY ONLY <2>1, <3>1, Written
    <3>. QED BY <2>1, <3>2 DEF Message
  <2>6. e \in Items /\ e.m = m
    BY ONLY <2>2, <2>5, Written, TRUE \in BOOLEAN
  <2>7. /\ todo' \in [Funcs -> Seq(Items)] /\ todo'[Pf] = Append(todo[Pf], e)
        /\ \A g \in Funcs : g # Pf => todo'[g] = todo[g]
    BY <1>2, <2>3, <2>6, Queued
  <2>8. call' \in [Funcs -> Calls] /\ \A w \in Vfs : call'[w] = call[w]
    <3>1. [Idle EXCEPT !.pc = "queued"] \in Calls
      BY <1>2 DEF Calls
    <3>2. call \in [Funcs -> Calls]
      BY DEF TypeInv
    <3>. QED BY ONLY <1>2, <2>3, <3>1, <3>2
  <2>9. \A w \in Vfs : Kept(w)
    <3>1. \A w \in Vfs : e \notin Answers(w)
      BY <2>5, <2>6 DEF Answers
    <3>. QED BY <1>1, <2>6, <2>7, <3>1, PfLists
  <2>10. TriggerInv'
    <3>1. todo[Pf] \in Seq(Items)
      BY <1>2, Local
    <3>2. todo[Pf] # <<>> => todo'[Pf] # <<>> /\ Head(todo'[Pf]) = Head(todo[Pf])
      BY <2>6, <2>7, <3>1, Appending
    <3>3. /\ trigger' \in [pc : {"idle", "loop", "asked", "bye", "done"}, i : Nat, n : Nat,
                           asked : SUBSET (Vfs \cup {NoVf}), were : SUBSET Vfs]
          /\ trigger'.i \in Slots
      BY <1>3, <2>3, <2>4
    <3>. QED BY <1>1, <3>2, <3>3 DEF TriggerInv
  <2>. QED BY <1>1, <1>2, <1>4, <2>7, <2>8, <2>9, <2>10
<1>7. CASE TriggerBye \/ \E rv \in BOOLEAN : TriggerWoken(rv)
  <2>1. /\ call' = call \/ call' = [call EXCEPT ![Pf] = Idle]
        /\ \/ trigger' = NextVf
           \/ trigger' = [trigger EXCEPT !.pc = "bye"]
        /\ trigger.pc \in {"asked", "bye"}
    BY <1>7 DEF TriggerBye, TriggerWoken
  <2>2. todo' = todo
    BY <1>7 DEF TriggerBye, TriggerWoken
  <2>3. trigger.i \in Slots /\ trigger.n \in Nat
    BY <1>3, <2>1 DEF TriggerInv
  <2>4. TriggerInv'
    <3>1. CASE trigger' = NextVf
      BY <1>1, <2>2, <2>3, <3>1, NextVfIs DEF TriggerInv
    <3>2. CASE trigger' = [trigger EXCEPT !.pc = "bye"]
      BY <1>1, <1>3, <2>2, <2>3, <3>2 DEF TriggerInv
    <3>. QED BY <2>1, <3>1, <3>2
  <2>5. call' \in [Funcs -> Calls] /\ \A w \in Vfs : call'[w] = call[w]
    <3>1. call \in [Funcs -> Calls]
      BY DEF TypeInv
    <3>2. CASE call' = call
      BY <3>1, <3>2
    <3>3. CASE call' = [call EXCEPT ![Pf] = Idle]
      BY ONLY <1>2, <3>1, <3>3
    <3>. QED BY <2>1, <3>2, <3>3
  <2>6. todo' \in [Funcs -> Seq(Items)]
    BY <2>2 DEF TypeInv
  <2>. QED BY <1>1, <1>2, <1>4, <2>2, <2>4, <2>5, <2>6, PfStill
<1>. QED BY <1>1, <1>5, <1>6, <1>7

-----------------------------------------------------------------------------
(***************************************************************************)
(* The inductive invariant.                                                *)
(***************************************************************************)
\* Every action leaves the number of faults alone, or adds one to it.
LEMMA FaultsGrow ==
  ASSUME faults \in Nat, Next
  PROVE  faults' = faults \/ faults' = faults + 1
<1>1. ASSUME NEW f \in Funcs, Sleep(f) \/ TimeOut(f) \/ TxSend(f) \/ TxMove(f) \/ TxBusy(f)
      PROVE  faults' = faults \/ faults' = faults + 1
  BY <1>1 DEF Sleep, TimeOut, TxSend, TxMove, TxBusy, Fault
<1>2. ASSUME NEW v \in Vfs, VfReceive(v) \/ VfWake(v) \/ Return(v) \/ qdma_mbox_stop(v)
      PROVE  faults' = faults \/ faults' = faults + 1
  BY <1>2 DEF VfReceive, VfWake, Return, qdma_mbox_stop, Fault
<1>3. ASSUME NEW v \in Vfs,
             \/ qdma_device_online(v) \/ qdma_device_offline(v)
             \/ \E qmax \in Qmaxes : qdma_vf_qconf(v, qmax)
             \/ qdma_queue_add(v) \/ qdma_queue_remove(v)
             \/ qdma_queue_start(v) \/ qdma_queue_stop(v)
      PROVE  faults' = faults
  BY <1>3 DEF qdma_device_online, qdma_device_offline, qdma_vf_qconf, qdma_queue_add,
              qdma_queue_remove, qdma_queue_start, qdma_queue_stop, Call
<1>4. ASSUME NEW v \in Vfs,
             \/ PfHello(v) \/ PfBye(v) \/ PfFmap(v) \/ PfCsr(v) \/ PfQreq(v)
             \/ PfQueueAdd(v) \/ PfQueueDel(v) \/ PfByeReply(v)
             \/ \E op \in {"WRT", "CLR"} : PfContext(v, op)
      PROVE  faults' = faults
  BY <1>4 DEF PfHello, PfBye, PfFmap, PfCsr, PfQreq, PfQueueAdd, PfQueueDel, PfByeReply,
              PfContext, PfTakes
<1>5. ASSUME qdma_pf_trigger_vf_offline \/ TriggerAsk \/ TriggerBye \/ \E rv \in BOOLEAN : TriggerWoken(rv)
      PROVE  faults' = faults \/ faults' = faults + 1
  BY <1>5 DEF qdma_pf_trigger_vf_offline, TriggerAsk, TriggerBye, TriggerWoken, Fault
<1>. QED BY <1>1, <1>2, <1>3, <1>4, <1>5 DEF Next

\* What a step of the messages leaves to show.
LEMMA CalmKept ==
  ASSUME Calm, TypeInv', \A w \in Vfs : Stage(w) => Stage(w)', Sound(master', Vfs, TotalQ),
         DOMAIN master'.devs = DOMAIN master.devs, online' = online, trigger' = trigger,
         work'[Pf] = work[Pf],
         todo'[Pf] = todo[Pf] \/ \E e : todo'[Pf] = Append(todo[Pf], e)
  PROVE  Calm'
<1>1. TriggerInv'
  BY TriggerKept DEF Calm
<1>2. SlotsInv'
  BY SlotsKept DEF Calm
<1>. QED BY <1>1, <1>2 DEF Calm

\* A step of a caller or of a work queue
LEMMA QueueStepCalm ==
  ASSUME Calm, faults = 0, faults' = 0, NEW f \in Funcs,
         Sleep(f) \/ TimeOut(f) \/ TxSend(f) \/ TxMove(f) \/ TxBusy(f)
  PROVE  Calm'
<1>1. TypeInv /\ TriggerInv /\ SlotsInv /\ Sound(master, Vfs, TotalQ) /\ \A w \in Vfs : Stage(w)
  BY DEF Calm
<1>2. faults \in Nat /\ faults' = faults /\ ~Fault
  BY DEF Fault
<1>3. master' = master /\ online' = online /\ trigger' = trigger
  BY DEF Sleep, TimeOut, TxSend, TxMove, TxBusy
<1>4. TypeInv' /\ \A w \in Vfs : Stage(w) => Stage(w)'
  BY <1>1, <1>2, SleepKeeps, TxSendKeeps, TxMoveKeeps, TxBusyKeeps
<1>5. SlotsInv' /\ Sound(master', Vfs, TotalQ)
  BY <1>1, <1>3, SlotsKept
<1>6. /\ Pf \in Funcs /\ todo \in [Funcs -> Seq(Items)] /\ work \in [Funcs -> Works]
      /\ Idle.pc = "idle" /\ ~Idle.matched /\ IdleWork.at = "idle" /\ ~IdleWork.stale
  BY <1>1, Written DEF TypeInv
<1>7. TriggerInv'
  <2>1. CASE Sleep(f) \/ TimeOut(f)
    <3>1. work' = work /\ todo' = todo
      BY <1>2, <2>1 DEF Sleep, TimeOut
    <3>. QED BY <1>1, <1>3, <3>1 DEF TriggerInv
  <2>2. CASE TxSend(f)
    <3>1. CASE f # Pf
      <4>1. work'[Pf] = work[Pf] /\ todo'[Pf] = todo[Pf]
        BY <1>6, <2>2, <3>1 DEF TxSend
      <4>. QED BY <1>1, <1>3, <4>1 DEF TriggerInv
    <3>2. CASE f = Pf /\ Head(todo[Pf]).wait
      <4>1. work'[Pf] = [at |-> "sent", stale |-> FALSE, m |-> Head(todo[Pf]).m]
            /\ todo'[Pf] = todo[Pf] /\ todo[Pf] # <<>>
        BY <1>6, <2>2, <3>2 DEF TxSend
      <4>. QED BY <1>1, <1>3, <3>2, <4>1 DEF TriggerInv
    <3>3. CASE f = Pf /\ ~Head(todo[Pf]).wait
      <4>1. work' = work /\ work[Pf].at = "idle"
        BY <2>2, <3>3 DEF TxSend
      <4>. QED BY <1>1, <1>3, <4>1 DEF TriggerInv
    <3>. QED BY <3>1, <3>2, <3>3
  <2>3. CASE TxMove(f)
    <3>1. CASE f # Pf
      <4>1. work'[Pf] = work[Pf] /\ todo'[Pf] = todo[Pf]
        BY <1>6, <2>3, <3>1 DEF TxMove
      <4>. QED BY <1>1, <1>3, <4>1 DEF TriggerInv
    <3>2. CASE f = Pf
      <4>1. work'[Pf] = IdleWork
        BY <1>6, <2>3, <3>2 DEF TxMove
      <4>. QED BY <1>1, <1>3, <1>6, <4>1 DEF TriggerInv
    <3>. QED BY <3>1, <3>2
  <2>4. CASE TxBusy(f)
    <3>1. work' = work /\ work[f].at = "idle"
      BY <2>4 DEF TxBusy
    <3>2. f # Pf => todo'[Pf] = todo[Pf]
      BY <1>6, <2>4 DEF TxBusy
    <3>. QED BY <1>1, <1>3, <3>1, <3>2 DEF TriggerInv
  <2>. QED BY <2>1, <2>2, <2>3, <2>4
<1>. QED BY <1>1, <1>4, <1>5, <1>7 DEF Calm

\* A step of a virtual function
LEMMA VfStepCalm ==
  ASSUME Calm, faults \in Nat, faults' = faults, NEW v \in Vfs,
         \/ VfReceive(v) \/ VfWake(v) \/ Return(v) \/ qdma_mbox_stop(v)
         \/ qdma_device_online(v) \/ qdma_device_offline(v)
         \/ \E qmax \in Qmaxes : qdma_vf_qconf(v, qmax)
         \/ qdma_queue_add(v) \/ qdma_queue_remove(v)
         \/ qdma_queue_start(v) \/ qdma_queue_stop(v)
  PROVE  Calm'
<1>1. TypeInv /\ TriggerInv /\ SlotsInv /\ Sound(master, Vfs, TotalQ) /\ \A w \in Vfs : Stage(w)
  BY DEF Calm
<1>2. /\ Pf \in Funcs /\ v # Pf /\ todo \in [Funcs -> Seq(Items)] /\ work \in [Funcs -> Works]
  BY <1>1, Written DEF TypeInv
<1>3. CASE VfReceive(v) \/ VfWake(v) \/ Return(v) \/ qdma_mbox_stop(v)
  <2>1. master' = master /\ online' = online /\ trigger' = trigger
    BY <1>3 DEF VfReceive, VfWake, Return, qdma_mbox_stop
  <2>2. work'[Pf] = work[Pf]
    <3>1. work' = work \/ \E x : work' = [work EXCEPT ![v] = x]
      BY <1>3 DEF VfReceive, VfWake, Return, qdma_mbox_stop
    <3>. QED BY <1>2, <3>1
  <2>3. todo'[Pf] = todo[Pf]
    <3>1. ASSUME NEW tag, NEW plan, NEW force, Submit(v, tag, plan, force)
          PROVE  \E x : todo' = [todo EXCEPT ![v] = x]
      BY <3>1 DEF Submit
    <3>2. CASE Return(v)
      <4>1. todo' = todo \/ \E tag, plan, force : Submit(v, tag, plan, force)
        BY <3>2 DEF Return
      <4>. QED BY <1>2, <3>1, <4>1
    <3>3. CASE VfReceive(v)
      <4>1. todo' = todo \/ \E x : todo' = [todo EXCEPT ![v] = x]
        BY <3>3 DEF VfReceive
      <4>. QED BY <1>2, <4>1
    <3>4. CASE VfWake(v) \/ qdma_mbox_stop(v)
      BY <3>4 DEF VfWake, qdma_mbox_stop
    <3>. QED BY <1>3, <3>2, <3>3, <3>4
  <2>4. TypeInv' /\ \A w \in Vfs : Stage(w) => Stage(w)'
    BY <1>1, <1>3, VfReceiveKeeps, VfWakeKeeps, ReturnKeeps, StopKeeps
  <2>. QED BY <1>1, <2>1, <2>2, <2>3, <2>4, CalmKept
<1>4. CASE \/ qdma_device_online(v) \/ qdma_device_offline(v)
           \/ \E qmax \in Qmaxes : qdma_vf_qconf(v, qmax)
           \/ qdma_queue_add(v) \/ qdma_queue_remove(v)
           \/ qdma_queue_start(v) \/ qdma_queue_stop(v)
  <2>1. PICK plan, force : Call(v, plan, force)
    BY <1>4 DEF qdma_device_online, qdma_device_offline, qdma_vf_qconf, qdma_queue_add,
                qdma_queue_remove, qdma_queue_start, qdma_queue_stop
  <2>2. master' = master /\ online' = online /\ trigger' = trigger /\ work' = work
    BY <2>1 DEF Call
  <2>3. todo'[Pf] = todo[Pf]
    BY <1>2, <2>1 DEF Call, Submit
  <2>4. TypeInv' /\ \A w \in Vfs : Stage(w) => Stage(w)'
    <3>1. CASE \/ qdma_device_online(v) \/ qdma_device_offline(v) \/ qdma_queue_add(v)
               \/ \E qmax \in Qmaxes : qdma_vf_qconf(v, qmax)
      BY <1>1, <3>1, OnlineKeeps, OfflineKeeps, AddKeeps, QconfKeeps
    <3>2. CASE qdma_queue_start(v) \/ qdma_queue_stop(v) \/ qdma_queue_remove(v)
      <4>1. PICK op \in {"WRT", "CLR", "QDEL"} :
              /\ vf[v].st = "up" /\ vf[v].q = IF op = "CLR" THEN "online" ELSE "enabled"
              /\ Call(v, <<<<op, Queue(v)>>>>, FALSE) /\ UNCHANGED <<vf, pend, out>>
        BY <3>2 DEF qdma_queue_start, qdma_queue_stop, qdma_queue_remove
      <4>. QED BY <1>1, <4>1, OneKeeps
    <3>. QED BY <1>4, <3>1, <3>2
  <2>. QED BY <1>1, <2>2, <2>3, <2>4, CalmKept
<1>. QED BY <1>3, <1>4

\* A step of the PF
LEMMA PfStepCalm ==
  ASSUME Calm, NEW v \in Vfs,
         \/ PfHello(v) \/ PfBye(v) \/ PfFmap(v) \/ PfCsr(v) \/ PfQreq(v)
         \/ PfQueueAdd(v) \/ PfQueueDel(v) \/ PfByeReply(v)
         \/ \E op \in {"WRT", "CLR"} : PfContext(v, op)
  PROVE  Calm'
<1>1. TypeInv /\ TriggerInv /\ SlotsInv /\ Sound(master, Vfs, TotalQ) /\ \A w \in Vfs : Stage(w)
  BY DEF Calm
<1>2. Pf \in Funcs /\ todo \in [Funcs -> Seq(Items)]
  BY <1>1, Written DEF TypeInv
<1>3. trigger' = trigger /\ work' = work
  BY DEF PfHello, PfBye, PfFmap, PfCsr, PfQreq, PfQueueAdd, PfQueueDel, PfByeReply,
         PfContext, PfTakes
<1>4. todo'[Pf] = todo[Pf] \/ \E e : todo'[Pf] = Append(todo[Pf], e)
  <2>1. CASE PfBye(v) \/ PfByeReply(v)
    BY <2>1 DEF PfBye, PfByeReply
  <2>2. ASSUME NEW ok, NEW arg, Reply(v, ok, arg) PROVE \E e : todo'[Pf] = Append(todo[Pf], e)
    BY <1>2, <2>2 DEF Reply
  <2>3. CASE PfHello(v) \/ PfFmap(v) \/ PfCsr(v) \/ PfQreq(v) \/ PfQueueAdd(v) \/ PfQueueDel(v)
    <3>1. \E ok, arg : Reply(v, ok, arg)
      BY <2>3 DEF PfHello, PfFmap, PfCsr, PfQreq, PfQueueAdd, PfQueueDel
    <3>. QED BY <2>2, <3>1
  <2>4. CASE \E op \in {"WRT", "CLR"} : PfContext(v, op)
    BY <2>2, <2>4 DEF PfContext
  <2>. QED BY <2>1, <2>3, <2>4
<1>5. CASE PfFmap(v) \/ PfCsr(v) \/ PfByeReply(v) \/ \E op \in {"WRT", "CLR"} : PfContext(v, op)
  <2>1. master' = master /\ online' = online
    BY <1>5 DEF PfFmap, PfCsr, PfByeReply, PfContext
  <2>2. TypeInv' /\ \A w \in Vfs : Stage(w) => Stage(w)'
    BY <1>1, <1>5, FmapKeeps, CsrKeeps, ByeReplyKeeps, ContextKeeps
  <2>. QED BY <1>1, <1>3, <1>4, <2>1, <2>2, CalmKept
<1>6. CASE PfQreq(v) \/ PfQueueAdd(v) \/ PfQueueDel(v)
  <2>1. online' = online
    BY <1>6 DEF PfQreq, PfQueueAdd, PfQueueDel
  <2>2. /\ TypeInv' /\ \A w \in Vfs : Stage(w) => Stage(w)'
        /\ Sound(master', Vfs, TotalQ) /\ DOMAIN master'.devs = DOMAIN master.devs
    BY <1>1, <1>6, QreqKeeps, QueueAddKeeps, QueueDelKeeps
  <2>. QED BY <1>3, <1>4, <2>1, <2>2, CalmKept
<1>7. CASE PfHello(v)
  <2>1. /\ TypeInv' /\ \A w \in Vfs : Stage(w) => Stage(w)'
        /\ Sound(master', Vfs, TotalQ) /\ v \notin DOMAIN master.devs
        /\ DOMAIN master'.devs = DOMAIN master.devs \cup {v}
    BY <1>1, <1>7, HelloKeeps
  <2>2. online' = xdev_sriov_vf_online(v)
    BY <1>7 DEF PfHello
  <2>3. SlotsInv'
    BY <1>1, <2>1, <2>2, SlotTaken
  <2>4. TriggerInv'
    BY <1>1, <1>3, <1>4, <2>1, TriggerKept
  <2>. QED BY <1>1, <2>1, <2>3, <2>4 DEF Calm
<1>8. CASE PfBye(v)
  <2>1. /\ TypeInv' /\ \A w \in Vfs : Stage(w) => Stage(w)'
        /\ Sound(master', Vfs, TotalQ) /\ v \in DOMAIN master.devs
        /\ DOMAIN master'.devs = DOMAIN master.devs \ {v}
    BY <1>1, <1>8, ByeKeeps
  <2>2. online' = xdev_sriov_vf_offline(v)
    BY <1>8 DEF PfBye
  <2>3. SlotsInv'
    BY <1>1, <2>1, <2>2, SlotLeft
  <2>4. TriggerInv'
    BY <1>1, <1>3, <1>4, <2>1, TriggerKept
  <2>. QED BY <1>1, <2>1, <2>3, <2>4 DEF Calm
<1>. QED BY <1>5, <1>6, <1>7, <1>8

LEMMA InitCalm ==
  ASSUME Init
  PROVE  Calm /\ faults = 0
<1>1. /\ Vfs \subseteq Funcs /\ Pf \in Funcs /\ NoVf \notin Funcs
      /\ Idle \in Calls /\ IdleWork \in Works /\ DownVf \in Devices /\ NoMessage \in Messages
      /\ Idle.pc = "idle" /\ IdleWork.at = "idle" /\ ~IdleWork.stale
      /\ NoMessage.op = "none" /\ ~NoMessage.resp
  BY Written
<1>2. Chunk(0, 0) \in Chunks /\ ChunkQueues(Chunk(0, 0)) = {}
  BY ChunkIs, EmptyChunk
<1>3. DOMAIN master.devs = {} /\ \A v \in Vfs : ~HasEntry(master, v)
  BY DEF Init, NewMaster, HasEntry
<1>4. TypeInv
  <2>1. hw \in [fmap : [Vfs -> Chunks], ctx : [0 .. (TotalQ - 1) -> Vfs \cup {NoVf}]]
    BY <1>2 DEF Init
  <2>2. <<>> \in Seq(Items)
    OBVIOUS
  <2>. QED BY <1>1, <2>1, <2>2 DEF Init, TypeInv
<1>5. TriggerInv
  BY <1>1 DEF Init, TriggerInv
<1>6. SlotsInv
  <2>1. There = {} /\ Cardinality(There) = 0
    BY <1>3, FS_EmptySet DEF There
  <2>. QED BY <2>1 DEF Init, SlotsInv, There
<1>7. Sound(master, Vfs, TotalQ)
  BY MailboxAssumption, NewMasterIs DEF Init
<1>8. ASSUME NEW v \in Vfs PROVE Stage(v)
  <2>1. /\ v \in Funcs /\ vf[v] = DownVf /\ call[v] = Idle /\ todo[v] = <<>> /\ pend[v] = <<>>
        /\ work[v] = IdleWork /\ out[v] = NoMessage /\ todo[Pf] = <<>> /\ out[Pf] = NoMessage
    BY <1>1 DEF Init
  <2>2. Absent(Board(v))
    <3>1. ~Board(v).here /\ Board(v).fmap = Chunk(0, 0)
      BY <1>3, BoardFields DEF Init
    <3>2. Board(v).ctx = {}
      <4>1. \A q \in 0 .. (TotalQ - 1) : hw.ctx[q] = NoVf
        BY DEF Init
      <4>. QED BY <1>1, <4>1, BoardFields
    <3>. QED BY <1>2, <3>1, <3>2 DEF Absent
  <2>3. SentBye(v) = FALSE
    BY <1>1, <2>1 DEF SentBye
  <2>4. Rest(DownVf, Board(v), FALSE, SentBye(v))
    BY <2>2, <2>3 DEF Rest
  <2>5. Free(<<>>, OwnItems) /\ Free(<<>>, Answers(v))
    BY DEF Free
  <2>6. NoAnswer(v)
    BY <1>1, <2>1, <2>5 DEF NoAnswer
  <2>7. AtRest(v)
    BY <1>1, <2>1, <2>4, <2>5, <2>6 DEF AtRest, Asking
  <2>. QED BY <2>7 DEF Stage
<1>. QED BY <1>4, <1>5, <1>6, <1>7, <1>8 DEF Calm, Init

LEMMA StepKeeps ==
  ASSUME IInv, [Next]_vars
  PROVE  IInv'
<1>1. CASE UNCHANGED vars
  <2>1. UNCHANGED <<master, hw, online, vf, call, todo, pend, work, out, trigger, calls, faults>>
    BY <1>1 DEF vars
  <2>2. faults' = faults
    BY <2>1
  <2>3. ASSUME Calm PROVE Calm'
    <3>1. TypeInv' /\ Sound(master', Vfs, TotalQ)
      BY <2>1, <2>3 DEF Calm, TypeInv
    <3>2. ASSUME NEW w \in Vfs, Stage(w) PROVE Stage(w)'
      <4>1. Board(w)' = Board(w) /\ Kept(w)
        BY <2>1, BoardStill, PfStill
      <4>2. Same(w)
        BY <2>1, <4>1 DEF Same, Core
      <4>. QED BY <3>2, <4>1, <4>2, Frame
    <3>. QED BY <2>1, <2>3, <3>1, <3>2, CalmKept
  <2>. QED BY <2>2, <2>3 DEF IInv
<1>2. CASE Next
  <2>1. faults \in Nat /\ (faults' = faults \/ faults' = faults + 1)
    BY <1>2, FaultsGrow DEF IInv
  <2>2. ASSUME faults' = 0 PROVE Calm'
    <3>1. faults = 0 /\ Calm
      BY <2>1, <2>2 DEF IInv
    <3>2. CASE \E f \in Funcs : Sleep(f) \/ TimeOut(f) \/ TxSend(f) \/ TxMove(f) \/ TxBusy(f)
      BY <2>2, <3>1, <3>2, QueueStepCalm
    <3>3. CASE \E v \in Vfs :
                 \/ VfReceive(v) \/ VfWake(v) \/ Return(v) \/ qdma_mbox_stop(v)
                 \/ qdma_device_online(v) \/ qdma_device_offline(v)
                 \/ \E qmax \in Qmaxes : qdma_vf_qconf(v, qmax)
                 \/ qdma_queue_add(v) \/ qdma_queue_remove(v)
                 \/ qdma_queue_start(v) \/ qdma_queue_stop(v)
      BY <2>2, <3>1, <3>3, VfStepCalm
    <3>4. CASE \E v \in Vfs :
                 \/ PfHello(v) \/ PfBye(v) \/ PfFmap(v) \/ PfCsr(v) \/ PfQreq(v)
                 \/ PfQueueAdd(v) \/ PfQueueDel(v) \/ PfByeReply(v)
                 \/ \E op \in {"WRT", "CLR"} : PfContext(v, op)
      BY <3>1, <3>4, PfStepCalm
    <3>5. CASE qdma_pf_trigger_vf_offline \/ TriggerAsk \/ TriggerBye \/ \E rv \in BOOLEAN : TriggerWoken(rv)
      <4>1. /\ TypeInv' /\ TriggerInv' /\ \A w \in Vfs : Stage(w)'
            /\ master' = master /\ online' = online
        BY <3>1, <3>5, TriggerSteps DEF Calm
      <4>2. SlotsInv' /\ Sound(master', Vfs, TotalQ)
        BY <3>1, <4>1, SlotsKept DEF Calm
      <4>. QED BY <4>1, <4>2 DEF Calm
    <3>. QED BY <1>2, <3>2, <3>3, <3>4, <3>5 DEF Next
  <2>. QED BY <2>1, <2>2 DEF IInv
<1>. QED BY <1>1, <1>2

\* Every request of a virtual function is followed, from the list of its sender to the copy of
\* its one answer, through mbox_tx_work(), the two hardware mailboxes and mbox_rx_work(), and the
\* records of the PF are those of the stage it is in: the invariant is inductive.
THEOREM MailboxInvariant == Spec => []IInv
<1>1. Init => IInv
  BY InitCalm DEF IInv
<1>2. IInv /\ [Next]_vars => IInv'
  BY StepKeeps
<1>. QED BY <1>1, <1>2, PTL DEF Spec

LEMMA CalmOwns ==
  ASSUME IInv
  PROVE  FmapOwned
<1>. SUFFICES ASSUME faults = 0, NEW v \in Vfs
              PROVE  LET mine == IF HasEntry(master, v) THEN ChunkQueues(master.devs[v].chunk) ELSE {}
                     IN  /\ ChunkQueues(hw.fmap[v]) \subseteq mine
                         /\ {q \in DOMAIN hw.ctx : hw.ctx[q] = v} \subseteq mine
  BY DEF FmapOwned
<1>1. TypeInv /\ Stage(v)
  BY DEF IInv, Calm
<1>2. DOMAIN hw.ctx = 0 .. (TotalQ - 1)
  BY <1>1 DEF TypeInv
<1>3. OwnsAll(Board(v))
  BY <1>1, Owned
<1>4. PICK b : b = Board(v)
  OBVIOUS
<1>5. /\ b.here = HasEntry(master, v) /\ b.fmap = hw.fmap[v]
      /\ b.ctx = {q \in DOMAIN hw.ctx : hw.ctx[q] = v}
      /\ HasEntry(master, v) => b.chunk = master.devs[v].chunk
  BY <1>2, <1>4, BoardFields
<1>6. CASE HasEntry(master, v)
  BY <1>3, <1>4, <1>5, <1>6 DEF OwnsAll
<1>7. CASE ~HasEntry(master, v)
  BY <1>3, <1>4, <1>5, <1>7 DEF OwnsAll
<1>. QED BY <1>6, <1>7

\* Until a call times out, a message is dropped or a call has gone on before its reply was copied,
\* the hardware maps a virtual function only to queues the PF has given to it, and has contexts only for these, although the handler of MBOX_OP_FMAP in
\* qdma_mbox_pf_rcv_msg_handler() writes into the map whatever the message says.
THEOREM FmapOwnedHolds == Spec => []FmapOwned
<1>1. IInv => FmapOwned
  BY CalmOwns
<1>. QED BY <1>1, MailboxInvariant, PTL

LEMMA CalmAnswers ==
  ASSUME IInv
  PROVE  ReplyIsOwn
<1>. SUFFICES ASSUME faults = 0, NEW v \in Vfs, call[v].pc = "woken"
              PROVE  IF Uncopied(v)
                     THEN call[v].ans = Request(v) /\ IsReplyTo(v, work[v].m)
                     ELSE IsReplyTo(v, call[v].ans)
  BY DEF ReplyIsOwn, Request, Op
<1>1. Stage(v)
  BY DEF IInv, Calm
<1>2. ~AtRest(v)
  BY Written DEF AtRest
<1>3. ~Listed(v) /\ ~Sent(v) /\ ~Pending(v)
  BY DEF Listed, Sent, Pending, Waits
<1>4. \A m : Told(v, m) => IsReplyTo(v, m)
  BY DEF Told, Fits, Op, IsReplyTo
<1>5. CASE Matched(v)
  BY <1>4, <1>5 DEF Matched, Uncopied
<1>6. CASE Copied(v)
  BY <1>4, <1>6 DEF Copied, Uncopied
<1>. QED BY <1>1, <1>2, <1>3, <1>5, <1>6 DEF Stage

\* Until a call times out, a message is dropped or a call has gone on before its reply was copied,
\* a call that may go on has the reply to the very request it sent, although
\* qdma_mbox_is_msg_response() tells replies by their operation only; or it has been let go between
\* the mark and the copy in mbox_rcv_one_msg(), and then it has its own request still, and the
\* reply that is about to be copied is its own.
THEOREM ReplyIsOwnHolds == Spec => []ReplyIsOwn
<1>1. IInv => ReplyIsOwn
  BY CalmAnswers
<1>. QED BY <1>1, MailboxInvariant, PTL

LEMMA CalmKnows ==
  ASSUME IInv
  PROVE  PfKnowsVfs
<1>. SUFFICES ASSUME faults = 0
              PROVE  /\ online.count = Cardinality(There)
                     /\ {online.slot[i] : i \in Slots} \ {NoVf} = There
                     /\ \A v \in There : call[v] = Idle /\ vf[v].st = "up" =>
                          master.devs[v].cnt["H2C"] = (IF vf[v].q = "off" THEN 0 ELSE 1)
  BY DEF PfKnowsVfs, There
<1>1. SlotsInv /\ \A v \in Vfs : Stage(v)
  BY DEF IInv, Calm
<1>2. online.count = Cardinality(There)
  BY <1>1 DEF SlotsInv, There
<1>3. {online.slot[i] : i \in Slots} \ {NoVf} = There
  <2>1. NoVf \notin There
    BY MailboxAssumption DEF There
  <2>. QED BY <1>1, <2>1 DEF SlotsInv, There
<1>4. ASSUME NEW v \in There, call[v] = Idle, vf[v].st = "up"
      PROVE  master.devs[v].cnt["H2C"] = (IF vf[v].q = "off" THEN 0 ELSE 1)
  <2>1. v \in Vfs /\ HasEntry(master, v)
    BY DEF There
  <2>2. ~Listed(v) /\ ~Sent(v) /\ ~Pending(v) /\ ~Matched(v) /\ ~Copied(v)
    BY <1>4, Written DEF Listed, Sent, Pending, Matched, Copied, Waits
  <2>3. AtRest(v)
    BY <1>1, <2>1, <2>2 DEF Stage
  <2>4. \A x, y : Rest(vf[v], Board(v), x, y) => Settled(vf[v], Board(v))
    BY <1>4 DEF Rest, DownVf
  <2>5. Settled(vf[v], Board(v))
    BY <2>3, <2>4 DEF AtRest
  <2>6. Board(v).cnt = (IF vf[v].q = "off" THEN 0 ELSE 1)
    BY <2>5 DEF Settled, Present
  <2>. QED BY <2>1, <2>6, BoardFields
<1>. QED BY <1>2, <1>3, <1>4

\* Until a call times out, a message is dropped or a call has gone on before its reply was copied,
\* the PF's count and slots of online functions are those
\* that have an entry in the resource manager, and between two calls the PF's count of active
\* queues is the function's own (mbox_rcv_one_msg(), xdev_sriov_vf_online(), qdma_device_cleanup()).
THEOREM PfKnowsVfsHolds == Spec => []PfKnowsVfs
<1>1. IInv => PfKnowsVfs
  BY CalmKnows
<1>. QED BY <1>1, MailboxInvariant, PTL
=============================================================================
