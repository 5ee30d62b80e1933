-------------------------- MODULE QdmaContextProof --------------------------
(***************************************************************************)
(* Proofs about the queue contexts, for every set of devices, every number *)
(* of threads and any number of calls and of polls that time out: what a   *)
(* call does and that a queue starts fresh; then that contexts stay as they*)
(* were written, and that a read returns them.                             *)
(***************************************************************************)
EXTENDS QdmaContext, TLAPS

Dirs == {"h2c", "c2h"}
Contexts == {"sw", "hw", "credit", "pfetch", "cmpt", "qid2vec", "intr", "fmap", "queue"}
ItemOps == {"clear", "invalidate", "write", "fetch", "read", "fill", "print", "reject"}
Items == Contexts \X ItemOps
CallOps == {"program", "clear", "invalidate", "write", "read", "dump"}
Pairs == [c2h : Nat, h2c : Nat]

\* What was read, or is in the static tables, by context
GotNames == Contexts \cup {"fetched"}
Gots == UNION {[D -> Pairs] : D \in SUBSET GotNames}

Calls == [pc : {"idle", "next", "command", "poll"}, op : CallOps \cup {None},
          t : Targets \cup {None}, tag : Nat, todo : Seq(Items), got : Gots,
          err : Nat, clean : BOOLEAN]

Types ==
  /\ conf \in Configs
  /\ store \in [Selectors -> Pairs] /\ data \in Pairs
  /\ cmd \in [sel : Selectors \cup {None}, op : {"WR", "RD", "CLR", "INV", None},
              busy : BOOLEAN]
  /\ cmd.busy => cmd.sel \in Selectors
  /\ thr \in [Threads -> Calls]
  /\ calls \in Nat
  /\ last \in [Targets -> [tag : Nat, ok : BOOLEAN]]
  /\ clobbered \in BOOLEAN
  /\ lost \subseteq Dirs
  /\ entries \in Gots

-----------------------------------------------------------------------------
(***************************************************************************)
(* What is left of a call: its remaining accesses, in their order.  Each   *)
(* of these facts holds of what is left after an access when it holds      *)
(* before.                                                                 *)
(***************************************************************************)
Is(x, c, o) == x[1] = c /\ x[2] = o
Has(s, c, o) == \E i \in 1 .. Len(s) : Is(s[i], c, o)
HasCtx(s, c) == \E i \in 1 .. Len(s) : s[i][1] = c

\* Which contexts a call on t accesses, and how
ItemsFit(op, t, s) ==
  \A i \in 1 .. Len(s) :
    /\ IsWriter(op) => s[i][2] \in {"clear", "invalidate", "write", "fetch"}
    /\ ~IsWriter(op) => s[i][2] \in {"read", "fill", "print", "reject"}
    /\ s[i][2] \in {"write", "fetch"} => op \in {"program", "write"}
    /\ s[i][1] \in {"sw", "hw", "credit"} => t \in Dirs
    /\ s[i][1] = "pfetch" => t = "c2h" /\ conf.st
    /\ s[i][1] = "cmpt" => t \in {"c2h", "cmpt"} /\ (conf.st <=> t = "c2h")
    /\ s[i][1] = "qid2vec" => t \in Dirs /\ conf.ip = "s80"
    /\ s[i][1] = "qid2vec" /\ IsWriter(op) =>
         UsesQid2vec /\ op = "program" /\ s[i][2] \in {"write", "fetch"}
    /\ s[i][1] = "intr" => conf.mode = "indirect" /\ (t = "intr" \/ op = "dump")
    /\ s[i][1] = "fmap" => t = "fmap" /\ s[i][2] = op
    /\ s[i][2] = "fetch" => s[i][1] = "qid2vec"
    /\ s[i][1] = "queue" => s[i][2] \in {"fill", "print", "reject"}
    /\ s[i][2] \in {"fill", "print", "reject"} => s[i][1] \in {"queue", "intr"} /\ op = "dump"

\* The software context is cleared first, and written once, after all was
\* cleared; the hardware's own contexts are never written.
QueueOrder(op, s) ==
  /\ \A i \in 1 .. Len(s) : s[i][2] = "write" => s[i][1] \notin {"hw", "credit"}
  /\ \A i \in 2 .. Len(s) : ~Is(s[i], "sw", "clear")
  /\ \A i, j \in 1 .. Len(s) :
       i < j /\ Is(s[i], "sw", "write") => s[j][2] # "clear" /\ ~Is(s[j], "sw", "write")
  /\ Has(s, "sw", "clear") => Has(s, "hw", "clear") /\ Has(s, "credit", "clear")

\* What is cleared on the way to a set-up is written afterwards.
WritesLast(op, t, s) ==
  op \in {"program", "write"} =>
    \A i \in 1 .. Len(s) :
      s[i][1] \in Held(t) /\ s[i][2] # "write" =>
        \E j \in 1 .. Len(s) : i < j /\ Is(s[j], s[i][1], "write")

\* The vector map is written right after it was fetched.
FetchOrder(s) ==
  /\ \A i \in 2 .. Len(s) :
       Is(s[i], "qid2vec", "write") => Is(s[i - 1], "qid2vec", "fetch")
  /\ \A i \in 1 .. Len(s) :
       Is(s[i], "qid2vec", "fetch") => i < Len(s) /\ Is(s[i + 1], "qid2vec", "write")

\* A table is printed right after it was filled, and the interrupt ring's
\* filled right after it was read.
PrintOrder(s) ==
  \A i \in 2 .. Len(s) :
    /\ s[i][2] = "print" => Is(s[i - 1], s[i][1], "fill")
    /\ Is(s[i], "intr", "fill") => Is(s[i - 1], "intr", "read")

TodoOK(op, t, s) ==
  /\ ItemsFit(op, t, s) /\ WritesLast(op, t, s) /\ FetchOrder(s) /\ PrintOrder(s)
  /\ QueueOrder(op, s)

\* What holds of a whole call besides
WholeOK(op, t, s) ==
  /\ s # <<>>
  /\ ~Is(s[1], "qid2vec", "write") /\ s[1][2] # "print" /\ ~Is(s[1], "intr", "fill")
  /\ IsWriter(op) => \A c \in Held(t) : HasCtx(s, c)
  /\ op = "program" /\ t \in Dirs =>
       /\ Has(s, "sw", "clear")
       /\ UsesQid2vec => Has(s, "qid2vec", "write")

-----------------------------------------------------------------------------
(***************************************************************************)
(* The inductive invariant.                                                *)
(***************************************************************************)
InCall(th) == thr[th].pc # "idle"
Holding(th) == thr[th].pc \in {"command", "poll"}
Now(th, c, o) == Is(Item(th), c, o)

\* A call makes its accesses in order; one that has the lock is at an
\* indirect access, ...
GoodCall(c) ==
  /\ c.pc # "idle" =>
       /\ c.t \in Targets /\ c.op \in Ops(c.t)
       /\ TodoOK(c.op, c.t, c.todo)
       /\ c.op \notin {"program", "write"} => c.tag = 0
  /\ c.todo # <<>> => c.pc # "idle"
  /\ c.todo # <<>> /\ Is(c.todo[1], "qid2vec", "write") => "fetched" \in DOMAIN c.got
  /\ c.todo # <<>> /\ Is(c.todo[1], "intr", "fill") => "intr" \in DOMAIN c.got
  /\ c.pc \in {"command", "poll"} =>
       /\ c.todo # <<>>
       /\ c.todo[1][2] \in {"read", "fetch", "write", "clear", "invalidate"}
       /\ Sel(c.todo[1][1], c.t) # "TRQ_FMAP"

\* ... and the command register is its own once written.  What is printed was
\* filled in.
CallInv ==
  \A th \in Threads :
    /\ GoodCall(thr[th])
    /\ thr[th].todo # <<>> /\ Item(th)[2] = "print" => Shown(th) \subseteq DOMAIN entries
    /\ Holding(th) => lock = th
    /\ thr[th].pc = "command" /\ Item(th)[2] = "write" => clobbered
    /\ thr[th].pc = "poll" =>
         cmd.sel = Sel(Item(th)[1], thr[th].t) /\ cmd.op = Opcode(Item(th)[2])

\* One call at a time changes a target's contexts.
OneWriter == \A t \in Targets : \A th, u \in Writers(t) : th = u

Own == {"sw", "hw", "credit"}
Writing(m, sel) == m.busy /\ m.op = "WR" /\ m.sel = sel

\* Call c is a queue's set-up that has not written the software context yet.
Unwritten(c) ==
  /\ c.pc # "idle" /\ c.op = "program" /\ c.t \in Dirs
  /\ Has(c.todo, "sw", "write")
  /\ ~(c.pc = "poll" /\ Is(c.todo[1], "sw", "write"))

\* It has cleared context x ...
HasCleared(c, m, x) ==
  \/ ~Has(c.todo, x, "clear")
  \/ c.pc = "poll" /\ ~m.busy /\ Is(c.todo[1], x, "clear")

\* ... and what it has cleared stays cleared.
CallFresh(c, m, hw) ==
  Unwritten(c) =>
    /\ \A x \in Own : HasCleared(c, m, x) => hw[Sel(x, c.t)] = Cleared
    /\ ~Has(c.todo, "sw", "clear") => ~Writing(m, Sel("sw", c.t))

\* A software context is written over cleared contexts.
WriteFresh(t, m, hw) ==
  /\ Writing(m, Sel("sw", t)) => \A x \in Own : hw[Sel(x, t)] = Cleared
  /\ ~Writing(m, Sel("hw", t)) /\ ~Writing(m, Sel("credit", t))

FreshInv ==
  /\ \A t \in Dirs : WriteFresh(t, cmd, store)
  /\ \A th \in Threads : CallFresh(thr[th], cmd, store)

\* A call that is still clean reads what nobody is changing.
CleanInv ==
  \A th \in Threads : InCall(th) /\ ~IsWriter(thr[th].op) /\ thr[th].clean =>
    \A r \in Reads(thr[th].op, thr[th].t) : Writers(r) = {} /\ last[r].ok

-----------------------------------------------------------------------------
(***************************************************************************)
(* The lists of accesses.                                                  *)
(***************************************************************************)
LEMMA ConcatIs ==
  ASSUME NEW S, NEW s \in Seq(S), NEW t \in Seq(S), NEW u \in Seq(S),
         Len(u) = Len(s) + Len(t),
         \A i \in 1 .. Len(s) : u[i] = s[i],
         \A i \in 1 .. Len(t) : u[Len(s) + i] = t[i]
  PROVE  s \o t = u
<1>1. s \o t \in Seq(S) /\ Len(s \o t) = Len(s) + Len(t) /\ Len(s) \in Nat /\ Len(t) \in Nat
  OBVIOUS
<1>2. \A i \in 1 .. Len(s) + Len(t) :
        (s \o t)[i] = IF i <= Len(s) THEN s[i] ELSE t[i - Len(s)]
  OBVIOUS
<1>3. ASSUME NEW i \in 1 .. Len(u) PROVE (s \o t)[i] = u[i]
  <2>1. CASE i <= Len(s)
    BY <1>1, <1>2, <2>1
  <2>2. CASE i > Len(s)
    <3>1. i - Len(s) \in 1 .. Len(t) /\ Len(s) + (i - Len(s)) = i
      BY <1>1, <2>2
    <3>. QED BY <1>1, <1>2, <2>2, <3>1
  <2>. QED BY <1>1, <2>1, <2>2
<1>. QED BY <1>1, <1>3

\* Concatenation of a tuple of 1 and one of 1.
LEMMA Join11 ==
  ASSUME NEW a1, NEW a2
  PROVE  <<a1>> \o <<a2>>
           = <<a1, a2>>
<1>. DEFINE s == <<a1>>
            t == <<a2>>
            u == <<a1, a2>>
            S == {a1, a2}
<1>1. s \in Seq(S) /\ t \in Seq(S) /\ u \in Seq(S) /\ Len(u) = Len(s) + Len(t)
  OBVIOUS
<1>2. \A i \in 1 .. Len(s) : u[i] = s[i]
  OBVIOUS
<1>3. \A i \in 1 .. Len(t) : u[Len(s) + i] = t[i]
  OBVIOUS
<1>. HIDE DEF s, t, u, S
<1>4. s \o t = u
  BY <1>1, <1>2, <1>3, ConcatIs
<1>. QED BY <1>4 DEF s, t, u

\* Concatenation of a tuple of 1 and one of 2.
LEMMA Join12 ==
  ASSUME NEW a1, NEW a2, NEW a3
  PROVE  <<a1>> \o <<a2, a3>>
           = <<a1, a2, a3>>
<1>. DEFINE s == <<a1>>
            t == <<a2, a3>>
            u == <<a1, a2, a3>>
            S == {a1, a2, a3}
<1>1. s \in Seq(S) /\ t \in Seq(S) /\ u \in Seq(S) /\ Len(u) = Len(s) + Len(t)
  OBVIOUS
<1>2. /\ \A i \in 1 .. Len(s) : u[i] = s[i]
      /\ \A i \in 1 .. Len(t) : u[Len(s) + i] = t[i]
  OBVIOUS
<1>. HIDE DEF s, t, u, S
<1>3. s \o t = u
  BY <1>1, <1>2, ConcatIs
<1>. QED BY <1>3 DEF s, t, u

\* Concatenation of a tuple of 3 and one of 1.
LEMMA Join31 ==
  ASSUME NEW a1, NEW a2, NEW a3, NEW a4
  PROVE  <<a1, a2, a3>> \o <<a4>>
           = <<a1, a2, a3, a4>>
<1>. DEFINE s == <<a1, a2, a3>>
            t == <<a4>>
            u == <<a1, a2, a3, a4>>
            S == {a1, a2, a3, a4}
<1>1. s \in Seq(S) /\ t \in Seq(S) /\ u \in Seq(S) /\ Len(u) = Len(s) + Len(t)
  OBVIOUS
<1>2. /\ \A i \in 1 .. Len(s) : u[i] = s[i]
      /\ \A i \in 1 .. Len(t) : u[Len(s) + i] = t[i]
  OBVIOUS
<1>. HIDE DEF s, t, u, S
<1>3. s \o t = u
  BY <1>1, <1>2, ConcatIs
<1>. QED BY <1>3 DEF s, t, u

\* Concatenation of a tuple of 4 and one of 1.
LEMMA Join41 ==
  ASSUME NEW a1, NEW a2, NEW a3, NEW a4, NEW a5
  PROVE  <<a1, a2, a3, a4>> \o <<a5>>
           = <<a1, a2, a3, a4, a5>>
<1>. DEFINE s == <<a1, a2, a3, a4>>
            t == <<a5>>
            u == <<a1, a2, a3, a4, a5>>
            S == {a1, a2, a3, a4, a5}
<1>1. s \in Seq(S) /\ t \in Seq(S) /\ u \in Seq(S) /\ Len(u) = Len(s) + Len(t)
  OBVIOUS
<1>2. /\ \A i \in 1 .. Len(s) : u[i] = s[i]
      /\ \A i \in 1 .. Len(t) : u[Len(s) + i] = t[i]
  OBVIOUS
<1>. HIDE DEF s, t, u, S
<1>3. s \o t = u
  BY <1>1, <1>2, ConcatIs
<1>. QED BY <1>3 DEF s, t, u

\* Concatenation of a tuple of 3 and one of 3.
LEMMA Join33 ==
  ASSUME NEW a1, NEW a2, NEW a3, NEW a4, NEW a5, NEW a6
  PROVE  <<a1, a2, a3>> \o <<a4, a5, a6>>
           = <<a1, a2, a3, a4, a5, a6>>
<1>. DEFINE s == <<a1, a2, a3>>
            t == <<a4, a5, a6>>
            u == <<a1, a2, a3, a4, a5, a6>>
            S == {a1, a2, a3, a4, a5, a6}
<1>1. s \in Seq(S) /\ t \in Seq(S) /\ u \in Seq(S) /\ Len(u) = Len(s) + Len(t)
  OBVIOUS
<1>2. /\ \A i \in 1 .. Len(s) : u[i] = s[i]
      /\ \A i \in 1 .. Len(t) : u[Len(s) + i] = t[i]
  OBVIOUS
<1>. HIDE DEF s, t, u, S
<1>3. s \o t = u
  BY <1>1, <1>2, ConcatIs
<1>. QED BY <1>3 DEF s, t, u

\* Concatenation of a tuple of 5 and one of 2.
LEMMA Join52 ==
  ASSUME NEW a1, NEW a2, NEW a3, NEW a4, NEW a5, NEW a6, NEW a7
  PROVE  <<a1, a2, a3, a4, a5>> \o <<a6, a7>>
           = <<a1, a2, a3, a4, a5, a6, a7>>
<1>. DEFINE s == <<a1, a2, a3, a4, a5>>
            t == <<a6, a7>>
            u == <<a1, a2, a3, a4, a5, a6, a7>>
            S == {a1, a2, a3, a4, a5, a6, a7}
<1>1. s \in Seq(S) /\ t \in Seq(S) /\ u \in Seq(S) /\ Len(u) = Len(s) + Len(t)
  OBVIOUS
<1>2. /\ \A i \in 1 .. Len(s) : u[i] = s[i]
      /\ \A i \in 1 .. Len(t) : u[Len(s) + i] = t[i]
  OBVIOUS
<1>. HIDE DEF s, t, u, S
<1>3. s \o t = u
  BY <1>1, <1>2, ConcatIs
<1>. QED BY <1>3 DEF s, t, u

\* Concatenation of a tuple of 5 and one of 4.
LEMMA Join54 ==
  ASSUME NEW a1, NEW a2, NEW a3, NEW a4, NEW a5, NEW a6, NEW a7, NEW a8, NEW a9
  PROVE  <<a1, a2, a3, a4, a5>> \o <<a6, a7, a8, a9>>
           = <<a1, a2, a3, a4, a5, a6, a7, a8, a9>>
<1>. DEFINE s == <<a1, a2, a3, a4, a5>>
            t == <<a6, a7, a8, a9>>
            u == <<a1, a2, a3, a4, a5, a6, a7, a8, a9>>
            S == {a1, a2, a3, a4, a5, a6, a7, a8, a9}
<1>1. s \in Seq(S) /\ t \in Seq(S) /\ u \in Seq(S) /\ Len(u) = Len(s) + Len(t)
  OBVIOUS
<1>2. /\ \A i \in 1 .. Len(s) : u[i] = s[i]
      /\ \A i \in 1 .. Len(t) : u[Len(s) + i] = t[i]
  OBVIOUS
<1>. HIDE DEF s, t, u, S
<1>3. s \o t = u
  BY <1>1, <1>2, ConcatIs
<1>. QED BY <1>3 DEF s, t, u

\* Concatenation of a tuple of 7 and one of 1.
LEMMA Join71 ==
  ASSUME NEW a1, NEW a2, NEW a3, NEW a4, NEW a5, NEW a6, NEW a7, NEW a8
  PROVE  <<a1, a2, a3, a4, a5, a6, a7>> \o <<a8>>
           = <<a1, a2, a3, a4, a5, a6, a7, a8>>
<1>. DEFINE s == <<a1, a2, a3, a4, a5, a6, a7>>
            t == <<a8>>
            u == <<a1, a2, a3, a4, a5, a6, a7, a8>>
            S == {a1, a2, a3, a4, a5, a6, a7, a8}
<1>1. s \in Seq(S) /\ t \in Seq(S) /\ u \in Seq(S) /\ Len(u) = Len(s) + Len(t)
  OBVIOUS
<1>2. /\ \A i \in 1 .. Len(s) : u[i] = s[i]
      /\ \A i \in 1 .. Len(t) : u[Len(s) + i] = t[i]
  OBVIOUS
<1>. HIDE DEF s, t, u, S
<1>3. s \o t = u
  BY <1>1, <1>2, ConcatIs
<1>. QED BY <1>3 DEF s, t, u

\* Concatenation of a tuple of 9 and one of 1.
LEMMA Join91 ==
  ASSUME NEW a1, NEW a2, NEW a3, NEW a4, NEW a5, NEW a6, NEW a7, NEW a8, NEW a9, NEW a10
  PROVE  <<a1, a2, a3, a4, a5, a6, a7, a8, a9>> \o <<a10>>
           = <<a1, a2, a3, a4, a5, a6, a7, a8, a9, a10>>
<1>. DEFINE s == <<a1, a2, a3, a4, a5, a6, a7, a8, a9>>
            t == <<a10>>
            u == <<a1, a2, a3, a4, a5, a6, a7, a8, a9, a10>>
            S == {a1, a2, a3, a4, a5, a6, a7, a8, a9, a10}
<1>1. s \in Seq(S) /\ t \in Seq(S) /\ u \in Seq(S) /\ Len(u) = Len(s) + Len(t)
  OBVIOUS
<1>2. /\ \A i \in 1 .. Len(s) : u[i] = s[i]
      /\ \A i \in 1 .. Len(t) : u[Len(s) + i] = t[i]
  OBVIOUS
<1>. HIDE DEF s, t, u, S
<1>3. s \o t = u
  BY <1>1, <1>2, ConcatIs
<1>. QED BY <1>3 DEF s, t, u

\* The fields of a configuration.
LEMMA ConfIs ==
  ASSUME conf \in Configs
  PROVE  /\ conf.ip \in {"eqdma", "soft", "s80"}
         /\ conf.st \in BOOLEAN
         /\ conf.mode \in {"poll", "direct", "indirect"}
  BY ConfigsAssumption

\* The calls that change a queue's contexts, written out
LEMMA ClearIs ==
  ASSUME NEW t \in Dirs, NEW op
  PROVE  qdma_descq_context_clear(t, op) =
           IF t = "c2h" /\ conf.st
           THEN <<<<"sw", op>>, <<"hw", op>>, <<"credit", op>>, <<"pfetch", op>>,
                  <<"cmpt", op>>>>
           ELSE <<<<"sw", op>>, <<"hw", op>>, <<"credit", op>>>>
<1>. DEFINE a == <<"sw", op>>
            b == <<"hw", op>>
            c == <<"credit", op>>
            d == <<"pfetch", op>>
            e == <<"cmpt", op>>
<1>. HIDE DEF a, b, c, d, e
<1>1. <<a, b, c>> \o <<>> = <<a, b, c>>
  OBVIOUS
<1>2. <<a, b, c>> \o <<d>> = <<a, b, c, d>> /\ <<a, b, c, d>> \o <<e>> = <<a, b, c, d, e>>
  BY Join31, Join41
<1>3. qdma_descq_context_clear(t, op) =
        (<<a, b, c>> \o Seq01(HasPfetch(t), <<d>>)) \o Seq01(HasCmpt(t), <<e>>)
  BY DEF qdma_descq_context_clear, Seq01, Dirs, a, b, c, d, e
<1>4. CASE t = "c2h" /\ conf.st
  <2>1. Seq01(HasPfetch(t), <<d>>) = <<d>> /\ Seq01(HasCmpt(t), <<e>>) = <<e>>
    BY <1>4 DEF Seq01, HasPfetch, HasCmpt
  <2>. QED BY <1>2, <1>3, <1>4, <2>1 DEF a, b, c, d, e
<1>5. CASE ~(t = "c2h" /\ conf.st)
  <2>1. Seq01(HasPfetch(t), <<d>>) = <<>> /\ Seq01(HasCmpt(t), <<e>>) = <<>>
    BY <1>5 DEF Seq01, HasPfetch, HasCmpt, Dirs
  <2>. QED BY <1>1, <1>3, <1>5, <2>1 DEF a, b, c
<1>. QED BY <1>4, <1>5

\* The steps of qdma_descq_context_program() spelled out.
LEMMA ProgramIs ==
  ASSUME NEW t \in Dirs
  PROVE  qdma_descq_context_program(t) =
           IF t = "c2h" /\ conf.st
           THEN IF UsesQid2vec
                THEN <<<<"sw", "clear">>, <<"hw", "clear">>, <<"credit", "clear">>,
                       <<"pfetch", "clear">>, <<"cmpt", "clear">>,
                       <<"sw", "write">>, <<"qid2vec", "fetch">>, <<"qid2vec", "write">>,
                       <<"pfetch", "write">>, <<"cmpt", "write">>>>
                ELSE <<<<"sw", "clear">>, <<"hw", "clear">>, <<"credit", "clear">>,
                       <<"pfetch", "clear">>, <<"cmpt", "clear">>,
                       <<"sw", "write">>, <<"pfetch", "write">>, <<"cmpt", "write">>>>
           ELSE IF UsesQid2vec
                THEN <<<<"sw", "clear">>, <<"hw", "clear">>, <<"credit", "clear">>,
                       <<"sw", "write">>, <<"qid2vec", "fetch">>, <<"qid2vec", "write">>>>
                ELSE <<<<"sw", "clear">>, <<"hw", "clear">>, <<"credit", "clear">>,
                       <<"sw", "write">>>>
<1>. DEFINE a == <<"sw", "clear">>
            b == <<"hw", "clear">>
            c == <<"credit", "clear">>
            d == <<"pfetch", "clear">>
            e == <<"cmpt", "clear">>
            f == <<"sw", "write">>
            g == <<"qid2vec", "fetch">>
            h == <<"qid2vec", "write">>
            k == <<"pfetch", "write">>
            l == <<"cmpt", "write">>
<1>1. qdma_descq_context_clear(t, "clear") =
        IF t = "c2h" /\ conf.st THEN <<a, b, c, d, e>> ELSE <<a, b, c>>
  BY ClearIs
<1>2. qdma_descq_context_program(t) =
        (qdma_descq_context_clear(t, "clear")
           \o ((<<f>> \o Seq01(UsesQid2vec, <<g, h>>)) \o Seq01(HasPfetch(t), <<k>>)))
          \o Seq01(HasCmpt(t), <<l>>)
  BY DEF qdma_descq_context_program, Seq01, Dirs, qdma_s80_hard_qid2vec_write
<1>. HIDE DEF a, b, c, d, e, f, g, h, k, l
<1>3. /\ <<f>> \o <<>> = <<f>> /\ <<f, g, h>> \o <<>> = <<f, g, h>>
      /\ <<a, b, c, f>> \o <<>> = <<a, b, c, f>>
      /\ <<a, b, c, f, g, h>> \o <<>> = <<a, b, c, f, g, h>>
  OBVIOUS
<1>4. CASE t = "c2h" /\ conf.st
  <2>1. Seq01(HasPfetch(t), <<k>>) = <<k>> /\ Seq01(HasCmpt(t), <<l>>) = <<l>>
    BY <1>4 DEF Seq01, HasPfetch, HasCmpt
  <2>2. CASE UsesQid2vec
    <3>1. qdma_descq_context_program(t) =
            (<<a, b, c, d, e>> \o ((<<f>> \o <<g, h>>) \o <<k>>)) \o <<l>>
      BY <1>1, <1>2, <1>4, <2>1, <2>2 DEF Seq01
    <3>2. /\ <<f>> \o <<g, h>> = <<f, g, h>> /\ <<f, g, h>> \o <<k>> = <<f, g, h, k>>
          /\ <<a, b, c, d, e>> \o <<f, g, h, k>> = <<a, b, c, d, e, f, g, h, k>>
      BY Join12, Join31, Join54
    <3>3. <<a, b, c, d, e, f, g, h, k>> \o <<l>> = <<a, b, c, d, e, f, g, h, k, l>>
      BY Join91
    <3>4. qdma_descq_context_program(t) = <<a, b, c, d, e, f, g, h, k, l>>
      BY <3>1, <3>2, <3>3
    <3>. QED BY <1>4, <2>2, <3>4 DEF a, b, c, d, e, f, g, h, k, l
  <2>3. CASE ~UsesQid2vec
    <3>1. qdma_descq_context_program(t) =
            (<<a, b, c, d, e>> \o ((<<f>> \o <<>>) \o <<k>>)) \o <<l>>
      BY <1>1, <1>2, <1>4, <2>1, <2>3 DEF Seq01
    <3>2. /\ <<f>> \o <<k>> = <<f, k>>
          /\ <<a, b, c, d, e>> \o <<f, k>> = <<a, b, c, d, e, f, k>>
          /\ <<a, b, c, d, e, f, k>> \o <<l>> = <<a, b, c, d, e, f, k, l>>
      BY Join11, Join52, Join71
    <3>3. qdma_descq_context_program(t) = <<a, b, c, d, e, f, k, l>>
      BY <1>3, <3>1, <3>2
    <3>. QED BY <1>4, <2>3, <3>3 DEF a, b, c, d, e, f, k, l
  <2>. QED BY <2>2, <2>3
<1>5. CASE ~(t = "c2h" /\ conf.st)
  <2>1. Seq01(HasPfetch(t), <<k>>) = <<>> /\ Seq01(HasCmpt(t), <<l>>) = <<>>
    BY <1>5 DEF Seq01, HasPfetch, HasCmpt, Dirs
  <2>2. CASE UsesQid2vec
    <3>1. qdma_descq_context_program(t) =
            (<<a, b, c>> \o ((<<f>> \o <<g, h>>) \o <<>>)) \o <<>>
      BY <1>1, <1>2, <1>5, <2>1, <2>2 DEF Seq01
    <3>2. /\ <<f>> \o <<g, h>> = <<f, g, h>>
          /\ <<a, b, c>> \o <<f, g, h>> = <<a, b, c, f, g, h>>
      BY Join12, Join33
    <3>3. qdma_descq_context_program(t) = <<a, b, c, f, g, h>>
      BY <1>3, <3>1, <3>2
    <3>. QED BY <1>5, <2>2, <3>3 DEF a, b, c, f, g, h
  <2>3. CASE ~UsesQid2vec
    <3>1. qdma_descq_context_program(t) = (<<a, b, c>> \o ((<<f>> \o <<>>) \o <<>>)) \o <<>>
      BY <1>1, <1>2, <1>5, <2>1, <2>3 DEF Seq01
    <3>2. <<a, b, c>> \o <<f>> = <<a, b, c, f>>
      BY Join31
    <3>3. qdma_descq_context_program(t) = <<a, b, c, f>>
      BY <1>3, <3>1, <3>2
    <3>. QED BY <1>5, <2>3, <3>3 DEF a, b, c, f
  <2>. QED BY <2>2, <2>3
<1>. QED BY <1>4, <1>5

-----------------------------------------------------------------------------
\* Such a list is in order.
ListOK(op, t, s) == s \in Seq(Items) /\ TodoOK(op, t, s) /\ WholeOK(op, t, s)

\* The steps of a clear are in order.
LEMMA ClearOK ==
  ASSUME conf \in Configs, NEW t \in Dirs, NEW op \in {"clear", "invalidate"}
  PROVE  ListOK(op, t, qdma_descq_context_clear(t, op))
<1>1. CASE t = "c2h" /\ conf.st
  <2>. DEFINE s == <<<<"sw", op>>, <<"hw", op>>, <<"credit", op>>, <<"pfetch", op>>,
                     <<"cmpt", op>>>>
  <2>1. qdma_descq_context_clear(t, op) = s
    BY <1>1, ClearIs
  <2>2. s \in Seq(Items) /\ Len(s) = 5
    BY DEF Items, Contexts, ItemOps
  <2>3. ItemsFit(op, t, s)
    BY <1>1, <2>2 DEF ItemsFit, IsWriter, Dirs
  <2>4. QueueOrder(op, s)
    BY <2>2 DEF QueueOrder, Is, Has
  <2>5. WritesLast(op, t, s)
    BY DEF WritesLast
  <2>6. FetchOrder(s) /\ PrintOrder(s)
    BY <2>2 DEF FetchOrder, PrintOrder, Is
  <2>7. WholeOK(op, t, s)
    BY <1>1, <2>2 DEF WholeOK, Is, HasCtx, Held, HasPfetch, HasCmpt, QTypes
  <2>. HIDE DEF s
  <2>. QED BY <2>1, <2>2, <2>3, <2>4, <2>5, <2>6, <2>7 DEF ListOK, TodoOK
<1>2. CASE ~(t = "c2h" /\ conf.st)
  <2>. DEFINE s == <<<<"sw", op>>, <<"hw", op>>, <<"credit", op>>>>
  <2>1. qdma_descq_context_clear(t, op) = s
    BY <1>2, ClearIs
  <2>2. s \in Seq(Items) /\ Len(s) = 3
    BY DEF Items, Contexts, ItemOps
  <2>3. ItemsFit(op, t, s)
    BY <2>2 DEF ItemsFit, IsWriter, Dirs
  <2>4. QueueOrder(op, s)
    BY <2>2 DEF QueueOrder, Is, Has
  <2>5. WritesLast(op, t, s)
    BY DEF WritesLast
  <2>6. FetchOrder(s) /\ PrintOrder(s)
    BY <2>2 DEF FetchOrder, PrintOrder, Is
  <2>7. WholeOK(op, t, s)
    BY <1>2, <2>2 DEF WholeOK, Is, HasCtx, Held, HasPfetch, HasCmpt, QTypes, Dirs
  <2>. HIDE DEF s
  <2>. QED BY <2>1, <2>2, <2>3, <2>4, <2>5, <2>6, <2>7 DEF ListOK, TodoOK
<1>. QED BY <1>1, <1>2

\* The steps of a program call are in order.
LEMMA ProgramOK ==
  ASSUME conf \in Configs, NEW t \in Dirs
  PROVE  ListOK("program", t, qdma_descq_context_program(t))
<1>1. CASE t = "c2h" /\ conf.st /\ UsesQid2vec
  <2>. DEFINE s == <<<<"sw", "clear">>, <<"hw", "clear">>, <<"credit", "clear">>,
                      <<"pfetch", "clear">>, <<"cmpt", "clear">>,
                      <<"sw", "write">>, <<"qid2vec", "fetch">>,
                      <<"qid2vec", "write">>, <<"pfetch", "write">>,
                      <<"cmpt", "write">>>>
  <2>1. qdma_descq_context_program(t) = s
    BY <1>1, ProgramIs
  <2>2. s \in Seq(Items) /\ Len(s) = 10
    BY DEF Items, Contexts, ItemOps
  <2>3. ItemsFit("program", t, s)
    BY <1>1, <2>2 DEF ItemsFit, IsWriter, Dirs, UsesQid2vec
  <2>4. QueueOrder("program", s)
    BY <2>2 DEF QueueOrder, Is, Has
  <2>5. WritesLast("program", t, s)
    BY <1>1, <2>2 DEF WritesLast, Is, Held, HasPfetch, HasCmpt, QTypes, Dirs
  <2>6. FetchOrder(s) /\ PrintOrder(s)
    BY <2>2 DEF FetchOrder, PrintOrder, Is
  <2>7. WholeOK("program", t, s)
    BY <1>1, <2>2 DEF WholeOK, Is, Has, HasCtx, Held, HasPfetch, HasCmpt, QTypes, Dirs
  <2>. HIDE DEF s
  <2>. QED BY <2>1, <2>2, <2>3, <2>4, <2>5, <2>6, <2>7 DEF ListOK, TodoOK
<1>2. CASE t = "c2h" /\ conf.st /\ ~UsesQid2vec
  <2>. DEFINE s == <<<<"sw", "clear">>, <<"hw", "clear">>, <<"credit", "clear">>,
                      <<"pfetch", "clear">>, <<"cmpt", "clear">>,
                      <<"sw", "write">>, <<"pfetch", "write">>,
                      <<"cmpt", "write">>>>
  <2>1. qdma_descq_context_program(t) = s
    BY <1>2, ProgramIs
  <2>2. s \in Seq(Items) /\ Len(s) = 8
    BY DEF Items, Contexts, ItemOps
  <2>3. ItemsFit("program", t, s)
    BY <1>2, <2>2 DEF ItemsFit, IsWriter, Dirs, UsesQid2vec
  <2>4. QueueOrder("program", s)
    BY <2>2 DEF QueueOrder, Is, Has
  <2>5. WritesLast("program", t, s)
    BY <1>2, <2>2 DEF WritesLast, Is, Held, HasPfetch, HasCmpt, QTypes, Dirs
  <2>6. FetchOrder(s) /\ PrintOrder(s)
    BY <2>2 DEF FetchOrder, PrintOrder, Is
  <2>7. WholeOK("program", t, s)
    BY <1>2, <2>2 DEF WholeOK, Is, Has, HasCtx, Held, HasPfetch, HasCmpt, QTypes, Dirs
  <2>. HIDE DEF s
  <2>. QED BY <2>1, <2>2, <2>3, <2>4, <2>5, <2>6, <2>7 DEF ListOK, TodoOK
<1>3. CASE ~(t = "c2h" /\ conf.st) /\ UsesQid2vec
  <2>. DEFINE s == <<<<"sw", "clear">>, <<"hw", "clear">>, <<"credit", "clear">>,
                      <<"sw", "write">>, <<"qid2vec", "fetch">>,
                      <<"qid2vec", "write">>>>
  <2>1. qdma_descq_context_program(t) = s
    BY <1>3, ProgramIs
  <2>2. s \in Seq(Items) /\ Len(s) = 6
    BY DEF Items, Contexts, ItemOps
  <2>3. ItemsFit("program", t, s)
    BY <1>3, <2>2 DEF ItemsFit, IsWriter, Dirs, UsesQid2vec
  <2>4. QueueOrder("program", s)
    BY <2>2 DEF QueueOrder, Is, Has
  <2>5. WritesLast("program", t, s)
    BY <1>3, <2>2 DEF WritesLast, Is, Held, HasPfetch, HasCmpt, QTypes, Dirs
  <2>6. FetchOrder(s) /\ PrintOrder(s)
    BY <2>2 DEF FetchOrder, PrintOrder, Is
  <2>7. WholeOK("program", t, s)
    BY <1>3, <2>2 DEF WholeOK, Is, Has, HasCtx, Held, HasPfetch, HasCmpt, QTypes, Dirs
  <2>. HIDE DEF s
  <2>. QED BY <2>1, <2>2, <2>3, <2>4, <2>5, <2>6, <2>7 DEF ListOK, TodoOK
<1>4. CASE ~(t = "c2h" /\ conf.st) /\ ~UsesQid2vec
  <2>. DEFINE s == <<<<"sw", "clear">>, <<"hw", "clear">>, <<"credit", "clear">>,
                      <<"sw", "write">>>>
  <2>1. qdma_descq_context_program(t) = s
    BY <1>4, ProgramIs
  <2>2. s \in Seq(Items) /\ Len(s) = 4
    BY DEF Items, Contexts, ItemOps
  <2>3. ItemsFit("program", t, s)
    BY <1>4, <2>2 DEF ItemsFit, IsWriter, Dirs, UsesQid2vec
  <2>4. QueueOrder("program", s)
    BY <2>2 DEF QueueOrder, Is, Has
  <2>5. WritesLast("program", t, s)
    BY <1>4, <2>2 DEF WritesLast, Is, Held, HasPfetch, HasCmpt, QTypes, Dirs
  <2>6. FetchOrder(s) /\ PrintOrder(s)
    BY <2>2 DEF FetchOrder, PrintOrder, Is
  <2>7. WholeOK("program", t, s)
    BY <1>4, <2>2 DEF WholeOK, Is, Has, HasCtx, Held, HasPfetch, HasCmpt, QTypes, Dirs
  <2>. HIDE DEF s
  <2>. QED BY <2>1, <2>2, <2>3, <2>4, <2>5, <2>6, <2>7 DEF ListOK, TodoOK
<1>. QED BY <1>1, <1>2, <1>3, <1>4

\* The steps of a call on a completion context are in order.
LEMMA CmptOK ==
  ASSUME conf \in Configs, ~conf.st, NEW op \in {"program", "clear", "invalidate"}
  PROVE  ListOK(op, "cmpt", Script(op, "cmpt"))
<1>1. \A o : qdma_descq_context_clear("cmpt", o) = <<<<"cmpt", o>>>>
  BY DEF qdma_descq_context_clear, Seq01, HasCmpt
<1>2. CASE op \in {"clear", "invalidate"}
  <2>. DEFINE s == <<<<"cmpt", op>>>>
  <2>1. Script(op, "cmpt") = s
    BY <1>1, <1>2 DEF Script, QTypes
  <2>2. s \in Seq(Items) /\ Len(s) = 1
    BY <1>2 DEF Items, Contexts, ItemOps
  <2>3. ItemsFit(op, "cmpt", s)
    BY <1>2, <2>2 DEF ItemsFit, IsWriter, Dirs
  <2>4. QueueOrder(op, s)
    BY <2>2 DEF QueueOrder, Is, Has
  <2>5. WritesLast(op, "cmpt", s)
    BY <1>2 DEF WritesLast
  <2>6. FetchOrder(s) /\ PrintOrder(s)
    BY <2>2 DEF FetchOrder, PrintOrder, Is
  <2>7. WholeOK(op, "cmpt", s)
    BY <2>2 DEF WholeOK, Is, HasCtx, Held, HasPfetch, HasCmpt, QTypes, Dirs
  <2>. HIDE DEF s
  <2>. QED BY <2>1, <2>2, <2>3, <2>4, <2>5, <2>6, <2>7 DEF ListOK, TodoOK
<1>3. CASE op = "program"
  <2>. DEFINE s == <<<<"cmpt", "clear">>, <<"cmpt", "write">>>>
  <2>1. Script(op, "cmpt") = s
    <3>1. Script(op, "cmpt") = qdma_descq_context_program("cmpt")
      BY <1>3 DEF Script, QTypes
    <3>2. qdma_descq_context_program("cmpt")
            = (<<<<"cmpt", "clear">>>> \o <<>>) \o <<<<"cmpt", "write">>>>
      BY <1>1 DEF qdma_descq_context_program, Seq01, HasCmpt
    <3>3. <<<<"cmpt", "clear">>>> \o <<>> = <<<<"cmpt", "clear">>>>
      OBVIOUS
    <3>4. <<<<"cmpt", "clear">>>> \o <<<<"cmpt", "write">>>> = s
      BY Join11
    <3>. QED BY <3>1, <3>2, <3>3, <3>4
  <2>2. s \in Seq(Items) /\ Len(s) = 2
    BY DEF Items, Contexts, ItemOps
  <2>3. ItemsFit(op, "cmpt", s)
    BY <1>3, <2>2 DEF ItemsFit, IsWriter, Dirs
  <2>4. QueueOrder(op, s)
    BY <2>2 DEF QueueOrder, Is, Has
  <2>5. WritesLast(op, "cmpt", s)
    BY <2>2 DEF WritesLast, Is, Held, HasPfetch, HasCmpt, QTypes
  <2>6. FetchOrder(s) /\ PrintOrder(s)
    BY <2>2 DEF FetchOrder, PrintOrder, Is
  <2>7. WholeOK(op, "cmpt", s)
    BY <2>2 DEF WholeOK, Is, HasCtx, Held, HasPfetch, HasCmpt, QTypes, Dirs
  <2>. HIDE DEF s
  <2>. QED BY <2>1, <2>2, <2>3, <2>4, <2>5, <2>6, <2>7 DEF ListOK, TodoOK
<1>. QED BY <1>2, <1>3

\* A call that only reads and prints, part by part
DumpList(op, t, s) ==
  /\ s \in Seq(Items) /\ ItemsFit(op, t, s) /\ PrintOrder(s)
  /\ \A i \in 1 .. Len(s) : s[i][2] \in {"read", "fill", "print", "reject"}
  /\ Len(s) > 0 => s[1][2] # "print" /\ ~Is(s[1], "intr", "fill")

\* Two pieces of a dump make one.
LEMMA DumpConcat ==
  ASSUME NEW op, NEW t, NEW s, NEW u, DumpList(op, t, s), DumpList(op, t, u)
  PROVE  DumpList(op, t, s \o u) /\ Len(s \o u) = Len(s) + Len(u)
<1>. DEFINE v == s \o u
<1>1. /\ s \in Seq(Items) /\ u \in Seq(Items) /\ Len(s) \in Nat /\ Len(u) \in Nat
      /\ v \in Seq(Items) /\ Len(v) = Len(s) + Len(u)
  BY DEF DumpList
<1>2. \A i \in 1 .. Len(s) + Len(u) : v[i] = IF i <= Len(s) THEN s[i] ELSE u[i - Len(s)]
  BY <1>1
<1>3. ASSUME NEW i \in 1 .. Len(v)
      PROVE  \/ i \in 1 .. Len(s) /\ v[i] = s[i]
             \/ i - Len(s) \in 1 .. Len(u) /\ v[i] = u[i - Len(s)]
  BY <1>1, <1>2
<1>. HIDE DEF v
<1>4. ItemsFit(op, t, v)
  <2>1. ItemsFit(op, t, s) /\ ItemsFit(op, t, u)
    BY DEF DumpList
  <2>2. SUFFICES ASSUME NEW i \in 1 .. Len(v)
                 PROVE  \E w \in {s, u} : \E j \in 1 .. Len(w) : v[i] = w[j]
    <3>1. \A i \in 1 .. Len(v) : \E w \in {s, u} : \E j \in 1 .. Len(w) : v[i] = w[j]
      BY <2>2
    <3>. QED BY <2>1, <3>1 DEF ItemsFit
  <2>. QED BY <1>3
<1>5. \A i \in 1 .. Len(v) : v[i][2] \in {"read", "fill", "print", "reject"}
  BY <1>3 DEF DumpList
<1>6. Len(v) > 0 => v[1][2] # "print" /\ ~Is(v[1], "intr", "fill")
  <2>1. ASSUME Len(v) > 0 PROVE v[1][2] # "print" /\ ~Is(v[1], "intr", "fill")
    <3>1. 1 \in 1 .. Len(v)
      BY <1>1, <2>1
    <3>2. CASE Len(s) > 0
      BY <1>1, <1>2, <3>1, <3>2 DEF DumpList
    <3>3. CASE Len(s) = 0
      BY <1>1, <1>2, <3>1, <3>3 DEF DumpList
    <3>. QED BY <1>1, <3>2, <3>3
  <2>. QED BY <2>1
<1>7. PrintOrder(v)
  <2>1. SUFFICES ASSUME NEW i \in 2 .. Len(v)
                 PROVE  /\ v[i][2] = "print" => Is(v[i - 1], v[i][1], "fill")
                        /\ Is(v[i], "intr", "fill") => Is(v[i - 1], "intr", "read")
    BY DEF PrintOrder
  <2>2. i \in 1 .. Len(v) /\ i - 1 \in 1 .. Len(v) /\ i \in Nat
    BY <1>1
  <2>3. CASE i <= Len(s)
    <3>. DEFINE k == i - 1
    <3>1. v[i] = s[i] /\ i \in 2 .. Len(s)
      BY <1>1, <1>2, <2>2, <2>3
    <3>2. k \in 1 .. Len(s) + Len(u) /\ k <= Len(s)
      BY <1>1, <2>2, <2>3
    <3>. HIDE DEF k
    <3>3. v[k] = s[k]
      BY <1>2, <3>2
    <3>. QED BY <2>1, <3>1, <3>3 DEF DumpList, PrintOrder, k
  <2>4. CASE i - Len(s) > 1
    <3>. DEFINE j == i - Len(s)
    <3>1. j \in 2 .. Len(u) /\ (i - 1) - Len(s) = j - 1 /\ v[i] = u[j]
      BY <1>1, <1>2, <2>2, <2>4
    <3>2. v[i - 1] = u[j - 1]
      BY <1>1, <1>2, <2>2, <2>4, <3>1
    <3>. HIDE DEF j
    <3>. QED BY <2>1, <3>1, <3>2 DEF DumpList, PrintOrder
  <2>5. CASE i - Len(s) = 1
    <3>1. v[i] = u[1] /\ Len(u) > 0
      BY <1>1, <1>2, <2>2, <2>5
    <3>. QED BY <2>1, <3>1 DEF DumpList
  <2>. QED BY <1>1, <2>2, <2>3, <2>4, <2>5
<1>. QED BY <1>1, <1>4, <1>5, <1>6, <1>7 DEF DumpList, v

\* The empty piece of a dump.
LEMMA DumpEmpty ==
  ASSUME NEW op, NEW t
  PROVE  DumpList(op, t, <<>>) /\ Len(<<>>) = 0
<1>1. Len(<<>>) = 0 /\ <<>> \in Seq(Items)
  OBVIOUS
<1>. QED BY <1>1 DEF DumpList, ItemsFit, PrintOrder

\* Reading one context
LEMMA DumpOne ==
  ASSUME conf \in Configs, NEW t \in Targets, NEW op \in {"read", "dump"},
         NEW c \in Contexts \ {"queue"},
         c \in {"sw", "hw", "credit"} => t \in Dirs,
         c = "pfetch" => t = "c2h" /\ conf.st,
         c = "cmpt" => t \in {"c2h", "cmpt"} /\ (conf.st <=> t = "c2h"),
         c = "qid2vec" => t \in Dirs /\ conf.ip = "s80",
         c = "intr" => conf.mode = "indirect" /\ (t = "intr" \/ op = "dump"),
         c = "fmap" => t = "fmap" /\ op = "read"
  PROVE  DumpList(op, t, <<<<c, "read">>>>) /\ Len(<<<<c, "read">>>>) = 1
<1>. DEFINE s == <<<<c, "read">>>>
<1>1. s \in Seq(Items) /\ Len(s) = 1 /\ s[1][1] = c /\ s[1][2] = "read"
  BY DEF Items, ItemOps
<1>. HIDE DEF s
<1>2. \A i \in 1 .. Len(s) : s[i][1] = c /\ s[i][2] = "read"
  BY <1>1
<1>3. ItemsFit(op, t, s)
  BY <1>2 DEF ItemsFit, IsWriter, Contexts
<1>4. PrintOrder(s)
  BY <1>1 DEF PrintOrder
<1>5. DumpList(op, t, s)
  BY <1>1, <1>2, <1>3, <1>4 DEF DumpList, Is
<1>. QED BY <1>1, <1>5 DEF s

\* The reads of a queue's dump are in order.
LEMMA QueueReadsOK ==
  ASSUME conf \in Configs, NEW t \in QTypes, NEW op \in {"read", "dump"},
         t = "cmpt" => ~conf.st, NEW r, DumpList(op, t, r)
  PROVE  DumpList(op, t, QueueReads(t, r)) /\ Len(QueueReads(t, r)) > 0
<1>. DEFINE sw == <<<<"sw", "read">>>>
            qv == Seq01(conf.ip = "s80", <<<<"qid2vec", "read">>>>)
            hw == <<<<"hw", "read">>>>
            cr == <<<<"credit", "read">>>>
            pf == Seq01(HasPfetch(t), <<<<"pfetch", "read">>>>)
            cm == Seq01(HasCmpt(t), <<<<"cmpt", "read">>>>)
<1>1. \A s : DumpList(op, t, s) => Len(s) \in Nat
  BY DEF DumpList
<1>2. CASE t \in Dirs
  <2>1. /\ DumpList(op, t, sw) /\ Len(sw) = 1
        /\ DumpList(op, t, hw) /\ DumpList(op, t, cr)
    BY <1>2, DumpOne DEF Contexts, Targets
  <2>2. DumpList(op, t, qv)
    BY <1>2, DumpOne, DumpEmpty DEF Contexts, Targets, Seq01
  <2>3. DumpList(op, t, pf)
    BY <1>2, DumpOne, DumpEmpty DEF Contexts, Targets, Seq01, HasPfetch
  <2>4. DumpList(op, t, cm)
    BY <1>2, DumpOne, DumpEmpty, ConfIs DEF Contexts, Targets, Seq01, HasCmpt, Dirs
  <2>5. QueueReads(t, r) = (((((sw \o qv) \o hw) \o r) \o cr) \o pf) \o cm
    BY <1>2 DEF QueueReads, SwRead, Seq01, Dirs
  <2>. HIDE DEF sw, qv, hw, cr, pf, cm
  <2>6. DumpList(op, t, sw \o qv) /\ Len(sw \o qv) > 0
    <3>1. DumpList(op, t, sw \o qv) /\ Len(sw \o qv) = Len(sw) + Len(qv)
      <4>1. DumpList(op, t, sw) /\ DumpList(op, t, qv)
        BY <2>1, <2>2
      <4>. QED BY <4>1, DumpConcat
    <3>2. Len(sw) = 1 /\ Len(qv) \in Nat
      BY <1>1, <2>1, <2>2
    <3>. QED BY <3>1, <3>2
  <2>7. DumpList(op, t, (sw \o qv) \o hw) /\ Len((sw \o qv) \o hw) > 0
    BY <1>1, <2>1, <2>6, DumpConcat
  <2>8. DumpList(op, t, ((sw \o qv) \o hw) \o r) /\ Len(((sw \o qv) \o hw) \o r) > 0
    BY <1>1, <2>7, DumpConcat
  <2>9. /\ DumpList(op, t, (((sw \o qv) \o hw) \o r) \o cr)
        /\ Len((((sw \o qv) \o hw) \o r) \o cr) > 0
    BY <1>1, <2>1, <2>8, DumpConcat
  <2>10. /\ DumpList(op, t, ((((sw \o qv) \o hw) \o r) \o cr) \o pf)
         /\ Len(((((sw \o qv) \o hw) \o r) \o cr) \o pf) > 0
    BY <1>1, <2>3, <2>9, DumpConcat
  <2>11. /\ DumpList(op, t, (((((sw \o qv) \o hw) \o r) \o cr) \o pf) \o cm)
         /\ Len((((((sw \o qv) \o hw) \o r) \o cr) \o pf) \o cm) > 0
    BY <1>1, <2>4, <2>10, DumpConcat
  <2>. QED BY <2>5, <2>11
<1>3. CASE t = "cmpt"
  <2>1. QueueReads(t, r) = <<>> \o <<<<"cmpt", "read">>>>
    BY <1>3 DEF QueueReads, Seq01, HasCmpt
  <2>2. DumpList(op, t, <<<<"cmpt", "read">>>>) /\ Len(<<<<"cmpt", "read">>>>) = 1
    BY <1>3, DumpOne DEF Contexts, Targets
  <2>. QED BY <2>1, <2>2
<1>. QED BY <1>2, <1>3 DEF QTypes, Dirs

\* A non-empty dump is a list of steps in order.
LEMMA DumpListOK ==
  ASSUME NEW op \in {"read", "dump"}, NEW t \in Targets, NEW s,
         DumpList(op, t, s), Len(s) > 0
  PROVE  ListOK(op, t, s)
<1>1. s \in Seq(Items) /\ ItemsFit(op, t, s) /\ PrintOrder(s)
  BY DEF DumpList
<1>2. \A i \in 1 .. Len(s) : s[i][2] \notin {"clear", "invalidate", "write", "fetch"}
  BY DEF DumpList
<1>3. QueueOrder(op, s)
  <2>1. ~Has(s, "sw", "clear")
    BY <1>2 DEF Has, Is
  <2>2. Len(s) \in Nat
    BY <1>1
  <2>. QED BY <1>2, <2>1, <2>2 DEF QueueOrder, Is
<1>4. WritesLast(op, t, s)
  BY DEF WritesLast
<1>5. FetchOrder(s)
  <2>1. Len(s) \in Nat
    BY <1>1
  <2>. QED BY <1>2, <2>1 DEF FetchOrder, Is
<1>6. WholeOK(op, t, s)
  <2>1. 1 \in 1 .. Len(s) /\ s # <<>>
    BY <1>1
  <2>. QED BY <1>2, <2>1 DEF WholeOK, Is, IsWriter, DumpList
<1>. QED BY <1>1, <1>3, <1>4, <1>5, <1>6 DEF ListOK, TodoOK

\* Filling and printing come in this order.
LEMMA FillAndPrintOK ==
  ASSUME conf \in Configs, NEW t \in QTypes
  PROVE  DumpList("dump", t, FillAndPrint(t))
<1>1. CASE conf.ip = "s80" /\ t = "cmpt"
  <2>. DEFINE s == <<<<"queue", "reject">>>>
  <2>1. FillAndPrint(t) = s
    BY <1>1 DEF FillAndPrint
  <2>2. s \in Seq(Items) /\ Len(s) = 1
    BY DEF Items, Contexts, ItemOps
  <2>3. ItemsFit("dump", t, s) /\ PrintOrder(s)
    BY <2>2 DEF ItemsFit, IsWriter, PrintOrder
  <2>4. \A i \in 1 .. Len(s) : s[i][2] \in {"read", "fill", "print", "reject"}
    BY <2>2
  <2>5. s[1][2] # "print" /\ ~Is(s[1], "intr", "fill")
    BY DEF Is
  <2>. HIDE DEF s
  <2>. QED BY <2>1, <2>2, <2>3, <2>4, <2>5 DEF DumpList
<1>2. CASE ~(conf.ip = "s80" /\ t = "cmpt")
  <2>. DEFINE s == <<<<"queue", "fill">>, <<"queue", "print">>>>
  <2>1. FillAndPrint(t) = s
    BY <1>2 DEF FillAndPrint
  <2>2. s \in Seq(Items) /\ Len(s) = 2
    BY DEF Items, Contexts, ItemOps
  <2>3. ItemsFit("dump", t, s)
    BY <2>2 DEF ItemsFit, IsWriter
  <2>4. PrintOrder(s)
    BY <2>2 DEF PrintOrder, Is
  <2>5. \A i \in 1 .. Len(s) : s[i][2] \in {"read", "fill", "print", "reject"}
    BY <2>2
  <2>6. s[1][2] # "print" /\ ~Is(s[1], "intr", "fill")
    BY DEF Is
  <2>. HIDE DEF s
  <2>. QED BY <2>1, <2>2, <2>3, <2>4, <2>5, <2>6 DEF DumpList
<1>. QED BY <1>1, <1>2

\* The interrupt ring's part of a dump is in order.
LEMMA IntrDumpOK ==
  ASSUME conf \in Configs, NEW t \in QTypes
  PROVE  DumpList("dump", t,
           Seq01(conf.mode = "indirect",
                 <<<<"intr", "read">>, <<"intr", "fill">>, <<"intr", "print">>>>))
<1>1. CASE conf.mode = "indirect"
  <2>. DEFINE s == <<<<"intr", "read">>, <<"intr", "fill">>, <<"intr", "print">>>>
  <2>1. Seq01(conf.mode = "indirect", s) = s
    BY <1>1 DEF Seq01
  <2>2. s \in Seq(Items) /\ Len(s) = 3
    BY DEF Items, Contexts, ItemOps
  <2>3. ItemsFit("dump", t, s)
    BY <1>1, <2>2 DEF ItemsFit, IsWriter
  <2>4. PrintOrder(s)
    BY <2>2 DEF PrintOrder, Is
  <2>5. \A i \in 1 .. Len(s) : s[i][2] \in {"read", "fill", "print", "reject"}
    BY <2>2
  <2>6. s[1][2] # "print" /\ ~Is(s[1], "intr", "fill")
    BY DEF Is
  <2>7. DumpList("dump", t, s)
    <3>. HIDE DEF s
    <3>. QED BY <2>2, <2>3, <2>4, <2>5, <2>6 DEF DumpList
  <2>. QED BY <2>1, <2>7
<1>2. CASE conf.mode # "indirect"
  BY <1>2, DumpEmpty DEF Seq01
<1>. QED BY <1>1, <1>2

\* The steps of qdma_descq_context_dump() are in order.
LEMMA DumpOK ==
  ASSUME conf \in Configs, NEW t \in QTypes, t = "cmpt" => ~conf.st
  PROVE  ListOK("dump", t, qdma_descq_context_dump(t))
<1>. DEFINE r == Seq01(conf.ip = "s80" /\ t # "cmpt", <<<<"qid2vec", "read">>>>)
            a == IF conf.ip = "s80" THEN QueueReads(t, <<<<"qid2vec", "read">>>>)
                 ELSE QueueReads(t, <<>>)
            f == FillAndPrint(t)
            n == Seq01(conf.mode = "indirect",
                       <<<<"intr", "read">>, <<"intr", "fill">>, <<"intr", "print">>>>)
<1>1. qdma_descq_context_dump(t) = (a \o f) \o n
  <2>1. conf.ip \in {"eqdma", "soft", "s80"}
    BY ConfIs
  <2>. QED BY <2>1 DEF qdma_descq_context_dump, eqdma_read_dump_queue_context,
              qdma_soft_read_dump_queue_context, qdma_s80_hard_read_dump_queue_context
<1>2. DumpList("dump", t, a) /\ Len(a) > 0
  <2>1. DumpList("dump", t, r)
    BY DumpOne, DumpEmpty DEF Contexts, Targets, Seq01, QTypes, Dirs
  <2>2. DumpList("dump", t, QueueReads(t, r)) /\ Len(QueueReads(t, r)) > 0
    <3>. HIDE DEF r
    <3>. QED BY <2>1, QueueReadsOK
  <2>3. a = QueueReads(t, r)
    BY DEF QueueReads, Seq01
  <2>. HIDE DEF a, r
  <2>. QED BY <2>2, <2>3
<1>3. DumpList("dump", t, f) /\ DumpList("dump", t, n)
  BY FillAndPrintOK, IntrDumpOK
<1>. HIDE DEF a, f, n
<1>4. DumpList("dump", t, a \o f) /\ Len(a \o f) > 0
  <2>1. DumpList("dump", t, a \o f) /\ Len(a \o f) = Len(a) + Len(f)
    BY <1>2, <1>3, DumpConcat
  <2>2. Len(a) \in Nat /\ Len(f) \in Nat
    BY <1>2, <1>3 DEF DumpList
  <2>. QED BY <1>2, <2>1, <2>2
<1>5. DumpList("dump", t, (a \o f) \o n) /\ Len((a \o f) \o n) > 0
  <2>1. DumpList("dump", t, (a \o f) \o n) /\ Len((a \o f) \o n) = Len(a \o f) + Len(n)
    BY <1>3, <1>4, DumpConcat
  <2>2. Len(a \o f) \in Nat /\ Len(n) \in Nat
    BY <1>3, <1>4 DEF DumpList
  <2>. QED BY <1>4, <2>1, <2>2
<1>6. t \in Targets
  BY DEF Targets
<1>. QED BY <1>1, <1>5, <1>6, DumpListOK

\* The steps of qdma_descq_context_read() are in order.
LEMMA ReadOK ==
  ASSUME conf \in Configs, NEW t \in QTypes, t = "cmpt" => ~conf.st
  PROVE  ListOK("read", t, qdma_descq_context_read(t))
<1>1. DumpList("read", t, <<>>)
  BY DumpEmpty
<1>2. DumpList("read", t, QueueReads(t, <<>>)) /\ Len(QueueReads(t, <<>>)) > 0
  BY <1>1, QueueReadsOK
<1>3. t \in Targets
  BY DEF Targets
<1>. QED BY <1>2, <1>3, DumpListOK DEF qdma_descq_context_read

\* The steps of a call on the interrupt ring's context are in order.
LEMMA IntrOK ==
  ASSUME conf \in Configs, conf.mode = "indirect", NEW op \in {"program", "write", "read"}
  PROVE  ListOK(op, "intr", Script(op, "intr"))
<1>1. CASE op = "program"
  <2>. DEFINE s == <<<<"intr", "clear">>, <<"intr", "write">>>>
  <2>1. Script(op, "intr") = s
    BY <1>1 DEF Script, QTypes, qdma_intr_context_setup
  <2>2. s \in Seq(Items) /\ Len(s) = 2
    BY DEF Items, Contexts, ItemOps
  <2>3. ItemsFit(op, "intr", s)
    BY <1>1, <2>2 DEF ItemsFit, IsWriter
  <2>4. QueueOrder(op, s)
    BY <2>2 DEF QueueOrder, Is, Has
  <2>5. WritesLast(op, "intr", s)
    BY <2>2 DEF WritesLast, Is, Held
  <2>6. FetchOrder(s) /\ PrintOrder(s)
    BY <2>2 DEF FetchOrder, PrintOrder, Is
  <2>7. WholeOK(op, "intr", s)
    BY <2>2 DEF WholeOK, Is, HasCtx, Held, Dirs, QTypes
  <2>. HIDE DEF s
  <2>. QED BY <2>1, <2>2, <2>3, <2>4, <2>5, <2>6, <2>7 DEF ListOK, TodoOK
<1>2. CASE op = "write"
  <2>. DEFINE s == <<<<"intr", "write">>>>
  <2>1. Script(op, "intr") = s
    BY <1>2 DEF Script, QTypes, qdma_prog_intr_context
  <2>2. s \in Seq(Items) /\ Len(s) = 1
    BY DEF Items, Contexts, ItemOps
  <2>3. ItemsFit(op, "intr", s)
    BY <1>2, <2>2 DEF ItemsFit, IsWriter
  <2>4. QueueOrder(op, s)
    BY <2>2 DEF QueueOrder, Is, Has
  <2>5. WritesLast(op, "intr", s)
    BY <2>2 DEF WritesLast, Is, Held
  <2>6. FetchOrder(s) /\ PrintOrder(s)
    BY <2>2 DEF FetchOrder, PrintOrder, Is
  <2>7. WholeOK(op, "intr", s)
    BY <2>2 DEF WholeOK, Is, HasCtx, Held, Dirs, QTypes
  <2>. HIDE DEF s
  <2>. QED BY <2>1, <2>2, <2>3, <2>4, <2>5, <2>6, <2>7 DEF ListOK, TodoOK
<1>3. CASE op = "read"
  <2>1. Script(op, "intr") = <<<<"intr", "read">>>>
    BY <1>3 DEF Script, QTypes, qdma_intr_context_read
  <2>. DEFINE s == <<<<"intr", "read">>>>
  <2>2. DumpList(op, "intr", s) /\ Len(s) = 1
    BY <1>3, DumpOne DEF Contexts, Targets
  <2>. HIDE DEF s
  <2>3. ListOK(op, "intr", s)
    <3>1. "intr" \in Targets /\ op \in {"read", "dump"} /\ Len(s) > 0
      BY <1>3, <2>2 DEF Targets
    <3>. QED BY <3>1, <2>2, DumpListOK
  <2>. QED BY <2>1, <2>3 DEF s
<1>. QED BY <1>1, <1>2, <1>3

\* The steps of a call on the function map are in order.
LEMMA FmapOK ==
  ASSUME conf \in Configs, NEW op \in {"write", "read", "clear"}
  PROVE  ListOK(op, "fmap", Script(op, "fmap"))
<1>1. Script(op, "fmap") = <<<<"fmap", op>>>>
  BY DEF Script, QTypes
<1>2. CASE op \in {"write", "clear"}
  <2>. DEFINE s == <<<<"fmap", op>>>>
  <2>1. Script(op, "fmap") = s
    BY <1>1
  <2>2. s \in Seq(Items) /\ Len(s) = 1
    BY <1>2 DEF Items, Contexts, ItemOps
  <2>3. ItemsFit(op, "fmap", s)
    BY <1>2, <2>2 DEF ItemsFit, IsWriter
  <2>4. QueueOrder(op, s)
    BY <2>2 DEF QueueOrder, Is, Has
  <2>5. WritesLast(op, "fmap", s)
    BY <1>2, <2>2 DEF WritesLast, Is, Held
  <2>6. FetchOrder(s) /\ PrintOrder(s)
    BY <2>2 DEF FetchOrder, PrintOrder, Is
  <2>7. WholeOK(op, "fmap", s)
    BY <1>2, <2>2 DEF WholeOK, Is, HasCtx, Held, Dirs, QTypes
  <2>. HIDE DEF s
  <2>. QED BY <2>1, <2>2, <2>3, <2>4, <2>5, <2>6, <2>7 DEF ListOK, TodoOK
<1>3. CASE op = "read"
  <2>. DEFINE s == <<<<"fmap", "read">>>>
  <2>1. DumpList(op, "fmap", s) /\ Len(s) = 1
    BY <1>3, DumpOne DEF Contexts, Targets
  <2>. HIDE DEF s
  <2>2. ListOK(op, "fmap", s)
    <3>1. "fmap" \in Targets /\ op \in {"read", "dump"} /\ Len(s) > 0
      BY <1>3, <2>1 DEF Targets
    <3>. QED BY <3>1, <2>1, DumpListOK
  <2>. QED BY <1>1, <1>3, <2>2 DEF s
<1>. QED BY <1>2, <1>3

\* A call makes its accesses in order.
LEMMA ScriptOK ==
  ASSUME conf \in Configs, NEW t \in Targets, NEW op \in Ops(t)
  PROVE  ListOK(op, t, Script(op, t))
<1>1. CASE t \in Dirs
  <2>1. t \in QTypes /\ t # "cmpt" /\ op \in {"program", "clear", "invalidate", "read", "dump"}
    BY <1>1 DEF Ops, QTypes, Dirs
  <2>2. CASE op = "program"
    <3>1. Script(op, t) = qdma_descq_context_program(t)
      BY <1>1, <2>1, <2>2 DEF Script, QTypes, Dirs
    <3>. QED BY <1>1, <2>2, <3>1, ProgramOK
  <2>3. CASE op \in {"clear", "invalidate"}
    <3>1. Script(op, t) = qdma_descq_context_clear(t, op)
      BY <2>1, <2>3 DEF Script, QTypes, Dirs
    <3>. QED BY <1>1, <2>3, <3>1, ClearOK
  <2>4. CASE op = "read"
    <3>1. Script(op, t) = qdma_descq_context_read(t)
      BY <2>1, <2>4 DEF Script, QTypes, Dirs
    <3>. QED BY <2>1, <2>4, <3>1, ReadOK
  <2>5. CASE op = "dump"
    <3>1. Script(op, t) = qdma_descq_context_dump(t)
      BY <2>1, <2>5 DEF Script, QTypes, Dirs
    <3>. QED BY <2>1, <2>5, <3>1, DumpOK
  <2>. QED BY <2>1, <2>2, <2>3, <2>4, <2>5
<1>2. CASE t = "cmpt"
  <2>1. t \in QTypes /\ ~conf.st /\ op \in {"program", "clear", "invalidate", "read", "dump"}
    BY <1>2, ConfIs DEF Ops, QTypes
  <2>2. CASE op \in {"program", "clear", "invalidate"}
    BY <1>2, <2>1, <2>2, CmptOK
  <2>3. CASE op = "read"
    <3>1. Script(op, t) = qdma_descq_context_read(t)
      BY <2>1, <2>3 DEF Script, QTypes, Dirs
    <3>. QED BY <2>1, <2>3, <3>1, ReadOK
  <2>4. CASE op = "dump"
    <3>1. Script(op, t) = qdma_descq_context_dump(t)
      BY <2>1, <2>4 DEF Script, QTypes, Dirs
    <3>. QED BY <2>1, <2>4, <3>1, DumpOK
  <2>. QED BY <2>1, <2>2, <2>3, <2>4
<1>3. CASE t = "intr"
  <2>1. conf.mode = "indirect" /\ op \in {"program", "write", "read"}
    BY <1>3 DEF Ops, QTypes
  <2>. QED BY <1>3, <2>1, IntrOK
<1>4. CASE t = "fmap"
  <2>1. op \in {"write", "read", "clear"}
    BY <1>4 DEF Ops, QTypes
  <2>. QED BY <1>4, <2>1, FmapOK
<1>. QED BY <1>1, <1>2, <1>3, <1>4 DEF Targets, QTypes, Dirs

-----------------------------------------------------------------------------
(***************************************************************************)
(* What is left after an access.                                           *)
(***************************************************************************)
LEMMA TailIs ==
  ASSUME NEW s \in Seq(Items), s # <<>>
  PROVE  /\ Tail(s) \in Seq(Items) /\ Len(s) \in Nat /\ Len(s) > 0
         /\ Len(Tail(s)) = Len(s) - 1 /\ 1 \in 1 .. Len(s)
         /\ \A i \in 1 .. Len(Tail(s)) : i + 1 \in 2 .. Len(s) /\ Tail(s)[i] = s[i + 1]
         /\ s[1] \in Items
  OBVIOUS

\* What a list contains is its head or in its tail.
LEMMA TailHas ==
  ASSUME NEW s \in Seq(Items), s # <<>>
  PROVE  /\ \A c, o : Has(s, c, o) <=> Is(s[1], c, o) \/ Has(Tail(s), c, o)
         /\ \A c : HasCtx(s, c) <=> s[1][1] = c \/ HasCtx(Tail(s), c)
<1>1. /\ Len(s) \in Nat /\ Len(s) > 0 /\ 1 \in 1 .. Len(s) /\ Len(Tail(s)) = Len(s) - 1
      /\ \A i \in 1 .. Len(Tail(s)) : i + 1 \in 1 .. Len(s) /\ Tail(s)[i] = s[i + 1]
  BY TailIs
<1>2. \A i \in 1 .. Len(s) : i = 1 \/ (i - 1 \in 1 .. Len(Tail(s)) /\ Tail(s)[i - 1] = s[i])
  BY <1>1
<1>3. ASSUME NEW c, NEW o PROVE Has(s, c, o) <=> Is(s[1], c, o) \/ Has(Tail(s), c, o)
  <2>1. ASSUME Has(s, c, o), ~Is(s[1], c, o) PROVE Has(Tail(s), c, o)
    BY <1>2, <2>1 DEF Has
  <2>2. ASSUME Has(Tail(s), c, o) PROVE Has(s, c, o)
    BY <1>1, <2>2 DEF Has
  <2>3. ASSUME Is(s[1], c, o) PROVE Has(s, c, o)
    BY <1>1, <2>3 DEF Has
  <2>. QED BY <2>1, <2>2, <2>3
<1>4. ASSUME NEW c PROVE HasCtx(s, c) <=> s[1][1] = c \/ HasCtx(Tail(s), c)
  <2>1. ASSUME HasCtx(s, c), s[1][1] # c PROVE HasCtx(Tail(s), c)
    BY <1>2, <2>1 DEF HasCtx
  <2>2. ASSUME HasCtx(Tail(s), c) PROVE HasCtx(s, c)
    BY <1>1, <2>2 DEF HasCtx
  <2>3. ASSUME s[1][1] = c PROVE HasCtx(s, c)
    BY <1>1, <2>3 DEF HasCtx
  <2>. QED BY <2>1, <2>2, <2>3
<1>. QED BY <1>3, <1>4

\* What is left of a list in order is in order.
LEMMA TodoTail ==
  ASSUME NEW op, NEW t, NEW s \in Seq(Items), s # <<>>, TodoOK(op, t, s)
  PROVE  TodoOK(op, t, Tail(s))
<1>. DEFINE u == Tail(s)
<1>1. /\ Len(s) \in Nat /\ Len(s) > 0 /\ Len(u) = Len(s) - 1
      /\ \A i \in 1 .. Len(u) : i + 1 \in 2 .. Len(s) /\ u[i] = s[i + 1]
  BY TailIs
<1>. HIDE DEF u
<1>2. ItemsFit(op, t, u)
  <2>1. \A i \in 1 .. Len(u) : \E j \in 1 .. Len(s) : u[i] = s[j]
    BY <1>1
  <2>. QED BY <2>1 DEF ItemsFit, TodoOK
<1>3. WritesLast(op, t, u)
  <2>1. SUFFICES ASSUME op \in {"program", "write"}, NEW i \in 1 .. Len(u),
                        u[i][1] \in Held(t), u[i][2] # "write"
                 PROVE  \E j \in 1 .. Len(u) : i < j /\ Is(u[j], u[i][1], "write")
    BY DEF WritesLast
  <2>2. PICK j \in 1 .. Len(s) : i + 1 < j /\ Is(s[j], s[i + 1][1], "write")
    BY <1>1, <2>1 DEF TodoOK, WritesLast
  <2>3. j - 1 \in 1 .. Len(u) /\ i < j - 1 /\ u[j - 1] = s[j]
    BY <1>1, <2>2
  <2>. QED BY <1>1, <2>2, <2>3
<1>4. FetchOrder(u)
  <2>1. ASSUME NEW i \in 2 .. Len(u), Is(u[i], "qid2vec", "write")
        PROVE  Is(u[i - 1], "qid2vec", "fetch")
    <3>1. i \in 1 .. Len(u) /\ i - 1 \in 1 .. Len(u) /\ (i - 1) + 1 = i /\ (i + 1) - 1 = i
      BY <1>1
    <3>2. u[i] = s[i + 1] /\ u[i - 1] = s[i] /\ i + 1 \in 2 .. Len(s)
      BY <1>1, <3>1
    <3>. QED BY <2>1, <3>1, <3>2 DEF TodoOK, FetchOrder
  <2>2. ASSUME NEW i \in 1 .. Len(u), Is(u[i], "qid2vec", "fetch")
        PROVE  i < Len(u) /\ Is(u[i + 1], "qid2vec", "write")
    <3>1. u[i] = s[i + 1] /\ i + 1 \in 1 .. Len(s)
      BY <1>1
    <3>2. i + 1 < Len(s) /\ Is(s[(i + 1) + 1], "qid2vec", "write")
      BY <2>2, <3>1 DEF TodoOK, FetchOrder
    <3>3. i + 1 \in 1 .. Len(u) /\ i < Len(u)
      BY <1>1, <3>2
    <3>. QED BY <1>1, <3>2, <3>3
  <2>. QED BY <2>1, <2>2 DEF FetchOrder
<1>5. PrintOrder(u)
  <2>1. SUFFICES ASSUME NEW i \in 2 .. Len(u)
                 PROVE  /\ u[i][2] = "print" => Is(u[i - 1], u[i][1], "fill")
                        /\ Is(u[i], "intr", "fill") => Is(u[i - 1], "intr", "read")
    BY DEF PrintOrder
  <2>2. i \in 1 .. Len(u) /\ i - 1 \in 1 .. Len(u) /\ (i - 1) + 1 = i /\ (i + 1) - 1 = i
    BY <1>1
  <2>3. u[i] = s[i + 1] /\ u[i - 1] = s[i] /\ i + 1 \in 2 .. Len(s)
    BY <1>1, <2>2
  <2>. QED BY <2>1, <2>2, <2>3 DEF TodoOK, PrintOrder
<1>6. QueueOrder(op, u)
  <2>1. \A i \in 1 .. Len(u) : u[i][2] = "write" => u[i][1] \notin {"hw", "credit"}
    BY <1>1 DEF TodoOK, QueueOrder
  <2>2. \A i \in 1 .. Len(u) : ~Is(u[i], "sw", "clear")
    BY <1>1 DEF TodoOK, QueueOrder
  <2>3. ASSUME NEW i \in 1 .. Len(u), NEW j \in 1 .. Len(u), i < j, Is(u[i], "sw", "write")
        PROVE  u[j][2] # "clear" /\ ~Is(u[j], "sw", "write")
    <3>1. /\ i + 1 \in 1 .. Len(s) /\ j + 1 \in 1 .. Len(s) /\ i + 1 < j + 1
          /\ u[i] = s[i + 1] /\ u[j] = s[j + 1]
      BY <1>1, <2>3
    <3>. QED BY <2>3, <3>1 DEF TodoOK, QueueOrder
  <2>4. \A i \in 2 .. Len(u) : i \in 1 .. Len(u)
    BY <1>1
  <2>. QED BY <2>1, <2>2, <2>3, <2>4 DEF QueueOrder, Has
<1>. QED BY <1>2, <1>3, <1>4, <1>5, <1>6 DEF TodoOK, u

-----------------------------------------------------------------------------
(***************************************************************************)
(* Selectors and commands.                                                 *)
(***************************************************************************)
\* Context c belongs to target t.
Fits(c, t) ==
  /\ c \in Contexts \ {"queue"} /\ t \in Targets
  /\ c \in {"sw", "hw", "credit"} => t \in Dirs
  /\ c = "pfetch" => t = "c2h" /\ conf.st
  /\ c = "cmpt" => t \in {"c2h", "cmpt"} /\ (conf.st <=> t = "c2h")
  /\ c = "qid2vec" => t \in Dirs /\ conf.ip = "s80"
  /\ c = "intr" => t = "intr"
  /\ c = "fmap" => t = "fmap"

\* The selector of each context.
LEMMA SelIs ==
  ASSUME conf \in Configs, NEW t \in Targets
  PROVE  /\ Sel("sw", t) = IF t = "c2h" THEN "SW_C2H" ELSE "SW_H2C"
         /\ Sel("hw", t) = IF t = "c2h" THEN "HW_C2H" ELSE "HW_H2C"
         /\ Sel("credit", t) = IF t = "c2h" THEN "CR_C2H" ELSE "CR_H2C"
         /\ Sel("pfetch", t) = "PFTCH" /\ Sel("cmpt", t) = "CMPT" /\ Sel("intr", t) = "INT_COAL"
         /\ Sel("fmap", t) = IF conf.ip = "s80" THEN "TRQ_FMAP" ELSE "FMAP"
         /\ conf.ip = "s80" => Sel("qid2vec", t) = "FMAP"
<1>1. CASE conf.ip = "eqdma"
  BY <1>1 DEF Sel, qdma_hw_access_init, eqdma_sw_ctx_conf, eqdma_hw_ctx_conf,
              eqdma_credit_ctx_conf, eqdma_pfetch_ctx_conf, eqdma_cmpt_ctx_conf,
              eqdma_indirect_intr_ctx_conf, qdma_fmap_conf, PerDirection, Same
<1>2. CASE conf.ip = "soft"
  BY <1>2 DEF Sel, qdma_hw_access_init, qdma_sw_ctx_conf, qdma_hw_ctx_conf,
              qdma_credit_ctx_conf, qdma_pfetch_ctx_conf, qdma_cmpt_ctx_conf,
              qdma_indirect_intr_ctx_conf, qdma_fmap_conf, PerDirection, Same
<1>3. CASE conf.ip = "s80"
  BY <1>3 DEF Sel, qdma_hw_access_init, qdma_s80_hard_sw_ctx_conf, qdma_s80_hard_hw_ctx_conf,
              qdma_s80_hard_credit_ctx_conf, qdma_s80_hard_pfetch_ctx_conf,
              qdma_s80_hard_cmpt_ctx_conf, qdma_s80_hard_indirect_intr_ctx_conf,
              qdma_s80_hard_qid2vec_conf, qdma_s80_hard_fmap_conf, PerDirection, Same
<1>. QED BY <1>1, <1>2, <1>3, ConfIs

\* No two contexts share a selector, but for the halves of the vector map.
LEMMA SelApart ==
  ASSUME conf \in Configs, NEW c, NEW d, NEW t, NEW u, Fits(c, t), Fits(d, u)
  PROVE  /\ Sel(c, t) \in Selectors
         /\ Sel(c, t) = Sel(d, u) => c = d /\ (t = u \/ c = "qid2vec")
<1>1. \A a, x : Fits(a, x) => x \in Targets /\ a \in Contexts \ {"queue"}
  BY DEF Fits
<1>2. conf.st \in BOOLEAN
  BY ConfIs
<1>3. Sel(c, t) \in Selectors
  BY <1>1, SelIs DEF Selectors, Contexts, Fits
<1>4. ASSUME Sel(c, t) = Sel(d, u) PROVE c = d
  BY <1>1, <1>4, SelIs DEF Contexts, Fits
<1>5. ASSUME Sel(c, t) = Sel(c, u), Fits(c, u) PROVE t = u \/ c = "qid2vec"
  BY <1>1, <1>2, <1>5, SelIs DEF Contexts, Fits, Dirs
<1>. QED BY <1>3, <1>4, <1>5

\* The contexts of a target are ones its calls may name.
LEMMA HeldFits ==
  ASSUME conf \in Configs, NEW t \in Targets, Ops(t) # {}, NEW c \in Held(t)
  PROVE  Fits(c, t) /\ c \notin {"qid2vec", "hw", "credit"}
<1>1. conf.st \in BOOLEAN
  BY ConfIs
<1>2. CASE t \in QTypes
  BY <1>1, <1>2 DEF Held, Ops, Fits, Contexts, QTypes, Dirs, HasPfetch, HasCmpt
<1>3. CASE t \in {"intr", "fmap"}
  BY <1>3 DEF Held, Fits, Contexts, QTypes
<1>. QED BY <1>2, <1>3 DEF Targets

\* The opcode of each step.
LEMMA OpcodeIs ==
  ASSUME conf \in Configs
  PROVE  /\ Opcode("write") = "WR" /\ Opcode("read") = "RD" /\ Opcode("fetch") = "RD"
         /\ Opcode("clear") = "CLR" /\ Opcode("invalidate") = "INV"
<1>1. conf.ip \in {"eqdma", "soft", "s80"}
  BY ConfIs
<1>. QED BY <1>1 DEF Opcode, eqdma_indirect_reg, qdma_indirect_reg, qdma_s80_hard_indirect_reg

\* The calls on each target.
LEMMA OpsIn ==
  ASSUME NEW t \in Targets
  PROVE  /\ Ops(t) \subseteq CallOps
         /\ t \in Dirs => "write" \notin Ops(t)
  BY DEF Ops, CallOps, Targets, QTypes, Dirs

\* The device does not change.
LEMMA ConfSame ==
  ASSUME conf' = conf
  PROVE  /\ \A c, t : Sel(c, t)' = Sel(c, t)
         /\ \A o : Opcode(o)' = Opcode(o)
         /\ \A t : Ops(t)' = Ops(t) /\ Held(t)' = Held(t)
         /\ \A op, t : Reads(op, t)' = Reads(op, t)
         /\ \A op, t, s : TodoOK(op, t, s)' <=> TodoOK(op, t, s)
         /\ UsesQid2vec' <=> UsesQid2vec
         /\ \A c : GoodCall(c)' <=> GoodCall(c)
<1>1. \A c, t : Sel(c, t)' = Sel(c, t)
  BY DEF Sel
<1>2. \A o : Opcode(o)' = Opcode(o)
  BY DEF Opcode
<1>3. \A t : Ops(t)' = Ops(t)
  BY DEF Ops
<1>4. \A t : Held(t)' = Held(t)
  BY DEF Held, HasPfetch, HasCmpt
<1>5. \A op, t : Reads(op, t)' = Reads(op, t)
  BY DEF Reads
<1>6. UsesQid2vec' <=> UsesQid2vec
  BY DEF UsesQid2vec
<1>7. \A op, t, s : TodoOK(op, t, s)' <=> TodoOK(op, t, s)
  <2>1. \A op, t, s : ItemsFit(op, t, s)' <=> ItemsFit(op, t, s)
    BY <1>6 DEF ItemsFit
  <2>2. \A op, t, s : WritesLast(op, t, s)' <=> WritesLast(op, t, s)
    BY <1>4 DEF WritesLast
  <2>. QED BY <2>1, <2>2 DEF TodoOK
<1>8. \A c : GoodCall(c)' <=> GoodCall(c)
  BY <1>1, <1>3, <1>7 DEF GoodCall
<1>. QED BY <1>1, <1>2, <1>3, <1>4, <1>5, <1>6, <1>7, <1>8

-----------------------------------------------------------------------------
(***************************************************************************)
(* What was read.                                                          *)
(***************************************************************************)
LEMMA GotsAre ==
  ASSUME NEW f
  PROVE  f \in Gots <=> \E D \in SUBSET GotNames : f \in [D -> Pairs]
  BY DEF Gots

\* The values read are pairs under the names of contexts.
LEMMA GotIn ==
  ASSUME NEW f \in Gots
  PROVE  /\ DOMAIN f \subseteq GotNames /\ f \in [DOMAIN f -> Pairs]
         /\ \A x \in DOMAIN f : f[x] \in Pairs
  BY GotsAre

\* Functions from names to pairs are such values.
LEMMA GotsOf ==
  ASSUME NEW D \in SUBSET GotNames, NEW f \in [D -> Pairs]
  PROVE  f \in Gots
  BY GotsAre

\* So is the empty one.
LEMMA NoneGot == <<>> \in Gots /\ DOMAIN <<>> = {}
<1>1. DOMAIN <<>> = {} /\ <<>> \in [{} -> Pairs]
  OBVIOUS
<1>. QED BY <1>1, GotsOf

\* So is one with an entry set.
LEMMA SetIs ==
  ASSUME NEW f \in Gots, NEW x \in GotNames, NEW v \in Pairs
  PROVE  /\ Set(f, x, v) \in Gots /\ DOMAIN Set(f, x, v) = DOMAIN f \cup {x}
         /\ Set(f, x, v)[x] = v
         /\ \A y \in DOMAIN f \ {x} : Set(f, x, v)[y] = f[y]
<1>. DEFINE D == DOMAIN f \cup {x}
            g == [y \in D |-> IF y = x THEN v ELSE f[y]]
<1>1. Set(f, x, v) = g
  BY DEF Set
<1>2. D \in SUBSET GotNames /\ \A y \in DOMAIN f : f[y] \in Pairs
  BY GotIn
<1>3. g \in [D -> Pairs]
  BY <1>2
<1>4. g \in Gots
  <2>. HIDE DEF g, D
  <2>. QED BY <1>2, <1>3, GotsOf
<1>. QED BY <1>1, <1>4

-----------------------------------------------------------------------------
(***************************************************************************)
(* What each step does.                                                    *)
(***************************************************************************)
LEMMA FirstItem ==
  ASSUME conf \in Configs, NEW c \in Calls, GoodCall(c), c.pc # "idle", c.todo # <<>>
  PROVE  /\ c.todo[1] \in Items /\ c.todo[1][1] \in Contexts /\ c.todo[1][2] \in ItemOps
         /\ c.t \in Targets
         /\ IsWriter(c.op) =>
              /\ c.todo[1][2] \in {"clear", "invalidate", "write", "fetch"}
              /\ Fits(c.todo[1][1], c.t)
         /\ ~IsWriter(c.op) => c.todo[1][2] \in {"read", "fill", "print", "reject"}
         /\ c.todo[1][2] \in {"write", "fetch"} => c.op \in {"program", "write"}
         /\ c.todo[1][2] = "fetch" => c.todo[1][1] = "qid2vec"
         /\ c.todo[1][1] = "qid2vec" => c.t \in Dirs /\ conf.ip = "s80"
         /\ c.todo[1][1] = "qid2vec" /\ IsWriter(c.op) =>
              UsesQid2vec /\ c.op = "program" /\ c.todo[1][2] \in {"write", "fetch"}
         /\ c.todo[1][1] = "intr" => conf.mode = "indirect"
         /\ c.todo[1][2] = "read" =>
              /\ c.todo[1][1] # "queue"
              /\ Fits(c.todo[1][1], c.t) \/ (c.todo[1][1] = "intr" /\ "intr" \in Reads(c.op, c.t))
         /\ c.todo[1][2] \in {"read", "fetch", "write", "clear", "invalidate"} =>
              Sel(c.todo[1][1], c.t) \in Selectors
         /\ c.todo[1][2] \in {"fill", "print", "reject"} =>
              c.todo[1][1] \in {"queue", "intr"} /\ c.op = "dump"
<1>. DEFINE s == c.todo
            x == s[1]
<1>1. /\ s \in Seq(Items) /\ s # <<>> /\ c.t \in Targets /\ c.op \in Ops(c.t)
      /\ ItemsFit(c.op, c.t, s)
  BY DEF Calls, GoodCall, TodoOK
<1>2. 1 \in 1 .. Len(s) /\ x \in Items
  BY <1>1, TailIs
<1>3. x[1] \in Contexts /\ x[2] \in ItemOps
  BY <1>2 DEF Items
<1>4. /\ IsWriter(c.op) => x[2] \in {"clear", "invalidate", "write", "fetch"}
      /\ ~IsWriter(c.op) => x[2] \in {"read", "fill", "print", "reject"}
      /\ x[2] \in {"write", "fetch"} => c.op \in {"program", "write"}
      /\ x[1] \in {"sw", "hw", "credit"} => c.t \in Dirs
      /\ x[1] = "pfetch" => c.t = "c2h" /\ conf.st
      /\ x[1] = "cmpt" => c.t \in {"c2h", "cmpt"} /\ (conf.st <=> c.t = "c2h")
      /\ x[1] = "qid2vec" => c.t \in Dirs /\ conf.ip = "s80"
      /\ x[1] = "qid2vec" /\ IsWriter(c.op) =>
           UsesQid2vec /\ c.op = "program" /\ x[2] \in {"write", "fetch"}
      /\ x[1] = "intr" => conf.mode = "indirect" /\ (c.t = "intr" \/ c.op = "dump")
      /\ x[1] = "fmap" => c.t = "fmap"
      /\ x[2] = "fetch" => x[1] = "qid2vec"
      /\ x[1] = "queue" => x[2] \in {"fill", "print", "reject"}
      /\ x[2] \in {"fill", "print", "reject"} => x[1] \in {"queue", "intr"} /\ c.op = "dump"
  BY <1>1, <1>2 DEF ItemsFit
<1>. HIDE DEF x, s
<1>5. x[1] # "queue" /\ (x[1] = "intr" => c.t = "intr") => Fits(x[1], c.t)
  BY <1>1, <1>3, <1>4 DEF Fits
<1>6. IsWriter(c.op) => x[1] # "queue" /\ (x[1] = "intr" => c.t = "intr")
  BY <1>4 DEF IsWriter
<1>7. x[1] # "queue" => Sel(x[1], c.t) \in Selectors
  <2>1. CASE x[1] = "intr"
    BY <1>1, <2>1, SelIs DEF Selectors
  <2>2. CASE x[1] # "intr"
    BY <1>5, <2>2, SelApart
  <2>. QED BY <2>1, <2>2
<1>8. x[2] = "read" => \/ Fits(x[1], c.t)
                       \/ x[1] = "intr" /\ "intr" \in Reads(c.op, c.t)
  BY <1>4, <1>5 DEF Reads
<1>. QED BY <1>1, <1>2, <1>3, <1>4, <1>5, <1>6, <1>7, <1>8 DEF x, s

\* What a write writes is the tag of its call, but for the queue map.
LEMMA WriteValueIn ==
  ASSUME Types, CallInv, NEW th \in Threads, thr[th].pc # "idle", thr[th].todo # <<>>,
         Item(th)[2] = "write"
  PROVE  /\ WriteValue(th) \in Pairs
         /\ Item(th)[1] # "qid2vec" => WriteValue(th) = Halves(thr[th].tag, thr[th].tag)
         /\ Item(th)[1] = "qid2vec" =>
              /\ thr[th].t \in Dirs /\ thr[th].got["fetched"] \in Pairs
              /\ WriteValue(th)[thr[th].t] = thr[th].tag
              /\ \A d \in Dirs \ {thr[th].t} : WriteValue(th)[d] = thr[th].got["fetched"][d]
<1>. DEFINE c == thr[th]
<1>1. c \in Calls /\ GoodCall(c) /\ conf \in Configs
  BY DEF Types, CallInv
<1>2. c.tag \in Nat /\ c.got \in Gots /\ Item(th) = c.todo[1]
  BY <1>1 DEF Calls, Item
<1>3. CASE Item(th)[1] # "qid2vec"
  <2>1. WriteValue(th) = Halves(c.tag, c.tag)
    BY <1>3 DEF WriteValue
  <2>. QED BY <1>2, <1>3, <2>1 DEF Halves, Pairs
<1>4. CASE Item(th)[1] = "qid2vec"
  <2>1. c.t \in Dirs
    BY <1>1, <1>2, <1>4, FirstItem
  <2>2. "fetched" \in DOMAIN c.got
    BY <1>1, <1>2, <1>4 DEF GoodCall, Is
  <2>3. c.got["fetched"] \in Pairs
    BY <1>2, <2>2, GotIn
  <2>4. WriteValue(th) = [c.got["fetched"] EXCEPT ![c.t] = c.tag]
    BY <1>4 DEF WriteValue
  <2>. DEFINE g == c.got["fetched"]
              t == c.t
              n == c.tag
              w == [g EXCEPT ![t] = n]
  <2>5. g \in Pairs /\ t \in Dirs /\ n \in Nat
    BY <1>2, <2>1, <2>3
  <2>6. w \in Pairs /\ w[t] = n /\ \A d \in Dirs \ {t} : w[d] = g[d]
    <3>. HIDE DEF g, t, n
    <3>1. CASE t = "c2h"
      BY <2>5, <3>1 DEF Pairs, Dirs
    <3>2. CASE t = "h2c"
      BY <2>5, <3>2 DEF Pairs, Dirs
    <3>. QED BY <2>5, <3>1, <3>2 DEF Dirs
  <2>. QED BY <1>4, <2>4, <2>5, <2>6
<1>. QED BY <1>3, <1>4

\* The calls of the other threads are left alone, except that they may be
\* told of a change, ...
Alike(c, d) ==
  /\ c.pc = d.pc /\ c.op = d.op /\ c.t = d.t /\ c.tag = d.tag
  /\ c.todo = d.todo /\ c.got = d.got /\ c.err = d.err
Others(th) ==
  \A u \in Threads \ {th} : Alike(thr'[u], thr[u]) /\ (thr'[u].clean => thr[u].clean)

\* ... and of its own call a thread keeps which it is.
Going(th) ==
  /\ Others(th)
  /\ thr'[th].op = thr[th].op /\ thr'[th].t = thr[th].t /\ thr'[th].tag = thr[th].tag
  /\ thr'[th].clean => thr[th].clean

\* A step that moves a thread only to another label.
LEMMA NewPc ==
  ASSUME thr \in [Threads -> Calls], NEW th \in Threads, NEW p \in {"command", "poll"},
         thr' = [thr EXCEPT ![th].pc = p]
  PROVE  /\ thr' \in [Threads -> Calls] /\ Going(th) /\ thr'[th].pc = p
         /\ thr'[th].todo = thr[th].todo /\ thr'[th].got = thr[th].got
         /\ thr'[th].err = thr[th].err
<1>1. thr[th] \in Calls
  OBVIOUS
<1>. QED BY <1>1 DEF Calls, Going, Others, Alike

\* What Load does to the state.
LEMMA LoadIs ==
  ASSUME Types, CallInv, NEW th \in Threads, Load(th)
  PROVE  /\ Types'
         /\ conf' = conf /\ store' = store /\ last' = last /\ entries' = entries
         /\ Going(th) /\ lock = None /\ lock' = th
         /\ thr[th].pc = "next" /\ thr[th].todo # <<>>
         /\ Item(th)[2] \in {"read", "fetch", "write", "clear", "invalidate"}
         /\ Sel(Item(th)[1], thr[th].t) # "TRQ_FMAP"
         /\ thr'[th].todo = thr[th].todo /\ thr'[th].got = thr[th].got
         /\ thr'[th].err = thr[th].err
         /\ \/ thr'[th].pc = "command" /\ cmd.busy /\ cmd' = cmd
            \/ thr'[th].pc = "poll" /\ ~cmd.busy /\ cmd' = Commanded(th)
         /\ Item(th)[2] = "write" =>
              /\ data' = WriteValue(th) /\ clobbered' = (clobbered \/ cmd.busy)
              /\ lost' = lost \cup Overwritten(th)
         /\ Item(th)[2] # "write" =>
              data' = data /\ clobbered' = clobbered /\ lost' = lost
<1>1. /\ thr \in [Threads -> Calls] /\ thr[th] \in Calls /\ GoodCall(thr[th])
      /\ conf \in Configs /\ data \in Pairs /\ lost \subseteq Dirs /\ clobbered \in BOOLEAN
      /\ cmd \in [sel : Selectors \cup {None}, op : {"WR", "RD", "CLR", "INV", None},
                  busy : BOOLEAN]
      /\ cmd.busy => cmd.sel \in Selectors
  BY DEF Types, CallInv
<1>2. /\ thr[th].pc = "next" /\ thr[th].todo # <<>>
      /\ Item(th)[2] \in {"read", "fetch", "write", "clear", "invalidate"}
      /\ Sel(Item(th)[1], thr[th].t) # "TRQ_FMAP"
      /\ conf' = conf /\ store' = store /\ last' = last /\ entries' = entries /\ calls' = calls
      /\ lock = None /\ lock' = th
  BY DEF Load, IsIndirect
<1>3. \/ thr' = [thr EXCEPT ![th].pc = "command"] /\ cmd.busy /\ cmd' = cmd
      \/ thr' = [thr EXCEPT ![th].pc = "poll"] /\ ~cmd.busy /\ cmd' = Commanded(th)
  BY DEF Load
<1>4. /\ thr' \in [Threads -> Calls] /\ Going(th)
      /\ thr'[th].todo = thr[th].todo /\ thr'[th].got = thr[th].got
      /\ thr'[th].err = thr[th].err
      /\ \/ thr'[th].pc = "command" /\ cmd.busy /\ cmd' = cmd
         \/ thr'[th].pc = "poll" /\ ~cmd.busy /\ cmd' = Commanded(th)
  <2>1. CASE thr' = [thr EXCEPT ![th].pc = "command"] /\ cmd.busy /\ cmd' = cmd
    BY <1>1, <2>1, NewPc
  <2>2. CASE thr' = [thr EXCEPT ![th].pc = "poll"] /\ ~cmd.busy /\ cmd' = Commanded(th)
    BY <1>1, <2>2, NewPc
  <2>. QED BY <1>3, <2>1, <2>2
<1>5. Item(th)[2] = "write" =>
        /\ data' = WriteValue(th) /\ clobbered' = (clobbered \/ cmd.busy)
        /\ lost' = lost \cup Overwritten(th)
  BY DEF Load
<1>6. Item(th)[2] # "write" => data' = data /\ clobbered' = clobbered /\ lost' = lost
  BY DEF Load
<1>7. /\ cmd' \in [sel : Selectors \cup {None}, op : {"WR", "RD", "CLR", "INV", None},
                busy : BOOLEAN]
      /\ cmd'.busy => cmd'.sel \in Selectors
  <2>1. Sel(Item(th)[1], thr[th].t) \in Selectors
    BY <1>1, <1>2, FirstItem DEF Item
  <2>2. Opcode(Item(th)[2]) \in {"WR", "RD", "CLR", "INV", None}
    BY <1>1, <1>2, OpcodeIs
  <2>3. Commanded(th) \in [sel : Selectors \cup {None},
                           op : {"WR", "RD", "CLR", "INV", None}, busy : BOOLEAN]
    BY <2>1, <2>2 DEF Commanded
  <2>4. cmd' = cmd \/ cmd' = Commanded(th)
    BY <1>3
  <2>5. Commanded(th).sel \in Selectors
    BY <2>1 DEF Commanded
  <2>. QED BY <1>1, <2>3, <2>4, <2>5
<1>8. data' \in Pairs
  BY <1>1, <1>2, <1>5, <1>6, WriteValueIn
<1>9. lost' \subseteq Dirs
  <2>1. Overwritten(th) \subseteq Dirs
    BY DEF Overwritten, Dirs
  <2>. QED BY <1>1, <1>5, <1>6, <2>1
<1>10. clobbered' \in BOOLEAN
  BY <1>1, <1>5, <1>6
<1>11. Types'
  <2>1. thr' \in [Threads -> Calls]
    BY <1>4
  <2>. QED BY <1>2, <1>7, <1>8, <1>9, <1>10, <2>1 DEF Types
<1>. QED BY <1>2, <1>4, <1>5, <1>6, <1>11

\* What Command does to the state.
LEMMA CommandIs ==
  ASSUME Types, CallInv, NEW th \in Threads, Command(th)
  PROVE  /\ Types'
         /\ conf' = conf /\ store' = store /\ last' = last /\ entries' = entries
         /\ data' = data /\ lost' = lost /\ clobbered' = (clobbered \/ cmd.busy)
         /\ Going(th) /\ lock' = lock /\ cmd' = Commanded(th)
         /\ thr[th].pc = "command" /\ thr'[th].pc = "poll"
         /\ thr'[th].todo = thr[th].todo /\ thr'[th].got = thr[th].got
         /\ thr'[th].err = thr[th].err
<1>1. /\ thr \in [Threads -> Calls] /\ thr[th] \in Calls /\ GoodCall(thr[th])
      /\ conf \in Configs /\ clobbered \in BOOLEAN
      /\ cmd \in [sel : Selectors \cup {None}, op : {"WR", "RD", "CLR", "INV", None},
                  busy : BOOLEAN]
      /\ cmd.busy => cmd.sel \in Selectors
  BY DEF Types, CallInv
<1>2. /\ conf' = conf /\ store' = store /\ last' = last /\ entries' = entries /\ calls' = calls
      /\ data' = data /\ lost' = lost /\ clobbered' = (clobbered \/ cmd.busy)
      /\ lock' = lock /\ cmd' = Commanded(th) /\ thr[th].pc = "command"
      /\ thr' = [thr EXCEPT ![th].pc = "poll"]
  BY DEF Command
<1>3. /\ thr' \in [Threads -> Calls] /\ Going(th) /\ thr'[th].pc = "poll"
      /\ thr'[th].todo = thr[th].todo /\ thr'[th].got = thr[th].got
      /\ thr'[th].err = thr[th].err
  BY <1>1, <1>2, NewPc
<1>4. /\ cmd' \in [sel : Selectors \cup {None}, op : {"WR", "RD", "CLR", "INV", None},
                busy : BOOLEAN]
      /\ cmd'.busy => cmd'.sel \in Selectors
  <2>1. /\ thr[th].todo # <<>>
        /\ Item(th)[2] \in {"read", "fetch", "write", "clear", "invalidate"}
    BY <1>1, <1>2 DEF GoodCall, Item
  <2>2. Sel(Item(th)[1], thr[th].t) \in Selectors
    BY <1>1, <1>2, <2>1, FirstItem DEF Item
  <2>3. Opcode(Item(th)[2]) \in {"WR", "RD", "CLR", "INV", None}
    BY <1>1, <2>1, OpcodeIs
  <2>. QED BY <1>2, <2>2, <2>3 DEF Commanded
<1>5. clobbered' \in BOOLEAN
  BY <1>1, <1>2
<1>6. Types'
  BY <1>1, <1>2, <1>3, <1>4, <1>5 DEF Types
<1>. QED BY <1>2, <1>3, <1>6

\* A step that takes an item off a thread's list.
LEMMA NewTodo ==
  ASSUME thr \in [Threads -> Calls], NEW th \in Threads, NEW p \in {"next", "poll"},
         NEW s \in Seq(Items), NEW g \in Gots, NEW e \in Nat,
         thr' = [thr EXCEPT ![th].pc = p, ![th].todo = s, ![th].got = g, ![th].err = e]
  PROVE  /\ thr' \in [Threads -> Calls] /\ Going(th) /\ thr'[th].pc = p
         /\ thr'[th].todo = s /\ thr'[th].got = g /\ thr'[th].err = e
<1>1. thr[th] \in Calls
  OBVIOUS
<1>. QED BY <1>1 DEF Calls, Going, Others, Alike

\* What Done does to the state.
LEMMA DoneIs ==
  ASSUME Types, CallInv, NEW th \in Threads, Done(th)
  PROVE  /\ Types'
         /\ conf' = conf /\ store' = store /\ last' = last /\ entries' = entries
         /\ data' = data /\ cmd' = cmd /\ clobbered' = clobbered
         /\ lost' = IF Now(th, "qid2vec", "write") THEN lost \ {thr[th].t} ELSE lost
         /\ Going(th) /\ lock' = None
         /\ thr[th].pc = "poll" /\ ~cmd.busy /\ thr'[th].pc = "next"
         /\ thr[th].todo # <<>> /\ thr'[th].todo = Tail(thr[th].todo)
         /\ thr'[th].got = IF Item(th)[2] \in {"read", "fetch"}
                           THEN Set(thr[th].got, GotName(th), data) ELSE thr[th].got
         /\ GotName(th) \in GotNames
         /\ thr'[th].err = thr[th].err
<1>1. /\ thr \in [Threads -> Calls] /\ thr[th] \in Calls /\ GoodCall(thr[th])
      /\ conf \in Configs /\ data \in Pairs /\ lost \subseteq Dirs
  BY DEF Types, CallInv
<1>. DEFINE s == Tail(thr[th].todo)
            g == IF Item(th)[2] \in {"read", "fetch"}
                 THEN Set(thr[th].got, GotName(th), data) ELSE thr[th].got
<1>2. /\ conf' = conf /\ store' = store /\ last' = last /\ entries' = entries /\ calls' = calls
      /\ data' = data /\ cmd' = cmd /\ clobbered' = clobbered
      /\ lost' = IF Item(th) = <<"qid2vec", "write">> THEN lost \ {thr[th].t} ELSE lost
      /\ lock' = None /\ thr[th].pc = "poll" /\ ~cmd.busy
      /\ thr' = [thr EXCEPT ![th].pc = "next", ![th].todo = s, ![th].got = g]
  BY DEF Done, NextItem
<1>3. thr[th].todo # <<>> /\ thr[th].todo \in Seq(Items)
  BY <1>1, <1>2 DEF GoodCall, Calls
<1>4. Item(th) \in Items /\ Item(th)[1] \in Contexts /\ s \in Seq(Items)
  BY <1>1, <1>2, <1>3, FirstItem, TailIs DEF Item
<1>5. GotName(th) \in GotNames
  BY <1>4 DEF GotName, GotNames
<1>6. g \in Gots
  BY <1>1, <1>5, SetIs DEF Calls
<1>7. thr[th].err \in Nat
  BY <1>1 DEF Calls
<1>8. Item(th) = <<"qid2vec", "write">> <=> Now(th, "qid2vec", "write")
  BY <1>4 DEF Now, Is, Items
<1>. HIDE DEF s, g
<1>9. thr' = [thr EXCEPT ![th].pc = "next", ![th].todo = s, ![th].got = g,
                         ![th].err = thr[th].err]
  BY <1>1, <1>2 DEF Calls
<1>10. /\ thr' \in [Threads -> Calls] /\ Going(th) /\ thr'[th].pc = "next"
       /\ thr'[th].todo = s /\ thr'[th].got = g /\ thr'[th].err = thr[th].err
  BY <1>1, <1>4, <1>6, <1>7, <1>9, NewTodo
<1>11. lost' \subseteq Dirs
  BY <1>1, <1>2
<1>12. Types'
  BY <1>1, <1>2, <1>10, <1>11 DEF Types
<1>. QED BY <1>2, <1>3, <1>5, <1>8, <1>10, <1>12 DEF s, g

\* The code of a time-out is an error.
LEMMA TimeOutCode ==
  ASSUME NEW th PROVE Returned(th, BUSY_TIMEOUT) \in Nat \ {0}
<1>1. qdma_get_err_code(3) = 16 /\ qdma_get_err_code(16) = 22
  BY DEF qdma_get_err_code, EBUSY, EINVAL
<1>2. Returned(th, BUSY_TIMEOUT) \in {16, 22}
  BY <1>1 DEF Returned, BUSY_TIMEOUT
<1>. QED BY <1>2

\* What TimeOut does to the state.
LEMMA TimeOutIs ==
  ASSUME Types, CallInv, NEW th \in Threads, TimeOut(th)
  PROVE  /\ Types'
         /\ conf' = conf /\ store' = store /\ last' = last /\ entries' = entries
         /\ data' = data /\ cmd' = cmd /\ clobbered' = clobbered
         /\ Going(th) /\ lock' = None
         /\ thr[th].pc = "poll" /\ cmd.busy /\ thr'[th].pc = "next" /\ thr[th].todo # <<>>
         /\ thr'[th].got = thr[th].got
         /\ \/ /\ Item(th)[1] = "qid2vec" /\ Item(th)[2] \in {"fetch", "write"}
               /\ thr'[th].err = thr[th].err /\ lost' = lost \cup {thr[th].t}
               /\ thr[th].t \in Dirs
               /\ Item(th)[2] = "write" => thr'[th].todo = Tail(thr[th].todo)
               /\ Item(th)[2] = "fetch" =>
                    /\ Tail(thr[th].todo) # <<>> /\ Is(Tail(thr[th].todo)[1], "qid2vec", "write")
                    /\ thr'[th].todo = Tail(Tail(thr[th].todo))
            \/ /\ thr'[th].err # 0 /\ thr'[th].todo = <<>> /\ lost' = lost
               /\ ~(Item(th)[1] = "qid2vec" /\ Item(th)[2] \in {"fetch", "write"})
<1>1. /\ thr \in [Threads -> Calls] /\ thr[th] \in Calls /\ GoodCall(thr[th])
      /\ conf \in Configs /\ data \in Pairs /\ lost \subseteq Dirs
  BY DEF Types, CallInv
<1>2. /\ conf' = conf /\ store' = store /\ last' = last /\ entries' = entries /\ calls' = calls
      /\ data' = data /\ cmd' = cmd /\ clobbered' = clobbered
      /\ lock' = None /\ thr[th].pc = "poll" /\ cmd.busy
  BY DEF TimeOut
<1>3. /\ thr[th].todo # <<>> /\ thr[th].todo \in Seq(Items) /\ thr[th].got \in Gots
      /\ thr[th].err \in Nat
  BY <1>1, <1>2 DEF GoodCall, Calls
<1>4. CASE Item(th)[1] = "qid2vec" /\ Item(th)[2] \in {"fetch", "write"}
  <2>. DEFINE u == Tail(thr[th].todo)
              s == IF Item(th)[2] = "fetch" THEN Tail(u) ELSE u
  <2>1. /\ thr' = [thr EXCEPT ![th].pc = "next", ![th].todo = s]
        /\ lost' = lost \cup {thr[th].t}
    BY <1>4 DEF TimeOut, NextItem
  <2>2. thr[th].t \in Dirs
    BY <1>1, <1>2, <1>3, <1>4, FirstItem DEF Item
  <2>3. Item(th)[2] = "fetch" => u # <<>> /\ Is(u[1], "qid2vec", "write")
    <3>1. FetchOrder(thr[th].todo)
      BY <1>1, <1>2 DEF GoodCall, TodoOK
    <3>2. /\ 1 \in 1 .. Len(thr[th].todo) /\ Len(u) = Len(thr[th].todo) - 1 /\ u \in Seq(Items)
          /\ Len(thr[th].todo) \in Nat
          /\ \A i \in 1 .. Len(u) : u[i] = thr[th].todo[i + 1]
      BY <1>3, TailIs
    <3>3. Item(th)[2] = "fetch" =>
            1 < Len(thr[th].todo) /\ Is(thr[th].todo[1 + 1], "qid2vec", "write")
      BY <1>4, <3>1, <3>2 DEF FetchOrder, Is, Item
    <3>. HIDE DEF u
    <3>4. Len(u) > 0 => u # <<>> /\ u[1] = thr[th].todo[1 + 1]
      BY <3>2
    <3>. QED BY <3>2, <3>3, <3>4
  <2>4. u \in Seq(Items)
    BY <1>3, TailIs
  <2>5. s \in Seq(Items)
    <3>. HIDE DEF u
    <3>. QED BY <2>3, <2>4, TailIs
  <2>. HIDE DEF u, s
  <2>6. thr' = [thr EXCEPT ![th].pc = "next", ![th].todo = s, ![th].got = thr[th].got,
                           ![th].err = thr[th].err]
    BY <1>1, <2>1 DEF Calls
  <2>7. /\ thr' \in [Threads -> Calls] /\ Going(th) /\ thr'[th].pc = "next"
        /\ thr'[th].todo = s /\ thr'[th].got = thr[th].got /\ thr'[th].err = thr[th].err
    BY <1>1, <1>3, <2>5, <2>6, NewTodo
  <2>8. lost' \subseteq Dirs
    BY <1>1, <2>1, <2>2
  <2>9. Types'
    BY <1>1, <1>2, <2>7, <2>8 DEF Types
  <2>10. /\ Item(th)[2] = "write" => s = u
         /\ Item(th)[2] = "fetch" => s = Tail(u)
    BY DEF s
  <2>. QED BY <1>2, <1>3, <1>4, <2>1, <2>2, <2>3, <2>7, <2>9, <2>10 DEF u
<1>5. CASE ~(Item(th)[1] = "qid2vec" /\ Item(th)[2] \in {"fetch", "write"})
  <2>. DEFINE e == Returned(th, BUSY_TIMEOUT)
  <2>1. /\ thr' = [thr EXCEPT ![th].pc = "next", ![th].todo = <<>>, ![th].err = e]
        /\ lost' = lost
    BY <1>5 DEF TimeOut
  <2>2. e \in Nat /\ e # 0 /\ <<>> \in Seq(Items)
    BY TimeOutCode
  <2>. HIDE DEF e
  <2>3. thr' = [thr EXCEPT ![th].pc = "next", ![th].todo = <<>>, ![th].got = thr[th].got,
                           ![th].err = e]
    BY <1>1, <2>1 DEF Calls
  <2>4. /\ thr' \in [Threads -> Calls] /\ Going(th) /\ thr'[th].pc = "next"
        /\ thr'[th].todo = <<>> /\ thr'[th].got = thr[th].got /\ thr'[th].err = e
    BY <1>1, <1>3, <2>2, <2>3, NewTodo
  <2>5. Types'
    BY <1>1, <1>2, <2>1, <2>4 DEF Types
  <2>. QED BY <1>2, <1>3, <1>5, <2>1, <2>2, <2>4, <2>5
<1>. QED BY <1>4, <1>5

\* A cleared context and a written one are pairs.
LEMMA ClearedIn == Cleared \in Pairs /\ \A n \in Nat : Halves(n, n) \in Pairs
  BY DEF Cleared, Halves, Pairs

\* What DirectAccess does to the state.
LEMMA DirectIs ==
  ASSUME Types, CallInv, NEW th \in Threads, DirectAccess(th)
  PROVE  /\ Types'
         /\ conf' = conf /\ last' = last /\ entries' = entries
         /\ data' = data /\ cmd' = cmd /\ clobbered' = clobbered /\ lost' = lost
         /\ Going(th) /\ lock' = lock /\ conf.ip = "s80"
         /\ thr[th].pc = "next" /\ thr'[th].pc = "next" /\ thr[th].todo # <<>>
         /\ thr'[th].todo = Tail(thr[th].todo) /\ thr'[th].err = thr[th].err
         /\ Item(th)[1] = "fmap" /\ thr[th].t = "fmap"
         /\ Item(th)[2] = "read" =>
              /\ store' = store
              /\ thr'[th].got = Set(thr[th].got, "fmap", store["TRQ_FMAP"])
         /\ Item(th)[2] # "read" =>
              /\ IsWriter(thr[th].op) /\ thr'[th].got = thr[th].got
              /\ store' = [store EXCEPT !["TRQ_FMAP"] = Halves(thr[th].tag, thr[th].tag)]
<1>1. /\ thr \in [Threads -> Calls] /\ thr[th] \in Calls /\ GoodCall(thr[th])
      /\ conf \in Configs /\ store \in [Selectors -> Pairs]
  BY DEF Types, CallInv
<1>2. /\ conf' = conf /\ last' = last /\ entries' = entries /\ calls' = calls
      /\ data' = data /\ cmd' = cmd /\ clobbered' = clobbered /\ lost' = lost
      /\ lock' = lock /\ thr[th].pc = "next" /\ thr[th].todo # <<>>
      /\ Item(th)[1] = "fmap" /\ Sel("fmap", "fmap") = "TRQ_FMAP"
  BY DEF DirectAccess
<1>3. /\ thr[th].todo \in Seq(Items) /\ thr[th].got \in Gots /\ thr[th].err \in Nat
      /\ thr[th].tag \in Nat
  BY <1>1 DEF Calls
<1>4. Item(th) = thr[th].todo[1]
  BY DEF Item
<1>5. conf.ip = "s80"
  BY <1>1, <1>2, SelIs DEF Targets
<1>6. thr[th].t = "fmap"
  <2>1. ItemsFit(thr[th].op, thr[th].t, thr[th].todo) /\ 1 \in 1 .. Len(thr[th].todo)
    BY <1>1, <1>2, <1>3, TailIs DEF GoodCall, TodoOK
  <2>. QED BY <1>2, <1>4, <2>1 DEF ItemsFit
<1>. DEFINE v == IF Item(th)[2] = "write" THEN thr[th].tag ELSE 0
            s == Tail(thr[th].todo)
            g == IF Item(th)[2] = "read" THEN Set(thr[th].got, "fmap", store["TRQ_FMAP"])
                 ELSE thr[th].got
<1>7. /\ store' = IF Item(th)[2] = "read" THEN store
                  ELSE [store EXCEPT !["TRQ_FMAP"] = Halves(v, v)]
      /\ thr' = [thr EXCEPT ![th].todo = s, ![th].got = g]
  BY DEF DirectAccess, NextItem
<1>8. Item(th)[2] # "read" => IsWriter(thr[th].op) /\ v = thr[th].tag
  <2>1. /\ ~IsWriter(thr[th].op) => Item(th)[2] \in {"read", "fill", "print", "reject"}
        /\ Item(th)[2] \in {"fill", "print", "reject"} => Item(th)[1] \in {"queue", "intr"}
        /\ IsWriter(thr[th].op) => Item(th)[2] \in {"clear", "invalidate", "write", "fetch"}
    BY <1>1, <1>2, <1>4, FirstItem
  <2>2. Item(th)[2] # "read" => IsWriter(thr[th].op)
    BY <1>2, <2>1
  <2>3. Item(th)[2] \notin {"read", "write"} => thr[th].tag = 0
    <3>1. thr[th].op \in Ops("fmap")
      BY <1>1, <1>2, <1>6 DEF GoodCall
    <3>2. thr[th].op \in {"write", "read", "clear"}
      BY <3>1 DEF Ops, QTypes
    <3>3. Item(th)[2] = thr[th].op
      <4>1. ItemsFit(thr[th].op, thr[th].t, thr[th].todo) /\ 1 \in 1 .. Len(thr[th].todo)
        BY <1>1, <1>2, <1>3, TailIs DEF GoodCall, TodoOK
      <4>. QED BY <1>2, <1>4, <4>1 DEF ItemsFit
    <3>. QED BY <1>1, <1>2, <3>2, <3>3 DEF GoodCall
  <2>. QED BY <2>2, <2>3
<1>9. g \in Gots /\ s \in Seq(Items)
  <2>1. "fmap" \in GotNames /\ store["TRQ_FMAP"] \in Pairs
    BY <1>1 DEF GotNames, Contexts, Selectors
  <2>. QED BY <1>2, <1>3, <2>1, SetIs, TailIs
<1>. HIDE DEF v, s, g
<1>10. thr' = [thr EXCEPT ![th].pc = "next", ![th].todo = s, ![th].got = g,
                          ![th].err = thr[th].err]
  BY <1>1, <1>2, <1>7 DEF Calls
<1>11. /\ thr' \in [Threads -> Calls] /\ Going(th) /\ thr'[th].pc = "next"
       /\ thr'[th].todo = s /\ thr'[th].got = g /\ thr'[th].err = thr[th].err
  BY <1>1, <1>3, <1>9, <1>10, NewTodo
<1>12. /\ Item(th)[2] = "read" =>
            store' = store /\ g = Set(thr[th].got, "fmap", store["TRQ_FMAP"])
       /\ Item(th)[2] # "read" =>
            /\ g = thr[th].got
            /\ store' = [store EXCEPT !["TRQ_FMAP"] = Halves(thr[th].tag, thr[th].tag)]
  BY <1>7, <1>8 DEF g
<1>13. store' \in [Selectors -> Pairs]
  BY <1>1, <1>3, <1>12, ClearedIn
<1>14. Types'
  BY <1>1, <1>2, <1>11, <1>13 DEF Types
<1>. QED BY <1>2, <1>5, <1>6, <1>8, <1>11, <1>12, <1>14 DEF s

\* Only queues and the interrupt ring are shown.
LEMMA ShownIn ==
  ASSUME Types, CallInv, NEW th \in Threads, thr[th].pc # "idle", thr[th].todo # <<>>,
         Item(th)[2] = "fill" \/ Item(th)[2] = "print"
  PROVE  /\ Item(th)[1] \in {"queue", "intr"}
         /\ Item(th)[2] = "fill" => Shown(th) \subseteq DOMAIN thr[th].got
         /\ Item(th)[2] = "print" => Shown(th) \subseteq DOMAIN entries
<1>1. thr[th] \in Calls /\ GoodCall(thr[th]) /\ conf \in Configs /\ Item(th) = thr[th].todo[1]
  BY DEF Types, CallInv, Item
<1>2. Item(th)[1] \in {"queue", "intr"}
  BY <1>1, FirstItem
<1>3. Item(th)[2] = "print" => Shown(th) \subseteq DOMAIN entries
  BY DEF CallInv
<1>4. Item(th)[2] = "fill" => Shown(th) \subseteq DOMAIN thr[th].got
  <2>1. CASE Item(th)[1] = "intr"
    BY <1>1, <2>1 DEF GoodCall, Is, Shown
  <2>2. CASE Item(th)[1] # "intr"
    BY <2>2 DEF Shown
  <2>. QED BY <2>1, <2>2
<1>. QED BY <1>2, <1>3, <1>4

\* What Fill does to the state.
LEMMA FillIs ==
  ASSUME Types, CallInv, NEW th \in Threads, Fill(th)
  PROVE  /\ Types'
         /\ conf' = conf /\ store' = store /\ last' = last
         /\ data' = data /\ cmd' = cmd /\ clobbered' = clobbered /\ lost' = lost
         /\ Going(th) /\ lock' = lock
         /\ thr[th].pc = "next" /\ thr'[th].pc = "next" /\ thr[th].todo # <<>>
         /\ thr'[th].todo = Tail(thr[th].todo) /\ thr'[th].err = thr[th].err
         /\ thr'[th].got = thr[th].got /\ Item(th)[2] = "fill"
         /\ entries' = [c \in DOMAIN entries \cup Shown(th) |->
                          IF c \in Shown(th) THEN thr[th].got[c] ELSE entries[c]]
         /\ \A u \in Threads \ {th} :
              thr'[u].clean /\ thr[u].todo # <<>> => ~Now(u, Item(th)[1], "print")
<1>1. /\ thr \in [Threads -> Calls] /\ thr[th] \in Calls /\ GoodCall(thr[th])
      /\ conf \in Configs
  BY DEF Types, CallInv
<1>2. /\ conf' = conf /\ store' = store /\ last' = last /\ calls' = calls
      /\ data' = data /\ cmd' = cmd /\ clobbered' = clobbered /\ lost' = lost
      /\ lock' = lock /\ thr[th].pc = "next" /\ thr[th].todo # <<>> /\ Item(th)[2] = "fill"
      /\ entries' = [c \in DOMAIN entries \cup Shown(th) |->
                       IF c \in Shown(th) THEN thr[th].got[c] ELSE entries[c]]
  BY DEF Fill
<1>. DEFINE s == Tail(thr[th].todo)
            K(u) == thr[u].clean /\ (thr[u].todo = <<>> \/ Item(u) # <<Item(th)[1], "print">>)
<1>3. thr' = [u \in Threads |-> IF u = th THEN [thr[u] EXCEPT !.todo = s]
                                ELSE [thr[u] EXCEPT !.clean = K(u)]]
  BY DEF Fill, NextItem
<1>4. s \in Seq(Items)
  BY <1>1, <1>2, TailIs DEF Calls
<1>5. \A u \in Threads : K(u) \in BOOLEAN /\ (K(u) => thr[u].clean)
  OBVIOUS
<1>6. ASSUME NEW u \in Threads, K(u), thr[u].todo # <<>>
      PROVE  ~Now(u, Item(th)[1], "print")
  <2>1. /\ thr[u] \in Calls /\ thr[u].todo \in Seq(Items)
    BY <1>1 DEF Calls
  <2>2. Item(u) \in Items
    BY <1>6, <2>1, TailIs DEF Item
  <2>. QED BY <1>6, <2>2 DEF Now, Is, Items
<1>. HIDE DEF s, K
<1>7. thr'[th] = [thr[th] EXCEPT !.todo = s]
  BY <1>3
<1>8. /\ thr'[th] \in Calls /\ thr'[th].pc = thr[th].pc
      /\ thr'[th].todo = s /\ thr'[th].got = thr[th].got /\ thr'[th].err = thr[th].err
      /\ thr'[th].op = thr[th].op /\ thr'[th].t = thr[th].t /\ thr'[th].tag = thr[th].tag
      /\ thr'[th].clean = thr[th].clean
  BY <1>1, <1>4, <1>7 DEF Calls
<1>9. ASSUME NEW u \in Threads \ {th}
      PROVE  /\ thr'[u] \in Calls /\ Alike(thr'[u], thr[u]) /\ (thr'[u].clean => K(u))
  <2>1. thr'[u] = [thr[u] EXCEPT !.clean = K(u)]
    BY <1>3
  <2>2. thr[u] \in Calls /\ K(u) \in BOOLEAN
    BY <1>1, <1>5
  <2>. QED BY <2>1, <2>2 DEF Calls, Alike
<1>10. thr' \in [Threads -> Calls]
  <2>1. thr' = [u \in Threads |-> thr'[u]]
    BY <1>3
  <2>2. \A u \in Threads : thr'[u] \in Calls
    BY <1>8, <1>9
  <2>. QED BY <2>1, <2>2
<1>11. Others(th)
  BY <1>5, <1>9 DEF Others
<1>12. Going(th)
  BY <1>8, <1>11 DEF Going
<1>13. \A u \in Threads \ {th} :
         thr'[u].clean /\ thr[u].todo # <<>> => ~Now(u, Item(th)[1], "print")
  BY <1>6, <1>9
<1>14. entries' \in Gots
  <2>. DEFINE D == DOMAIN entries \cup Shown(th)
              g == [c \in D |-> IF c \in Shown(th) THEN thr[th].got[c] ELSE entries[c]]
  <2>1. Shown(th) \subseteq DOMAIN thr[th].got
    BY <1>2, ShownIn
  <2>2. /\ DOMAIN thr[th].got \subseteq GotNames /\ DOMAIN entries \subseteq GotNames
        /\ \A x \in DOMAIN thr[th].got : thr[th].got[x] \in Pairs
        /\ \A x \in DOMAIN entries : entries[x] \in Pairs
    <3>1. thr[th].got \in Gots /\ entries \in Gots
      BY <1>1 DEF Calls, Types
    <3>. QED BY <3>1, GotIn
  <2>3. D \in SUBSET GotNames /\ g \in [D -> Pairs]
    BY <2>1, <2>2
  <2>4. entries' = g
    BY <1>2
  <2>. HIDE DEF g, D
  <2>. QED BY <2>3, <2>4, GotsOf
<1>15. Types'
  BY <1>1, <1>2, <1>10, <1>14 DEF Types
<1>. QED BY <1>2, <1>8, <1>12, <1>13, <1>15 DEF s

\* What PrintTables does to the state.
LEMMA PrintIs ==
  ASSUME Types, CallInv, NEW th \in Threads, PrintTables(th)
  PROVE  /\ Types'
         /\ conf' = conf /\ store' = store /\ last' = last /\ entries' = entries
         /\ data' = data /\ cmd' = cmd /\ clobbered' = clobbered /\ lost' = lost
         /\ Going(th) /\ lock' = lock
         /\ thr[th].pc = "next" /\ thr'[th].pc = "next" /\ thr[th].todo # <<>>
         /\ \/ /\ Item(th)[2] = "print" /\ thr'[th].todo = Tail(thr[th].todo)
               /\ thr'[th].err = thr[th].err
               /\ thr'[th].got = [c \in DOMAIN thr[th].got |->
                                    IF c \in Shown(th) THEN entries[c] ELSE thr[th].got[c]]
            \/ /\ Item(th)[2] = "reject" /\ thr'[th].todo = <<>>
               /\ thr'[th].err # 0 /\ thr'[th].got = thr[th].got
<1>1. /\ thr \in [Threads -> Calls] /\ thr[th] \in Calls /\ GoodCall(thr[th])
      /\ conf \in Configs
  BY DEF Types, CallInv
<1>2. /\ conf' = conf /\ store' = store /\ last' = last /\ entries' = entries /\ calls' = calls
      /\ data' = data /\ cmd' = cmd /\ clobbered' = clobbered /\ lost' = lost
      /\ lock' = lock /\ thr[th].pc = "next" /\ thr[th].todo # <<>>
  BY DEF PrintTables
<1>3. /\ thr[th].todo \in Seq(Items) /\ thr[th].got \in Gots /\ thr[th].err \in Nat
      /\ entries \in Gots
  BY <1>1 DEF Calls, Types
<1>. DEFINE s == Tail(thr[th].todo)
            g == [c \in DOMAIN thr[th].got |->
                    IF c \in Shown(th) THEN entries[c] ELSE thr[th].got[c]]
            e == qdma_get_err_code(INV_PARAM)
<1>4. \/ /\ Item(th)[2] = "print"
         /\ thr' = [thr EXCEPT ![th].todo = s, ![th].got = g]
      \/ /\ Item(th)[2] = "reject"
         /\ thr' = [thr EXCEPT ![th].todo = <<>>, ![th].err = e]
  BY DEF PrintTables, NextItem
<1>5. s \in Seq(Items) /\ e \in Nat /\ e # 0 /\ <<>> \in Seq(Items)
  BY <1>2, <1>3, TailIs DEF qdma_get_err_code, INV_PARAM, EINVAL
<1>6. Item(th)[2] = "print" => g \in Gots
  <2>1. Item(th)[2] = "print" => Shown(th) \subseteq DOMAIN entries
    BY <1>2, ShownIn
  <2>2. /\ DOMAIN thr[th].got \in SUBSET GotNames
        /\ \A x \in DOMAIN thr[th].got : thr[th].got[x] \in Pairs
        /\ \A x \in DOMAIN entries : entries[x] \in Pairs
    BY <1>3, GotIn
  <2>3. Item(th)[2] = "print" => g \in [DOMAIN thr[th].got -> Pairs]
    BY <2>1, <2>2
  <2>. HIDE DEF g
  <2>. QED BY <2>2, <2>3, GotsOf
<1>. HIDE DEF s, g, e
<1>7. CASE Item(th)[2] = "print" /\ thr' = [thr EXCEPT ![th].todo = s, ![th].got = g]
  <2>1. thr' = [thr EXCEPT ![th].pc = "next", ![th].todo = s, ![th].got = g,
                           ![th].err = thr[th].err]
    BY <1>1, <1>2, <1>7 DEF Calls
  <2>2. /\ thr' \in [Threads -> Calls] /\ Going(th) /\ thr'[th].pc = "next"
        /\ thr'[th].todo = s /\ thr'[th].got = g /\ thr'[th].err = thr[th].err
    <3>1. g \in Gots /\ s \in Seq(Items)
      BY <1>5, <1>6, <1>7
    <3>. QED BY <1>1, <1>3, <2>1, <3>1, NewTodo
  <2>3. Types'
    BY <1>2, <2>2 DEF Types
  <2>. QED BY <1>2, <1>7, <2>2, <2>3 DEF s, g
<1>8. CASE Item(th)[2] = "reject" /\ thr' = [thr EXCEPT ![th].todo = <<>>, ![th].err = e]
  <2>1. thr' = [thr EXCEPT ![th].pc = "next", ![th].todo = <<>>, ![th].got = thr[th].got,
                           ![th].err = e]
    BY <1>1, <1>2, <1>8 DEF Calls
  <2>2. /\ thr' \in [Threads -> Calls] /\ Going(th) /\ thr'[th].pc = "next"
        /\ thr'[th].todo = <<>> /\ thr'[th].got = thr[th].got /\ thr'[th].err = e
    BY <1>1, <1>3, <1>5, <2>1, NewTodo
  <2>3. Types'
    BY <1>2, <2>2 DEF Types
  <2>. QED BY <1>2, <1>5, <1>8, <2>2, <2>3
<1>. QED BY <1>4, <1>7, <1>8

\* The idle thread is a thread.
LEMMA IdleIn ==
  /\ Idle \in Calls /\ Idle.pc = "idle" /\ Idle.todo = <<>> /\ Idle.err = 0
  /\ GoodCall(Idle)
<1>1. <<>> \in Gots /\ <<>> \in Seq(Items)
  BY NoneGot
<1>2. Idle \in Calls
  BY <1>1 DEF Idle, Calls, CallOps, Targets
<1>. QED BY <1>2 DEF Idle, GoodCall

\* What Return does to the state.
LEMMA ReturnIs ==
  ASSUME Types, CallInv, NEW th \in Threads, Return(th)
  PROVE  /\ Types'
         /\ conf' = conf /\ store' = store /\ entries' = entries
         /\ data' = data /\ cmd' = cmd /\ clobbered' = clobbered /\ lost' = lost
         /\ Others(th) /\ lock' = lock
         /\ thr[th].pc = "next" /\ thr[th].todo = <<>> /\ thr'[th] = Idle
         /\ IsWriter(thr[th].op) =>
              last' = [last EXCEPT ![thr[th].t] = [tag |-> thr[th].tag, ok |-> thr[th].err = 0]]
         /\ ~IsWriter(thr[th].op) => last' = last
<1>1. /\ thr \in [Threads -> Calls] /\ thr[th] \in Calls /\ GoodCall(thr[th])
      /\ conf \in Configs /\ last \in [Targets -> [tag : Nat, ok : BOOLEAN]]
  BY DEF Types, CallInv
<1>2. /\ conf' = conf /\ store' = store /\ entries' = entries /\ calls' = calls
      /\ data' = data /\ cmd' = cmd /\ clobbered' = clobbered /\ lost' = lost
      /\ lock' = lock /\ thr[th].pc = "next" /\ thr[th].todo = <<>>
      /\ thr' = [thr EXCEPT ![th] = Idle]
      /\ IsWriter(thr[th].op) =>
           last' = [last EXCEPT ![thr[th].t] = [tag |-> thr[th].tag, ok |-> thr[th].err = 0]]
      /\ ~IsWriter(thr[th].op) => last' = last
  BY DEF Return
<1>3. thr' \in [Threads -> Calls] /\ Others(th) /\ thr'[th] = Idle
  BY <1>1, <1>2, IdleIn DEF Others, Alike
<1>4. last' \in [Targets -> [tag : Nat, ok : BOOLEAN]]
  <2>. DEFINE r == [tag |-> thr[th].tag, ok |-> thr[th].err = 0]
  <2>1. r \in [tag : Nat, ok : BOOLEAN]
    BY <1>1 DEF Calls
  <2>2. last' = last \/ last' = [last EXCEPT ![thr[th].t] = r]
    BY <1>2
  <2>. HIDE DEF r
  <2>. QED BY <1>1, <2>1, <2>2
<1>5. Types'
  BY <1>1, <1>2, <1>3, <1>4 DEF Types
<1>. QED BY <1>2, <1>3, <1>5

\* What Execute does to the state.
LEMMA ExecuteIs ==
  ASSUME Types, Execute
  PROVE  /\ Types'
         /\ conf' = conf /\ thr' = thr /\ entries' = entries /\ last' = last
         /\ lock' = lock /\ clobbered' = clobbered /\ lost' = lost
         /\ cmd.busy /\ ~cmd'.busy /\ cmd'.sel = cmd.sel /\ cmd'.op = cmd.op
         /\ cmd.sel \in Selectors
         /\ \A s \in Selectors :
              store'[s] = IF s # cmd.sel \/ cmd.op = "RD" THEN store[s]
                          ELSE IF cmd.op = "WR" THEN data ELSE Cleared
         /\ data' = IF cmd.op = "RD" THEN store[cmd.sel] ELSE data
<1>1. /\ store \in [Selectors -> Pairs] /\ data \in Pairs
      /\ cmd \in [sel : Selectors \cup {None}, op : {"WR", "RD", "CLR", "INV", None},
                  busy : BOOLEAN]
      /\ cmd.busy => cmd.sel \in Selectors
  BY DEF Types
<1>2. /\ conf' = conf /\ thr' = thr /\ entries' = entries /\ last' = last /\ calls' = calls
      /\ lock' = lock /\ clobbered' = clobbered /\ lost' = lost
      /\ cmd.busy /\ cmd' = [cmd EXCEPT !.busy = FALSE]
  BY DEF Execute
<1>3. /\ ~cmd'.busy /\ cmd'.sel = cmd.sel /\ cmd'.op = cmd.op /\ cmd.sel \in Selectors
      /\ cmd' \in [sel : Selectors \cup {None}, op : {"WR", "RD", "CLR", "INV", None},
                   busy : BOOLEAN]
  BY <1>1, <1>2
<1>4. CASE cmd.op = "WR"
  <2>1. store' = [store EXCEPT ![cmd.sel] = data] /\ data' = data
    BY <1>4 DEF Execute
  <2>2. store' \in [Selectors -> Pairs] /\ data' \in Pairs
    BY <1>1, <2>1
  <2>3. Types'
    BY <1>2, <1>3, <2>2 DEF Types
  <2>. QED BY <1>1, <1>2, <1>3, <1>4, <2>1, <2>3
<1>5. CASE cmd.op = "RD"
  <2>1. store' = store /\ data' = store[cmd.sel]
    BY <1>5 DEF Execute
  <2>2. store' \in [Selectors -> Pairs] /\ data' \in Pairs
    BY <1>1, <1>3, <2>1
  <2>3. Types'
    BY <1>2, <1>3, <2>2 DEF Types
  <2>. QED BY <1>1, <1>2, <1>3, <1>5, <2>1, <2>3
<1>6. CASE cmd.op # "WR" /\ cmd.op # "RD"
  <2>1. store' = [store EXCEPT ![cmd.sel] = Cleared] /\ data' = data
    BY <1>6 DEF Execute
  <2>2. store' \in [Selectors -> Pairs] /\ data' \in Pairs
    BY <1>1, <2>1, ClearedIn
  <2>3. Types'
    BY <1>2, <1>3, <2>2 DEF Types
  <2>. QED BY <1>1, <1>2, <1>3, <1>6, <2>1, <2>3
<1>. QED BY <1>4, <1>5, <1>6

\* What Run does to the state.
LEMMA RunIs ==
  ASSUME Types, NEW t \in Dirs, Run(t)
  PROVE  /\ Types'
         /\ conf' = conf /\ thr' = thr /\ entries' = entries /\ last' = last
         /\ lock' = lock /\ clobbered' = clobbered /\ lost' = lost
         /\ cmd' = cmd /\ data' = data
         /\ store[Sel("sw", t)] # Cleared
         /\ \A s \in Selectors :
              store'[s] = IF s \in {Sel("hw", t), Sel("credit", t)}
                          THEN store[Sel("sw", t)] ELSE store[s]
<1>1. store \in [Selectors -> Pairs] /\ conf \in Configs
  BY DEF Types
<1>2. /\ conf' = conf /\ thr' = thr /\ entries' = entries /\ last' = last /\ calls' = calls
      /\ lock' = lock /\ clobbered' = clobbered /\ lost' = lost
      /\ cmd' = cmd /\ data' = data /\ store[Sel("sw", t)] # Cleared
  BY DEF Run
<1>. DEFINE a == Sel("hw", t)
            b == Sel("credit", t)
            v == store[Sel("sw", t)]
<1>3. store' = [store EXCEPT ![a] = v, ![b] = v]
  BY DEF Run
<1>4. v \in Pairs
  <2>1. t \in Targets
    BY DEF Dirs, Targets, QTypes
  <2>2. Sel("sw", t) \in Selectors
    BY <1>1, <2>1, SelIs DEF Selectors
  <2>. QED BY <1>1, <2>2
<1>. HIDE DEF a, b, v
<1>5. /\ store' \in [Selectors -> Pairs]
      /\ \A s \in Selectors : store'[s] = IF s \in {a, b} THEN v ELSE store[s]
  BY <1>1, <1>3, <1>4
<1>6. Types'
  BY <1>2, <1>5 DEF Types
<1>. QED BY <1>2, <1>5, <1>6 DEF a, b, v

\* What Begin does to the state.
LEMMA BeginIs ==
  ASSUME Types, CallInv, NEW th \in Threads, NEW t \in Targets, NEW op, Begin(th, op, t)
  PROVE  /\ Types'
         /\ conf' = conf /\ store' = store /\ entries' = entries /\ last' = last
         /\ data' = data /\ cmd' = cmd /\ clobbered' = clobbered /\ lost' = lost
         /\ Others(th) /\ lock' = lock
         /\ thr[th].pc = "idle" /\ op \in Ops(t)
         /\ IsWriter(op) => Writers(t) = {}
         /\ thr'[th].pc = "next" /\ thr'[th].op = op /\ thr'[th].t = t
         /\ op \notin {"program", "write"} => thr'[th].tag = 0
         /\ thr'[th].todo = Script(op, t) /\ thr'[th].got = <<>> /\ thr'[th].err = 0
         /\ thr'[th].clean => \A r \in Reads(op, t) : Writers(r) = {} /\ last[r].ok
         /\ \A u \in Threads \ {th} :
              IsWriter(op) /\ t \in Reads(thr[u].op, thr[u].t) => ~thr'[u].clean
<1>1. /\ thr \in [Threads -> Calls] /\ thr[th] \in Calls /\ GoodCall(thr[th])
      /\ conf \in Configs /\ calls \in Nat
  BY DEF Types, CallInv
<1>2. /\ conf' = conf /\ store' = store /\ entries' = entries /\ last' = last
      /\ data' = data /\ cmd' = cmd /\ clobbered' = clobbered /\ lost' = lost
      /\ lock' = lock /\ thr[th].pc = "idle" /\ op \in Ops(t) /\ calls' = calls + 1
      /\ IsWriter(op) => Writers(t) = {}
  BY DEF Begin
<1>. DEFINE n == IF op \in {"program", "write"} THEN calls + 1 ELSE 0
            C == \A r \in Reads(op, t) : Writers(r) = {} /\ last[r].ok
            K(u) == thr[u].clean /\ ~(IsWriter(op) /\ t \in Reads(thr[u].op, thr[u].t))
            s == Script(op, t)
            d == [Idle EXCEPT !.pc = "next", !.op = op, !.t = t, !.tag = n, !.todo = s,
                              !.clean = C]
<1>3. thr' = [u \in Threads |-> IF u = th THEN d ELSE [thr[u] EXCEPT !.clean = K(u)]]
  BY DEF Begin
<1>4. op \in CallOps /\ s \in Seq(Items) /\ n \in Nat /\ C \in BOOLEAN
  <2>1. op \in CallOps
    BY <1>2, OpsIn
  <2>2. s \in Seq(Items)
    BY <1>1, <1>2, ScriptOK DEF ListOK
  <2>3. C \in BOOLEAN
    OBVIOUS
  <2>. QED BY <1>1, <2>1, <2>2, <2>3
<1>5. op \notin {"program", "write"} => n = 0
  OBVIOUS
<1>6. \A u \in Threads : K(u) \in BOOLEAN /\ (K(u) => thr[u].clean)
  OBVIOUS
<1>7. \A u \in Threads : IsWriter(op) /\ t \in Reads(thr[u].op, thr[u].t) => ~K(u)
  OBVIOUS
<1>8. C => \A r \in Reads(op, t) : Writers(r) = {} /\ last[r].ok
  OBVIOUS
<1>. HIDE DEF n, C, K, s
<1>9. /\ d \in Calls /\ d.pc = "next" /\ d.op = op /\ d.t = t /\ d.tag = n /\ d.todo = s
      /\ d.got = <<>> /\ d.err = 0 /\ d.clean = C
  <2>1. <<>> \in Gots
    BY NoneGot
  <2>. QED BY <1>4, <2>1 DEF Idle, Calls
<1>. HIDE DEF d
<1>10. thr'[th] = d
  BY <1>3
<1>11. ASSUME NEW u \in Threads \ {th}
       PROVE  thr'[u] \in Calls /\ Alike(thr'[u], thr[u]) /\ (thr'[u].clean => K(u))
  <2>1. thr'[u] = [thr[u] EXCEPT !.clean = K(u)]
    BY <1>3
  <2>2. thr[u] \in Calls /\ K(u) \in BOOLEAN
    BY <1>1, <1>6
  <2>. QED BY <2>1, <2>2 DEF Calls, Alike
<1>12. thr' \in [Threads -> Calls]
  <2>1. thr' = [u \in Threads |-> thr'[u]]
    BY <1>3
  <2>2. \A u \in Threads : thr'[u] \in Calls
    BY <1>9, <1>10, <1>11
  <2>. QED BY <2>1, <2>2
<1>13. Others(th)
  BY <1>6, <1>11 DEF Others
<1>14. \A u \in Threads \ {th} :
         IsWriter(op) /\ t \in Reads(thr[u].op, thr[u].t) => ~thr'[u].clean
  BY <1>7, <1>11
<1>15. Types'
  <2>1. calls' \in Nat
    BY <1>1, <1>2
  <2>. QED BY <1>2, <1>12, <2>1 DEF Types
<1>. QED BY <1>2, <1>5, <1>8, <1>9, <1>10, <1>13, <1>14, <1>15 DEF s

-----------------------------------------------------------------------------
(***************************************************************************)
(* Calls make their accesses in order.                                     *)
(***************************************************************************)
LEMMA GoodAlike ==
  ASSUME NEW c, NEW d, Alike(c, d), GoodCall(d)
  PROVE  GoodCall(c)
  BY DEF GoodCall, Alike

\* The empty list is in order.
LEMMA TodoEmpty == \A op, t : TodoOK(op, t, <<>>)
<1>1. Len(<<>>) = 0
  OBVIOUS
<1>. QED BY <1>1 DEF TodoOK, ItemsFit, WritesLast, FetchOrder, PrintOrder, QueueOrder, Has

\* The access after the first
LEMMA SecondItem ==
  ASSUME NEW op, NEW t, NEW s \in Seq(Items), s # <<>>, TodoOK(op, t, s), Tail(s) # <<>>
  PROVE  /\ Tail(s)[1] \in Items
         /\ Is(Tail(s)[1], "qid2vec", "write") => Is(s[1], "qid2vec", "fetch")
         /\ Tail(s)[1][2] = "print" => Is(s[1], Tail(s)[1][1], "fill")
         /\ Is(Tail(s)[1], "intr", "fill") => Is(s[1], "intr", "read")
<1>. DEFINE u == Tail(s)
<1>1. /\ u \in Seq(Items) /\ Len(s) \in Nat /\ Len(u) = Len(s) - 1
      /\ \A i \in 1 .. Len(u) : i + 1 \in 2 .. Len(s) /\ u[i] = s[i + 1]
  BY TailIs
<1>2. u # <<>>
  OBVIOUS
<1>. HIDE DEF u
<1>3. 1 \in 1 .. Len(u) /\ u[1] \in Items
  BY <1>1, <1>2
<1>4. 2 \in 2 .. Len(s) /\ u[1] = s[2]
  BY <1>1, <1>3
<1>5. FetchOrder(s) /\ PrintOrder(s)
  BY DEF TodoOK
<1>6. 2 - 1 = 1
  OBVIOUS
<1>7. /\ Is(s[2], "qid2vec", "write") => Is(s[1], "qid2vec", "fetch")
      /\ s[2][2] = "print" => Is(s[1], s[2][1], "fill")
      /\ Is(s[2], "intr", "fill") => Is(s[1], "intr", "read")
  BY <1>4, <1>5, <1>6 DEF FetchOrder, PrintOrder
<1>. QED BY <1>3, <1>4, <1>7 DEF u

\* A call stays good when it goes to its next item.
LEMMA GoodNext ==
  ASSUME NEW c \in Calls, NEW d \in Calls, GoodCall(c), c.pc # "idle", c.todo # <<>>,
         d.pc = "next", d.op = c.op, d.t = c.t, d.tag = c.tag, d.todo = Tail(c.todo),
         Is(c.todo[1], "qid2vec", "fetch") => "fetched" \in DOMAIN d.got,
         Is(c.todo[1], "intr", "read") => "intr" \in DOMAIN d.got
  PROVE  GoodCall(d)
<1>1. /\ c.todo \in Seq(Items) /\ TodoOK(c.op, c.t, c.todo) /\ c.t \in Targets
      /\ c.op \in Ops(c.t) /\ c.op \notin {"program", "write"} => c.tag = 0
  BY DEF Calls, GoodCall
<1>2. TodoOK(d.op, d.t, d.todo)
  BY <1>1, TodoTail
<1>3. /\ d.todo # <<>> /\ Is(d.todo[1], "qid2vec", "write") => "fetched" \in DOMAIN d.got
      /\ d.todo # <<>> /\ Is(d.todo[1], "intr", "fill") => "intr" \in DOMAIN d.got
  BY <1>1, SecondItem
<1>. QED BY <1>1, <1>2, <1>3 DEF GoodCall

\* A call stays good when it leaves out a write of the queue map.
LEMMA GoodSkip ==
  ASSUME NEW c \in Calls, NEW d \in Calls, GoodCall(c), c.pc # "idle", c.todo # <<>>,
         Tail(c.todo) # <<>>, Is(Tail(c.todo)[1], "qid2vec", "write"),
         d.pc = "next", d.op = c.op, d.t = c.t, d.tag = c.tag, d.todo = Tail(Tail(c.todo))
  PROVE  GoodCall(d)
<1>1. /\ c.todo \in Seq(Items) /\ TodoOK(c.op, c.t, c.todo) /\ c.t \in Targets
      /\ c.op \in Ops(c.t) /\ c.op \notin {"program", "write"} => c.tag = 0
  BY DEF Calls, GoodCall
<1>. DEFINE u == Tail(c.todo)
<1>2. u \in Seq(Items) /\ u # <<>> /\ TodoOK(c.op, c.t, u) /\ Is(u[1], "qid2vec", "write")
  BY <1>1, TodoTail, TailIs
<1>3. d.todo = Tail(u)
  OBVIOUS
<1>. HIDE DEF u
<1>4. TodoOK(d.op, d.t, d.todo)
  BY <1>2, <1>3, TodoTail
<1>5. /\ d.todo # <<>> => ~Is(d.todo[1], "qid2vec", "write")
      /\ d.todo # <<>> => ~Is(d.todo[1], "intr", "fill")
  BY <1>2, <1>3, SecondItem DEF Is
<1>. QED BY <1>1, <1>4, <1>5 DEF GoodCall

\* A call stays good when it drops what is left.
LEMMA GoodEnd ==
  ASSUME NEW c, NEW d, GoodCall(c), c.pc # "idle",
         d.pc = "next", d.op = c.op, d.t = c.t, d.tag = c.tag, d.todo = <<>>
  PROVE  GoodCall(d)
  BY TodoEmpty DEF GoodCall

\* A step of one thread keeps the calls in order when it does so for its own.
LEMMA CallStep ==
  ASSUME CallInv, conf' = conf, NEW th \in Threads, Others(th),
         DOMAIN entries \subseteq DOMAIN entries', clobbered => clobbered',
         \A u \in Threads \ {th} :
           Holding(u) => lock' = lock /\ cmd'.sel = cmd.sel /\ cmd'.op = cmd.op,
         GoodCall(thr'[th]),
         thr'[th].todo # <<>> /\ thr'[th].todo[1][2] = "print" =>
           Shown(th)' \subseteq DOMAIN entries',
         thr'[th].pc \in {"command", "poll"} => lock' = th,
         thr'[th].pc = "command" /\ thr'[th].todo[1][2] = "write" => clobbered',
         thr'[th].pc = "poll" =>
           /\ cmd'.sel = Sel(thr'[th].todo[1][1], thr'[th].t)
           /\ cmd'.op = Opcode(thr'[th].todo[1][2])
  PROVE  CallInv'
<1>1. \A c : GoodCall(c)' <=> GoodCall(c)
  BY ConfSame
<1>2. \A c, t : Sel(c, t)' = Sel(c, t)
  BY ConfSame
<1>3. \A o : Opcode(o)' = Opcode(o)
  BY ConfSame
<1>4. ASSUME NEW u \in Threads
      PROVE  /\ GoodCall(thr'[u])
             /\ thr'[u].todo # <<>> /\ thr'[u].todo[1][2] = "print" =>
                  Shown(u)' \subseteq DOMAIN entries'
             /\ thr'[u].pc \in {"command", "poll"} => lock' = u
             /\ thr'[u].pc = "command" /\ thr'[u].todo[1][2] = "write" => clobbered'
             /\ thr'[u].pc = "poll" =>
                  /\ cmd'.sel = Sel(thr'[u].todo[1][1], thr'[u].t)
                  /\ cmd'.op = Opcode(thr'[u].todo[1][2])
  <2>1. CASE u = th
    BY <2>1
  <2>2. CASE u # th
    <3>1. Alike(thr'[u], thr[u])
      BY <2>2 DEF Others
    <3>2. GoodCall(thr'[u])
      BY <3>1, GoodAlike DEF CallInv
    <3>3. Shown(u)' = Shown(u)
      BY <3>1 DEF Shown, Item, Alike
    <3>4. thr'[u].todo # <<>> /\ thr'[u].todo[1][2] = "print" =>
            Shown(u)' \subseteq DOMAIN entries'
      BY <3>1, <3>3 DEF CallInv, Item, Alike
    <3>5. Holding(u) => lock' = lock /\ cmd'.sel = cmd.sel /\ cmd'.op = cmd.op
      BY <2>2
    <3>. QED BY <3>1, <3>2, <3>4, <3>5 DEF CallInv, Item, Alike, Holding
  <2>. QED BY <2>1, <2>2
<1>5. ASSUME NEW u \in Threads PROVE GoodCall(thr[u])'
  BY <1>1, <1>4
<1>6. ASSUME NEW u \in Threads
      PROVE  (thr[u].pc = "poll" =>
                cmd.sel = Sel(Item(u)[1], thr[u].t) /\ cmd.op = Opcode(Item(u)[2]))'
  BY <1>2, <1>3, <1>4 DEF Item
<1>7. ASSUME NEW u \in Threads
      PROVE  /\ (thr[u].todo # <<>> /\ Item(u)[2] = "print" => Shown(u) \subseteq DOMAIN entries)'
             /\ (Holding(u) => lock = u)'
             /\ (thr[u].pc = "command" /\ Item(u)[2] = "write" => clobbered)'
  BY <1>4 DEF Holding, Item
<1>. QED BY <1>5, <1>6, <1>7 DEF CallInv

\* hw_prg_lock is held by one thread at a time.
LEMMA OneHolder ==
  ASSUME CallInv
  PROVE  /\ \A th, u \in Threads : Holding(th) /\ Holding(u) => th = u
         /\ lock = None => \A u \in Threads : ~Holding(u)
<1>1. \A u \in Threads : Holding(u) => lock = u
  BY DEF CallInv
<1>. QED BY <1>1, ThreadsAssumption DEF None

\* Beginning a call keeps CallInv.
LEMMA BeginCalls ==
  ASSUME Types, CallInv, NEW th \in Threads, NEW t \in Targets, NEW op, Begin(th, op, t)
  PROVE  CallInv'
<1>1. /\ conf' = conf /\ entries' = entries /\ cmd' = cmd /\ clobbered' = clobbered
      /\ Others(th) /\ lock' = lock /\ op \in Ops(t)
      /\ thr'[th].pc = "next" /\ thr'[th].op = op /\ thr'[th].t = t
      /\ op \notin {"program", "write"} => thr'[th].tag = 0
      /\ thr'[th].todo = Script(op, t)
  BY BeginIs
<1>2. ListOK(op, t, Script(op, t))
  BY <1>1, ScriptOK DEF Types
<1>3. GoodCall(thr'[th])
  BY <1>1, <1>2 DEF GoodCall, ListOK, WholeOK
<1>4. ~(thr'[th].todo # <<>> /\ thr'[th].todo[1][2] = "print")
  BY <1>1, <1>2 DEF ListOK, WholeOK
<1>. QED BY <1>1, <1>3, <1>4, CallStep

\* Loading the data registers keeps CallInv.
LEMMA LoadCalls ==
  ASSUME Types, CallInv, NEW th \in Threads, Load(th)
  PROVE  CallInv'
<1>1. /\ conf' = conf /\ entries' = entries /\ Going(th) /\ lock = None /\ lock' = th
      /\ thr[th].pc = "next" /\ thr[th].todo # <<>>
      /\ Item(th)[2] \in {"read", "fetch", "write", "clear", "invalidate"}
      /\ Sel(Item(th)[1], thr[th].t) # "TRQ_FMAP"
      /\ thr'[th].todo = thr[th].todo /\ thr'[th].got = thr[th].got
      /\ \/ thr'[th].pc = "command" /\ cmd.busy /\ cmd' = cmd
         \/ thr'[th].pc = "poll" /\ ~cmd.busy /\ cmd' = Commanded(th)
      /\ Item(th)[2] = "write" => clobbered' = (clobbered \/ cmd.busy)
      /\ Item(th)[2] # "write" => clobbered' = clobbered
  BY LoadIs
<1>2. Item(th) = thr[th].todo[1] /\ GoodCall(thr[th])
  BY DEF Item, CallInv
<1>3. GoodCall(thr'[th])
  BY <1>1, <1>2 DEF GoodCall, Going
<1>4. \A u \in Threads : ~Holding(u)
  BY <1>1, OneHolder
<1>5. /\ clobbered => clobbered'
      /\ thr'[th].pc = "command" /\ thr'[th].todo[1][2] = "write" => clobbered'
  <2>1. CASE Item(th)[2] = "write"
    <3>1. clobbered' <=> clobbered \/ cmd.busy
      BY <1>1, <2>1
    <3>2. thr'[th].pc = "command" => cmd.busy
      BY <1>1
    <3>. QED BY <3>1, <3>2
  <2>2. CASE Item(th)[2] # "write"
    BY <1>1, <1>2, <2>2
  <2>. QED BY <2>1, <2>2
<1>6. thr'[th].pc = "poll" =>
        /\ cmd'.sel = Sel(thr'[th].todo[1][1], thr'[th].t)
        /\ cmd'.op = Opcode(thr'[th].todo[1][2])
  BY <1>1, <1>2 DEF Commanded, Going
<1>7. Others(th) /\ ~(thr'[th].todo # <<>> /\ thr'[th].todo[1][2] = "print")
  BY <1>1, <1>2 DEF Going
<1>. QED BY <1>1, <1>3, <1>4, <1>5, <1>6, <1>7, CallStep

\* Giving the command keeps CallInv.
LEMMA CommandCalls ==
  ASSUME Types, CallInv, NEW th \in Threads, Command(th)
  PROVE  CallInv'
<1>1. /\ conf' = conf /\ entries' = entries /\ clobbered' = (clobbered \/ cmd.busy)
      /\ Going(th) /\ lock' = lock /\ cmd' = Commanded(th)
      /\ thr[th].pc = "command" /\ thr'[th].pc = "poll"
      /\ thr'[th].todo = thr[th].todo /\ thr'[th].got = thr[th].got
  BY CommandIs
<1>2. /\ Item(th) = thr[th].todo[1] /\ GoodCall(thr[th]) /\ Holding(th) /\ lock = th
      /\ Item(th)[2] \in {"read", "fetch", "write", "clear", "invalidate"}
  BY <1>1 DEF Item, CallInv, Holding, GoodCall
<1>3. GoodCall(thr'[th])
  BY <1>1, <1>2 DEF GoodCall, Going
<1>4. \A u \in Threads \ {th} : ~Holding(u)
  BY <1>2, OneHolder
<1>5. /\ clobbered => clobbered'
  BY <1>1
<1>6. thr'[th].pc = "poll" =>
        /\ cmd'.sel = Sel(thr'[th].todo[1][1], thr'[th].t)
        /\ cmd'.op = Opcode(thr'[th].todo[1][2])
  BY <1>1, <1>2 DEF Commanded, Going
<1>7. Others(th) /\ ~(thr'[th].todo # <<>> /\ thr'[th].todo[1][2] = "print")
  BY <1>1, <1>2 DEF Going
<1>. QED BY <1>1, <1>2, <1>3, <1>4, <1>5, <1>6, <1>7, CallStep

\* A poll that sees the command done keeps CallInv.
LEMMA DoneCalls ==
  ASSUME Types, CallInv, NEW th \in Threads, Done(th)
  PROVE  CallInv'
<1>1. /\ Types' /\ conf' = conf /\ entries' = entries /\ cmd' = cmd /\ clobbered' = clobbered
      /\ Going(th) /\ thr[th].pc = "poll" /\ thr'[th].pc = "next"
      /\ thr[th].todo # <<>> /\ thr'[th].todo = Tail(thr[th].todo)
      /\ thr'[th].got = IF Item(th)[2] \in {"read", "fetch"}
                        THEN Set(thr[th].got, GotName(th), data) ELSE thr[th].got
      /\ GotName(th) \in GotNames
  BY DoneIs
<1>2. /\ Item(th) = thr[th].todo[1] /\ GoodCall(thr[th]) /\ Holding(th)
      /\ Item(th)[2] \in {"read", "fetch", "write", "clear", "invalidate"}
      /\ thr[th] \in Calls /\ thr'[th] \in Calls /\ data \in Pairs
  BY <1>1 DEF Item, CallInv, Holding, GoodCall, Types
<1>3. /\ Is(thr[th].todo[1], "qid2vec", "fetch") => "fetched" \in DOMAIN thr'[th].got
      /\ Is(thr[th].todo[1], "intr", "read") => "intr" \in DOMAIN thr'[th].got
  <2>1. thr[th].got \in Gots
    BY <1>2 DEF Calls
  <2>2. DOMAIN Set(thr[th].got, GotName(th), data) = DOMAIN thr[th].got \cup {GotName(th)}
    <3>. DEFINE x == GotName(th)
                g == thr[th].got
    <3>1. x \in GotNames /\ g \in Gots
      BY <1>1, <2>1
    <3>. HIDE DEF x, g
    <3>2. DOMAIN Set(g, x, data) = DOMAIN g \cup {x}
      BY <1>2, <3>1, SetIs
    <3>. QED BY <3>2 DEF x, g
  <2>. QED BY <1>1, <1>2, <2>2 DEF Is, GotName
<1>4. GoodCall(thr'[th])
  <2>. DEFINE c == thr[th]
              d == thr'[th]
  <2>1. /\ c \in Calls /\ d \in Calls /\ GoodCall(c) /\ c.pc # "idle" /\ c.todo # <<>>
        /\ d.pc = "next" /\ d.op = c.op /\ d.t = c.t /\ d.tag = c.tag /\ d.todo = Tail(c.todo)
    BY <1>1, <1>2 DEF Going
  <2>2. /\ Is(c.todo[1], "qid2vec", "fetch") => "fetched" \in DOMAIN d.got
        /\ Is(c.todo[1], "intr", "read") => "intr" \in DOMAIN d.got
    BY <1>3
  <2>. HIDE DEF c, d
  <2>3. GoodCall(d)
    BY <2>1, <2>2, GoodNext
  <2>. QED BY <2>3 DEF d
<1>5. \A u \in Threads \ {th} : ~Holding(u)
  BY <1>2, OneHolder
<1>6. ~(thr'[th].todo # <<>> /\ thr'[th].todo[1][2] = "print")
  <2>1. thr[th].todo \in Seq(Items) /\ TodoOK(thr[th].op, thr[th].t, thr[th].todo)
    BY <1>1, <1>2 DEF GoodCall, Calls
  <2>. QED BY <1>1, <1>2, <2>1, SecondItem DEF Is
<1>7. Others(th)
  BY <1>1 DEF Going
<1>. QED BY <1>1, <1>4, <1>5, <1>6, <1>7, CallStep

\* A poll that times out keeps CallInv.
LEMMA TimeOutCalls ==
  ASSUME Types, CallInv, NEW th \in Threads, TimeOut(th)
  PROVE  CallInv'
<1>1. /\ Types' /\ conf' = conf /\ entries' = entries /\ cmd' = cmd /\ clobbered' = clobbered
      /\ Going(th) /\ thr[th].pc = "poll" /\ thr'[th].pc = "next" /\ thr[th].todo # <<>>
      /\ \/ /\ Item(th)[1] = "qid2vec" /\ Item(th)[2] \in {"fetch", "write"}
            /\ Item(th)[2] = "write" => thr'[th].todo = Tail(thr[th].todo)
            /\ Item(th)[2] = "fetch" =>
                 /\ Tail(thr[th].todo) # <<>> /\ Is(Tail(thr[th].todo)[1], "qid2vec", "write")
                 /\ thr'[th].todo = Tail(Tail(thr[th].todo))
         \/ thr'[th].todo = <<>>
  BY TimeOutIs
<1>. DEFINE c == thr[th]
            d == thr'[th]
<1>2. /\ c \in Calls /\ d \in Calls /\ GoodCall(c) /\ c.pc # "idle" /\ c.todo # <<>>
      /\ d.pc = "next" /\ d.op = c.op /\ d.t = c.t /\ d.tag = c.tag /\ Holding(th)
      /\ c.todo \in Seq(Items) /\ TodoOK(c.op, c.t, c.todo) /\ Others(th)
      /\ Item(th) = c.todo[1]
  BY <1>1 DEF Going, Types, CallInv, GoodCall, Calls, Holding, Item
<1>3. GoodCall(d) /\ ~(d.todo # <<>> /\ d.todo[1][2] = "print")
  <2>1. CASE Item(th)[1] = "qid2vec" /\ Item(th)[2] = "write" /\ d.todo = Tail(c.todo)
    <3>1. ~Is(c.todo[1], "qid2vec", "fetch") /\ ~Is(c.todo[1], "intr", "read")
      BY <1>2, <2>1 DEF Is
    <3>. HIDE DEF c, d
    <3>2. GoodCall(d)
      BY <1>2, <2>1, <3>1, GoodNext
    <3>3. ~(d.todo # <<>> /\ d.todo[1][2] = "print")
      BY <1>2, <2>1, SecondItem DEF Is
    <3>. QED BY <3>2, <3>3
  <2>2. CASE /\ Tail(c.todo) # <<>> /\ Is(Tail(c.todo)[1], "qid2vec", "write")
             /\ d.todo = Tail(Tail(c.todo))
    <3>. HIDE DEF c, d
    <3>1. GoodCall(d)
      BY <1>2, <2>2, GoodSkip
    <3>. DEFINE u == Tail(c.todo)
    <3>2. u \in Seq(Items) /\ u # <<>> /\ TodoOK(c.op, c.t, u) /\ d.todo = Tail(u)
      BY <1>2, <2>2, TodoTail, TailIs
    <3>3. Is(u[1], "qid2vec", "write")
      BY <2>2
    <3>. HIDE DEF u
    <3>4. ~(d.todo # <<>> /\ d.todo[1][2] = "print")
      BY <3>2, <3>3, SecondItem DEF Is
    <3>. QED BY <3>1, <3>4
  <2>3. CASE d.todo = <<>>
    <3>. HIDE DEF c, d
    <3>. QED BY <1>2, <2>3, GoodEnd
  <2>. QED BY <1>1, <2>1, <2>2, <2>3
<1>4. \A u \in Threads \ {th} : ~Holding(u)
  BY <1>2, OneHolder
<1>. QED BY <1>1, <1>2, <1>3, <1>4, CallStep

\* A direct access keeps CallInv.
LEMMA DirectCalls ==
  ASSUME Types, CallInv, NEW th \in Threads, DirectAccess(th)
  PROVE  CallInv'
<1>1. /\ Types' /\ conf' = conf /\ entries' = entries /\ cmd' = cmd /\ clobbered' = clobbered
      /\ Going(th) /\ lock' = lock /\ thr[th].pc = "next" /\ thr'[th].pc = "next"
      /\ thr[th].todo # <<>> /\ thr'[th].todo = Tail(thr[th].todo)
      /\ Item(th)[1] = "fmap"
  BY DirectIs
<1>. DEFINE c == thr[th]
            d == thr'[th]
<1>2. /\ c \in Calls /\ d \in Calls /\ GoodCall(c) /\ c.pc # "idle" /\ c.todo # <<>>
      /\ d.pc = "next" /\ d.op = c.op /\ d.t = c.t /\ d.tag = c.tag /\ d.todo = Tail(c.todo)
      /\ c.todo \in Seq(Items) /\ TodoOK(c.op, c.t, c.todo) /\ Others(th)
      /\ Item(th) = c.todo[1] /\ conf \in Configs
  BY <1>1 DEF Going, Types, CallInv, GoodCall, Calls, Item
<1>3. GoodCall(d) /\ ~(d.todo # <<>> /\ d.todo[1][2] = "print")
  <2>1. ~Is(c.todo[1], "qid2vec", "fetch") /\ ~Is(c.todo[1], "intr", "read")
    BY <1>1, <1>2 DEF Is
  <2>2. c.todo[1][2] # "fill"
    BY <1>1, <1>2, FirstItem
  <2>. HIDE DEF c, d
  <2>3. GoodCall(d)
    BY <1>2, <2>1, GoodNext
  <2>4. ~(d.todo # <<>> /\ d.todo[1][2] = "print")
    BY <1>2, <2>2, SecondItem DEF Is
  <2>. QED BY <2>3, <2>4
<1>. QED BY <1>1, <1>2, <1>3, CallStep

\* Filling the tables keeps CallInv.
LEMMA FillCalls ==
  ASSUME Types, CallInv, NEW th \in Threads, Fill(th)
  PROVE  CallInv'
<1>1. /\ Types' /\ conf' = conf /\ cmd' = cmd /\ clobbered' = clobbered
      /\ Going(th) /\ lock' = lock /\ thr[th].pc = "next" /\ thr'[th].pc = "next"
      /\ thr[th].todo # <<>> /\ thr'[th].todo = Tail(thr[th].todo)
      /\ thr'[th].got = thr[th].got /\ Item(th)[2] = "fill"
      /\ entries' = [c \in DOMAIN entries \cup Shown(th) |->
                       IF c \in Shown(th) THEN thr[th].got[c] ELSE entries[c]]
  BY FillIs
<1>. DEFINE c == thr[th]
            d == thr'[th]
<1>2. /\ c \in Calls /\ d \in Calls /\ GoodCall(c) /\ c.pc # "idle" /\ c.todo # <<>>
      /\ d.pc = "next" /\ d.op = c.op /\ d.t = c.t /\ d.tag = c.tag /\ d.todo = Tail(c.todo)
      /\ c.todo \in Seq(Items) /\ TodoOK(c.op, c.t, c.todo) /\ Others(th)
      /\ Item(th) = c.todo[1] /\ conf \in Configs
  BY <1>1 DEF Going, Types, CallInv, GoodCall, Calls, Item
<1>3. GoodCall(d)
  <2>1. ~Is(c.todo[1], "qid2vec", "fetch") /\ ~Is(c.todo[1], "intr", "read")
    BY <1>1, <1>2 DEF Is
  <2>. HIDE DEF c, d
  <2>. QED BY <1>2, <2>1, GoodNext
<1>4. DOMAIN entries' = DOMAIN entries \cup Shown(th)
  BY <1>1
<1>5. d.todo # <<>> /\ d.todo[1][2] = "print" => Shown(th)' \subseteq DOMAIN entries'
  <2>1. d.todo # <<>> /\ d.todo[1][2] = "print" => d.todo[1][1] = c.todo[1][1]
    <3>. HIDE DEF c, d
    <3>. QED BY <1>2, SecondItem DEF Is
  <2>2. d.todo # <<>> /\ d.todo[1][2] = "print" => Shown(th)' = Shown(th)
    BY <1>1, <2>1 DEF Shown, Item
  <2>. QED BY <1>4, <2>2
<1>. QED BY <1>1, <1>2, <1>3, <1>4, <1>5, CallStep

\* Printing the tables keeps CallInv.
LEMMA PrintCalls ==
  ASSUME Types, CallInv, NEW th \in Threads, PrintTables(th)
  PROVE  CallInv'
<1>1. /\ Types' /\ conf' = conf /\ entries' = entries /\ cmd' = cmd /\ clobbered' = clobbered
      /\ Going(th) /\ lock' = lock /\ thr[th].pc = "next" /\ thr'[th].pc = "next"
      /\ thr[th].todo # <<>>
      /\ \/ Item(th)[2] = "print" /\ thr'[th].todo = Tail(thr[th].todo)
         \/ thr'[th].todo = <<>>
  BY PrintIs
<1>. DEFINE c == thr[th]
            d == thr'[th]
<1>2. /\ c \in Calls /\ d \in Calls /\ GoodCall(c) /\ c.pc # "idle" /\ c.todo # <<>>
      /\ d.pc = "next" /\ d.op = c.op /\ d.t = c.t /\ d.tag = c.tag
      /\ c.todo \in Seq(Items) /\ TodoOK(c.op, c.t, c.todo) /\ Others(th)
      /\ Item(th) = c.todo[1] /\ conf \in Configs
  BY <1>1 DEF Going, Types, CallInv, GoodCall, Calls, Item
<1>3. GoodCall(d) /\ ~(d.todo # <<>> /\ d.todo[1][2] = "print")
  <2>1. CASE Item(th)[2] = "print" /\ d.todo = Tail(c.todo)
    <3>1. ~Is(c.todo[1], "qid2vec", "fetch") /\ ~Is(c.todo[1], "intr", "read")
      BY <1>2, <2>1 DEF Is
    <3>. HIDE DEF c, d
    <3>2. GoodCall(d)
      BY <1>2, <2>1, <3>1, GoodNext
    <3>3. ~(d.todo # <<>> /\ d.todo[1][2] = "print")
      BY <1>2, <2>1, SecondItem DEF Is
    <3>. QED BY <3>2, <3>3
  <2>2. CASE d.todo = <<>>
    <3>. HIDE DEF c, d
    <3>. QED BY <1>2, <2>2, GoodEnd
  <2>. QED BY <1>1, <2>1, <2>2
<1>. QED BY <1>1, <1>2, <1>3, CallStep

\* A return keeps CallInv.
LEMMA ReturnCalls ==
  ASSUME Types, CallInv, NEW th \in Threads, Return(th)
  PROVE  CallInv'
<1>1. /\ conf' = conf /\ entries' = entries /\ cmd' = cmd /\ clobbered' = clobbered
      /\ Others(th) /\ lock' = lock /\ thr'[th] = Idle
  BY ReturnIs
<1>. QED BY <1>1, IdleIn, CallStep

\* A step of the hardware leaves the calls as they are.
LEMMA HardwareCalls ==
  ASSUME CallInv, conf' = conf, thr' = thr, entries' = entries, lock' = lock,
         clobbered' = clobbered, cmd'.sel = cmd.sel, cmd'.op = cmd.op
  PROVE  CallInv'
<1>1. \A c : GoodCall(c)' <=> GoodCall(c)
  BY ConfSame
<1>2. \A c, t : Sel(c, t)' = Sel(c, t)
  BY ConfSame
<1>3. \A o : Opcode(o)' = Opcode(o)
  BY ConfSame
<1>4. ASSUME NEW u \in Threads PROVE GoodCall(thr[u])'
  BY <1>1 DEF CallInv
<1>5. ASSUME NEW u \in Threads
      PROVE  (thr[u].pc = "poll" =>
                cmd.sel = Sel(Item(u)[1], thr[u].t) /\ cmd.op = Opcode(Item(u)[2]))'
  BY <1>2, <1>3 DEF Item, CallInv
<1>6. ASSUME NEW u \in Threads
      PROVE  /\ (thr[u].todo # <<>> /\ Item(u)[2] = "print" => Shown(u) \subseteq DOMAIN entries)'
             /\ (Holding(u) => lock = u)'
             /\ (thr[u].pc = "command" /\ Item(u)[2] = "write" => clobbered)'
  BY DEF Holding, Item, CallInv, Shown
<1>. QED BY <1>4, <1>5, <1>6 DEF CallInv

-----------------------------------------------------------------------------
(***************************************************************************)
(* Who changes what.                                                       *)
(***************************************************************************)
LEMMA WritersGoing ==
  ASSUME NEW th \in Threads, Going(th), thr[th].pc # "idle", thr'[th].pc # "idle"
  PROVE  \A t : Writers(t)' = Writers(t)
<1>1. ASSUME NEW u \in Threads
      PROVE  /\ thr'[u].pc # "idle" <=> thr[u].pc # "idle"
             /\ thr'[u].t = thr[u].t /\ thr'[u].op = thr[u].op
  BY DEF Going, Others, Alike
<1>. QED BY <1>1 DEF Writers

\* A return takes the thread from the writers.
LEMMA WritersReturn ==
  ASSUME NEW th \in Threads, Others(th), thr'[th].pc = "idle"
  PROVE  \A t : Writers(t)' = Writers(t) \ {th}
<1>1. ASSUME NEW u \in Threads \ {th}
      PROVE  /\ thr'[u].pc # "idle" <=> thr[u].pc # "idle"
             /\ thr'[u].t = thr[u].t /\ thr'[u].op = thr[u].op
  BY DEF Others, Alike
<1>. QED BY <1>1 DEF Writers

\* A call that writes joins the writers of its target.
LEMMA WritersBegin ==
  ASSUME NEW th \in Threads, Others(th), thr[th].pc = "idle", thr'[th].pc # "idle"
  PROVE  \A t : Writers(t)' =
           Writers(t) \cup (IF thr'[th].t = t /\ IsWriter(thr'[th].op) THEN {th} ELSE {})
<1>1. ASSUME NEW u \in Threads \ {th}
      PROVE  /\ thr'[u].pc # "idle" <=> thr[u].pc # "idle"
             /\ thr'[u].t = thr[u].t /\ thr'[u].op = thr[u].op
  BY DEF Others, Alike
<1>2. ASSUME NEW t
      PROVE  Writers(t)' =
               Writers(t) \cup (IF thr'[th].t = t /\ IsWriter(thr'[th].op) THEN {th} ELSE {})
  <2>1. ASSUME NEW u \in Threads
        PROVE  u \in Writers(t)' <=>
                 u \in Writers(t) \/ (u = th /\ thr'[th].t = t /\ IsWriter(thr'[th].op))
    <3>1. CASE u = th
      BY <3>1 DEF Writers
    <3>2. CASE u # th
      BY <1>1, <3>2 DEF Writers
    <3>. QED BY <3>1, <3>2
  <2>2. Writers(t)' \subseteq Threads /\ Writers(t) \subseteq Threads
    BY DEF Writers
  <2>. QED BY <2>1, <2>2
<1>. QED BY <1>2

\* Writers and readers through a step of a call in progress ...
LEMMA GoingWriters ==
  ASSUME NEW th \in Threads, Going(th), thr[th].pc # "idle", thr'[th].pc # "idle",
         conf' = conf, last' = last, OneWriter, CleanInv
  PROVE  OneWriter' /\ CleanInv'
<1>1. \A t : Writers(t)' = Writers(t)
  BY WritersGoing
<1>2. \A op, t : Reads(op, t)' = Reads(op, t)
  BY ConfSame
<1>3. OneWriter'
  BY <1>1 DEF OneWriter
<1>4. ASSUME NEW u \in Threads
      PROVE  /\ thr'[u].pc # "idle" => thr[u].pc # "idle"
             /\ thr'[u].t = thr[u].t /\ thr'[u].op = thr[u].op
             /\ thr'[u].clean => thr[u].clean
  BY DEF Going, Others, Alike
<1>5. ASSUME NEW u \in Threads, thr'[u].pc # "idle", ~IsWriter(thr'[u].op), thr'[u].clean,
             NEW r \in Reads(thr'[u].op, thr'[u].t)
      PROVE  Writers(r)' = {} /\ last'[r].ok
  BY <1>1, <1>4, <1>5 DEF CleanInv, InCall
<1>6. CleanInv'
  BY <1>2, <1>5 DEF CleanInv, InCall
<1>. QED BY <1>3, <1>6

\* ... when one begins, ...
LEMMA BeginWriters ==
  ASSUME Types, CallInv, OneWriter, CleanInv,
         NEW th \in Threads, NEW t \in Targets, NEW op, Begin(th, op, t)
  PROVE  OneWriter' /\ CleanInv'
<1>1. /\ conf' = conf /\ last' = last /\ Others(th)
      /\ thr[th].pc = "idle"
      /\ IsWriter(op) => Writers(t) = {}
  BY BeginIs
<1>2. /\ thr'[th].pc = "next" /\ thr'[th].op = op /\ thr'[th].t = t
      /\ thr'[th].clean => \A r \in Reads(op, t) : Writers(r) = {} /\ last[r].ok
      /\ \A u \in Threads \ {th} :
           IsWriter(op) /\ t \in Reads(thr[u].op, thr[u].t) => ~thr'[u].clean
  BY BeginIs
<1>3. \A x : Writers(x)' = Writers(x) \cup (IF t = x /\ IsWriter(op) THEN {th} ELSE {})
  BY <1>1, <1>2, WritersBegin
<1>4. \A o, x : Reads(o, x)' = Reads(o, x)
  BY <1>1, ConfSame
<1>5. OneWriter'
  <2>1. ASSUME NEW x \in Targets, NEW u \in Writers(x)', NEW v \in Writers(x)'
        PROVE  u = v
    <3>1. CASE t = x /\ IsWriter(op)
      BY <1>1, <1>3, <3>1
    <3>2. CASE ~(t = x /\ IsWriter(op))
      BY <1>3, <3>2 DEF OneWriter
    <3>. QED BY <3>1, <3>2
  <2>. QED BY <2>1 DEF OneWriter
<1>6. ASSUME NEW u \in Threads, thr'[u].pc # "idle", ~IsWriter(thr'[u].op), thr'[u].clean,
             NEW r \in Reads(thr'[u].op, thr'[u].t)
      PROVE  Writers(r)' = {} /\ last'[r].ok
  <2>1. CASE u = th
    BY <1>1, <1>2, <1>3, <1>6, <2>1
  <2>2. CASE u # th
    <3>1. /\ thr[u].pc # "idle" /\ thr'[u].t = thr[u].t /\ thr'[u].op = thr[u].op
          /\ thr[u].clean
      BY <1>1, <1>6, <2>2 DEF Others, Alike
    <3>2. Writers(r) = {} /\ last[r].ok
      BY <1>6, <3>1 DEF CleanInv, InCall
    <3>3. ~(IsWriter(op) /\ t \in Reads(thr[u].op, thr[u].t))
      BY <1>2, <1>6, <2>2
    <3>. QED BY <1>1, <1>3, <1>6, <3>1, <3>2, <3>3
  <2>. QED BY <2>1, <2>2
<1>7. CleanInv'
  BY <1>4, <1>6 DEF CleanInv, InCall
<1>. QED BY <1>5, <1>7

\* ... and when one returns
LEMMA ReturnWriters ==
  ASSUME Types, CallInv, OneWriter, CleanInv, NEW th \in Threads, Return(th)
  PROVE  OneWriter' /\ CleanInv'
<1>1. /\ conf' = conf /\ Others(th) /\ thr[th].pc = "next" /\ thr'[th] = Idle
      /\ IsWriter(thr[th].op) =>
           last' = [last EXCEPT ![thr[th].t] = [tag |-> thr[th].tag, ok |-> thr[th].err = 0]]
      /\ ~IsWriter(thr[th].op) => last' = last
  BY ReturnIs
<1>2. thr'[th].pc = "idle"
  BY <1>1, IdleIn
<1>3. \A x : Writers(x)' = Writers(x) \ {th}
  BY <1>1, <1>2, WritersReturn
<1>4. \A o, x : Reads(o, x)' = Reads(o, x)
  BY <1>1, ConfSame
<1>5. OneWriter'
  BY <1>3 DEF OneWriter
<1>6. ASSUME NEW u \in Threads, thr'[u].pc # "idle", ~IsWriter(thr'[u].op), thr'[u].clean,
             NEW r \in Reads(thr'[u].op, thr'[u].t)
      PROVE  Writers(r)' = {} /\ last'[r].ok
  <2>1. u # th
    BY <1>2, <1>6
  <2>2. /\ thr[u].pc # "idle" /\ thr'[u].t = thr[u].t /\ thr'[u].op = thr[u].op
        /\ thr[u].clean
    BY <1>1, <1>6, <2>1 DEF Others, Alike
  <2>3. Writers(r) = {} /\ last[r].ok
    BY <1>6, <2>2 DEF CleanInv, InCall
  <2>4. IsWriter(thr[th].op) => thr[th].t # r
    BY <1>1, <2>3 DEF Writers
  <2>5. r \in Targets
    <3>1. thr[u].t \in Targets
      BY <2>2 DEF CallInv, GoodCall
    <3>. QED BY <1>6, <2>2, <3>1 DEF Reads, Targets
  <2>6. last'[r] = last[r]
    BY <1>1, <2>4, <2>5 DEF Types
  <2>. QED BY <1>3, <2>3, <2>6
<1>7. CleanInv'
  BY <1>4, <1>6 DEF CleanInv, InCall
<1>. QED BY <1>5, <1>7

\* The hardware does not change who writes.
LEMMA HardwareWriters ==
  ASSUME OneWriter, CleanInv, conf' = conf, thr' = thr, last' = last
  PROVE  OneWriter' /\ CleanInv'
<1>1. \A x : Writers(x)' = Writers(x)
  BY DEF Writers
<1>2. \A o, x : Reads(o, x)' = Reads(o, x)
  BY ConfSame
<1>. QED BY <1>1, <1>2 DEF OneWriter, CleanInv, InCall

-----------------------------------------------------------------------------
(***************************************************************************)
(* A queue never runs on an earlier use's hardware state.                  *)
(***************************************************************************)
LEMMA FreshSame ==
  ASSUME conf' = conf,
         \A t \in Dirs : WriteFresh(t, cmd', store'),
         \A th \in Threads : CallFresh(thr'[th], cmd', store')
  PROVE  FreshInv'
<1>1. \A c, t : Sel(c, t)' = Sel(c, t)
  BY ConfSame
<1>2. \A t, m, hw : WriteFresh(t, m, hw)' <=> WriteFresh(t, m, hw)
  BY <1>1 DEF WriteFresh
<1>3. \A c, m, hw : CallFresh(c, m, hw)' <=> CallFresh(c, m, hw)
  BY <1>1 DEF CallFresh
<1>. QED BY <1>2, <1>3 DEF FreshInv

\* The contexts of one direction
LEMMA OwnFits ==
  ASSUME NEW t \in Dirs, NEW x \in Own
  PROVE  Fits(x, t)
  BY DEF Fits, Own, Contexts, Dirs, Targets, QTypes

\* What is said of a call depends on its list, label and target.
LEMMA CallFreshAlike ==
  ASSUME NEW c, NEW d, NEW m, NEW hw, Alike(c, d), CallFresh(d, m, hw)
  PROVE  CallFresh(c, m, hw)
  BY DEF CallFresh, Alike, Unwritten, HasCleared

\* Another thread's call, when the command register and these contexts stay
LEMMA OthersFresh ==
  ASSUME FreshInv, NEW th \in Threads, Others(th), NEW hw,
         \A t \in Dirs : \A x \in Own : hw[Sel(x, t)] = store[Sel(x, t)]
  PROVE  /\ \A t \in Dirs : WriteFresh(t, cmd, hw)
         /\ \A u \in Threads \ {th} : CallFresh(thr'[u], cmd, hw)
<1>1. \A t \in Dirs : WriteFresh(t, cmd, hw)
  BY DEF FreshInv, WriteFresh
<1>2. ASSUME NEW u \in Threads \ {th} PROVE CallFresh(thr'[u], cmd, hw)
  <2>1. CallFresh(thr[u], cmd, hw)
    BY DEF FreshInv, CallFresh, Unwritten
  <2>2. Alike(thr'[u], thr[u])
    BY DEF Others
  <2>. QED BY <2>1, <2>2, CallFreshAlike
<1>. QED BY <1>1, <1>2

\* A call that goes on keeps its contexts cleared, when the accesses it has
\* made or left out are not of the software context's writing and clear
\* only what is cleared.
LEMMA CallFreshOn ==
  ASSUME NEW c, NEW d, NEW m, NEW hw, CallFresh(c, m, hw),
         d.pc = "next", c.pc # "idle", d.op = c.op, d.t = c.t,
         Has(d.todo, "sw", "write") =>
           Has(c.todo, "sw", "write") /\ ~(c.pc = "poll" /\ Is(c.todo[1], "sw", "write")),
         \A x \in Own : ~Has(d.todo, x, "clear") => HasCleared(c, m, x),
         ~Has(d.todo, "sw", "clear") => ~Has(c.todo, "sw", "clear") \/ ~m.busy
  PROVE  CallFresh(d, m, hw)
  BY DEF CallFresh, Unwritten, HasCleared, Writing

\* Beginning a call keeps FreshInv.
LEMMA BeginFresh ==
  ASSUME Types, CallInv, FreshInv, NEW th \in Threads, NEW t \in Targets, NEW op,
         Begin(th, op, t)
  PROVE  FreshInv'
<1>1. /\ conf' = conf /\ store' = store /\ cmd' = cmd /\ Others(th) /\ op \in Ops(t)
      /\ thr'[th].pc = "next" /\ thr'[th].op = op /\ thr'[th].t = t
      /\ thr'[th].todo = Script(op, t)
  BY BeginIs
<1>2. /\ \A x \in Dirs : WriteFresh(x, cmd', store')
      /\ \A u \in Threads \ {th} : CallFresh(thr'[u], cmd', store')
  BY <1>1, OthersFresh
<1>3. ListOK(op, t, Script(op, t))
  BY <1>1, ScriptOK DEF Types
<1>4. CallFresh(thr'[th], cmd', store')
  <2>1. CASE op = "program" /\ t \in Dirs
    <3>1. Has(Script(op, t), "sw", "clear")
      BY <1>3, <2>1 DEF ListOK, WholeOK
    <3>2. \A x \in Own : Has(Script(op, t), x, "clear")
      BY <1>3, <3>1 DEF ListOK, TodoOK, QueueOrder, Own
    <3>. QED BY <1>1, <3>1, <3>2 DEF CallFresh, HasCleared
  <2>2. CASE ~(op = "program" /\ t \in Dirs)
    BY <1>1, <2>2 DEF CallFresh, Unwritten
  <2>. QED BY <2>1, <2>2
<1>. QED BY <1>1, <1>2, <1>4, FreshSame

\* What a command that writes is about
LEMMA CommandedWrite ==
  ASSUME Types, CallInv, NEW th \in Threads, thr[th].pc # "idle", thr[th].todo # <<>>,
         Item(th)[2] \in {"read", "fetch", "write", "clear", "invalidate"},
         NEW x, NEW t, Fits(x, t), Writing(Commanded(th), Sel(x, t))
  PROVE  /\ Item(th)[2] = "write" /\ Item(th)[1] = x /\ (thr[th].t = t \/ x = "qid2vec")
         /\ IsWriter(thr[th].op) /\ x \notin {"hw", "credit"}
<1>1. /\ thr[th] \in Calls /\ GoodCall(thr[th]) /\ conf \in Configs
      /\ Item(th) = thr[th].todo[1] /\ thr[th].todo \in Seq(Items)
  BY DEF Types, CallInv, Item, Calls
<1>2. Opcode(Item(th)[2]) = "WR" /\ Sel(Item(th)[1], thr[th].t) = Sel(x, t)
  BY DEF Writing, Commanded
<1>3. Item(th)[2] = "write"
  BY <1>1, <1>2, OpcodeIs
<1>4. thr[th].op \in {"program", "write"} /\ (IsWriter(thr[th].op) => Fits(Item(th)[1], thr[th].t))
  BY <1>1, <1>3, FirstItem
<1>5. IsWriter(thr[th].op)
  BY <1>4 DEF IsWriter
<1>6. Item(th)[1] = x /\ (thr[th].t = t \/ x = "qid2vec")
  BY <1>1, <1>2, <1>4, <1>5, SelApart
<1>7. Item(th)[1] \notin {"hw", "credit"}
  <2>1. QueueOrder(thr[th].op, thr[th].todo) /\ 1 \in 1 .. Len(thr[th].todo)
    BY <1>1, TailIs DEF GoodCall, TodoOK
  <2>. QED BY <1>1, <1>3, <2>1 DEF QueueOrder
<1>. QED BY <1>3, <1>5, <1>6, <1>7

\* When the software context is next to be written, everything was cleared.
LEMMA WriteIsLast ==
  ASSUME NEW c \in Calls, GoodCall(c), c.pc # "idle", c.todo # <<>>,
         Is(c.todo[1], "sw", "write"), NEW x
  PROVE  ~Has(c.todo, x, "clear") /\ ~Has(Tail(c.todo), "sw", "write")
<1>1. c.todo \in Seq(Items) /\ QueueOrder(c.op, c.todo)
  BY DEF Calls, GoodCall, TodoOK
<1>. DEFINE s == c.todo
            u == Tail(s)
<1>2. /\ \A i \in 1 .. Len(u) : i + 1 \in 2 .. Len(s) /\ u[i] = s[i + 1]
      /\ Len(s) \in Nat /\ 1 \in 1 .. Len(s)
  BY <1>1, TailIs
<1>3. \A i \in 2 .. Len(s) : i \in 1 .. Len(s) /\ 1 < i
  BY <1>2
<1>4. \A i \in 2 .. Len(s) : s[i][2] # "clear" /\ ~Is(s[i], "sw", "write")
  BY <1>1, <1>2, <1>3 DEF QueueOrder
<1>5. \A i \in 1 .. Len(u) : u[i][2] # "clear" /\ ~Is(u[i], "sw", "write")
  BY <1>2, <1>4
<1>. HIDE DEF u
<1>6. ~Has(u, x, "clear") /\ ~Has(u, "sw", "write")
  BY <1>5 DEF Has, Is
<1>7. Has(s, x, "clear") <=> Is(s[1], x, "clear") \/ Has(u, x, "clear")
  BY <1>1, TailHas DEF u
<1>. QED BY <1>6, <1>7 DEF Is, u

\* Loading the data registers keeps FreshInv.
LEMMA LoadFresh ==
  ASSUME Types, CallInv, OneWriter, FreshInv, NEW th \in Threads, Load(th)
  PROVE  FreshInv'
<1>1. /\ conf' = conf /\ store' = store /\ Going(th) /\ lock = None
      /\ thr[th].pc = "next" /\ thr[th].todo # <<>>
      /\ Item(th)[2] \in {"read", "fetch", "write", "clear", "invalidate"}
      /\ thr'[th].todo = thr[th].todo
      /\ \/ thr'[th].pc = "command" /\ cmd.busy /\ cmd' = cmd
         \/ thr'[th].pc = "poll" /\ ~cmd.busy /\ cmd' = Commanded(th)
  BY LoadIs
<1>2. /\ thr[th] \in Calls /\ GoodCall(thr[th]) /\ thr[th].t \in Targets
      /\ thr[th].op \in Ops(thr[th].t) /\ Item(th) = thr[th].todo[1]
      /\ CallFresh(thr[th], cmd, store) /\ Others(th) /\ conf \in Configs
  BY <1>1 DEF Types, CallInv, GoodCall, Item, FreshInv, Going
<1>3. CASE thr'[th].pc = "command" /\ cmd' = cmd
  <2>1. /\ \A t \in Dirs : WriteFresh(t, cmd', store')
        /\ \A u \in Threads \ {th} : CallFresh(thr'[u], cmd', store')
    BY <1>1, <1>2, <1>3, OthersFresh
  <2>2. CallFresh(thr'[th], cmd', store')
    BY <1>1, <1>2, <1>3 DEF CallFresh, Unwritten, HasCleared, Going
  <2>. QED BY <1>1, <2>1, <2>2, FreshSame
<1>4. CASE thr'[th].pc = "poll" /\ ~cmd.busy /\ cmd' = Commanded(th)
  <2>1. cmd'.busy
    BY <1>4 DEF Commanded
  <2>2. ASSUME NEW t \in Dirs, NEW x \in Own, Writing(cmd', Sel(x, t))
        PROVE  /\ Is(thr[th].todo[1], "sw", "write") /\ x = "sw" /\ thr[th].t = t
               /\ IsWriter(thr[th].op)
    <3>1. Fits(x, t)
      BY OwnFits
    <3>2. Writing(Commanded(th), Sel(x, t))
      BY <1>4, <2>2
    <3>3. /\ Item(th)[2] = "write" /\ Item(th)[1] = x /\ (thr[th].t = t \/ x = "qid2vec")
          /\ IsWriter(thr[th].op) /\ x \notin {"hw", "credit"}
      BY <1>1, <3>1, <3>2, CommandedWrite
    <3>. QED BY <1>2, <3>3 DEF Own, Is
  <2>3. ASSUME NEW t \in Dirs PROVE WriteFresh(t, cmd', store')
    <3>1. ASSUME Writing(cmd', Sel("sw", t)), NEW x \in Own PROVE store'[Sel(x, t)] = Cleared
      <4>1. Is(thr[th].todo[1], "sw", "write") /\ thr[th].t = t
        BY <2>2, <3>1 DEF Own
      <4>2. thr[th].op = "program"
        <5>1. thr[th].op \in {"program", "write"}
          BY <1>1, <1>2, <4>1, FirstItem DEF Is
        <5>. QED BY <1>2, <4>1, <5>1, OpsIn
      <4>3. Has(thr[th].todo, "sw", "write")
        BY <1>1, <1>2, <4>1, TailHas DEF Calls
      <4>4. ~Has(thr[th].todo, x, "clear")
        BY <1>1, <1>2, <4>1, WriteIsLast
      <4>5. Unwritten(thr[th]) /\ HasCleared(thr[th], cmd, x)
        BY <1>1, <4>1, <4>2, <4>3, <4>4 DEF Unwritten, HasCleared
      <4>. QED BY <1>1, <1>2, <4>1, <4>5 DEF CallFresh
    <3>2. ~Writing(cmd', Sel("hw", t)) /\ ~Writing(cmd', Sel("credit", t))
      BY <2>2 DEF Own
    <3>. QED BY <3>1, <3>2 DEF WriteFresh
  <2>4. ASSUME NEW u \in Threads \ {th} PROVE CallFresh(thr'[u], cmd', store')
    <3>1. Alike(thr'[u], thr[u]) /\ CallFresh(thr[u], cmd, store) /\ thr[u].pc # "poll"
      BY <1>1, <1>2, OneHolder DEF Others, FreshInv, Holding
    <3>2. CallFresh(thr[u], cmd', store')
      <4>1. ASSUME Unwritten(thr[u]), Writing(cmd', Sel("sw", thr[u].t)) PROVE FALSE
        <5>1. thr[u].t \in Dirs /\ IsWriter(thr[u].op) /\ thr[u].pc # "idle"
          BY <4>1 DEF Unwritten, IsWriter
        <5>2. thr[th].t = thr[u].t /\ IsWriter(thr[th].op)
          BY <2>2, <4>1, <5>1 DEF Own
        <5>3. u \in Writers(thr[th].t) /\ th \in Writers(thr[th].t)
          BY <1>1, <5>1, <5>2 DEF Writers
        <5>. QED BY <1>2, <5>3 DEF OneWriter
      <4>. QED BY <1>1, <3>1, <4>1 DEF CallFresh, HasCleared
    <3>. QED BY <3>1, <3>2, CallFreshAlike
  <2>5. CallFresh(thr'[th], cmd', store')
    <3>1. ASSUME Unwritten(thr'[th])
          PROVE  /\ Unwritten(thr[th]) /\ thr'[th].t = thr[th].t
                 /\ ~Is(thr[th].todo[1], "sw", "write") /\ thr[th].t \in Dirs
      BY <1>1, <1>4, <3>1 DEF Unwritten, Going
    <3>2. ASSUME Unwritten(thr'[th]) PROVE ~Writing(cmd', Sel("sw", thr'[th].t))
      BY <2>2, <3>1, <3>2 DEF Own
    <3>3. ASSUME Unwritten(thr'[th]), NEW x \in Own, HasCleared(thr'[th], cmd', x)
          PROVE  HasCleared(thr[th], cmd, x)
      BY <1>1, <2>1, <3>3 DEF HasCleared
    <3>. QED BY <1>1, <1>2, <3>1, <3>2, <3>3 DEF CallFresh
  <2>. QED BY <1>1, <2>3, <2>4, <2>5, FreshSame
<1>. QED BY <1>1, <1>3, <1>4

\* Giving the command keeps FreshInv.
LEMMA CommandFresh ==
  ASSUME Types, CallInv, FreshInv, NEW th \in Threads, Command(th), ~clobbered'
  PROVE  FreshInv'
<1>1. /\ conf' = conf /\ store' = store /\ Going(th) /\ clobbered' = (clobbered \/ cmd.busy)
      /\ cmd' = Commanded(th) /\ thr[th].pc = "command" /\ thr'[th].pc = "poll"
      /\ thr'[th].todo = thr[th].todo
  BY CommandIs
<1>2. /\ Item(th)[2] \in {"read", "fetch", "write", "clear", "invalidate"}
      /\ Item(th)[2] # "write" /\ Holding(th) /\ Others(th) /\ conf \in Configs
  BY <1>1 DEF CallInv, GoodCall, Item, Holding, Going, Types
<1>3. cmd'.busy /\ cmd'.op # "WR"
  BY <1>1, <1>2, OpcodeIs DEF Commanded
<1>4. \A t \in Dirs : WriteFresh(t, cmd', store')
  BY <1>3 DEF WriteFresh, Writing
<1>5. ASSUME NEW u \in Threads PROVE CallFresh(thr'[u], cmd', store')
  <2>1. /\ CallFresh(thr[u], cmd, store) /\ thr'[u].todo = thr[u].todo /\ thr'[u].t = thr[u].t
        /\ thr'[u].op = thr[u].op /\ thr[u].pc # "poll"
        /\ thr'[u].pc # "idle" => thr[u].pc # "idle"
    <3>1. CASE u = th
      BY <1>1, <3>1 DEF FreshInv, Going
    <3>2. CASE u # th
      BY <1>2, <3>2, OneHolder DEF FreshInv, Others, Alike, Holding
    <3>. QED BY <3>1, <3>2
  <2>. QED BY <1>1, <1>3, <2>1 DEF CallFresh, Unwritten, HasCleared, Writing
<1>. QED BY <1>1, <1>4, <1>5, FreshSame

\* A poll that sees the command done keeps FreshInv.
LEMMA DoneFresh ==
  ASSUME Types, CallInv, FreshInv, NEW th \in Threads, Done(th)
  PROVE  FreshInv'
<1>1. /\ conf' = conf /\ store' = store /\ cmd' = cmd /\ Going(th)
      /\ thr[th].pc = "poll" /\ ~cmd.busy /\ thr'[th].pc = "next"
      /\ thr[th].todo # <<>> /\ thr'[th].todo = Tail(thr[th].todo)
  BY DoneIs
<1>2. /\ thr[th] \in Calls /\ GoodCall(thr[th]) /\ CallFresh(thr[th], cmd, store) /\ Others(th)
      /\ thr[th].todo \in Seq(Items)
  BY <1>1 DEF Types, CallInv, FreshInv, Going, Calls
<1>3. /\ \A t \in Dirs : WriteFresh(t, cmd', store')
      /\ \A u \in Threads \ {th} : CallFresh(thr'[u], cmd', store')
  BY <1>1, <1>2, OthersFresh
<1>4. CallFresh(thr'[th], cmd', store')
  <2>. DEFINE c == thr[th]
              d == thr'[th]
  <2>1. /\ c \in Calls /\ GoodCall(c) /\ CallFresh(c, cmd, store) /\ d.pc = "next"
        /\ c.pc = "poll" /\ d.op = c.op /\ d.t = c.t /\ d.todo = Tail(c.todo) /\ c.todo # <<>>
        /\ c.todo \in Seq(Items)
    BY <1>1, <1>2 DEF Going
  <2>. HIDE DEF c, d
  <2>2. /\ \A x, o : Has(c.todo, x, o) <=> Is(c.todo[1], x, o) \/ Has(d.todo, x, o)
    BY <2>1, TailHas
  <2>3. Has(d.todo, "sw", "write") =>
          Has(c.todo, "sw", "write") /\ ~(c.pc = "poll" /\ Is(c.todo[1], "sw", "write"))
    BY <2>1, <2>2, WriteIsLast
  <2>4. \A x \in Own : ~Has(d.todo, x, "clear") => HasCleared(c, cmd, x)
    BY <1>1, <2>1, <2>2 DEF HasCleared
  <2>5. CallFresh(d, cmd, store)
    BY <1>1, <2>1, <2>3, <2>4, CallFreshOn
  <2>. QED BY <1>1, <2>5 DEF d
<1>. QED BY <1>1, <1>3, <1>4, FreshSame

\* A poll that times out keeps FreshInv.
LEMMA TimeOutFresh ==
  ASSUME Types, CallInv, FreshInv, NEW th \in Threads, TimeOut(th)
  PROVE  FreshInv'
<1>1. /\ conf' = conf /\ store' = store /\ cmd' = cmd /\ Going(th)
      /\ thr[th].pc = "poll" /\ thr'[th].pc = "next" /\ thr[th].todo # <<>>
      /\ \/ /\ Item(th)[1] = "qid2vec" /\ Item(th)[2] \in {"fetch", "write"}
            /\ Item(th)[2] = "write" => thr'[th].todo = Tail(thr[th].todo)
            /\ Item(th)[2] = "fetch" =>
                 /\ Tail(thr[th].todo) # <<>> /\ Is(Tail(thr[th].todo)[1], "qid2vec", "write")
                 /\ thr'[th].todo = Tail(Tail(thr[th].todo))
         \/ thr'[th].todo = <<>>
  BY TimeOutIs
<1>2. /\ thr[th] \in Calls /\ CallFresh(thr[th], cmd, store) /\ Others(th)
      /\ thr[th].todo \in Seq(Items)
  BY <1>1 DEF Types, FreshInv, Going, Calls
<1>3. /\ \A t \in Dirs : WriteFresh(t, cmd', store')
      /\ \A u \in Threads \ {th} : CallFresh(thr'[u], cmd', store')
  BY <1>1, <1>2, OthersFresh
<1>4. CallFresh(thr'[th], cmd', store')
  <2>1. CASE thr'[th].todo = <<>>
    <3>1. ~Has(thr'[th].todo, "sw", "write")
      BY <2>1 DEF Has
    <3>. QED BY <3>1 DEF CallFresh, Unwritten
  <2>2. CASE thr'[th].todo # <<>>
    <3>. DEFINE c == thr[th]
                d == thr'[th]
    <3>1. /\ CallFresh(c, cmd, store) /\ d.pc = "next" /\ c.pc = "poll" /\ d.op = c.op
          /\ d.t = c.t /\ c.todo # <<>> /\ c.todo \in Seq(Items) /\ c.todo[1][1] = "qid2vec"
          /\ \/ d.todo = Tail(c.todo)
             \/ /\ Tail(c.todo) # <<>> /\ Tail(c.todo)[1][1] = "qid2vec"
                /\ d.todo = Tail(Tail(c.todo))
      BY <1>1, <1>2, <2>2 DEF Going, Item, Is
    <3>. HIDE DEF c, d
    <3>2. ASSUME NEW x \in Own, NEW o PROVE Has(c.todo, x, o) <=> Has(d.todo, x, o)
      <4>. DEFINE u == Tail(c.todo)
      <4>1. u \in Seq(Items) /\ (Has(c.todo, x, o) <=> Is(c.todo[1], x, o) \/ Has(u, x, o))
        BY <3>1, TailHas, TailIs
      <4>2. ~Is(c.todo[1], x, o)
        BY <3>1 DEF Is, Own
      <4>3. CASE d.todo = u
        BY <4>1, <4>2, <4>3
      <4>4. CASE u # <<>> /\ u[1][1] = "qid2vec" /\ d.todo = Tail(u)
        <5>1. ~Is(u[1], x, o)
          BY <4>4 DEF Is, Own
        <5>. HIDE DEF u
        <5>2. Has(u, x, o) <=> Is(u[1], x, o) \/ Has(Tail(u), x, o)
          BY <4>1, <4>4, TailHas
        <5>. QED BY <4>1, <4>2, <4>4, <5>1, <5>2
      <4>. QED BY <3>1, <4>3, <4>4
    <3>3. ~Is(c.todo[1], "sw", "write")
      BY <3>1 DEF Is
    <3>4. /\ Has(d.todo, "sw", "write") => Has(c.todo, "sw", "write")
          /\ ~Has(d.todo, "sw", "clear") => ~Has(c.todo, "sw", "clear")
          /\ \A x \in Own : ~Has(d.todo, x, "clear") => HasCleared(c, cmd, x)
      BY <3>2 DEF Own, HasCleared
    <3>5. CallFresh(d, cmd, store)
      BY <3>1, <3>3, <3>4, CallFreshOn
    <3>. QED BY <1>1, <3>5 DEF d
  <2>. QED BY <2>1, <2>2
<1>. QED BY <1>1, <1>3, <1>4, FreshSame

\* A direct access keeps FreshInv.
LEMMA DirectFresh ==
  ASSUME Types, CallInv, FreshInv, NEW th \in Threads, DirectAccess(th)
  PROVE  FreshInv'
<1>1. /\ conf' = conf /\ cmd' = cmd /\ Going(th) /\ thr[th].t = "fmap"
      /\ \/ store' = store
         \/ store' = [store EXCEPT !["TRQ_FMAP"] = Halves(thr[th].tag, thr[th].tag)]
  BY DirectIs
<1>2. \A t \in Dirs : \A x \in Own : store'[Sel(x, t)] = store[Sel(x, t)]
  <2>1. \A t \in Dirs : t \in Targets
    BY DEF Dirs, Targets, QTypes
  <2>2. \A t \in Dirs : \A x \in Own : Sel(x, t) \in Selectors \ {"TRQ_FMAP"}
    BY <2>1, SelIs DEF Types, Own, Dirs, Selectors
  <2>. QED BY <1>1, <2>2 DEF Types
<1>3. /\ \A t \in Dirs : WriteFresh(t, cmd', store')
      /\ \A u \in Threads \ {th} : CallFresh(thr'[u], cmd', store')
  BY <1>1, <1>2, OthersFresh DEF Going
<1>4. CallFresh(thr'[th], cmd', store')
  BY <1>1 DEF CallFresh, Unwritten, Going, Dirs
<1>. QED BY <1>1, <1>3, <1>4, FreshSame

\* Filling or printing the tables keeps FreshInv.
LEMMA TablesFresh ==
  ASSUME Types, CallInv, FreshInv, NEW th \in Threads, Fill(th) \/ PrintTables(th)
  PROVE  FreshInv'
<1>1. /\ conf' = conf /\ store' = store /\ cmd' = cmd /\ Going(th)
      /\ thr[th].pc = "next" /\ thr[th].todo # <<>>
      /\ Item(th)[2] \in {"fill", "print", "reject"}
  BY FillIs, PrintIs
<1>2. thr[th] \in Calls /\ GoodCall(thr[th]) /\ conf \in Configs /\ Item(th) = thr[th].todo[1]
  BY DEF Types, CallInv, Item
<1>3. /\ \A t \in Dirs : WriteFresh(t, cmd', store')
      /\ \A u \in Threads \ {th} : CallFresh(thr'[u], cmd', store')
  BY <1>1, OthersFresh DEF Going
<1>4. thr[th].op = "dump"
  BY <1>1, <1>2, FirstItem
<1>5. CallFresh(thr'[th], cmd', store')
  BY <1>1, <1>4 DEF CallFresh, Unwritten, Going
<1>. QED BY <1>1, <1>3, <1>5, FreshSame

\* A return keeps FreshInv.
LEMMA ReturnFresh ==
  ASSUME Types, CallInv, FreshInv, NEW th \in Threads, Return(th)
  PROVE  FreshInv'
<1>1. conf' = conf /\ store' = store /\ cmd' = cmd /\ Others(th) /\ thr'[th].pc = "idle"
  BY ReturnIs, IdleIn
<1>2. /\ \A t \in Dirs : WriteFresh(t, cmd', store')
      /\ \A u \in Threads \ {th} : CallFresh(thr'[u], cmd', store')
  BY <1>1, OthersFresh
<1>3. CallFresh(thr'[th], cmd', store')
  BY <1>1 DEF CallFresh, Unwritten
<1>. QED BY <1>1, <1>2, <1>3, FreshSame

\* The hardware's execution of a command keeps FreshInv.
LEMMA ExecuteFresh ==
  ASSUME Types, CallInv, FreshInv, FreshStart, Execute
  PROVE  FreshInv' /\ FreshStart'
<1>1. /\ conf' = conf /\ thr' = thr /\ cmd.busy /\ ~cmd'.busy /\ cmd.sel \in Selectors
      /\ \A s \in Selectors :
           store'[s] = IF s # cmd.sel \/ cmd.op = "RD" THEN store[s]
                       ELSE IF cmd.op = "WR" THEN data ELSE Cleared
  BY ExecuteIs
<1>2. /\ conf \in Configs /\ \A t \in Dirs : t \in Targets
  BY DEF Types, Dirs, Targets, QTypes
<1>3. \A t \in Dirs : \A x \in Own : Sel(x, t) \in Selectors
  BY <1>2, SelApart, OwnFits
<1>4. \A t \in Dirs : WriteFresh(t, cmd, store)
  BY DEF FreshInv
<1>5. \A t \in Dirs : WriteFresh(t, cmd', store')
  BY <1>1 DEF WriteFresh, Writing
<1>6. ASSUME NEW u \in Threads PROVE CallFresh(thr'[u], cmd', store')
  <2>1. CallFresh(thr[u], cmd, store) /\ thr'[u] = thr[u]
    BY <1>1 DEF FreshInv
  <2>2. ASSUME Unwritten(thr[u]), NEW x \in Own, HasCleared(thr[u], cmd', x)
        PROVE  store'[Sel(x, thr[u].t)] = Cleared
    <3>. DEFINE t == thr[u].t
    <3>1. t \in Dirs /\ Sel(x, t) \in Selectors
      BY <1>3, <2>2 DEF Unwritten
    <3>2. CASE ~Has(thr[u].todo, x, "clear")
      <4>1. store[Sel(x, t)] = Cleared
        BY <2>1, <2>2, <3>2 DEF CallFresh, HasCleared
      <4>2. ~Writing(cmd, Sel(x, t))
        BY <1>4, <2>1, <2>2, <3>1, <3>2 DEF WriteFresh, CallFresh, Own
      <4>. QED BY <1>1, <3>1, <4>1, <4>2 DEF Writing
    <3>3. CASE thr[u].pc = "poll" /\ Is(thr[u].todo[1], x, "clear")
      <4>1. cmd.sel = Sel(x, t) /\ cmd.op = Opcode("clear")
        BY <3>3 DEF CallInv, Is, Item
      <4>2. cmd.op = "CLR"
        BY <1>2, <4>1, OpcodeIs
      <4>. QED BY <1>1, <3>1, <4>1, <4>2
    <3>. QED BY <2>2, <3>2, <3>3 DEF HasCleared
  <2>. QED BY <1>1, <2>1, <2>2 DEF CallFresh, Writing
<1>7. FreshInv'
  BY <1>1, <1>5, <1>6, FreshSame
<1>8. ASSUME NEW t \in Dirs, ~clobbered', store'[Sel("sw", t)] # Cleared,
             NEW x \in {"hw", "credit"}
      PROVE  store'[Sel(x, t)] \in {Cleared, store'[Sel("sw", t)]}
  <2>1. /\ x \in Own /\ "sw" \in Own /\ Sel(x, t) \in Selectors /\ Sel("sw", t) \in Selectors
        /\ ~Writing(cmd, Sel(x, t))
    BY <1>3, <1>4 DEF Own, WriteFresh
  <2>2. CASE store'[Sel("sw", t)] = store[Sel("sw", t)]
    <3>1. ~clobbered
      BY <1>8, ExecuteIs
    <3>2. store[Sel(x, t)] \in {Cleared, store[Sel("sw", t)]}
      BY <1>8, <2>2, <3>1 DEF FreshStart, Dirs
    <3>3. store'[Sel(x, t)] \in {store[Sel(x, t)], Cleared}
      BY <1>1, <2>1 DEF Writing
    <3>. QED BY <2>2, <3>2, <3>3
  <2>3. CASE store'[Sel("sw", t)] # store[Sel("sw", t)]
    <3>1. Writing(cmd, Sel("sw", t))
      BY <1>1, <1>8, <2>1, <2>3 DEF Writing
    <3>2. store[Sel(x, t)] = Cleared
      BY <1>4, <2>1, <3>1 DEF WriteFresh
    <3>3. store'[Sel(x, t)] = Cleared
      BY <1>1, <2>1, <3>2 DEF Writing
    <3>. QED BY <3>3
  <2>. QED BY <2>2, <2>3
<1>9. FreshStart'
  <2>1. \A c, t : Sel(c, t)' = Sel(c, t)
    BY <1>1, ConfSame
  <2>. QED BY <1>8, <2>1 DEF FreshStart, Dirs
<1>. QED BY <1>7, <1>9

\* The hardware's own use of a queue keeps FreshInv.
LEMMA RunFresh ==
  ASSUME Types, CallInv, FreshInv, FreshStart, NEW t \in Dirs, Run(t)
  PROVE  FreshInv' /\ FreshStart'
<1>1. /\ conf' = conf /\ thr' = thr /\ cmd' = cmd /\ clobbered' = clobbered
      /\ store[Sel("sw", t)] # Cleared
      /\ \A s \in Selectors :
           store'[s] = IF s \in {Sel("hw", t), Sel("credit", t)}
                       THEN store[Sel("sw", t)] ELSE store[s]
  BY RunIs
<1>2. conf \in Configs
  BY DEF Types
<1>3. \A u \in Dirs : \A x \in Own : Sel(x, u) \in Selectors
  BY <1>2, SelApart, OwnFits
<1>4. ASSUME NEW u \in Dirs, NEW x \in Own
      PROVE  /\ u # t \/ x = "sw" => store'[Sel(x, u)] = store[Sel(x, u)]
             /\ u = t /\ x # "sw" => store'[Sel(x, u)] = store[Sel("sw", t)]
  <2>1. Fits(x, u) /\ Fits("hw", t) /\ Fits("credit", t)
    BY OwnFits DEF Own
  <2>2. Sel(x, u) \in {Sel("hw", t), Sel("credit", t)} => u = t /\ x # "sw"
    BY <1>2, <2>1, SelApart
  <2>3. u = t /\ x # "sw" => Sel(x, u) \in {Sel("hw", t), Sel("credit", t)}
    BY DEF Own
  <2>. QED BY <1>1, <1>3, <2>2, <2>3
<1>5. \A u \in Dirs : WriteFresh(u, cmd', store')
  <2>1. ASSUME NEW u \in Dirs, Writing(cmd, Sel("sw", u)), NEW x \in Own
        PROVE  store'[Sel(x, u)] = Cleared
    <3>1. \A y \in Own : store[Sel(y, u)] = Cleared
      BY <2>1 DEF FreshInv, WriteFresh
    <3>2. u # t
      BY <1>1, <3>1 DEF Own
    <3>. QED BY <1>4, <3>1, <3>2
  <2>. QED BY <1>1, <2>1 DEF FreshInv, WriteFresh
<1>6. ASSUME NEW u \in Threads PROVE CallFresh(thr'[u], cmd', store')
  <2>1. /\ CallFresh(thr[u], cmd, store) /\ thr'[u] = thr[u] /\ cmd' = cmd
        /\ thr[u] \in Calls /\ GoodCall(thr[u])
    BY <1>1 DEF FreshInv, CallInv, Types
  <2>2. ASSUME Unwritten(thr[u]), NEW x \in Own, HasCleared(thr[u], cmd, x)
        PROVE  store'[Sel(x, thr[u].t)] = Cleared
    <3>1. thr[u].t \in Dirs /\ store[Sel(x, thr[u].t)] = Cleared
      BY <2>1, <2>2 DEF CallFresh, Unwritten
    <3>2. CASE thr[u].t # t \/ x = "sw"
      BY <1>4, <3>1, <3>2
    <3>3. CASE thr[u].t = t /\ x # "sw"
      <4>1. QueueOrder(thr[u].op, thr[u].todo) /\ thr[u].todo \in Seq(Items)
        BY <2>1, <2>2 DEF GoodCall, TodoOK, Unwritten, Calls
      <4>2. ~Has(thr[u].todo, "sw", "clear")
        <5>1. CASE ~Has(thr[u].todo, x, "clear")
          BY <3>3, <4>1, <5>1 DEF QueueOrder, Own
        <5>2. CASE Is(thr[u].todo[1], x, "clear")
          <6>1. ~Is(thr[u].todo[1], "sw", "clear") /\ Len(thr[u].todo) \in Nat
            BY <3>3, <4>1, <5>2 DEF Is
          <6>2. \A i \in 1 .. Len(thr[u].todo) : i = 1 \/ i \in 2 .. Len(thr[u].todo)
            BY <6>1
          <6>. QED BY <4>1, <6>1, <6>2 DEF QueueOrder, Has
        <5>. QED BY <2>2, <5>1, <5>2 DEF HasCleared
      <4>3. store[Sel("sw", t)] = Cleared
        BY <2>1, <2>2, <3>3, <4>2 DEF CallFresh, HasCleared, Own
      <4>. QED BY <1>1, <4>3
    <3>. QED BY <3>2, <3>3
  <2>. QED BY <2>1, <2>2 DEF CallFresh
<1>7. FreshInv'
  BY <1>1, <1>5, <1>6, FreshSame
<1>8. ASSUME NEW u \in Dirs, ~clobbered', store'[Sel("sw", u)] # Cleared,
             NEW x \in {"hw", "credit"}
      PROVE  store'[Sel(x, u)] \in {Cleared, store'[Sel("sw", u)]}
  <2>1. store'[Sel("sw", u)] = store[Sel("sw", u)] /\ x \in Own
    BY <1>4 DEF Own
  <2>2. CASE u = t
    BY <1>4, <2>1, <2>2
  <2>3. CASE u # t
    <3>1. store[Sel(x, u)] \in {Cleared, store[Sel("sw", u)]}
      BY <1>1, <1>8, <2>1 DEF FreshStart, Dirs
    <3>. QED BY <1>4, <2>1, <2>3, <3>1
  <2>. QED BY <2>2, <2>3
<1>9. FreshStart'
  <2>1. \A c, y : Sel(c, y)' = Sel(c, y)
    BY <1>1, ConfSame
  <2>. QED BY <1>8, <2>1 DEF FreshStart, Dirs
<1>. QED BY <1>7, <1>9

\* The other steps leave the contexts of the queues as they are.
LEMMA StartSame ==
  ASSUME FreshStart, conf' = conf, clobbered => clobbered',
         \A t \in Dirs : \A x \in Own : store'[Sel(x, t)] = store[Sel(x, t)]
  PROVE  FreshStart'
<1>1. \A c, t : Sel(c, t)' = Sel(c, t)
  BY ConfSame
<1>2. \A t \in Dirs : /\ store'[Sel("sw", t)] = store[Sel("sw", t)]
                      /\ store'[Sel("hw", t)] = store[Sel("hw", t)]
                      /\ store'[Sel("credit", t)] = store[Sel("credit", t)]
  BY DEF Own
<1>. QED BY <1>1, <1>2 DEF FreshStart, Dirs

Base == Types /\ CallInv /\ OneWriter /\ CleanInv
Fresh == ~clobbered => FreshInv /\ FreshStart

\* The initial state satisfies Base.
LEMMA BaseInit == Init => Base
<1>. SUFFICES ASSUME Init PROVE Base
  OBVIOUS
<1>1. /\ conf \in Configs /\ store = [s \in Selectors |-> Cleared] /\ data = Cleared
      /\ cmd = [sel |-> None, op |-> None, busy |-> FALSE] /\ entries = <<>>
      /\ thr = [th \in Threads |-> Idle] /\ calls = 0 /\ clobbered = FALSE /\ lost = {}
      /\ last = [t \in Targets |-> [tag |-> 0, ok |-> TRUE]]
  BY DEF Init
<1>2. \A th \in Threads : thr[th] = Idle /\ thr[th].pc = "idle" /\ thr[th].todo = <<>>
  BY <1>1, IdleIn
<1>3. Types
  <2>1. store \in [Selectors -> Pairs] /\ data \in Pairs
    BY <1>1, ClearedIn
  <2>2. thr \in [Threads -> Calls] /\ entries \in Gots
    BY <1>1, IdleIn, NoneGot
  <2>3. /\ cmd \in [sel : Selectors \cup {None}, op : {"WR", "RD", "CLR", "INV", None},
                    busy : BOOLEAN]
        /\ cmd.busy => cmd.sel \in Selectors
    BY <1>1
  <2>4. last \in [Targets -> [tag : Nat, ok : BOOLEAN]]
    BY <1>1
  <2>5. conf \in Configs /\ calls \in Nat /\ clobbered \in BOOLEAN /\ lost \subseteq Dirs
    BY <1>1
  <2>. QED BY <2>1, <2>2, <2>3, <2>4, <2>5 DEF Types
<1>4. CallInv
  BY <1>2, IdleIn DEF CallInv, Holding
<1>5. OneWriter /\ CleanInv
  BY <1>2 DEF OneWriter, CleanInv, Writers, InCall
<1>. QED BY <1>3, <1>4, <1>5 DEF Base

\* The initial state satisfies Fresh.
LEMMA FreshInit == Init => Fresh
<1>. SUFFICES ASSUME Init PROVE FreshInv /\ FreshStart
  BY DEF Fresh
<1>1. /\ conf \in Configs /\ store = [s \in Selectors |-> Cleared] /\ ~cmd.busy
      /\ \A th \in Threads : thr[th].pc = "idle"
  BY IdleIn DEF Init
<1>2. \A t \in Dirs : \A x \in Own : store[Sel(x, t)] = Cleared
  BY <1>1, OwnFits, SelApart
<1>3. FreshInv
  BY <1>1 DEF FreshInv, WriteFresh, Writing, CallFresh, Unwritten
<1>4. FreshStart
  BY <1>2 DEF FreshStart, Own, Dirs
<1>. QED BY <1>3, <1>4

\* Every step keeps Base.
LEMMA BaseNext == Base /\ [Next]_vars => Base'
<1>. SUFFICES ASSUME Base, [Next]_vars PROVE Base'
  OBVIOUS
<1>. USE DEF Base
<1>1. ASSUME NEW th \in Threads, NEW t \in Targets, NEW op, Begin(th, op, t) PROVE Base'
  BY <1>1, BeginIs, BeginCalls, BeginWriters
<1>2. ASSUME NEW th \in Threads, Load(th) PROVE Base'
  <2>1. Types' /\ CallInv'
    BY <1>2, LoadIs, LoadCalls
  <2>2. /\ Going(th) /\ thr[th].pc # "idle" /\ thr'[th].pc # "idle" /\ conf' = conf
        /\ last' = last
    BY <1>2, LoadIs
  <2>. QED BY <2>1, <2>2, GoingWriters
<1>3. ASSUME NEW th \in Threads, Command(th) PROVE Base'
  <2>1. Types' /\ CallInv'
    BY <1>3, CommandIs, CommandCalls
  <2>2. /\ Going(th) /\ thr[th].pc # "idle" /\ thr'[th].pc # "idle" /\ conf' = conf
        /\ last' = last
    BY <1>3, CommandIs
  <2>. QED BY <2>1, <2>2, GoingWriters
<1>4. ASSUME NEW th \in Threads, Done(th) PROVE Base'
  <2>1. Types' /\ CallInv'
    BY <1>4, DoneIs, DoneCalls
  <2>2. /\ Going(th) /\ thr[th].pc # "idle" /\ thr'[th].pc # "idle" /\ conf' = conf
        /\ last' = last
    BY <1>4, DoneIs
  <2>. QED BY <2>1, <2>2, GoingWriters
<1>5. ASSUME NEW th \in Threads, TimeOut(th) PROVE Base'
  <2>1. Types' /\ CallInv'
    BY <1>5, TimeOutIs, TimeOutCalls
  <2>2. /\ Going(th) /\ thr[th].pc # "idle" /\ thr'[th].pc # "idle" /\ conf' = conf
        /\ last' = last
    BY <1>5, TimeOutIs
  <2>. QED BY <2>1, <2>2, GoingWriters
<1>6. ASSUME NEW th \in Threads, DirectAccess(th) PROVE Base'
  <2>1. Types' /\ CallInv'
    BY <1>6, DirectIs, DirectCalls
  <2>2. /\ Going(th) /\ thr[th].pc # "idle" /\ thr'[th].pc # "idle" /\ conf' = conf
        /\ last' = last
    BY <1>6, DirectIs
  <2>. QED BY <2>1, <2>2, GoingWriters
<1>7. ASSUME NEW th \in Threads, Fill(th) PROVE Base'
  <2>1. Types' /\ CallInv'
    BY <1>7, FillIs, FillCalls
  <2>2. /\ Going(th) /\ thr[th].pc # "idle" /\ thr'[th].pc # "idle" /\ conf' = conf
        /\ last' = last
    BY <1>7, FillIs
  <2>. QED BY <2>1, <2>2, GoingWriters
<1>8. ASSUME NEW th \in Threads, PrintTables(th) PROVE Base'
  <2>1. Types' /\ CallInv'
    BY <1>8, PrintIs, PrintCalls
  <2>2. /\ Going(th) /\ thr[th].pc # "idle" /\ thr'[th].pc # "idle" /\ conf' = conf
        /\ last' = last
    BY <1>8, PrintIs
  <2>. QED BY <2>1, <2>2, GoingWriters
<1>9. ASSUME NEW th \in Threads, Return(th) PROVE Base'
  BY <1>9, ReturnIs, ReturnCalls, ReturnWriters
<1>10. ASSUME Execute PROVE Base'
  <2>1. /\ Types' /\ conf' = conf /\ thr' = thr /\ entries' = entries /\ last' = last
        /\ lock' = lock /\ clobbered' = clobbered /\ cmd'.sel = cmd.sel /\ cmd'.op = cmd.op
    BY <1>10, ExecuteIs
  <2>. QED BY <2>1, HardwareCalls, HardwareWriters
<1>11. ASSUME NEW t \in Dirs, Run(t) PROVE Base'
  <2>1. /\ Types' /\ conf' = conf /\ thr' = thr /\ entries' = entries /\ last' = last
        /\ lock' = lock /\ clobbered' = clobbered /\ cmd' = cmd
    BY <1>11, RunIs
  <2>. QED BY <2>1, HardwareCalls, HardwareWriters
<1>12. ASSUME UNCHANGED vars PROVE Base'
  <2>1. /\ conf' = conf /\ thr' = thr /\ entries' = entries /\ last' = last
        /\ lock' = lock /\ clobbered' = clobbered /\ cmd' = cmd /\ store' = store
        /\ data' = data /\ calls' = calls /\ lost' = lost
    BY <1>12 DEF vars
  <2>2. Types'
    BY <2>1 DEF Types
  <2>. QED BY <2>1, <2>2, HardwareCalls, HardwareWriters
<1>. HIDE DEF Base
<1>13. CASE Next
  BY <1>1, <1>2, <1>3, <1>4, <1>5, <1>6, <1>7, <1>8, <1>9, <1>10, <1>11, <1>13 DEF Next, Dirs
<1>. QED BY <1>12, <1>13

\* Steps that leave the contexts of the queues in the hardware as they are
LEMMA StartKept ==
  ASSUME Types, CallInv, FreshStart, NEW th \in Threads,
         \/ \E t \in Targets, op \in CallOps : Begin(th, op, t)
         \/ Load(th) \/ Command(th) \/ Done(th) \/ TimeOut(th) \/ DirectAccess(th)
         \/ Fill(th) \/ PrintTables(th) \/ Return(th)
  PROVE  FreshStart'
<1>1. CASE DirectAccess(th)
  <2>1. /\ conf' = conf /\ clobbered' = clobbered
        /\ \/ store' = store
           \/ store' = [store EXCEPT !["TRQ_FMAP"] = Halves(thr[th].tag, thr[th].tag)]
    BY <1>1, DirectIs
  <2>2. \A t \in Dirs : t \in Targets
    BY DEF Dirs, Targets, QTypes
  <2>3. \A t \in Dirs : \A x \in Own : Sel(x, t) \in Selectors \ {"TRQ_FMAP"}
    BY <2>2, SelIs DEF Types, Own, Dirs, Selectors
  <2>4. \A t \in Dirs : \A x \in Own : store'[Sel(x, t)] = store[Sel(x, t)]
    BY <2>1, <2>3 DEF Types
  <2>. QED BY <2>1, <2>4, StartSame
<1>2. CASE ~DirectAccess(th)
  <2>1. conf' = conf /\ store' = store
    <3>1. CASE \E t \in Targets, op \in CallOps : Begin(th, op, t)
      BY <3>1 DEF Begin
    <3>. QED BY <1>2, <3>1 DEF Load, Command, Done, TimeOut, Fill, PrintTables, Return
  <2>2. clobbered => clobbered'
    <3>1. CASE \E t \in Targets, op \in CallOps : Begin(th, op, t)
      <4>1. clobbered' = clobbered
        BY <3>1 DEF Begin
      <4>. QED BY <4>1
    <3>2. CASE Load(th)
      <4>1. clobbered' = clobbered \/ clobbered' = (clobbered \/ cmd.busy)
        BY <3>2 DEF Load
      <4>. QED BY <4>1
    <3>3. CASE Command(th)
      <4>1. clobbered' = (clobbered \/ cmd.busy)
        BY <3>3 DEF Command
      <4>. QED BY <4>1
    <3>4. CASE Done(th) \/ TimeOut(th) \/ Fill(th) \/ PrintTables(th) \/ Return(th)
      <4>1. clobbered' = clobbered
        BY <3>4 DEF Done, TimeOut, Fill, PrintTables, Return
      <4>. QED BY <4>1
    <3>. QED BY <1>2, <3>1, <3>2, <3>3, <3>4
  <2>. QED BY <2>1, <2>2, StartSame
<1>. QED BY <1>1, <1>2

\* Every step keeps Fresh.
LEMMA FreshNext == Base /\ Fresh /\ [Next]_vars => Fresh'
<1>. SUFFICES ASSUME Base, Fresh, [Next]_vars, ~clobbered' PROVE FreshInv' /\ FreshStart'
  BY DEF Fresh
<1>. USE DEF Base
<1>1. ASSUME ~clobbered, NEW th \in Threads, NEW t \in Targets, NEW op \in CallOps,
             Begin(th, op, t)
      PROVE  FreshInv' /\ FreshStart'
  BY <1>1, BeginFresh, StartKept DEF Fresh
<1>2. ASSUME NEW th \in Threads, Load(th) PROVE FreshInv' /\ FreshStart'
  <2>1. ~clobbered
    <3>1. clobbered' = clobbered \/ clobbered' = (clobbered \/ cmd.busy)
      BY <1>2 DEF Load
    <3>. QED BY <3>1
  <2>. QED BY <1>2, <2>1, LoadFresh, StartKept DEF Fresh
<1>3. ASSUME NEW th \in Threads, Command(th) PROVE FreshInv' /\ FreshStart'
  <2>1. ~clobbered
    <3>1. clobbered' = (clobbered \/ cmd.busy)
      BY <1>3 DEF Command
    <3>. QED BY <3>1
  <2>. QED BY <1>3, <2>1, CommandFresh, StartKept DEF Fresh
<1>4. ASSUME ~clobbered, NEW th \in Threads, Done(th) PROVE FreshInv' /\ FreshStart'
  BY <1>4, DoneFresh, StartKept DEF Fresh
<1>5. ASSUME ~clobbered, NEW th \in Threads, TimeOut(th) PROVE FreshInv' /\ FreshStart'
  BY <1>5, TimeOutFresh, StartKept DEF Fresh
<1>6. ASSUME ~clobbered, NEW th \in Threads, DirectAccess(th) PROVE FreshInv' /\ FreshStart'
  BY <1>6, DirectFresh, StartKept DEF Fresh
<1>7. ASSUME ~clobbered, NEW th \in Threads, Fill(th) \/ PrintTables(th)
      PROVE  FreshInv' /\ FreshStart'
  BY <1>7, TablesFresh, StartKept DEF Fresh
<1>8. ASSUME ~clobbered, NEW th \in Threads, Return(th) PROVE FreshInv' /\ FreshStart'
  BY <1>8, ReturnFresh, StartKept DEF Fresh
<1>9. ASSUME ~clobbered, Execute PROVE FreshInv' /\ FreshStart'
  BY <1>9, ExecuteFresh DEF Fresh
<1>10. ASSUME ~clobbered, NEW t \in Dirs, Run(t) PROVE FreshInv' /\ FreshStart'
  BY <1>10, RunFresh DEF Fresh
<1>11. ASSUME UNCHANGED vars PROVE FreshInv' /\ FreshStart'
  <2>1. /\ conf' = conf /\ store' = store /\ thr' = thr /\ cmd' = cmd
        /\ clobbered' = clobbered
    BY <1>11 DEF vars
  <2>2. ~clobbered
    BY <2>1
  <2>3. FreshInv /\ FreshStart
    BY <2>2 DEF Fresh
  <2>4. FreshInv'
    BY <2>1, <2>3, FreshSame DEF FreshInv
  <2>. QED BY <2>1, <2>3, <2>4, StartSame
<1>. HIDE DEF Base
<1>12. ASSUME Next, NEW th \in Threads, Done(th) \/ TimeOut(th) \/ DirectAccess(th) \/ Fill(th)
                \/ PrintTables(th) \/ Return(th)
       PROVE  ~clobbered
  <2>1. clobbered' = clobbered
    BY <1>12 DEF Done, TimeOut, DirectAccess, Fill, PrintTables, Return
  <2>. QED BY <2>1
<1>13. ASSUME NEW th \in Threads, NEW t, NEW op, Begin(th, op, t) PROVE ~clobbered
  <2>1. clobbered' = clobbered
    BY <1>13 DEF Begin
  <2>. QED BY <2>1
<1>14. ASSUME Execute \/ \E t \in Dirs : Run(t) PROVE ~clobbered
  <2>1. clobbered' = clobbered
    BY <1>14 DEF Execute, Run
  <2>. QED BY <2>1
<1>15. CASE Next
  BY <1>1, <1>2, <1>3, <1>4, <1>5, <1>6, <1>7, <1>8, <1>9, <1>10, <1>12, <1>13, <1>14, <1>15
     DEF Next, Dirs, CallOps
<1>. QED BY <1>11, <1>15

\* Every variable keeps its type.
THEOREM TypeCorrect == Spec => []Types
<1>1. Base => Types
  BY DEF Base
<1>. QED BY <1>1, BaseInit, BaseNext, PTL DEF Spec

\* A queue never runs on the hardware state of an earlier use of its queue
\* id: while its software context is that of one set-up, its hardware and
\* credit contexts are cleared or of that same set-up (xxx_context_clear()
\* and _program() of qdma_context.c, for calls of any number of threads
\* that take turns at hw_prg_lock and whose polls may time out).
THEOREM FreshStartHolds == Spec => []FreshStart
<1>1. Base /\ Fresh => FreshStart
  BY DEF Fresh, FreshStart
<1>. QED BY <1>1, BaseInit, BaseNext, FreshInit, FreshNext, PTL DEF Spec

-----------------------------------------------------------------------------
(***************************************************************************)
(* The inductive invariant, on top of Base.                                *)
(***************************************************************************)
\* What call c writes in its next access
Value(c) ==
  IF c.todo[1][1] = "qid2vec" THEN [c.got["fetched"] EXCEPT ![c.t] = c.tag]
  ELSE Halves(c.tag, c.tag)

\* While a write is pending the data registers hold what is to be written.
Loaded(c, m, d) == c.pc = "poll" /\ m.busy /\ c.todo[1][2] = "write" => d = Value(c)

\* Call c has made its last access to context x ...
Settled(c, m, x) ==
  \/ ~HasCtx(c.todo, x) /\ c.err = 0
  \/ c.pc = "poll" /\ ~m.busy /\ c.todo[1][1] = x /\ ~HasCtx(Tail(c.todo), x)

\* ... and what it has written is in place, ...
CallKept(c, m, hw) ==
  c.pc # "idle" /\ IsWriter(c.op) =>
    \A x \in Held(c.t) : Settled(c, m, x) => hw[Sel(x, c.t)] = Halves(c.tag, c.tag)

\* ... as it is after the call, when no other (w) changes the target's contexts.
TargetKept(t, w, l, hw) ==
  Ops(t) # {} /\ w = {} /\ l.ok =>
    \A x \in Held(t) : hw[Sel(x, t)] = Halves(l.tag, l.tag)

KeptInv ==
  /\ \A th \in Threads : Loaded(thr[th], cmd, data)
  /\ \A th \in Threads : CallKept(thr[th], cmd, store)
  /\ \A t \in Targets : TargetKept(t, Writers(t), last[t], store)

\* Call c failed, is at context x or has yet to come to it.
Mine(c, x) ==
  \/ c.err # 0
  \/ c.pc = "poll" /\ c.todo[1][1] = x
  \/ c.pc # "poll" /\ HasCtx(c.todo, x)

Changing(m, sel) == m.busy /\ m.op # "RD" /\ m.sel = sel

\* A command that is pending on a context is that of the call that changes the
\* context, or of one that failed.
PendingInv ==
  /\ cmd.busy => cmd.sel # "TRQ_FMAP"
  /\ \A t \in Targets : \A x \in Held(t) :
       Ops(t) # {} /\ Changing(cmd, Sel(x, t)) =>
         \/ \E th \in Writers(t) : Mine(thr[th], x)
         \/ Writers(t) = {} /\ ~last[t].ok

-----------------------------------------------------------------------------
(***************************************************************************)
(* What has been written stays in place.                                   *)
(***************************************************************************)
LEMMA KeptSame ==
  ASSUME conf' = conf,
         \A th \in Threads : Loaded(thr'[th], cmd', data'),
         \A th \in Threads : CallKept(thr'[th], cmd', store'),
         \A t \in Targets : TargetKept(t, Writers(t)', last'[t], store')
  PROVE  KeptInv'
<1>1. /\ \A c, t : Sel(c, t)' = Sel(c, t)
      /\ \A t : Ops(t)' = Ops(t) /\ Held(t)' = Held(t)
  BY ConfSame
<1>2. \A c, m, hw : CallKept(c, m, hw)' <=> CallKept(c, m, hw)
  BY <1>1 DEF CallKept
<1>3. \A t, w, l, hw : TargetKept(t, w, l, hw)' <=> TargetKept(t, w, l, hw)
  BY <1>1 DEF TargetKept
<1>4. (\A th \in Threads : Loaded(thr[th], cmd, data))'
  OBVIOUS
<1>5. (\A th \in Threads : CallKept(thr[th], cmd, store))'
  BY <1>2
<1>6. (\A t \in Targets : TargetKept(t, Writers(t), last[t], store))'
  BY <1>3
<1>. QED BY <1>4, <1>5, <1>6 DEF KeptInv

\* The selectors of the contexts a target holds
LEMMA HeldSel ==
  ASSUME conf \in Configs, NEW t \in Targets, Ops(t) # {}, NEW x \in Held(t)
  PROVE  /\ Sel(x, t) \in Selectors /\ x \in Contexts /\ x # "qid2vec"
         /\ \A d \in Dirs : Sel(x, t) \notin {Sel("hw", d), Sel("credit", d)}
         /\ Sel(x, t) = "TRQ_FMAP" => x = "fmap" /\ t = "fmap"
         /\ UsesQid2vec => Sel(x, t) # "FMAP"
         /\ \A y, u : Fits(y, u) /\ Sel(y, u) = Sel(x, t) => y = x /\ u = t
<1>1. Fits(x, t) /\ x \notin {"qid2vec", "hw", "credit"}
  BY HeldFits
<1>2. x \in Contexts \ {"queue"}
  BY <1>1 DEF Fits
<1>3. \A y, u : Fits(y, u) /\ Sel(y, u) = Sel(x, t) => y = x /\ u = t
  BY <1>1, SelApart
<1>4. \A d \in Dirs : Fits("hw", d) /\ Fits("credit", d)
  BY OwnFits DEF Own
<1>5. Sel(x, t) \in Selectors
  BY <1>1, SelApart
<1>6. Sel(x, t) = "TRQ_FMAP" => x = "fmap" /\ t = "fmap"
  BY <1>1, <1>2, SelIs DEF Fits, Contexts
<1>7. UsesQid2vec => Sel(x, t) # "FMAP"
  BY <1>1, <1>2, SelIs DEF Fits, Contexts, UsesQid2vec
<1>. QED BY <1>1, <1>2, <1>3, <1>4, <1>5, <1>6, <1>7

\* The calls of the other threads
LEMMA OthersKept ==
  ASSUME KeptInv, NEW th \in Threads, Others(th), NEW m, NEW d, NEW hw,
         \A u \in Threads \ {th} : Holding(u) => m = cmd /\ d = data,
         \A u \in Threads \ {th} : thr[u].pc # "idle" /\ IsWriter(thr[u].op) =>
           \A x \in Held(thr[u].t) : hw[Sel(x, thr[u].t)] = store[Sel(x, thr[u].t)]
  PROVE  \A u \in Threads \ {th} : Loaded(thr'[u], m, d) /\ CallKept(thr'[u], m, hw)
<1>1. ASSUME NEW u \in Threads \ {th} PROVE Loaded(thr'[u], m, d) /\ CallKept(thr'[u], m, hw)
  <2>1. Alike(thr'[u], thr[u]) /\ (thr[u].pc = "poll" => m = cmd /\ d = data)
    BY DEF Others, Holding
  <2>2. Loaded(thr[u], cmd, data) /\ CallKept(thr[u], cmd, store)
    BY DEF KeptInv
  <2>3. Loaded(thr'[u], m, d)
    BY <2>1, <2>2 DEF Loaded, Alike, Value
  <2>4. \A x : Settled(thr'[u], m, x) => Settled(thr[u], cmd, x)
    BY <2>1 DEF Settled, Alike
  <2>5. CallKept(thr'[u], m, hw)
    BY <2>1, <2>2, <2>4 DEF CallKept, Alike
  <2>. QED BY <2>3, <2>5
<1>. QED BY <1>1

\* A step of a call that leaves the contexts as they are
LEMMA GoingKept ==
  ASSUME Types, CallInv, KeptInv, conf' = conf, last' = last, store' = store,
         NEW th \in Threads, Going(th), thr[th].pc # "idle", thr'[th].pc # "idle",
         \A u \in Threads \ {th} : Holding(u) => cmd' = cmd /\ data' = data,
         Loaded(thr'[th], cmd', data'),
         IsWriter(thr[th].op) =>
           \A x \in Held(thr[th].t) : Settled(thr'[th], cmd', x) => Settled(thr[th], cmd, x)
  PROVE  KeptInv'
<1>1. \A u \in Threads \ {th} : Loaded(thr'[u], cmd', data') /\ CallKept(thr'[u], cmd', store')
  BY OthersKept DEF Going
<1>2. CallKept(thr[th], cmd, store)
  BY DEF KeptInv
<1>3. CallKept(thr'[th], cmd', store')
  BY <1>2 DEF CallKept, Going
<1>4. \A t : Writers(t)' = Writers(t)
  BY WritersGoing
<1>5. \A t \in Targets : TargetKept(t, Writers(t)', last'[t], store')
  BY <1>4 DEF KeptInv
<1>. QED BY <1>1, <1>3, <1>5, KeptSame

\* Loading the data registers keeps KeptInv.
LEMMA LoadKept ==
  ASSUME Types, CallInv, KeptInv, NEW th \in Threads, Load(th)
  PROVE  KeptInv'
<1>1. /\ conf' = conf /\ store' = store /\ last' = last /\ Going(th) /\ lock = None
      /\ thr[th].pc = "next" /\ thr'[th].todo = thr[th].todo /\ thr'[th].got = thr[th].got
      /\ thr'[th].err = thr[th].err
      /\ \/ thr'[th].pc = "command"
         \/ thr'[th].pc = "poll" /\ cmd' = Commanded(th)
      /\ Item(th)[2] = "write" => data' = WriteValue(th)
  BY LoadIs
<1>2. \A u \in Threads : ~Holding(u)
  BY <1>1, OneHolder
<1>3. Loaded(thr'[th], cmd', data')
  BY <1>1 DEF Loaded, Value, WriteValue, Item, Going
<1>4. \A x : Settled(thr'[th], cmd', x) => Settled(thr[th], cmd, x)
  BY <1>1 DEF Settled, Commanded
<1>. QED BY <1>1, <1>2, <1>3, <1>4, GoingKept

\* Giving the command keeps KeptInv.
LEMMA CommandKept ==
  ASSUME Types, CallInv, KeptInv, NEW th \in Threads, Command(th), ~clobbered'
  PROVE  KeptInv'
<1>1. /\ conf' = conf /\ store' = store /\ last' = last /\ Going(th)
      /\ thr[th].pc = "command" /\ thr'[th].pc = "poll" /\ cmd' = Commanded(th)
      /\ thr'[th].todo = thr[th].todo /\ thr'[th].err = thr[th].err
      /\ clobbered' = (clobbered \/ cmd.busy)
  BY CommandIs
<1>2. Item(th)[2] # "write" /\ Holding(th)
  BY <1>1 DEF CallInv, Holding
<1>3. \A u \in Threads \ {th} : ~Holding(u)
  BY <1>2, OneHolder
<1>4. Loaded(thr'[th], cmd', data')
  BY <1>1, <1>2 DEF Loaded, Item
<1>5. \A x : Settled(thr'[th], cmd', x) => Settled(thr[th], cmd, x)
  BY <1>1 DEF Settled, Commanded
<1>. QED BY <1>1, <1>3, <1>4, <1>5, GoingKept

\* A poll that sees the command done keeps KeptInv.
LEMMA DoneKept ==
  ASSUME Types, CallInv, KeptInv, NEW th \in Threads, Done(th)
  PROVE  KeptInv'
<1>1. /\ conf' = conf /\ store' = store /\ last' = last /\ data' = data /\ cmd' = cmd
      /\ Going(th) /\ thr[th].pc = "poll" /\ ~cmd.busy /\ thr'[th].pc = "next"
      /\ thr[th].todo # <<>> /\ thr'[th].todo = Tail(thr[th].todo)
      /\ thr'[th].err = thr[th].err
  BY DoneIs
<1>2. thr[th].todo \in Seq(Items)
  BY DEF Types, Calls
<1>3. Loaded(thr'[th], cmd', data')
  BY <1>1 DEF Loaded
<1>4. \A x : HasCtx(thr[th].todo, x) <=> thr[th].todo[1][1] = x \/ HasCtx(Tail(thr[th].todo), x)
  BY <1>1, <1>2, TailHas
<1>5. \A x : Settled(thr'[th], cmd', x) => Settled(thr[th], cmd, x)
  BY <1>1, <1>4 DEF Settled
<1>. QED BY <1>1, <1>3, <1>5, GoingKept

\* A poll that times out keeps KeptInv.
LEMMA TimeOutKept ==
  ASSUME Types, CallInv, KeptInv, NEW th \in Threads, TimeOut(th)
  PROVE  KeptInv'
<1>1. /\ conf' = conf /\ store' = store /\ last' = last /\ data' = data /\ cmd' = cmd
      /\ Going(th) /\ thr[th].pc = "poll" /\ cmd.busy /\ thr'[th].pc = "next"
      /\ thr[th].todo # <<>>
      /\ \/ /\ Item(th)[1] = "qid2vec" /\ Item(th)[2] \in {"fetch", "write"}
            /\ thr'[th].err = thr[th].err
            /\ Item(th)[2] = "write" => thr'[th].todo = Tail(thr[th].todo)
            /\ Item(th)[2] = "fetch" =>
                 /\ Tail(thr[th].todo) # <<>> /\ Is(Tail(thr[th].todo)[1], "qid2vec", "write")
                 /\ thr'[th].todo = Tail(Tail(thr[th].todo))
         \/ thr'[th].err # 0
  BY TimeOutIs
<1>2. thr[th].todo \in Seq(Items) /\ conf \in Configs /\ GoodCall(thr[th])
  BY DEF Types, Calls, CallInv
<1>3. Loaded(thr'[th], cmd', data')
  BY <1>1 DEF Loaded
<1>4. \A x \in Held(thr[th].t) : x # "qid2vec"
  BY <1>1, <1>2, HeldFits DEF GoodCall
<1>5. ASSUME NEW x, x # "qid2vec", Settled(thr'[th], cmd', x)
      PROVE  Settled(thr[th], cmd, x)
  <2>1. thr'[th].err = 0 /\ thr[th].err = 0 /\ ~HasCtx(thr'[th].todo, x) /\ Item(th)[1] = "qid2vec"
    BY <1>1, <1>5 DEF Settled
  <2>. DEFINE s == thr[th].todo
              u == Tail(s)
  <2>2. s # <<>> /\ u \in Seq(Items) /\ s[1][1] # x
    BY <1>1, <1>2, <1>5, <2>1, TailIs DEF Item
  <2>3. HasCtx(s, x) <=> HasCtx(u, x)
    BY <1>2, <2>2, TailHas
  <2>4. CASE thr'[th].todo = u
    BY <2>1, <2>3, <2>4 DEF Settled
  <2>5. CASE u # <<>> /\ Is(u[1], "qid2vec", "write") /\ thr'[th].todo = Tail(u)
    <3>1. u[1][1] # x
      BY <1>5, <2>5 DEF Is
    <3>. HIDE DEF u
    <3>2. HasCtx(u, x) <=> u[1][1] = x \/ HasCtx(Tail(u), x)
      BY <2>2, <2>5, TailHas
    <3>3. ~HasCtx(s, x)
      BY <2>1, <2>3, <2>5, <3>1, <3>2
    <3>. QED BY <2>1, <3>3 DEF Settled
  <2>. QED BY <1>1, <2>1, <2>4, <2>5
<1>. QED BY <1>1, <1>3, <1>4, <1>5, GoingKept

\* Filling or printing the tables keeps KeptInv.
LEMMA TablesKept ==
  ASSUME Types, CallInv, KeptInv, NEW th \in Threads, Fill(th) \/ PrintTables(th)
  PROVE  KeptInv'
<1>1. /\ conf' = conf /\ store' = store /\ last' = last /\ data' = data /\ cmd' = cmd
      /\ Going(th) /\ thr[th].pc = "next" /\ thr'[th].pc = "next" /\ thr[th].todo # <<>>
      /\ Item(th)[2] \in {"fill", "print", "reject"}
  BY FillIs, PrintIs
<1>2. thr[th] \in Calls /\ GoodCall(thr[th]) /\ conf \in Configs /\ Item(th) = thr[th].todo[1]
  BY DEF Types, CallInv, Item
<1>3. ~IsWriter(thr[th].op)
  BY <1>1, <1>2, FirstItem
<1>4. Loaded(thr'[th], cmd', data')
  BY <1>1 DEF Loaded
<1>. QED BY <1>1, <1>3, <1>4, GoingKept

\* The function map in its own register
LEMMA DirectKept ==
  ASSUME Types, CallInv, KeptInv, OneWriter, NEW th \in Threads, DirectAccess(th)
  PROVE  KeptInv'
<1>1. /\ conf' = conf /\ last' = last /\ data' = data /\ cmd' = cmd
      /\ Going(th) /\ thr[th].pc = "next" /\ thr'[th].pc = "next" /\ thr[th].todo # <<>>
      /\ thr'[th].todo = Tail(thr[th].todo) /\ thr'[th].err = thr[th].err
      /\ Item(th)[1] = "fmap" /\ thr[th].t = "fmap"
      /\ Item(th)[2] = "read" => store' = store
      /\ Item(th)[2] # "read" =>
           /\ IsWriter(thr[th].op)
           /\ store' = [store EXCEPT !["TRQ_FMAP"] = Halves(thr[th].tag, thr[th].tag)]
      /\ conf.ip = "s80"
  BY DirectIs
<1>2. /\ thr[th] \in Calls /\ GoodCall(thr[th]) /\ conf \in Configs /\ Item(th) = thr[th].todo[1]
      /\ store \in [Selectors -> Pairs]
  BY DEF Types, CallInv, Item
<1>3. Loaded(thr'[th], cmd', data') /\ Others(th)
  BY <1>1 DEF Loaded, Going
<1>4. CASE Item(th)[2] = "read"
  <2>1. ~IsWriter(thr[th].op)
    BY <1>1, <1>2, <1>4, FirstItem
  <2>. QED BY <1>1, <1>3, <1>4, <2>1, GoingKept
<1>5. CASE Item(th)[2] # "read"
  <2>1. th \in Writers("fmap")
    BY <1>1, <1>5 DEF Writers
  <2>2. ASSUME NEW t \in Targets, t # "fmap", Ops(t) # {}, NEW x \in Held(t)
        PROVE  store'[Sel(x, t)] = store[Sel(x, t)]
    <3>1. Sel(x, t) # "TRQ_FMAP" /\ Sel(x, t) \in Selectors
      BY <1>2, <2>2, HeldSel
    <3>. QED BY <1>1, <1>2, <1>5, <3>1
  <2>3. ASSUME NEW u \in Threads \ {th}, thr[u].pc # "idle", IsWriter(thr[u].op)
        PROVE  thr[u].t \in Targets /\ thr[u].t # "fmap" /\ Ops(thr[u].t) # {}
    <3>1. thr[u].t \in Targets /\ thr[u].op \in Ops(thr[u].t)
      BY <2>3 DEF CallInv, GoodCall
    <3>2. u \in Writers(thr[u].t)
      BY <2>3 DEF Writers
    <3>. QED BY <2>1, <3>1, <3>2 DEF OneWriter
  <2>4. \A u \in Threads \ {th} : Loaded(thr'[u], cmd', data') /\ CallKept(thr'[u], cmd', store')
    BY <1>1, <1>3, <2>2, <2>3, OthersKept
  <2>5. CallKept(thr'[th], cmd', store')
    <3>1. Held("fmap") = {"fmap"} /\ Sel("fmap", "fmap") = "TRQ_FMAP"
      BY <1>1, <1>2, SelIs DEF Held, Targets, QTypes
    <3>2. store'["TRQ_FMAP"] = Halves(thr[th].tag, thr[th].tag)
      BY <1>1, <1>2, <1>5 DEF Selectors
    <3>. QED BY <1>1, <3>1, <3>2 DEF CallKept, Going
  <2>6. \A t : Writers(t)' = Writers(t)
    BY <1>1, WritersGoing
  <2>7. \A t \in Targets : TargetKept(t, Writers(t)', last'[t], store')
    BY <1>1, <2>1, <2>2, <2>6 DEF TargetKept, KeptInv
  <2>. QED BY <1>1, <1>3, <2>4, <2>5, <2>7, KeptSame
<1>. QED BY <1>4, <1>5

\* Beginning a call keeps KeptInv.
LEMMA BeginKept ==
  ASSUME Types, CallInv, KeptInv, NEW th \in Threads, NEW t \in Targets, NEW op,
         Begin(th, op, t)
  PROVE  KeptInv'
<1>1. /\ conf' = conf /\ store' = store /\ last' = last /\ data' = data /\ cmd' = cmd
      /\ Others(th) /\ thr[th].pc = "idle" /\ op \in Ops(t)
      /\ thr'[th].pc = "next" /\ thr'[th].op = op /\ thr'[th].t = t
      /\ thr'[th].todo = Script(op, t)
  BY BeginIs
<1>2. ListOK(op, t, Script(op, t))
  BY <1>1, ScriptOK DEF Types
<1>3. \A u \in Threads \ {th} : Loaded(thr'[u], cmd', data') /\ CallKept(thr'[u], cmd', store')
  BY <1>1, OthersKept
<1>4. Loaded(thr'[th], cmd', data') /\ CallKept(thr'[th], cmd', store')
  BY <1>1, <1>2 DEF Loaded, CallKept, Settled, ListOK, WholeOK
<1>5. \A x : Writers(x) \subseteq Writers(x)'
  BY <1>1, WritersBegin
<1>6. \A x \in Targets : TargetKept(x, Writers(x)', last'[x], store')
  BY <1>1, <1>5 DEF TargetKept, KeptInv
<1>. QED BY <1>1, <1>3, <1>4, <1>6, KeptSame

\* What a call that returns leaves behind
LEMMA Returns ==
  ASSUME Types, CallInv, NEW th \in Threads, Return(th), IsWriter(thr[th].op)
  PROVE  last'[thr[th].t].tag = thr[th].tag /\ (last'[thr[th].t].ok <=> thr[th].err = 0)
<1>1. /\ last' = [last EXCEPT ![thr[th].t] = [tag |-> thr[th].tag, ok |-> thr[th].err = 0]]
      /\ thr[th].pc = "next"
  BY ReturnIs
<1>2. last \in [Targets -> [tag : Nat, ok : BOOLEAN]] /\ thr[th].t \in Targets
  BY <1>1 DEF Types, CallInv, GoodCall
<1>. DEFINE l == last'[thr[th].t]
<1>3. l = [tag |-> thr[th].tag, ok |-> thr[th].err = 0]
  BY <1>1, <1>2
<1>. HIDE DEF l
<1>4. CASE thr[th].err = 0
  <2>1. l = [tag |-> thr[th].tag, ok |-> TRUE]
    BY <1>3, <1>4
  <2>. QED BY <1>4, <2>1 DEF l
<1>5. CASE thr[th].err # 0
  <2>1. l = [tag |-> thr[th].tag, ok |-> FALSE]
    BY <1>3, <1>5
  <2>. QED BY <1>5, <2>1 DEF l
<1>. QED BY <1>4, <1>5

\* A return keeps KeptInv.
LEMMA ReturnKept ==
  ASSUME Types, CallInv, KeptInv, OneWriter, NEW th \in Threads, Return(th)
  PROVE  KeptInv'
<1>1. /\ conf' = conf /\ store' = store /\ data' = data /\ cmd' = cmd /\ Others(th)
      /\ thr[th].pc = "next" /\ thr[th].todo = <<>> /\ thr'[th].pc = "idle"
      /\ IsWriter(thr[th].op) =>
           last' = [last EXCEPT ![thr[th].t] = [tag |-> thr[th].tag, ok |-> thr[th].err = 0]]
      /\ ~IsWriter(thr[th].op) => last' = last
  BY ReturnIs, IdleIn
<1>2. \A u \in Threads \ {th} : Loaded(thr'[u], cmd', data') /\ CallKept(thr'[u], cmd', store')
  BY <1>1, OthersKept
<1>3. Loaded(thr'[th], cmd', data') /\ CallKept(thr'[th], cmd', store')
  BY <1>1 DEF Loaded, CallKept
<1>4. \A x : Writers(x)' = Writers(x) \ {th}
  BY <1>1, WritersReturn
<1>5. CallKept(thr[th], cmd, store) /\ \A x : ~HasCtx(thr[th].todo, x)
  BY <1>1 DEF KeptInv, HasCtx
<1>6. /\ last \in [Targets -> [tag : Nat, ok : BOOLEAN]] /\ thr[th].t \in Targets
  BY <1>1 DEF Types, CallInv, GoodCall
<1>7. ASSUME NEW t \in Targets PROVE TargetKept(t, Writers(t)', last'[t], store')
  <2>1. TargetKept(t, Writers(t), last[t], store)
    BY DEF KeptInv
  <2>2. CASE IsWriter(thr[th].op) /\ thr[th].t = t
    <3>1. last'[t].tag = thr[th].tag /\ (last'[t].ok <=> thr[th].err = 0)
      BY <2>2, Returns
    <3>. QED BY <1>1, <1>5, <2>2, <3>1 DEF TargetKept, CallKept, Settled
  <2>3. CASE ~(IsWriter(thr[th].op) /\ thr[th].t = t)
    <3>1. th \notin Writers(t)
      BY <2>3 DEF Writers
    <3>2. Writers(t)' = Writers(t) /\ last'[t] = last[t]
      BY <1>1, <1>4, <1>6, <2>3, <3>1
    <3>. QED BY <1>1, <2>1, <3>2
  <2>. QED BY <2>2, <2>3
<1>. QED BY <1>1, <1>2, <1>3, <1>7, KeptSame

\* The hardware's own use of a queue keeps KeptInv.
LEMMA RunKept ==
  ASSUME Types, CallInv, KeptInv, NEW d \in Dirs, Run(d)
  PROVE  KeptInv'
<1>1. /\ conf' = conf /\ thr' = thr /\ last' = last /\ cmd' = cmd /\ data' = data
      /\ \A s \in Selectors \ {Sel("hw", d), Sel("credit", d)} : store'[s] = store[s]
  BY RunIs
<1>2. ASSUME NEW t \in Targets, Ops(t) # {}, NEW x \in Held(t)
      PROVE  store'[Sel(x, t)] = store[Sel(x, t)]
  BY <1>1, <1>2, HeldSel DEF Types
<1>3. \A th \in Threads : Loaded(thr'[th], cmd', data')
  BY <1>1 DEF KeptInv
<1>4. ASSUME NEW th \in Threads PROVE CallKept(thr'[th], cmd', store')
  <2>1. CallKept(thr[th], cmd, store)
    BY DEF KeptInv
  <2>2. thr[th].pc # "idle" => thr[th].t \in Targets /\ Ops(thr[th].t) # {}
    BY DEF CallInv, GoodCall
  <2>. QED BY <1>1, <1>2, <2>1, <2>2 DEF CallKept
<1>5. \A t : Writers(t)' = Writers(t)
  BY <1>1 DEF Writers
<1>6. \A t \in Targets : TargetKept(t, Writers(t)', last'[t], store')
  BY <1>1, <1>2, <1>5 DEF TargetKept, KeptInv
<1>. QED BY <1>1, <1>3, <1>4, <1>6, KeptSame

\* A set-up's last access to a context it holds is its writing.
LEMMA LastIsWrite ==
  ASSUME NEW op, NEW t, NEW s \in Seq(Items), s # <<>>, TodoOK(op, t, s),
         s[1][1] \in Held(t), s[1][2] # "write", ~HasCtx(Tail(s), s[1][1])
  PROVE  op \notin {"program", "write"}
<1>. SUFFICES ASSUME op \in {"program", "write"} PROVE FALSE
  OBVIOUS
<1>. DEFINE u == Tail(s)
<1>1. /\ 1 \in 1 .. Len(s) /\ Len(s) \in Nat /\ Len(u) = Len(s) - 1
      /\ \A i \in 1 .. Len(u) : u[i] = s[i + 1]
  BY TailIs
<1>2. PICK j \in 1 .. Len(s) : 1 < j /\ Is(s[j], s[1][1], "write")
  BY <1>1 DEF TodoOK, WritesLast
<1>. HIDE DEF u
<1>3. j - 1 \in 1 .. Len(u) /\ u[j - 1] = s[j]
  BY <1>1, <1>2
<1>4. HasCtx(u, s[1][1])
  BY <1>2, <1>3 DEF HasCtx, Is
<1>. QED BY <1>4 DEF u

\* The hardware's execution of a command keeps KeptInv.
LEMMA ExecuteKept ==
  ASSUME Types, CallInv, OneWriter, KeptInv, PendingInv, Execute
  PROVE  KeptInv'
<1>1. /\ conf' = conf /\ thr' = thr /\ last' = last /\ cmd.busy /\ ~cmd'.busy
      /\ cmd.sel \in Selectors
      /\ \A s \in Selectors :
           store'[s] = IF s # cmd.sel \/ cmd.op = "RD" THEN store[s]
                       ELSE IF cmd.op = "WR" THEN data ELSE Cleared
  BY ExecuteIs
<1>2. conf \in Configs
  BY DEF Types
<1>3. \A th \in Threads : Loaded(thr'[th], cmd', data')
  BY <1>1 DEF Loaded
<1>4. ASSUME NEW th \in Threads PROVE CallKept(thr'[th], cmd', store')
  <2>. DEFINE c == thr[th]
  <2>. SUFFICES ASSUME c.pc # "idle", IsWriter(c.op), NEW x \in Held(c.t), Settled(c, cmd', x)
                PROVE  store'[Sel(x, c.t)] = Halves(c.tag, c.tag)
    BY <1>1 DEF CallKept
  <2>1. /\ c \in Calls /\ GoodCall(c) /\ c.t \in Targets /\ Ops(c.t) # {} /\ th \in Writers(c.t)
        /\ TodoOK(c.op, c.t, c.todo)
    BY DEF Types, CallInv, GoodCall, Writers
  <2>2. Sel(x, c.t) \in Selectors /\ x # "qid2vec"
    BY <1>2, <2>1, HeldSel
  <2>3. CASE ~HasCtx(c.todo, x) /\ c.err = 0
    <3>1. store[Sel(x, c.t)] = Halves(c.tag, c.tag)
      BY <2>3 DEF KeptInv, CallKept, Settled
    <3>2. c.todo # <<>> => HasCtx(c.todo, c.todo[1][1])
      BY <2>1, TailHas DEF Calls
    <3>3. c.pc = "poll" => c.todo # <<>>
      BY <2>1 DEF GoodCall
    <3>4. ~Mine(c, x)
      BY <2>3, <3>2, <3>3 DEF Mine
    <3>5. ~Changing(cmd, Sel(x, c.t))
      BY <2>1, <3>4 DEF PendingInv, OneWriter
    <3>. QED BY <1>1, <2>2, <3>1, <3>5 DEF Changing
  <2>4. CASE c.pc = "poll" /\ c.todo[1][1] = x /\ ~HasCtx(Tail(c.todo), x)
    <3>1. /\ cmd.sel = Sel(x, c.t) /\ cmd.op = Opcode(c.todo[1][2]) /\ c.todo # <<>>
      BY <2>1, <2>4 DEF CallInv, Item, GoodCall
    <3>2. c.todo[1][2] \in {"clear", "invalidate", "write"}
      BY <1>2, <2>1, <2>2, <2>4, <3>1, FirstItem
    <3>3. CASE c.todo[1][2] = "write"
      <4>1. data = Halves(c.tag, c.tag)
        BY <1>1, <2>2, <2>4, <3>3 DEF KeptInv, Loaded, Value
      <4>2. cmd.op = "WR"
        BY <1>2, <3>1, <3>3, OpcodeIs
      <4>. QED BY <1>1, <2>2, <3>1, <4>1, <4>2
    <3>4. CASE c.todo[1][2] # "write"
      <4>1. c.op \notin {"program", "write"}
        BY <2>1, <2>4, <3>1, <3>4, LastIsWrite DEF Calls
      <4>2. c.tag = 0
        BY <2>1, <4>1 DEF GoodCall
      <4>3. cmd.op \in {"CLR", "INV"}
        BY <1>2, <3>1, <3>2, <3>4, OpcodeIs
      <4>4. store'[Sel(x, c.t)] = Cleared
        BY <1>1, <2>2, <3>1, <4>3
      <4>. QED BY <4>2, <4>4 DEF Cleared
    <3>. QED BY <3>3, <3>4
  <2>. QED BY <2>3, <2>4 DEF Settled
<1>5. \A t : Writers(t)' = Writers(t)
  BY <1>1 DEF Writers
<1>6. ASSUME NEW t \in Targets PROVE TargetKept(t, Writers(t)', last'[t], store')
  <2>. SUFFICES ASSUME Ops(t) # {}, Writers(t) = {}, last[t].ok, NEW x \in Held(t)
                PROVE  store'[Sel(x, t)] = Halves(last[t].tag, last[t].tag)
    BY <1>1, <1>5 DEF TargetKept
  <2>1. store[Sel(x, t)] = Halves(last[t].tag, last[t].tag)
    BY DEF KeptInv, TargetKept
  <2>2. ~Changing(cmd, Sel(x, t))
    BY DEF PendingInv
  <2>3. Sel(x, t) \in Selectors
    BY <1>2, HeldSel
  <2>. QED BY <1>1, <2>1, <2>2, <2>3 DEF Changing
<1>. QED BY <1>1, <1>3, <1>4, <1>6, KeptSame

-----------------------------------------------------------------------------
(***************************************************************************)
(* Whose the pending command is.                                           *)
(***************************************************************************)
LEMMA PendingSame ==
  ASSUME conf' = conf,
         cmd'.busy => cmd'.sel # "TRQ_FMAP",
         \A t \in Targets : \A x \in Held(t) :
           Ops(t) # {} /\ Changing(cmd', Sel(x, t)) =>
             \/ \E th \in Writers(t)' : Mine(thr'[th], x)
             \/ Writers(t)' = {} /\ ~last'[t].ok
  PROVE  PendingInv'
<1>1. /\ \A c, t : Sel(c, t)' = Sel(c, t)
      /\ \A t : Ops(t)' = Ops(t) /\ Held(t)' = Held(t)
  BY ConfSame
<1>. QED BY <1>1 DEF PendingInv

\* A step of a call that leaves the command register as it is
LEMMA GoingPending ==
  ASSUME Types, CallInv, PendingInv, conf' = conf, last' = last, cmd' = cmd,
         NEW th \in Threads, Going(th), thr[th].pc # "idle", thr'[th].pc # "idle",
         IsWriter(thr[th].op) =>
           \A x \in Held(thr[th].t) : Changing(cmd, Sel(x, thr[th].t)) /\ Mine(thr[th], x)
             => Mine(thr'[th], x)
  PROVE  PendingInv'
<1>1. \A t : Writers(t)' = Writers(t)
  BY WritersGoing
<1>2. \A u \in Threads \ {th} : \A x : Mine(thr[u], x) => Mine(thr'[u], x)
  BY DEF Going, Others, Alike, Mine
<1>3. ASSUME NEW t \in Targets, NEW x \in Held(t), Ops(t) # {}, Changing(cmd, Sel(x, t))
      PROVE  \/ \E u \in Writers(t)' : Mine(thr'[u], x)
             \/ Writers(t)' = {} /\ ~last'[t].ok
  <2>1. CASE Writers(t) = {} /\ ~last[t].ok
    BY <1>1, <2>1
  <2>2. ASSUME NEW u \in Writers(t), Mine(thr[u], x) PROVE Mine(thr'[u], x)
    <3>1. u \in Threads /\ thr[u].t = t /\ IsWriter(thr[u].op)
      BY DEF Writers
    <3>2. CASE u = th
      BY <1>3, <2>2, <3>1, <3>2
    <3>3. CASE u # th
      BY <1>2, <2>2, <3>1, <3>3
    <3>. QED BY <3>2, <3>3
  <2>. QED BY <1>1, <1>3, <2>1, <2>2 DEF PendingInv
<1>. QED BY <1>3, PendingSame DEF PendingInv

\* A step that gives a command
LEMMA CommandedPending ==
  ASSUME Types, CallInv, PendingInv, conf' = conf, NEW th \in Threads, Going(th),
         thr[th].pc # "idle", thr[th].todo # <<>>, thr'[th].pc = "poll",
         thr'[th].todo = thr[th].todo, cmd' = Commanded(th),
         Item(th)[2] \in {"read", "fetch", "write", "clear", "invalidate"},
         Sel(Item(th)[1], thr[th].t) # "TRQ_FMAP"
  PROVE  PendingInv'
<1>1. /\ thr[th] \in Calls /\ GoodCall(thr[th]) /\ conf \in Configs /\ Item(th) = thr[th].todo[1]
  BY DEF Types, CallInv, Item
<1>2. \A t : Writers(t)' = Writers(t)
  BY WritersGoing
<1>3. ASSUME NEW t \in Targets, NEW x \in Held(t), Ops(t) # {}, Changing(cmd', Sel(x, t))
      PROVE  \E u \in Writers(t)' : Mine(thr'[u], x)
  <2>1. Opcode(Item(th)[2]) # "RD" /\ Sel(Item(th)[1], thr[th].t) = Sel(x, t)
    BY <1>3 DEF Changing, Commanded
  <2>2. Item(th)[2] \notin {"read", "fetch"}
    BY <1>1, <2>1, OpcodeIs
  <2>3. IsWriter(thr[th].op) /\ Fits(Item(th)[1], thr[th].t)
    BY <1>1, <2>2, FirstItem
  <2>4. Item(th)[1] = x /\ thr[th].t = t
    BY <1>1, <1>3, <2>1, <2>3, HeldSel
  <2>5. th \in Writers(t)
    BY <2>3, <2>4 DEF Writers
  <2>. QED BY <1>1, <1>2, <2>4, <2>5 DEF Mine
<1>4. cmd'.sel # "TRQ_FMAP"
  BY DEF Commanded
<1>. QED BY <1>3, <1>4, PendingSame

\* Loading the data registers keeps PendingInv.
LEMMA LoadPending ==
  ASSUME Types, CallInv, PendingInv, NEW th \in Threads, Load(th)
  PROVE  PendingInv'
<1>1. /\ conf' = conf /\ last' = last /\ Going(th)
      /\ thr[th].pc = "next" /\ thr[th].todo # <<>>
      /\ Item(th)[2] \in {"read", "fetch", "write", "clear", "invalidate"}
      /\ Sel(Item(th)[1], thr[th].t) # "TRQ_FMAP"
      /\ thr'[th].todo = thr[th].todo /\ thr'[th].err = thr[th].err
      /\ \/ thr'[th].pc = "command" /\ cmd.busy /\ cmd' = cmd
         \/ thr'[th].pc = "poll" /\ ~cmd.busy /\ cmd' = Commanded(th)
  BY LoadIs
<1>2. CASE thr'[th].pc = "command" /\ cmd' = cmd
  <2>1. \A x : Mine(thr[th], x) => Mine(thr'[th], x)
    BY <1>1, <1>2 DEF Mine
  <2>. QED BY <1>1, <1>2, <2>1, GoingPending
<1>3. CASE thr'[th].pc = "poll" /\ cmd' = Commanded(th)
  BY <1>1, <1>3, CommandedPending
<1>. QED BY <1>1, <1>2, <1>3

\* Giving the command keeps PendingInv.
LEMMA CommandPending ==
  ASSUME Types, CallInv, PendingInv, NEW th \in Threads, Command(th)
  PROVE  PendingInv'
<1>1. /\ conf' = conf /\ Going(th) /\ thr[th].pc = "command" /\ thr'[th].pc = "poll"
      /\ cmd' = Commanded(th) /\ thr'[th].todo = thr[th].todo
  BY CommandIs
<1>2. /\ thr[th].todo # <<>> /\ Sel(Item(th)[1], thr[th].t) # "TRQ_FMAP"
      /\ Item(th)[2] \in {"read", "fetch", "write", "clear", "invalidate"}
  BY <1>1 DEF CallInv, GoodCall, Item
<1>. QED BY <1>1, <1>2, CommandedPending

\* A poll that times out keeps PendingInv.
LEMMA TimeOutPending ==
  ASSUME Types, CallInv, PendingInv, NEW th \in Threads, TimeOut(th)
  PROVE  PendingInv'
<1>1. /\ conf' = conf /\ last' = last /\ cmd' = cmd /\ Going(th)
      /\ thr[th].pc = "poll" /\ thr'[th].pc = "next"
      /\ \/ Item(th)[1] = "qid2vec" /\ thr'[th].err = thr[th].err
         \/ thr'[th].err # 0
  BY TimeOutIs
<1>2. \A x \in Held(thr[th].t) : x # "qid2vec"
  BY <1>1, HeldFits DEF Types, CallInv, GoodCall
<1>3. \A x \in Held(thr[th].t) : Mine(thr[th], x) => Mine(thr'[th], x)
  BY <1>1, <1>2 DEF Mine, Item
<1>. QED BY <1>1, <1>3, GoingPending

\* A direct access keeps PendingInv.
LEMMA DirectPending ==
  ASSUME Types, CallInv, PendingInv, NEW th \in Threads, DirectAccess(th)
  PROVE  PendingInv'
<1>1. /\ conf' = conf /\ last' = last /\ cmd' = cmd /\ Going(th)
      /\ thr[th].pc = "next" /\ thr'[th].pc = "next" /\ thr[th].t = "fmap" /\ conf.ip = "s80"
  BY DirectIs
<1>2. Held("fmap") = {"fmap"} /\ Sel("fmap", "fmap") = "TRQ_FMAP"
  BY <1>1, SelIs DEF Held, Targets, QTypes, Types
<1>3. \A x \in Held(thr[th].t) : ~Changing(cmd, Sel(x, thr[th].t))
  BY <1>1, <1>2 DEF Changing, PendingInv
<1>. QED BY <1>1, <1>3, GoingPending

\* Filling or printing the tables keeps PendingInv.
LEMMA TablesPending ==
  ASSUME Types, CallInv, PendingInv, NEW th \in Threads, Fill(th) \/ PrintTables(th)
  PROVE  PendingInv'
<1>1. /\ conf' = conf /\ last' = last /\ cmd' = cmd /\ Going(th)
      /\ thr[th].pc = "next" /\ thr'[th].pc = "next" /\ thr[th].todo # <<>>
      /\ Item(th)[2] \in {"fill", "print", "reject"}
  BY FillIs, PrintIs
<1>2. thr[th] \in Calls /\ GoodCall(thr[th]) /\ conf \in Configs /\ Item(th) = thr[th].todo[1]
  BY DEF Types, CallInv, Item
<1>3. ~IsWriter(thr[th].op)
  BY <1>1, <1>2, FirstItem
<1>. QED BY <1>1, <1>3, GoingPending

\* Beginning a call keeps PendingInv.
LEMMA BeginPending ==
  ASSUME Types, CallInv, PendingInv, NEW th \in Threads, NEW t \in Targets, NEW op,
         Begin(th, op, t)
  PROVE  PendingInv'
<1>1. /\ conf' = conf /\ last' = last /\ cmd' = cmd /\ Others(th)
      /\ thr[th].pc = "idle" /\ op \in Ops(t)
      /\ IsWriter(op) => Writers(t) = {}
  BY BeginIs
<1>2. /\ thr'[th].pc = "next" /\ thr'[th].op = op /\ thr'[th].t = t
      /\ thr'[th].todo = Script(op, t)
  BY BeginIs
<1>3. ListOK(op, t, Script(op, t))
  BY <1>1, ScriptOK DEF Types
<1>4. \A x : Writers(x)' = Writers(x) \cup (IF t = x /\ IsWriter(op) THEN {th} ELSE {})
  BY <1>1, <1>2, WritersBegin
<1>5. ASSUME NEW u \in Targets, NEW x \in Held(u), Ops(u) # {}, Changing(cmd, Sel(x, u))
      PROVE  \/ \E v \in Writers(u)' : Mine(thr'[v], x)
             \/ Writers(u)' = {} /\ ~last'[u].ok
  <2>1. CASE u = t /\ IsWriter(op)
    <3>1. HasCtx(Script(op, t), x)
      BY <1>3, <1>5, <2>1 DEF ListOK, WholeOK
    <3>2. Mine(thr'[th], x) /\ th \in Writers(u)'
      BY <1>2, <1>4, <2>1, <3>1 DEF Mine
    <3>. QED BY <3>2
  <2>2. CASE ~(u = t /\ IsWriter(op))
    <3>1. Writers(u)' = Writers(u)
      BY <1>4, <2>2
    <3>2. \A v \in Writers(u) : Mine(thr[v], x) => Mine(thr'[v], x)
      <4>1. \A v \in Writers(u) : v \in Threads \ {th}
        BY <1>1 DEF Writers
      <4>. QED BY <1>1, <4>1 DEF Others, Alike, Mine
    <3>. QED BY <1>1, <1>5, <3>1, <3>2 DEF PendingInv
  <2>. QED BY <2>1, <2>2
<1>. QED BY <1>1, <1>5, PendingSame DEF PendingInv

\* A return keeps PendingInv.
LEMMA ReturnPending ==
  ASSUME Types, CallInv, OneWriter, PendingInv, NEW th \in Threads, Return(th)
  PROVE  PendingInv'
<1>1. /\ conf' = conf /\ cmd' = cmd /\ Others(th)
      /\ thr[th].pc = "next" /\ thr[th].todo = <<>> /\ thr'[th].pc = "idle"
      /\ IsWriter(thr[th].op) =>
           last' = [last EXCEPT ![thr[th].t] = [tag |-> thr[th].tag, ok |-> thr[th].err = 0]]
      /\ ~IsWriter(thr[th].op) => last' = last
  BY ReturnIs, IdleIn
<1>2. \A x : Writers(x)' = Writers(x) \ {th}
  BY <1>1, WritersReturn
<1>3. /\ last \in [Targets -> [tag : Nat, ok : BOOLEAN]] /\ thr[th].t \in Targets
  BY <1>1 DEF Types, CallInv, GoodCall
<1>4. ASSUME NEW t \in Targets, NEW x \in Held(t), Ops(t) # {}, Changing(cmd, Sel(x, t))
      PROVE  \/ \E v \in Writers(t)' : Mine(thr'[v], x)
             \/ Writers(t)' = {} /\ ~last'[t].ok
  <2>1. \/ \E u \in Writers(t) : Mine(thr[u], x)
        \/ Writers(t) = {} /\ ~last[t].ok
    BY <1>4 DEF PendingInv
  <2>2. CASE th \in Writers(t)
    <3>1. IsWriter(thr[th].op) /\ thr[th].t = t /\ Writers(t)' = {} /\ Mine(thr[th], x)
      BY <1>2, <2>1, <2>2 DEF Writers, OneWriter
    <3>2. thr[th].err # 0
      BY <1>1, <3>1 DEF Mine, HasCtx
    <3>3. ~last'[t].ok
      BY <3>1, <3>2, Returns
    <3>. QED BY <3>1, <3>3
  <2>3. CASE th \notin Writers(t)
    <3>1. Writers(t)' = Writers(t)
      BY <1>2, <2>3
    <3>2. last'[t] = last[t]
      <4>1. ~(IsWriter(thr[th].op) /\ thr[th].t = t)
        BY <1>1, <2>3 DEF Writers
      <4>. QED BY <1>1, <1>3, <4>1
    <3>3. \A v \in Writers(t) : Mine(thr[v], x) => Mine(thr'[v], x)
      <4>1. \A v \in Writers(t) : v \in Threads \ {th}
        BY <2>3 DEF Writers
      <4>. QED BY <1>1, <4>1 DEF Others, Alike, Mine
    <3>. QED BY <2>1, <3>1, <3>2, <3>3
  <2>. QED BY <2>2, <2>3
<1>. QED BY <1>1, <1>4, PendingSame DEF PendingInv

-----------------------------------------------------------------------------
(***************************************************************************)
(* The vector map, whose halves the set-ups of the two directions write.   *)
(***************************************************************************)
\* Set-up c has written its half of the vector map ...
Mapped(c, m, l) ==
  \/ ~Has(c.todo, "qid2vec", "write") /\ c.t \notin l /\ c.err = 0
  \/ c.pc = "poll" /\ ~m.busy /\ Is(c.todo[1], "qid2vec", "write")

CallMapped(c, m, l, map) ==
  c.pc # "idle" /\ c.op = "program" /\ c.t \in Dirs /\ Mapped(c, m, l) => map[c.t] = c.tag

\* ... and is writing it.
MapWriter(c, d, v) == c.pc = "poll" /\ Is(c.todo[1], "qid2vec", "write") /\ v[d] = c.tag

HalfKept(d, w, l, lo, map) ==
  w = {} /\ l.ok /\ l.tag # 0 /\ d \notin lo => map[d] = l.tag

\* A pending write of the map changes a direction's half only for the set-up
\* of this direction, but for the halves that are lost.
MapInv ==
  /\ cmd.busy /\ cmd.sel = "FMAP" => cmd.op \in {"RD", "WR"}
  /\ Writing(cmd, "FMAP") => \A d \in Dirs :
       \/ d \in lost \/ data[d] = store["FMAP"][d]
       \/ \E th \in Writers(d) : MapWriter(thr[th], d, data)
  /\ \A th \in Threads : CallMapped(thr[th], cmd, lost, store["FMAP"])
  /\ \A d \in Dirs : HalfKept(d, Writers(d), last[d], lost, store["FMAP"])

\* What is said of the other threads' maps holds after a step of th.
LEMMA OthersMapped ==
  ASSUME MapInv, NEW th \in Threads, Others(th), NEW m, NEW l,
         \A u \in Threads \ {th} : Holding(u) => m = cmd,
         \A u \in Threads \ {th} :
           /\ thr[u].pc # "idle" /\ thr[u].op = "program"
           /\ thr[u].t \in Dirs /\ thr[u].t \in lost
           => thr[u].t \in l
  PROVE  \A u \in Threads \ {th} : CallMapped(thr'[u], m, l, store["FMAP"])
<1>1. ASSUME NEW u \in Threads \ {th} PROVE CallMapped(thr'[u], m, l, store["FMAP"])
  <2>1. Alike(thr'[u], thr[u]) /\ (thr[u].pc = "poll" => m = cmd)
    BY DEF Others, Holding
  <2>2. CallMapped(thr[u], cmd, lost, store["FMAP"])
    BY DEF MapInv
  <2>3. thr[u].pc # "idle" /\ thr[u].op = "program" /\ thr[u].t \in Dirs /\ Mapped(thr'[u], m, l)
          => Mapped(thr[u], cmd, lost)
    BY <2>1 DEF Mapped, Alike
  <2>. QED BY <2>1, <2>2, <2>3 DEF CallMapped, Alike
<1>. QED BY <1>1

\* A command on the vector map
LEMMA MapCommand ==
  ASSUME Types, CallInv, UsesQid2vec, NEW th \in Threads, thr[th].pc # "idle",
         thr[th].todo # <<>>, Commanded(th).sel = "FMAP",
         Item(th)[2] \in {"read", "fetch", "write", "clear", "invalidate"}
  PROVE  /\ Commanded(th).op \in {"RD", "WR"}
         /\ Commanded(th).op = "WR" =>
              /\ Item(th)[1] = "qid2vec" /\ Item(th)[2] = "write"
              /\ thr[th].t \in Dirs /\ th \in Writers(thr[th].t)
<1>1. /\ thr[th] \in Calls /\ GoodCall(thr[th]) /\ conf \in Configs /\ Item(th) = thr[th].todo[1]
      /\ conf.ip = "s80"
  BY DEF Types, CallInv, Item, UsesQid2vec
<1>2. Sel(Item(th)[1], thr[th].t) = "FMAP" /\ Commanded(th).op = Opcode(Item(th)[2])
  BY DEF Commanded
<1>3. CASE ~IsWriter(thr[th].op)
  <2>1. Item(th)[2] = "read"
    BY <1>1, <1>3, FirstItem
  <2>. QED BY <1>1, <1>2, <2>1, OpcodeIs
<1>4. CASE IsWriter(thr[th].op)
  <2>1. Fits(Item(th)[1], thr[th].t) /\ Fits("qid2vec", "h2c")
    <3>1. Fits(Item(th)[1], thr[th].t)
      BY <1>1, <1>4, FirstItem
    <3>2. Fits("qid2vec", "h2c")
      BY <1>1 DEF Fits, Contexts, Targets, QTypes, Dirs
    <3>. QED BY <3>1, <3>2
  <2>2. Sel("qid2vec", "h2c") = "FMAP"
    BY <1>1, SelIs DEF Targets, QTypes
  <2>3. Item(th)[1] = "qid2vec"
    BY <1>1, <1>2, <2>1, <2>2, SelApart
  <2>4. Item(th)[2] \in {"write", "fetch"} /\ thr[th].t \in Dirs
    BY <1>1, <1>4, <2>3, FirstItem
  <2>5. th \in Writers(thr[th].t)
    BY <1>4 DEF Writers
  <2>. QED BY <1>1, <1>2, <2>3, <2>4, <2>5, OpcodeIs
<1>. QED BY <1>3, <1>4

\* Loading the data registers keeps MapInv.
LEMMA LoadMap ==
  ASSUME Types, CallInv, UsesQid2vec, MapInv, NEW th \in Threads, Load(th), ~clobbered'
  PROVE  MapInv'
<1>1. /\ store' = store /\ last' = last /\ Going(th) /\ lock = None
      /\ thr[th].pc = "next" /\ thr[th].todo # <<>>
      /\ Item(th)[2] \in {"read", "fetch", "write", "clear", "invalidate"}
      /\ thr'[th].todo = thr[th].todo /\ thr'[th].err = thr[th].err
      /\ \/ thr'[th].pc = "command" /\ cmd.busy /\ cmd' = cmd
         \/ thr'[th].pc = "poll" /\ ~cmd.busy /\ cmd' = Commanded(th)
      /\ Item(th)[2] = "write" =>
           /\ data' = WriteValue(th) /\ clobbered' = (clobbered \/ cmd.busy)
           /\ lost' = lost \cup Overwritten(th)
      /\ Item(th)[2] # "write" => data' = data /\ lost' = lost
  BY LoadIs
<1>2. lost \subseteq lost' /\ Others(th)
  BY <1>1 DEF Going
<1>3. \A u \in Threads : ~Holding(u)
  BY <1>1, OneHolder
<1>4. \A d : Writers(d)' = Writers(d)
  BY <1>1, WritersGoing
<1>5. \A u \in Threads \ {th} : CallMapped(thr'[u], cmd', lost', store["FMAP"])
  BY <1>2, <1>3, OthersMapped
<1>6. CallMapped(thr'[th], cmd', lost', store["FMAP"])
  <2>1. Mapped(thr'[th], cmd', lost') => Mapped(thr[th], cmd, lost)
    BY <1>1, <1>2 DEF Mapped, Going, Commanded
  <2>2. CallMapped(thr[th], cmd, lost, store["FMAP"])
    BY DEF MapInv
  <2>. QED BY <1>1, <2>1, <2>2 DEF CallMapped, Going
<1>7. \A d \in Dirs : HalfKept(d, Writers(d), last[d], lost', store["FMAP"])
  BY <1>2 DEF MapInv, HalfKept
<1>8. /\ cmd'.busy /\ cmd'.sel = "FMAP" => cmd'.op \in {"RD", "WR"}
      /\ Writing(cmd', "FMAP") => \A d \in Dirs :
           \/ d \in lost' \/ data'[d] = store["FMAP"][d]
           \/ \E u \in Writers(d) : MapWriter(thr'[u], d, data')
  <2>1. CASE thr'[th].pc = "command" /\ cmd.busy /\ cmd' = cmd
    <3>1. Item(th)[2] # "write"
      BY <1>1, <2>1
    <3>2. \A d \in Dirs : \A u \in Writers(d) : ~MapWriter(thr[u], d, data)
      BY <1>3 DEF Writers, MapWriter, Holding
    <3>. QED BY <1>1, <2>1, <3>1, <3>2 DEF MapInv
  <2>2. CASE thr'[th].pc = "poll" /\ ~cmd.busy /\ cmd' = Commanded(th)
    <3>1. cmd'.sel = "FMAP" =>
            /\ cmd'.op \in {"RD", "WR"}
            /\ cmd'.op = "WR" =>
                 /\ Item(th)[1] = "qid2vec" /\ Item(th)[2] = "write"
                 /\ thr[th].t \in Dirs /\ th \in Writers(thr[th].t)
      BY <1>1, <2>2, MapCommand
    <3>2. ASSUME Writing(cmd', "FMAP"), NEW d \in Dirs
          PROVE  \/ d \in lost' \/ data'[d] = store["FMAP"][d]
                 \/ \E u \in Writers(d) : MapWriter(thr'[u], d, data')
      <4>1. /\ Item(th)[1] = "qid2vec" /\ Item(th)[2] = "write"
            /\ thr[th].t \in Dirs /\ th \in Writers(thr[th].t)
        BY <3>1, <3>2 DEF Writing
      <4>2. /\ data'[thr[th].t] = thr[th].tag
            /\ \A e \in Dirs \ {thr[th].t} : data'[e] = thr[th].got["fetched"][e]
        BY <1>1, <4>1, WriteValueIn
      <4>3. CASE d = thr[th].t
        <5>1. MapWriter(thr'[th], d, data')
          BY <1>1, <2>2, <4>1, <4>2, <4>3 DEF MapWriter, Is, Item, Going
        <5>. QED BY <4>1, <4>3, <5>1
      <4>4. CASE d # thr[th].t
        <5>1. store["FMAP"][d] # thr[th].got["fetched"][d] => d \in Overwritten(th)
          BY <4>1, <4>4 DEF Overwritten, Dirs
        <5>. QED BY <1>1, <4>1, <4>2, <4>4, <5>1
      <4>. QED BY <4>3, <4>4
    <3>. QED BY <3>1, <3>2
  <2>. QED BY <1>1, <2>1, <2>2
<1>. QED BY <1>1, <1>4, <1>5, <1>6, <1>7, <1>8 DEF MapInv

\* Giving the command keeps MapInv.
LEMMA CommandMap ==
  ASSUME Types, CallInv, UsesQid2vec, MapInv, NEW th \in Threads, Command(th), ~clobbered'
  PROVE  MapInv'
<1>1. /\ store' = store /\ last' = last /\ Going(th) /\ data' = data /\ lost' = lost
      /\ thr[th].pc = "command" /\ thr'[th].pc = "poll" /\ cmd' = Commanded(th)
      /\ thr'[th].todo = thr[th].todo /\ thr'[th].err = thr[th].err
      /\ clobbered' = (clobbered \/ cmd.busy)
  BY CommandIs
<1>2. /\ Item(th)[2] # "write" /\ Holding(th) /\ thr[th].todo # <<>> /\ Others(th)
      /\ Item(th)[2] \in {"read", "fetch", "write", "clear", "invalidate"}
  BY <1>1 DEF CallInv, GoodCall, Item, Holding, Going
<1>3. \A u \in Threads \ {th} : ~Holding(u)
  BY <1>2, OneHolder
<1>4. \A d : Writers(d)' = Writers(d)
  BY <1>1, WritersGoing
<1>5. \A u \in Threads \ {th} : CallMapped(thr'[u], cmd', lost', store["FMAP"])
  BY <1>1, <1>2, <1>3, OthersMapped
<1>6. CallMapped(thr'[th], cmd', lost', store["FMAP"])
  <2>1. Mapped(thr'[th], cmd', lost') => Mapped(thr[th], cmd, lost)
    BY <1>1 DEF Mapped, Going, Commanded
  <2>2. CallMapped(thr[th], cmd, lost, store["FMAP"])
    BY DEF MapInv
  <2>. QED BY <1>1, <2>1, <2>2 DEF CallMapped, Going
<1>7. cmd'.sel = "FMAP" => cmd'.op = "RD"
  BY <1>1, <1>2, MapCommand
<1>. QED BY <1>1, <1>4, <1>5, <1>6, <1>7 DEF MapInv, Writing

\* A poll that sees the command done keeps MapInv.
LEMMA DoneMap ==
  ASSUME Types, CallInv, OneWriter, MapInv, NEW th \in Threads, Done(th)
  PROVE  MapInv'
<1>1. /\ store' = store /\ last' = last /\ cmd' = cmd /\ Going(th)
      /\ thr[th].pc = "poll" /\ ~cmd.busy /\ thr'[th].pc = "next"
      /\ thr[th].todo # <<>> /\ thr'[th].todo = Tail(thr[th].todo)
      /\ thr'[th].err = thr[th].err
      /\ lost' = IF Now(th, "qid2vec", "write") THEN lost \ {thr[th].t} ELSE lost
  BY DoneIs
<1>2. /\ thr[th] \in Calls /\ GoodCall(thr[th]) /\ conf \in Configs /\ Item(th) = thr[th].todo[1]
      /\ thr[th].todo \in Seq(Items) /\ Others(th)
  BY <1>1 DEF Types, CallInv, Item, Calls, Going
<1>3. \A d : Writers(d)' = Writers(d)
  BY <1>1, WritersGoing
<1>4. Now(th, "qid2vec", "write") => th \in Writers(thr[th].t)
  <2>. SUFFICES ASSUME Now(th, "qid2vec", "write") PROVE IsWriter(thr[th].op)
    BY <1>1 DEF Writers
  <2>. QED BY <1>1, <1>2, FirstItem DEF Now, Is
<1>5. ASSUME NEW u \in Threads \ {th}, thr[u].pc # "idle", thr[u].op = "program",
             thr[u].t \in Dirs, thr[u].t \in lost
      PROVE  thr[u].t \in lost'
  <2>1. u \in Writers(thr[u].t) /\ thr[u].t \in Targets
    BY <1>5 DEF Writers, IsWriter, Dirs, Targets, QTypes
  <2>2. Now(th, "qid2vec", "write") => thr[u].t # thr[th].t
    BY <1>4, <2>1 DEF OneWriter
  <2>. QED BY <1>1, <1>5, <2>2
<1>6. \A u \in Threads \ {th} : CallMapped(thr'[u], cmd', lost', store["FMAP"])
  BY <1>1, <1>2, <1>5, OthersMapped
<1>7. CallMapped(thr'[th], cmd', lost', store["FMAP"])
  <2>1. Has(thr[th].todo, "qid2vec", "write") <=>
          Is(thr[th].todo[1], "qid2vec", "write") \/ Has(Tail(thr[th].todo), "qid2vec", "write")
    BY <1>1, <1>2, TailHas
  <2>2. Mapped(thr'[th], cmd', lost') => Mapped(thr[th], cmd, lost)
    BY <1>1, <1>2, <2>1 DEF Mapped, Going, Now
  <2>3. CallMapped(thr[th], cmd, lost, store["FMAP"])
    BY DEF MapInv
  <2>. QED BY <1>1, <2>2, <2>3 DEF CallMapped, Going
<1>8. \A d \in Dirs : HalfKept(d, Writers(d), last[d], lost', store["FMAP"])
  <2>1. ASSUME NEW d \in Dirs, Writers(d) = {}, d \notin lost' PROVE d \notin lost
    BY <1>1, <1>4, <2>1
  <2>. QED BY <2>1 DEF MapInv, HalfKept
<1>. QED BY <1>1, <1>3, <1>6, <1>7, <1>8 DEF MapInv, Writing

\* A poll that times out keeps MapInv.
LEMMA TimeOutMap ==
  ASSUME Types, CallInv, MapInv, NEW th \in Threads, TimeOut(th)
  PROVE  MapInv'
<1>1. /\ store' = store /\ last' = last /\ cmd' = cmd /\ data' = data /\ Going(th)
      /\ thr[th].pc = "poll" /\ thr'[th].pc = "next" /\ thr[th].todo # <<>>
      /\ \/ thr'[th].err = thr[th].err /\ lost' = lost \cup {thr[th].t}
         \/ /\ thr'[th].err # 0 /\ lost' = lost
            /\ ~(Item(th)[1] = "qid2vec" /\ Item(th)[2] \in {"fetch", "write"})
  BY TimeOutIs
<1>2. lost \subseteq lost' /\ Others(th)
  BY <1>1 DEF Going
<1>3. \A d : Writers(d)' = Writers(d)
  BY <1>1, WritersGoing
<1>4. \A u \in Threads \ {th} : CallMapped(thr'[u], cmd', lost', store["FMAP"])
  BY <1>1, <1>2, OthersMapped
<1>5. CallMapped(thr'[th], cmd', lost', store["FMAP"])
  BY <1>1 DEF CallMapped, Mapped, Going
<1>6. \A d \in Dirs : HalfKept(d, Writers(d), last[d], lost', store["FMAP"])
  BY <1>2 DEF MapInv, HalfKept
<1>7. ASSUME NEW d \in Dirs, NEW u \in Writers(d), MapWriter(thr[u], d, data)
      PROVE  d \in lost' \/ MapWriter(thr'[u], d, data)
  <2>1. u \in Threads /\ thr[u].t = d
    BY DEF Writers
  <2>2. CASE u = th
    BY <1>1, <1>7, <2>1, <2>2 DEF MapWriter, Is, Item
  <2>3. CASE u # th
    BY <1>2, <1>7, <2>1, <2>3 DEF Others, Alike, MapWriter
  <2>. QED BY <2>2, <2>3
<1>8. Writing(cmd, "FMAP") => \A d \in Dirs :
        \/ d \in lost' \/ data[d] = store["FMAP"][d]
        \/ \E u \in Writers(d) : MapWriter(thr'[u], d, data)
  BY <1>2, <1>7 DEF MapInv
<1>. QED BY <1>1, <1>3, <1>4, <1>5, <1>6, <1>8 DEF MapInv

\* The steps that leave the map and the registers as they are
LEMMA OtherMap ==
  ASSUME Types, CallInv, MapInv, NEW th \in Threads,
         Fill(th) \/ PrintTables(th) \/ DirectAccess(th)
  PROVE  MapInv'
<1>1. /\ last' = last /\ cmd' = cmd /\ data' = data /\ lost' = lost /\ Going(th)
      /\ thr[th].pc = "next" /\ thr'[th].pc = "next" /\ thr[th].todo # <<>>
  BY FillIs, PrintIs, DirectIs
<1>2. store'["FMAP"] = store["FMAP"]
  <2>1. CASE DirectAccess(th)
    BY <2>1, DirectIs DEF Types, Selectors
  <2>2. CASE Fill(th) \/ PrintTables(th)
    BY <2>2, FillIs, PrintIs
  <2>. QED BY <2>1, <2>2
<1>3. \A d : Writers(d)' = Writers(d)
  BY <1>1, WritersGoing
<1>4. \A u \in Threads \ {th} : CallMapped(thr'[u], cmd', lost', store["FMAP"])
  BY <1>1, OthersMapped DEF Going
<1>5. CallMapped(thr'[th], cmd', lost', store["FMAP"])
  <2>1. thr[th] \in Calls /\ GoodCall(thr[th]) /\ conf \in Configs /\ Item(th) = thr[th].todo[1]
    BY DEF Types, CallInv, Item
  <2>2. CASE DirectAccess(th)
    BY <1>1, <2>2, DirectIs DEF CallMapped, Dirs, Going
  <2>3. CASE Fill(th) \/ PrintTables(th)
    <3>1. Item(th)[2] \in {"fill", "print", "reject"}
      BY <2>3, FillIs, PrintIs
    <3>2. thr[th].op = "dump"
      BY <1>1, <2>1, <3>1, FirstItem
    <3>. QED BY <1>1, <3>2 DEF CallMapped, Going
  <2>. QED BY <2>2, <2>3
<1>6. \A u \in Threads : \A d : MapWriter(thr[u], d, data) => MapWriter(thr'[u], d, data)
  BY <1>1 DEF MapWriter, Going, Others, Alike
<1>7. Writing(cmd, "FMAP") => \A d \in Dirs :
        \/ d \in lost \/ data[d] = store["FMAP"][d]
        \/ \E u \in Writers(d) : MapWriter(thr'[u], d, data)
  BY <1>6 DEF MapInv, Writers
<1>. QED BY <1>1, <1>2, <1>3, <1>4, <1>5, <1>7 DEF MapInv

\* Beginning a call keeps MapInv.
LEMMA BeginMap ==
  ASSUME Types, CallInv, UsesQid2vec, MapInv, NEW th \in Threads, NEW t \in Targets, NEW op,
         Begin(th, op, t)
  PROVE  MapInv'
<1>1. /\ store' = store /\ last' = last /\ cmd' = cmd /\ data' = data /\ lost' = lost
      /\ Others(th) /\ thr[th].pc = "idle" /\ op \in Ops(t)
      /\ thr'[th].pc = "next" /\ thr'[th].op = op /\ thr'[th].t = t
      /\ thr'[th].todo = Script(op, t)
  BY BeginIs
<1>2. ListOK(op, t, Script(op, t))
  BY <1>1, ScriptOK DEF Types
<1>3. \A d : Writers(d) \subseteq Writers(d)'
  BY <1>1, WritersBegin
<1>4. \A u \in Threads \ {th} : CallMapped(thr'[u], cmd', lost', store["FMAP"])
  BY <1>1, OthersMapped
<1>5. CallMapped(thr'[th], cmd', lost', store["FMAP"])
  BY <1>1, <1>2 DEF CallMapped, Mapped, ListOK, WholeOK
<1>6. \A d \in Dirs : HalfKept(d, Writers(d)', last[d], lost, store["FMAP"])
  BY <1>3 DEF MapInv, HalfKept
<1>7. ASSUME NEW d \in Dirs, NEW u \in Writers(d), MapWriter(thr[u], d, data)
      PROVE  u \in Writers(d)' /\ MapWriter(thr'[u], d, data)
  <2>1. u \in Threads \ {th}
    BY <1>1 DEF Writers
  <2>. QED BY <1>1, <1>3, <1>7, <2>1 DEF MapWriter, Others, Alike
<1>8. Writing(cmd, "FMAP") => \A d \in Dirs :
        \/ d \in lost \/ data[d] = store["FMAP"][d]
        \/ \E u \in Writers(d)' : MapWriter(thr'[u], d, data)
  BY <1>7 DEF MapInv
<1>. QED BY <1>1, <1>4, <1>5, <1>6, <1>8 DEF MapInv

\* A return keeps MapInv.
LEMMA ReturnMap ==
  ASSUME Types, CallInv, OneWriter, MapInv, NEW th \in Threads, Return(th)
  PROVE  MapInv'
<1>1. /\ store' = store /\ cmd' = cmd /\ data' = data /\ lost' = lost /\ Others(th)
      /\ thr[th].pc = "next" /\ thr[th].todo = <<>> /\ thr'[th].pc = "idle"
      /\ IsWriter(thr[th].op) =>
           last' = [last EXCEPT ![thr[th].t] = [tag |-> thr[th].tag, ok |-> thr[th].err = 0]]
      /\ ~IsWriter(thr[th].op) => last' = last
  BY ReturnIs, IdleIn
<1>2. \A d : Writers(d)' = Writers(d) \ {th}
  BY <1>1, WritersReturn
<1>3. \A u \in Threads \ {th} : CallMapped(thr'[u], cmd', lost', store["FMAP"])
  BY <1>1, OthersMapped
<1>4. CallMapped(thr'[th], cmd', lost', store["FMAP"])
  BY <1>1 DEF CallMapped
<1>5. /\ last \in [Targets -> [tag : Nat, ok : BOOLEAN]] /\ thr[th].t \in Targets
      /\ thr[th].op \in Ops(thr[th].t) /\ GoodCall(thr[th])
      /\ CallMapped(thr[th], cmd, lost, store["FMAP"])
  BY <1>1 DEF Types, CallInv, GoodCall, MapInv
<1>6. ASSUME NEW d \in Dirs PROVE HalfKept(d, Writers(d)', last'[d], lost, store["FMAP"])
  <2>1. HalfKept(d, Writers(d), last[d], lost, store["FMAP"]) /\ d \in Targets
    BY DEF MapInv, Dirs, Targets, QTypes
  <2>2. CASE IsWriter(thr[th].op) /\ thr[th].t = d
    <3>1. last'[d].tag = thr[th].tag /\ (last'[d].ok <=> thr[th].err = 0)
      BY <2>2, Returns
    <3>2. thr[th].tag # 0 => thr[th].op = "program"
      BY <1>1, <1>5, <2>2, OpsIn DEF GoodCall
    <3>3. ~Has(thr[th].todo, "qid2vec", "write")
      BY <1>1 DEF Has
    <3>. QED BY <1>1, <1>5, <2>2, <3>1, <3>2, <3>3 DEF HalfKept, CallMapped, Mapped
  <2>3. CASE ~(IsWriter(thr[th].op) /\ thr[th].t = d)
    <3>1. th \notin Writers(d)
      BY <2>3 DEF Writers
    <3>2. Writers(d)' = Writers(d) /\ last'[d] = last[d]
      BY <1>1, <1>2, <1>5, <2>1, <2>3, <3>1
    <3>. QED BY <2>1, <3>2
  <2>. QED BY <2>2, <2>3
<1>7. ASSUME NEW d \in Dirs, NEW u \in Writers(d), MapWriter(thr[u], d, data)
      PROVE  u \in Writers(d)' /\ MapWriter(thr'[u], d, data)
  <2>1. u \in Threads \ {th}
    BY <1>1, <1>7 DEF Writers, MapWriter
  <2>. QED BY <1>1, <1>2, <1>7, <2>1 DEF MapWriter, Others, Alike
<1>8. Writing(cmd, "FMAP") => \A d \in Dirs :
        \/ d \in lost \/ data[d] = store["FMAP"][d]
        \/ \E u \in Writers(d)' : MapWriter(thr'[u], d, data)
  BY <1>7 DEF MapInv
<1>. QED BY <1>1, <1>3, <1>4, <1>6, <1>8 DEF MapInv

\* The hardware's execution of a command keeps MapInv.
LEMMA ExecuteMap ==
  ASSUME Types, CallInv, OneWriter, UsesQid2vec, KeptInv, MapInv, Execute
  PROVE  MapInv'
<1>1. /\ thr' = thr /\ last' = last /\ lost' = lost /\ cmd.busy /\ ~cmd'.busy
      /\ \A s \in Selectors :
           store'[s] = IF s # cmd.sel \/ cmd.op = "RD" THEN store[s]
                       ELSE IF cmd.op = "WR" THEN data ELSE Cleared
  BY ExecuteIs
<1>2. conf \in Configs /\ conf.ip = "s80" /\ "FMAP" \in Selectors
  BY DEF Types, UsesQid2vec, Selectors
<1>3. store'["FMAP"] = IF Writing(cmd, "FMAP") THEN data ELSE store["FMAP"]
  BY <1>1, <1>2 DEF MapInv, Writing
<1>4. \A d : Writers(d)' = Writers(d)
  BY <1>1 DEF Writers
<1>5. ASSUME NEW d \in Dirs, d \notin lost, store'["FMAP"][d] # store["FMAP"][d]
      PROVE  \E u \in Writers(d) : MapWriter(thr[u], d, data)
  BY <1>3, <1>5 DEF MapInv
<1>6. ASSUME NEW th \in Threads PROVE CallMapped(thr'[th], cmd', lost', store'["FMAP"])
  <2>. DEFINE c == thr[th]
              d == c.t
  <2>. SUFFICES ASSUME c.pc # "idle", c.op = "program", d \in Dirs, Mapped(c, cmd', lost)
                PROVE  store'["FMAP"][d] = c.tag
    BY <1>1 DEF CallMapped
  <2>1. /\ c \in Calls /\ GoodCall(c) /\ th \in Writers(d) /\ d \in Targets
        /\ CallMapped(c, cmd, lost, store["FMAP"]) /\ Loaded(c, cmd, data)
    BY DEF Types, CallInv, Writers, IsWriter, Dirs, Targets, QTypes, MapInv, KeptInv
  <2>2. CASE c.pc = "poll" /\ Is(c.todo[1], "qid2vec", "write")
    <3>1. cmd.sel = Sel("qid2vec", d) /\ cmd.op = Opcode("write") /\ c.todo # <<>>
      BY <2>1, <2>2 DEF CallInv, Item, Is, GoodCall
    <3>2. cmd.sel = "FMAP" /\ cmd.op = "WR"
      BY <1>2, <2>1, <3>1, SelIs, OpcodeIs
    <3>3. data = Value(c) /\ Value(c) = WriteValue(th) /\ Item(th) = c.todo[1]
      BY <1>1, <2>1, <2>2 DEF Loaded, Is, Value, WriteValue, Item
    <3>4. data[d] = c.tag
      BY <2>2, <3>1, <3>3, WriteValueIn DEF Is
    <3>. QED BY <1>1, <1>3, <3>2, <3>4 DEF Writing
  <2>3. CASE ~(c.pc = "poll" /\ Is(c.todo[1], "qid2vec", "write"))
    <3>1. ~Has(c.todo, "qid2vec", "write") /\ d \notin lost /\ c.err = 0
      BY <2>3 DEF Mapped
    <3>2. store["FMAP"][d] = c.tag
      BY <2>1, <3>1 DEF CallMapped, Mapped
    <3>3. ~\E u \in Writers(d) : MapWriter(thr[u], d, data)
      BY <2>1, <2>3 DEF OneWriter, MapWriter
    <3>. QED BY <1>5, <3>1, <3>2, <3>3
  <2>. QED BY <2>2, <2>3
<1>7. \A d \in Dirs : HalfKept(d, Writers(d), last[d], lost, store'["FMAP"])
  BY <1>5 DEF MapInv, HalfKept
<1>. QED BY <1>1, <1>4, <1>6, <1>7 DEF MapInv, Writing

\* The hardware's own use of a queue keeps MapInv.
LEMMA RunMap ==
  ASSUME Types, MapInv, NEW d \in Dirs, Run(d)
  PROVE  MapInv'
<1>1. /\ thr' = thr /\ last' = last /\ lost' = lost /\ cmd' = cmd /\ data' = data
      /\ \A s \in Selectors \ {Sel("hw", d), Sel("credit", d)} : store'[s] = store[s]
  BY RunIs
<1>2. "FMAP" \in Selectors \ {Sel("hw", d), Sel("credit", d)}
  BY SelIs DEF Types, Dirs, Targets, QTypes, Selectors
<1>3. store'["FMAP"] = store["FMAP"] /\ \A t : Writers(t)' = Writers(t)
  BY <1>1, <1>2 DEF Writers
<1>. QED BY <1>1, <1>3 DEF MapInv

-----------------------------------------------------------------------------
(***************************************************************************)
(* What a read returns.                                                    *)
(***************************************************************************)
Reading(c) == c.pc # "idle" /\ ~IsWriter(c.op) /\ c.clean

\* v is what was last written to context x of target t.
Right(x, t, l, lo, v) ==
  /\ x \in Held(t) \cup {"intr"} =>
       LET n == l[IF x = "intr" THEN x ELSE t].tag IN v = Halves(n, n)
  /\ x = "qid2vec" /\ t \in Dirs /\ UsesQid2vec /\ l[t].tag # 0 /\ t \notin lo =>
       v[t] = l[t].tag

ShownBy(c) == IF c.todo[1][1] = "intr" THEN {"intr"} ELSE DOMAIN c.got \ {"intr"}

\* What a read has returned so far is right, ...
GotRight(c, l, lo) ==
  /\ "intr" \in DOMAIN c.got => "intr" \in Reads(c.op, c.t)
  /\ \A x \in DOMAIN c.got : Right(x, c.t, l, lo, c.got[x])

\* ... so is what its command has left in the data registers, and what it has
\* filled the tables with is still there.
CallRead(c, m, d, e, l, lo) ==
  Reading(c) =>
    /\ GotRight(c, l, lo)
    /\ c.pc = "poll" /\ ~m.busy => Right(c.todo[1][1], c.t, l, lo, d)
    /\ c.todo # <<>> /\ c.todo[1][2] = "print" =>
         \A x \in ShownBy(c) : x \in DOMAIN e /\ e[x] = c.got[x]

ReadInv == \A th \in Threads : CallRead(thr[th], cmd, data, entries, last, lost)

\* If it is so for every call, ReadInv holds in the next state.
LEMMA ReadSame ==
  ASSUME conf' = conf,
         \A th \in Threads : CallRead(thr'[th], cmd', data', entries', last', lost')
  PROVE  ReadInv'
<1>1. /\ \A t : Held(t)' = Held(t)
      /\ \A op, t : Reads(op, t)' = Reads(op, t)
      /\ UsesQid2vec' <=> UsesQid2vec
  BY ConfSame
<1>2. \A x, t, l, lo, v : Right(x, t, l, lo, v)' <=> Right(x, t, l, lo, v)
  BY <1>1 DEF Right
<1>3. \A c, l, lo : GotRight(c, l, lo)' <=> GotRight(c, l, lo)
  BY <1>1, <1>2 DEF GotRight
<1>4. \A c, m, d, e, l, lo : CallRead(c, m, d, e, l, lo)' <=> CallRead(c, m, d, e, l, lo)
  BY <1>2, <1>3 DEF CallRead
<1>. QED BY <1>4 DEF ReadInv

\* A value that is right stays right while its target is not written.
LEMMA RightSame ==
  ASSUME NEW x, NEW t, NEW v, NEW l, NEW lo, Right(x, t, last, lost, v),
         l[t] = last[t], x = "intr" => l["intr"] = last["intr"], t \in lost => t \in lo
  PROVE  Right(x, t, l, lo, v)
  BY DEF Right

\* The calls of the other threads
LEMMA OthersRead ==
  ASSUME Types, CallInv, ReadInv, NEW th \in Threads, Others(th),
         NEW m, NEW d, NEW e, NEW l, NEW lo,
         \A u \in Threads \ {th} : Holding(u) => m = cmd /\ d = data,
         \A u \in Threads \ {th} :
           Reading(thr'[u]) /\ thr[u].todo # <<>> /\ thr[u].todo[1][2] = "print" =>
             \A x \in ShownBy(thr[u]) : x \in DOMAIN entries =>
               x \in DOMAIN e /\ e[x] = entries[x],
         \A u \in Threads \ {th} : Reading(thr'[u]) =>
           \A r \in Reads(thr[u].op, thr[u].t) : l[r] = last[r] /\ (r \in lost => r \in lo)
  PROVE  \A u \in Threads \ {th} : CallRead(thr'[u], m, d, e, l, lo)
<1>1. ASSUME NEW u \in Threads \ {th}, Reading(thr'[u])
      PROVE  CallRead(thr'[u], m, d, e, l, lo)
  <2>. DEFINE b == thr'[u]
              c == thr[u]
  <2>1. Alike(b, c) /\ Reading(c) /\ CallRead(c, cmd, data, entries, last, lost)
    BY <1>1 DEF Others, Reading, Alike, ReadInv
  <2>2. /\ c \in Calls /\ GoodCall(c) /\ conf \in Configs /\ c.pc # "idle"
        /\ GotRight(c, last, lost)
    BY <2>1 DEF Types, CallInv, Reading, CallRead
  <2>3. \A r \in Reads(c.op, c.t) : l[r] = last[r] /\ (r \in lost => r \in lo)
    BY <1>1
  <2>4. c.t \in Reads(c.op, c.t)
    BY DEF Reads
  <2>5. GotRight(b, l, lo)
    <3>1. ASSUME NEW x \in DOMAIN c.got PROVE Right(x, c.t, l, lo, c.got[x])
      <4>1. Right(x, c.t, last, lost, c.got[x]) /\ (x = "intr" => "intr" \in Reads(c.op, c.t))
        BY <2>2 DEF GotRight
      <4>. QED BY <2>3, <2>4, <4>1, RightSame
    <3>. QED BY <2>1, <2>2, <3>1 DEF GotRight, Alike
  <2>6. c.pc = "poll" /\ ~m.busy => Right(c.todo[1][1], c.t, l, lo, d)
    <3>. SUFFICES ASSUME c.pc = "poll", ~m.busy PROVE Right(c.todo[1][1], c.t, l, lo, d)
      OBVIOUS
    <3>1. m = cmd /\ d = data
      BY DEF Holding
    <3>2. Right(c.todo[1][1], c.t, last, lost, data)
      BY <2>1, <3>1 DEF CallRead
    <3>3. c.todo # <<>> /\ c.todo[1][2] \in {"read", "fetch", "write", "clear", "invalidate"}
      BY <2>2 DEF GoodCall
    <3>4. c.todo[1][2] = "read"
      BY <2>1, <2>2, <3>3, FirstItem DEF Reading
    <3>5. c.todo[1][1] = "intr" => "intr" \in Reads(c.op, c.t)
      BY <2>2, <3>3, <3>4, FirstItem DEF Fits, Reads
    <3>. QED BY <2>3, <2>4, <3>1, <3>2, <3>5, RightSame
  <2>7. c.todo # <<>> /\ c.todo[1][2] = "print" =>
          \A x \in ShownBy(c) : x \in DOMAIN e /\ e[x] = c.got[x]
    BY <1>1, <2>1 DEF CallRead
  <2>8. ShownBy(b) = ShownBy(c)
    BY <2>1 DEF ShownBy, Alike
  <2>. QED BY <2>1, <2>5, <2>6, <2>7, <2>8 DEF CallRead, Alike
<1>2. ASSUME NEW u \in Threads \ {th}, ~Reading(thr'[u])
      PROVE  CallRead(thr'[u], m, d, e, l, lo)
  BY <1>2 DEF CallRead
<1>. QED BY <1>1, <1>2

\* A step of a call that leaves the tables and what is being read alone
LEMMA GoingRead ==
  ASSUME Types, CallInv, ReadInv, CleanInv, conf' = conf, last' = last, entries' = entries,
         NEW th \in Threads, Going(th), thr[th].pc # "idle",
         \A u \in Threads \ {th} : Holding(u) => cmd' = cmd /\ data' = data,
         \A d \in lost \ lost' : Writers(d) # {},
         Reading(thr'[th]) => CallRead(thr'[th], cmd', data', entries', last', lost')
  PROVE  ReadInv'
<1>1. ASSUME NEW u \in Threads \ {th}, Reading(thr'[u]), NEW r \in Reads(thr[u].op, thr[u].t)
      PROVE  last'[r] = last[r] /\ (r \in lost => r \in lost')
  <2>1. Reading(thr[u]) /\ thr[u].pc # "idle"
    BY <1>1 DEF Going, Others, Alike, Reading
  <2>2. Writers(r) = {}
    BY <1>1, <2>1 DEF CleanInv, Reading, InCall
  <2>. QED BY <2>2
<1>2. \A u \in Threads \ {th} : CallRead(thr'[u], cmd', data', entries', last', lost')
  BY <1>1, OthersRead DEF Going
<1>3. CallRead(thr'[th], cmd', data', entries', last', lost')
  BY DEF CallRead
<1>. QED BY <1>2, <1>3, ReadSame

\* Loading the data registers keeps ReadInv.
LEMMA LoadRead ==
  ASSUME Types, CallInv, CleanInv, ReadInv, NEW th \in Threads, Load(th)
  PROVE  ReadInv'
<1>1. /\ conf' = conf /\ last' = last /\ entries' = entries /\ Going(th) /\ lock = None
      /\ thr[th].pc = "next" /\ thr[th].todo # <<>>
      /\ Item(th)[2] \in {"read", "fetch", "write", "clear", "invalidate"}
      /\ thr'[th].todo = thr[th].todo /\ thr'[th].got = thr[th].got
      /\ \/ thr'[th].pc = "command"
         \/ thr'[th].pc = "poll" /\ cmd' = Commanded(th)
      /\ Item(th)[2] # "write" => lost' = lost
      /\ Item(th)[2] = "write" => lost' = lost \cup Overwritten(th)
  BY LoadIs
<1>2. \A u \in Threads : ~Holding(u)
  BY <1>1, OneHolder
<1>3. lost \subseteq lost'
  BY <1>1
<1>4. ASSUME Reading(thr'[th])
      PROVE  CallRead(thr'[th], cmd', data', entries', last', lost')
  <2>1. thr[th] \in Calls /\ GoodCall(thr[th]) /\ conf \in Configs /\ Item(th) = thr[th].todo[1]
    BY DEF Types, CallInv, Item
  <2>2. Reading(thr[th])
    BY <1>1, <1>4 DEF Reading, Going
  <2>3. Item(th)[2] = "read"
    BY <1>1, <2>1, <2>2, FirstItem DEF Reading
  <2>4. GotRight(thr[th], last, lost)
    BY <2>2 DEF ReadInv, CallRead
  <2>5. GotRight(thr'[th], last', lost')
    BY <1>1, <2>3, <2>4 DEF GotRight, Going
  <2>. QED BY <1>1, <2>1, <2>3, <2>5 DEF CallRead, Commanded
<1>. QED BY <1>1, <1>2, <1>3, <1>4, GoingRead

\* Giving the command keeps ReadInv.
LEMMA CommandRead ==
  ASSUME Types, CallInv, CleanInv, ReadInv, NEW th \in Threads, Command(th)
  PROVE  ReadInv'
<1>1. /\ conf' = conf /\ last' = last /\ entries' = entries /\ lost' = lost /\ Going(th)
      /\ thr[th].pc = "command" /\ thr'[th].pc = "poll" /\ cmd' = Commanded(th)
      /\ thr'[th].todo = thr[th].todo /\ thr'[th].got = thr[th].got
  BY CommandIs
<1>2. /\ Item(th)[2] \in {"read", "fetch", "write", "clear", "invalidate"}
      /\ Holding(th) /\ Item(th) = thr[th].todo[1]
  BY <1>1 DEF CallInv, GoodCall, Item, Holding
<1>3. \A u \in Threads \ {th} : ~Holding(u)
  BY <1>2, OneHolder
<1>4. ASSUME Reading(thr'[th])
      PROVE  CallRead(thr'[th], cmd', data', entries', last', lost')
  <2>1. Reading(thr[th])
    BY <1>1, <1>4 DEF Reading, Going
  <2>2. GotRight(thr[th], last, lost)
    BY <2>1 DEF ReadInv, CallRead
  <2>3. GotRight(thr'[th], last', lost')
    BY <1>1, <2>2 DEF GotRight, Going
  <2>. QED BY <1>1, <1>2, <2>3 DEF CallRead, Commanded
<1>. QED BY <1>1, <1>3, <1>4, GoingRead

\* A read takes one more value.
LEMMA GotMore ==
  ASSUME NEW c \in Calls, NEW g \in Gots, NEW x \in GotNames, NEW v \in Pairs,
         GotRight(c, last, lost), Right(x, c.t, last, lost, v),
         x = "intr" => "intr" \in Reads(c.op, c.t), g = Set(c.got, x, v)
  PROVE  /\ "intr" \in DOMAIN g => "intr" \in Reads(c.op, c.t)
         /\ \A y \in DOMAIN g : Right(y, c.t, last, lost, g[y])
<1>. DEFINE f == c.got
<1>1. f \in Gots
  BY ONLY c \in Calls DEF Calls
<1>2. g = Set(f, x, v)
  OBVIOUS
<1>. HIDE DEF f
<1>3. /\ DOMAIN Set(f, x, v) = DOMAIN f \cup {x} /\ Set(f, x, v)[x] = v
      /\ \A y \in DOMAIN f \ {x} : Set(f, x, v)[y] = f[y]
  BY ONLY <1>1, x \in GotNames, v \in Pairs, SetIs, ZenonT(40)
<1>4. /\ DOMAIN g = DOMAIN f \cup {x} /\ g[x] = v
      /\ \A y \in DOMAIN f \ {x} : g[y] = f[y]
  BY <1>2, <1>3
<1>. QED BY <1>4 DEF GotRight, f

\* A poll that sees the command done keeps ReadInv.
LEMMA DoneRead ==
  ASSUME Types, CallInv, CleanInv, ReadInv, NEW th \in Threads, Done(th)
  PROVE  ReadInv'
<1>1. /\ conf' = conf /\ last' = last /\ entries' = entries /\ cmd' = cmd /\ data' = data
      /\ Going(th) /\ thr[th].pc = "poll" /\ ~cmd.busy /\ thr'[th].pc = "next"
      /\ thr[th].todo # <<>> /\ thr'[th].todo = Tail(thr[th].todo)
      /\ thr'[th].got = IF Item(th)[2] \in {"read", "fetch"}
                        THEN Set(thr[th].got, GotName(th), data) ELSE thr[th].got
      /\ lost' = IF Now(th, "qid2vec", "write") THEN lost \ {thr[th].t} ELSE lost
      /\ GotName(th) \in GotNames /\ Types'
  BY DoneIs
<1>2. /\ thr[th] \in Calls /\ GoodCall(thr[th]) /\ conf \in Configs /\ Item(th) = thr[th].todo[1]
      /\ thr[th].todo \in Seq(Items) /\ data \in Pairs /\ thr'[th].got \in Gots
      /\ Item(th)[2] \in {"read", "fetch", "write", "clear", "invalidate"}
  BY <1>1 DEF Types, CallInv, Item, Calls, GoodCall
<1>3. \A d \in lost \ lost' : Writers(d) # {}
  <2>1. Now(th, "qid2vec", "write") => th \in Writers(thr[th].t)
    <3>. SUFFICES ASSUME Now(th, "qid2vec", "write") PROVE IsWriter(thr[th].op)
      BY <1>1 DEF Writers
    <3>. QED BY <1>1, <1>2, FirstItem DEF Now, Is
  <2>. QED BY <1>1, <2>1
<1>4. ASSUME Reading(thr'[th])
      PROVE  CallRead(thr'[th], cmd', data', entries', last', lost')
  <2>1. Reading(thr[th]) /\ CallRead(thr[th], cmd, data, entries, last, lost)
    BY <1>1, <1>4 DEF Reading, Going, ReadInv
  <2>2. Item(th)[2] = "read"
    BY <1>1, <1>2, <2>1, FirstItem DEF Reading
  <2>3. lost' = lost /\ GotName(th) = Item(th)[1]
    BY <1>1, <2>2 DEF Now, Is, GotName
  <2>4. Right(Item(th)[1], thr[th].t, last, lost, data)
    BY <1>1, <1>2, <2>1 DEF CallRead
  <2>5. Item(th)[1] = "intr" => "intr" \in Reads(thr[th].op, thr[th].t)
    BY <1>1, <1>2, <2>2, FirstItem DEF Fits, Reads
  <2>6. GotRight(thr[th], last, lost)
    BY <2>1 DEF CallRead
  <2>7. thr'[th].got = Set(thr[th].got, Item(th)[1], data) /\ Item(th)[1] \in GotNames
    BY <1>1, <2>2, <2>3
  <2>8. /\ "intr" \in DOMAIN thr'[th].got => "intr" \in Reads(thr[th].op, thr[th].t)
        /\ \A y \in DOMAIN thr'[th].got :
             Right(y, thr[th].t, last, lost, thr'[th].got[y])
    BY <1>2, <2>4, <2>5, <2>6, <2>7, GotMore
  <2>9. GotRight(thr'[th], last', lost')
    BY <1>1, <2>3, <2>8 DEF GotRight, Going
  <2>10. thr'[th].todo # <<>> => thr'[th].todo[1][2] # "print"
    BY <1>1, <1>2, <2>2, SecondItem DEF GoodCall, Is
  <2>. QED BY <1>1, <2>9, <2>10 DEF CallRead
<1>. QED BY <1>1, <1>3, <1>4, GoingRead

\* A poll that times out keeps ReadInv.
LEMMA TimeOutRead ==
  ASSUME Types, CallInv, CleanInv, ReadInv, NEW th \in Threads, TimeOut(th)
  PROVE  ReadInv'
<1>1. /\ conf' = conf /\ last' = last /\ entries' = entries /\ cmd' = cmd /\ data' = data
      /\ Going(th) /\ thr[th].pc = "poll" /\ thr'[th].pc = "next" /\ thr[th].todo # <<>>
      /\ thr'[th].got = thr[th].got
      /\ \/ Item(th)[2] \in {"fetch", "write"} /\ lost' = lost \cup {thr[th].t}
         \/ thr'[th].todo = <<>> /\ lost' = lost
  BY TimeOutIs
<1>2. thr[th] \in Calls /\ GoodCall(thr[th]) /\ conf \in Configs /\ Item(th) = thr[th].todo[1]
  BY DEF Types, CallInv, Item
<1>3. lost \subseteq lost'
  BY <1>1
<1>4. ASSUME Reading(thr'[th])
      PROVE  CallRead(thr'[th], cmd', data', entries', last', lost')
  <2>1. Reading(thr[th])
    BY <1>1, <1>4 DEF Reading, Going
  <2>2. thr'[th].todo = <<>> /\ lost' = lost
    BY <1>1, <1>2, <2>1, FirstItem DEF Reading
  <2>3. GotRight(thr[th], last, lost)
    BY <2>1 DEF ReadInv, CallRead
  <2>4. GotRight(thr'[th], last', lost')
    BY <1>1, <2>2, <2>3 DEF GotRight, Going
  <2>. QED BY <1>1, <2>2, <2>4 DEF CallRead
<1>. QED BY <1>1, <1>3, <1>4, GoingRead

\* A direct access keeps ReadInv.
LEMMA DirectRead ==
  ASSUME Types, CallInv, CleanInv, KeptInv, ReadInv, NEW th \in Threads, DirectAccess(th)
  PROVE  ReadInv'
<1>1. /\ conf' = conf /\ last' = last /\ entries' = entries /\ cmd' = cmd /\ data' = data
      /\ lost' = lost /\ Going(th) /\ thr[th].pc = "next" /\ thr'[th].pc = "next"
      /\ thr[th].todo # <<>> /\ thr'[th].todo = Tail(thr[th].todo)
      /\ Item(th)[1] = "fmap" /\ thr[th].t = "fmap" /\ conf.ip = "s80"
      /\ Item(th)[2] = "read" => thr'[th].got = Set(thr[th].got, "fmap", store["TRQ_FMAP"])
      /\ Item(th)[2] # "read" => IsWriter(thr[th].op)
      /\ Types'
  BY DirectIs
<1>2. /\ thr[th] \in Calls /\ GoodCall(thr[th]) /\ conf \in Configs /\ Item(th) = thr[th].todo[1]
      /\ thr[th].todo \in Seq(Items) /\ store["TRQ_FMAP"] \in Pairs /\ thr'[th].got \in Gots
  BY <1>1 DEF Types, CallInv, Item, Calls, Selectors
<1>3. ASSUME Reading(thr'[th])
      PROVE  CallRead(thr'[th], cmd', data', entries', last', lost')
  <2>1. Reading(thr[th]) /\ CallRead(thr[th], cmd, data, entries, last, lost)
    BY <1>1, <1>3 DEF Reading, Going, ReadInv
  <2>2. Item(th)[2] = "read"
    BY <1>1, <2>1 DEF Reading
  <2>3. Writers("fmap") = {} /\ last["fmap"].ok /\ Ops("fmap") # {}
    BY <1>1, <1>2, <2>1 DEF CleanInv, Reading, InCall, Reads, GoodCall
  <2>4. Held("fmap") = {"fmap"} /\ Sel("fmap", "fmap") = "TRQ_FMAP" /\ "fmap" \in Targets
    BY <1>1, <1>2, SelIs DEF Held, Targets, QTypes
  <2>5. store["TRQ_FMAP"] = Halves(last["fmap"].tag, last["fmap"].tag)
    BY <2>3, <2>4 DEF KeptInv, TargetKept
  <2>6. Right("fmap", thr[th].t, last, lost, store["TRQ_FMAP"])
    BY <1>1, <2>5 DEF Right
  <2>7. GotRight(thr[th], last, lost) /\ "fmap" \in GotNames
    BY <2>1 DEF CallRead, GotNames, Contexts
  <2>8. /\ "intr" \in DOMAIN thr'[th].got => "intr" \in Reads(thr[th].op, thr[th].t)
        /\ \A y \in DOMAIN thr'[th].got :
             Right(y, thr[th].t, last, lost, thr'[th].got[y])
    BY <1>1, <1>2, <2>2, <2>6, <2>7, GotMore
  <2>9. GotRight(thr'[th], last', lost')
    BY <1>1, <2>8 DEF GotRight, Going
  <2>10. thr'[th].todo # <<>> => thr'[th].todo[1][2] # "print"
    BY <1>1, <1>2, <2>2, SecondItem DEF GoodCall, Is
  <2>. QED BY <1>1, <2>9, <2>10 DEF CallRead
<1>. QED BY <1>1, <1>3, GoingRead

\* Printing the tables keeps ReadInv.
LEMMA PrintRead ==
  ASSUME Types, CallInv, CleanInv, ReadInv, NEW th \in Threads, PrintTables(th)
  PROVE  ReadInv'
<1>1. /\ conf' = conf /\ last' = last /\ entries' = entries /\ cmd' = cmd /\ data' = data
      /\ lost' = lost /\ Going(th) /\ thr[th].pc = "next" /\ thr'[th].pc = "next"
      /\ thr[th].todo # <<>>
      /\ \/ /\ Item(th)[2] = "print" /\ thr'[th].todo = Tail(thr[th].todo)
            /\ thr'[th].got = [c \in DOMAIN thr[th].got |->
                                 IF c \in Shown(th) THEN entries[c] ELSE thr[th].got[c]]
         \/ thr'[th].todo = <<>> /\ thr'[th].got = thr[th].got
  BY PrintIs
<1>2. /\ thr[th] \in Calls /\ GoodCall(thr[th]) /\ Item(th) = thr[th].todo[1]
      /\ thr[th].todo \in Seq(Items)
  BY DEF Types, CallInv, Item, Calls
<1>3. ASSUME Reading(thr'[th])
      PROVE  CallRead(thr'[th], cmd', data', entries', last', lost')
  <2>1. Reading(thr[th]) /\ CallRead(thr[th], cmd, data, entries, last, lost)
    BY <1>1, <1>3 DEF Reading, Going, ReadInv
  <2>2. GotRight(thr[th], last, lost)
    BY <2>1 DEF CallRead
  <2>3. CASE thr'[th].todo = <<>> /\ thr'[th].got = thr[th].got
    <3>1. GotRight(thr'[th], last', lost')
      BY <1>1, <2>2, <2>3 DEF GotRight, Going
    <3>. QED BY <1>1, <2>3, <3>1 DEF CallRead
  <2>4. CASE /\ Item(th)[2] = "print" /\ thr'[th].todo = Tail(thr[th].todo)
             /\ thr'[th].got = [c \in DOMAIN thr[th].got |->
                                  IF c \in Shown(th) THEN entries[c] ELSE thr[th].got[c]]
    <3>1. \A x \in Shown(th) : entries[x] = thr[th].got[x]
      BY <1>1, <1>2, <2>1, <2>4 DEF CallRead, ShownBy, Shown
    <3>2. DOMAIN thr'[th].got = DOMAIN thr[th].got
      BY <2>4
    <3>3. \A x \in DOMAIN thr[th].got : thr'[th].got[x] = thr[th].got[x]
      BY <2>4, <3>1
    <3>4. GotRight(thr'[th], last', lost')
      BY <1>1, <2>2, <3>2, <3>3 DEF GotRight, Going
    <3>5. thr'[th].todo # <<>> => thr'[th].todo[1][2] # "print"
      BY <1>1, <1>2, <2>4, SecondItem DEF GoodCall, Is
    <3>. QED BY <1>1, <3>4, <3>5 DEF CallRead
  <2>. QED BY <1>1, <2>3, <2>4
<1>. QED BY <1>1, <1>3, GoingRead

\* Filling the tables keeps ReadInv.
LEMMA FillRead ==
  ASSUME Types, CallInv, CleanInv, ReadInv, NEW th \in Threads, Fill(th)
  PROVE  ReadInv'
<1>1. /\ conf' = conf /\ last' = last /\ cmd' = cmd /\ data' = data
      /\ lost' = lost /\ Going(th) /\ thr[th].pc = "next" /\ thr'[th].pc = "next"
      /\ thr[th].todo # <<>> /\ thr'[th].todo = Tail(thr[th].todo)
      /\ thr'[th].got = thr[th].got /\ Item(th)[2] = "fill"
      /\ entries' = [c \in DOMAIN entries \cup Shown(th) |->
                       IF c \in Shown(th) THEN thr[th].got[c] ELSE entries[c]]
      /\ \A u \in Threads \ {th} :
           thr'[u].clean /\ thr[u].todo # <<>> => ~Now(u, Item(th)[1], "print")
  BY FillIs
<1>2. /\ thr[th] \in Calls /\ GoodCall(thr[th]) /\ conf \in Configs /\ Item(th) = thr[th].todo[1]
      /\ thr[th].todo \in Seq(Items) /\ Others(th)
  BY <1>1 DEF Types, CallInv, Item, Calls, Going
<1>3. Item(th)[1] \in {"queue", "intr"}
  BY <1>1, <1>2, FirstItem
<1>4. ASSUME NEW u \in Threads \ {th}, Reading(thr'[u]), thr[u].todo # <<>>,
             thr[u].todo[1][2] = "print", NEW x \in ShownBy(thr[u]), x \in DOMAIN entries
      PROVE  x \in DOMAIN entries' /\ entries'[x] = entries[x]
  <2>1. /\ thr[u] \in Calls /\ GoodCall(thr[u]) /\ thr[u].pc # "idle"
        /\ ~Now(u, Item(th)[1], "print")
    BY <1>1, <1>2, <1>4 DEF Types, CallInv, Reading, Others, Alike
  <2>2. thr[u].todo[1][1] \in {"queue", "intr"}
    BY <1>2, <1>4, <2>1, FirstItem
  <2>3. thr[u].todo[1][1] # Item(th)[1]
    BY <1>4, <2>1 DEF Now, Is, Item
  <2>4. x \notin Shown(th)
    BY <1>3, <1>4, <2>2, <2>3 DEF ShownBy, Shown
  <2>. QED BY <1>1, <1>4, <2>4
<1>6. \A u \in Threads \ {th} : CallRead(thr'[u], cmd', data', entries', last', lost')
  <2>. DEFINE e == entries'
  <2>1. Others(th) /\ (\A u \in Threads \ {th} : Holding(u) => cmd = cmd /\ data = data)
    BY <1>2
  <2>2. \A u \in Threads \ {th} :
          Reading(thr'[u]) /\ thr[u].todo # <<>> /\ thr[u].todo[1][2] = "print" =>
            \A x \in ShownBy(thr[u]) : x \in DOMAIN entries =>
              x \in DOMAIN e /\ e[x] = entries[x]
    BY <1>4
  <2>3. \A u \in Threads \ {th} : Reading(thr'[u]) =>
          \A r \in Reads(thr[u].op, thr[u].t) :
            last[r] = last[r] /\ (r \in lost => r \in lost)
    OBVIOUS
  <2>. HIDE DEF e
  <2>4. \A u \in Threads \ {th} : CallRead(thr'[u], cmd, data, e, last, lost)
    BY <2>1, <2>2, <2>3, OthersRead
  <2>. QED BY <1>1, <2>4 DEF e
<1>7. ASSUME Reading(thr'[th])
      PROVE  CallRead(thr'[th], cmd', data', entries', last', lost')
  <2>1. Reading(thr[th]) /\ CallRead(thr[th], cmd, data, entries, last, lost)
    BY <1>1, <1>7 DEF Reading, Going, ReadInv
  <2>2. GotRight(thr'[th], last', lost')
    BY <1>1, <2>1 DEF CallRead, GotRight, Going
  <2>3. ASSUME thr'[th].todo # <<>>, thr'[th].todo[1][2] = "print", NEW x \in ShownBy(thr'[th])
        PROVE  x \in DOMAIN entries' /\ entries'[x] = thr'[th].got[x]
    <3>1. thr'[th].todo[1][1] = Item(th)[1]
      BY <1>1, <1>2, <2>3, SecondItem DEF GoodCall, Is
    <3>2. x \in Shown(th)
      BY <1>1, <2>3, <3>1 DEF ShownBy, Shown
    <3>. QED BY <1>1, <3>2
  <2>. QED BY <1>1, <2>2, <2>3 DEF CallRead
<1>8. CallRead(thr'[th], cmd', data', entries', last', lost')
  BY <1>7 DEF CallRead
<1>. QED BY <1>1, <1>6, <1>8, ReadSame

\* Beginning a call keeps ReadInv.
LEMMA BeginRead ==
  ASSUME Types, CallInv, ReadInv, NEW th \in Threads, NEW t \in Targets, NEW op,
         Begin(th, op, t)
  PROVE  ReadInv'
<1>1. /\ conf' = conf /\ last' = last /\ entries' = entries /\ cmd' = cmd /\ data' = data
      /\ lost' = lost /\ Others(th) /\ op \in Ops(t)
      /\ thr'[th].pc = "next" /\ thr'[th].todo = Script(op, t) /\ thr'[th].got = <<>>
  BY BeginIs
<1>2. ListOK(op, t, Script(op, t))
  BY <1>1, ScriptOK DEF Types
<1>3. \A u \in Threads \ {th} : CallRead(thr'[u], cmd', data', entries', last', lost')
  BY <1>1, OthersRead
<1>4. GotRight(thr'[th], last', lost')
  BY <1>1, NoneGot DEF GotRight
<1>5. CallRead(thr'[th], cmd', data', entries', last', lost')
  BY <1>1, <1>2, <1>4 DEF CallRead, ListOK, WholeOK
<1>. QED BY <1>1, <1>3, <1>5, ReadSame

\* A return keeps ReadInv.
LEMMA ReturnRead ==
  ASSUME Types, CallInv, CleanInv, ReadInv, NEW th \in Threads, Return(th)
  PROVE  ReadInv'
<1>1. /\ conf' = conf /\ entries' = entries /\ cmd' = cmd /\ data' = data /\ lost' = lost
      /\ Others(th) /\ thr[th].pc = "next" /\ thr'[th].pc = "idle"
      /\ IsWriter(thr[th].op) =>
           last' = [last EXCEPT ![thr[th].t] = [tag |-> thr[th].tag, ok |-> thr[th].err = 0]]
      /\ ~IsWriter(thr[th].op) => last' = last
  BY ReturnIs, IdleIn
<1>2. last \in [Targets -> [tag : Nat, ok : BOOLEAN]]
  BY DEF Types
<1>3. ASSUME NEW u \in Threads \ {th}, Reading(thr'[u]), NEW r \in Reads(thr[u].op, thr[u].t)
      PROVE  last'[r] = last[r] /\ (r \in lost => r \in lost')
  <2>1. Reading(thr[u]) /\ thr[u].pc # "idle"
    BY <1>1, <1>3 DEF Others, Alike, Reading
  <2>2. Writers(r) = {}
    BY <1>3, <2>1 DEF CleanInv, Reading, InCall
  <2>3. r \in Targets
    BY <1>3, <2>1 DEF CallInv, GoodCall, Reads, Targets
  <2>4. ~(IsWriter(thr[th].op) /\ thr[th].t = r)
    BY <1>1, <2>2 DEF Writers
  <2>. QED BY <1>1, <1>2, <2>3, <2>4
<1>4. \A u \in Threads \ {th} : CallRead(thr'[u], cmd', data', entries', last', lost')
  BY <1>1, <1>3, OthersRead
<1>5. CallRead(thr'[th], cmd', data', entries', last', lost')
  BY <1>1 DEF CallRead, Reading
<1>. QED BY <1>1, <1>4, <1>5, ReadSame

\* The hardware's execution of a command keeps ReadInv.
LEMMA ExecuteRead ==
  ASSUME Types, CallInv, CleanInv, KeptInv, UsesQid2vec => MapInv, ReadInv, Execute
  PROVE  ReadInv'
<1>1. /\ conf' = conf /\ thr' = thr /\ last' = last /\ lost' = lost /\ entries' = entries
      /\ cmd.busy /\ ~cmd'.busy /\ data' = IF cmd.op = "RD" THEN store[cmd.sel] ELSE data
  BY ExecuteIs
<1>2. ASSUME NEW th \in Threads PROVE CallRead(thr'[th], cmd', data', entries', last', lost')
  <2>. DEFINE c == thr[th]
              t == c.t
              x == c.todo[1][1]
  <2>1. CallRead(c, cmd, data, entries, last, lost)
    BY DEF ReadInv
  <2>2. ASSUME Reading(c), c.pc = "poll" PROVE Right(x, t, last, lost, data')
    <3>1. /\ c \in Calls /\ GoodCall(c) /\ conf \in Configs /\ c.todo # <<>> /\ t \in Targets
          /\ c.op \in Ops(t) /\ ~IsWriter(c.op) /\ c.pc # "idle"
          /\ c.todo[1][2] \in {"read", "fetch", "write", "clear", "invalidate"}
          /\ cmd.sel = Sel(x, t) /\ cmd.op = Opcode(c.todo[1][2])
      BY <2>2 DEF Types, CallInv, GoodCall, Item, Reading
    <3>2. c.todo[1][2] = "read"
      BY <3>1, FirstItem
    <3>3. data' = store[Sel(x, t)]
      BY <1>1, <3>1, <3>2, OpcodeIs
    <3>4. \A r \in Reads(c.op, t) : Writers(r) = {} /\ last[r].ok
      BY <2>2 DEF CleanInv, Reading, InCall
    <3>5. t \in Reads(c.op, t) /\ Ops(t) # {}
      BY <3>1 DEF Reads
    <3>6. x = "intr" => conf.mode = "indirect" /\ "intr" \in Reads(c.op, t)
      BY <3>1, <3>2, FirstItem DEF Fits, Reads
    <3>7. CASE x = "intr"
      <4>1. /\ Ops("intr") # {} /\ Held("intr") = {"intr"} /\ "intr" \in Targets
            /\ Sel("intr", t) = Sel("intr", "intr")
        BY <3>1, <3>6, <3>7, SelIs DEF Ops, Held, Targets, QTypes
      <4>2. store[Sel("intr", "intr")] = Halves(last["intr"].tag, last["intr"].tag)
        BY <3>4, <3>6, <3>7, <4>1 DEF KeptInv, TargetKept
      <4>. QED BY <3>3, <3>7, <4>1, <4>2 DEF Right
    <3>8. CASE x # "intr"
      <4>1. x \in Held(t) => data' = Halves(last[t].tag, last[t].tag)
        BY <3>1, <3>3, <3>4, <3>5 DEF KeptInv, TargetKept
      <4>2. ASSUME x = "qid2vec", t \in Dirs, UsesQid2vec, last[t].tag # 0, t \notin lost
            PROVE  data'[t] = last[t].tag
        <5>1. Sel(x, t) = "FMAP"
          BY <3>1, <4>2, SelIs DEF UsesQid2vec
        <5>2. store["FMAP"][t] = last[t].tag
          BY <3>4, <3>5, <4>2 DEF MapInv, HalfKept
        <5>. QED BY <3>3, <5>1, <5>2
      <4>. QED BY <3>8, <4>1, <4>2 DEF Right
    <3>. QED BY <3>7, <3>8
  <2>. QED BY <1>1, <2>1, <2>2 DEF CallRead
<1>. QED BY <1>1, <1>2, ReadSame

\* The hardware's own use of a queue keeps ReadInv.
LEMMA RunRead ==
  ASSUME Types, ReadInv, NEW d \in Dirs, Run(d)
  PROVE  ReadInv'
<1>1. /\ conf' = conf /\ thr' = thr /\ last' = last /\ lost' = lost /\ entries' = entries
      /\ cmd' = cmd /\ data' = data
  BY RunIs
<1>. QED BY <1>1, ReadSame DEF ReadInv

-----------------------------------------------------------------------------
(***************************************************************************)
(* All of it together, in the absence of overwritten registers.            *)
(***************************************************************************)
AllKept == KeptInv /\ PendingInv /\ (UsesQid2vec => MapInv) /\ ReadInv
Kept == ~clobbered => AllKept

\* The steps after which no command is pending, or the same one
LEMMA IdlePending ==
  ASSUME conf' = conf, ~cmd'.busy
  PROVE  PendingInv'
  BY PendingSame DEF Changing

\* The hardware's own use of a queue keeps PendingInv.
LEMMA RunPending ==
  ASSUME Types, PendingInv, NEW d \in Dirs, Run(d)
  PROVE  PendingInv'
<1>1. conf' = conf /\ thr' = thr /\ last' = last /\ cmd' = cmd
  BY RunIs
<1>2. \A t : Writers(t)' = Writers(t)
  BY <1>1 DEF Writers
<1>. QED BY <1>1, <1>2, PendingSame DEF PendingInv

\* A stuttering step keeps everything.
LEMMA SameKept ==
  ASSUME AllKept, UNCHANGED vars
  PROVE  AllKept'
<1>1. /\ conf' = conf /\ store' = store /\ cmd' = cmd /\ data' = data /\ thr' = thr
      /\ last' = last /\ lost' = lost /\ entries' = entries
  BY DEF vars
<1>2. \A t : Writers(t)' = Writers(t)
  BY <1>1 DEF Writers
<1>3. UsesQid2vec' <=> UsesQid2vec
  BY <1>1, ConfSame
<1>4. KeptInv'
  BY <1>1, <1>2, KeptSame DEF AllKept, KeptInv
<1>5. PendingInv'
  BY <1>1, <1>2, PendingSame DEF AllKept, PendingInv
<1>6. ASSUME UsesQid2vec PROVE MapInv'
  BY <1>1, <1>2, <1>6 DEF AllKept, MapInv
<1>7. ReadInv'
  BY <1>1, ReadSame DEF AllKept, ReadInv
<1>. QED BY <1>3, <1>4, <1>5, <1>6, <1>7 DEF AllKept

\* The initial state satisfies Kept.
LEMMA KeptInit == Init => Kept
<1>. SUFFICES ASSUME Init PROVE AllKept
  BY DEF Kept
<1>1. /\ conf \in Configs /\ store = [s \in Selectors |-> Cleared] /\ ~cmd.busy
      /\ last = [t \in Targets |-> [tag |-> 0, ok |-> TRUE]]
      /\ \A th \in Threads : thr[th].pc = "idle"
  BY IdleIn DEF Init
<1>2. ASSUME NEW t \in Targets PROVE TargetKept(t, Writers(t), last[t], store)
  <2>. SUFFICES ASSUME Ops(t) # {}, NEW x \in Held(t)
                PROVE  store[Sel(x, t)] = Halves(last[t].tag, last[t].tag)
    BY DEF TargetKept
  <2>1. Sel(x, t) \in Selectors
    BY <1>1, HeldSel
  <2>. QED BY <1>1, <2>1 DEF Cleared
<1>3. KeptInv
  BY <1>1, <1>2 DEF KeptInv, Loaded, CallKept
<1>4. PendingInv
  BY <1>1 DEF PendingInv, Changing
<1>5. MapInv
  <2>1. \A d \in Dirs : last[d].tag = 0
    BY <1>1 DEF Dirs, Targets, QTypes
  <2>. QED BY <1>1, <2>1 DEF MapInv, Writing, CallMapped, HalfKept
<1>6. ReadInv
  BY <1>1 DEF ReadInv, CallRead, Reading
<1>. QED BY <1>3, <1>4, <1>5, <1>6 DEF AllKept

\* Every step of a thread in a call keeps all parts.
LEMMA CallKeeps ==
  ASSUME Base, AllKept, NEW th \in Threads, ~clobbered',
         \/ Load(th) \/ Command(th) \/ Done(th) \/ TimeOut(th)
         \/ DirectAccess(th) \/ Fill(th) \/ PrintTables(th) \/ Return(th)
  PROVE  AllKept'
<1>. USE DEF Base, AllKept
<1>1. conf' = conf
  BY DEF Load, Command, Done, TimeOut, DirectAccess, Fill, PrintTables, Return
<1>2. UsesQid2vec' <=> UsesQid2vec
  BY <1>1, ConfSame
<1>3. KeptInv'
  BY LoadKept, CommandKept, DoneKept, TimeOutKept, DirectKept, TablesKept, ReturnKept
<1>4. PendingInv'
  <2>1. CASE Done(th)
    <3>1. ~cmd'.busy
      BY <2>1, DoneIs
    <3>. QED BY <1>1, <3>1, IdlePending
  <2>2. CASE \/ Load(th) \/ Command(th) \/ TimeOut(th) \/ DirectAccess(th)
             \/ Fill(th) \/ PrintTables(th) \/ Return(th)
    BY <2>2, LoadPending, CommandPending, TimeOutPending, DirectPending, TablesPending,
       ReturnPending
  <2>. QED BY <2>1, <2>2
<1>5. ASSUME UsesQid2vec PROVE MapInv'
  BY <1>5, LoadMap, CommandMap, DoneMap, TimeOutMap, OtherMap, ReturnMap
<1>6. ReadInv'
  BY LoadRead, CommandRead, DoneRead, TimeOutRead, DirectRead, FillRead, PrintRead, ReturnRead
<1>. QED BY <1>2, <1>3, <1>4, <1>5, <1>6

\* Every step keeps Kept.
LEMMA KeptNext == Base /\ Kept /\ [Next]_vars => Kept'
<1>. SUFFICES ASSUME Base, Kept, [Next]_vars, ~clobbered' PROVE AllKept'
  BY DEF Kept
<1>1. ASSUME NEW th \in Threads,
             \/ Load(th) \/ Command(th) \/ Done(th) \/ TimeOut(th)
             \/ DirectAccess(th) \/ Fill(th) \/ PrintTables(th) \/ Return(th)
      PROVE  AllKept'
  <2>1. \/ clobbered' = clobbered
        \/ clobbered' = (clobbered \/ cmd.busy)
    BY <1>1 DEF Load, Command, Done, TimeOut, DirectAccess, Fill, PrintTables, Return
  <2>2. AllKept
    BY <2>1 DEF Kept
  <2>. QED BY <1>1, <2>2, CallKeeps
<1>2. ASSUME NEW th \in Threads, NEW t \in Targets, NEW op, Begin(th, op, t) PROVE AllKept'
  <2>1. conf' = conf /\ clobbered' = clobbered
    BY <1>2 DEF Begin
  <2>2. AllKept /\ (UsesQid2vec' <=> UsesQid2vec)
    BY <2>1, ConfSame DEF Kept
  <2>. QED BY <1>2, <2>2, BeginKept, BeginPending, BeginMap, BeginRead DEF AllKept, Base
<1>3. ASSUME Execute PROVE AllKept'
  <2>1. conf' = conf /\ clobbered' = clobbered /\ ~cmd'.busy
    BY <1>3, ExecuteIs DEF Base
  <2>2. AllKept /\ (UsesQid2vec' <=> UsesQid2vec)
    BY <2>1, ConfSame DEF Kept
  <2>3. PendingInv'
    BY <2>1, IdlePending
  <2>. QED BY <1>3, <2>2, <2>3, ExecuteKept, ExecuteMap, ExecuteRead DEF AllKept, Base
<1>4. ASSUME NEW d \in Dirs, Run(d) PROVE AllKept'
  <2>1. conf' = conf /\ clobbered' = clobbered
    BY <1>4 DEF Run
  <2>2. AllKept /\ (UsesQid2vec' <=> UsesQid2vec)
    BY <2>1, ConfSame DEF Kept
  <2>. QED BY <1>4, <2>2, RunKept, RunPending, RunMap, RunRead DEF AllKept, Base
<1>5. ASSUME UNCHANGED vars PROVE AllKept'
  <2>1. clobbered' = clobbered
    BY <1>5 DEF vars
  <2>2. AllKept
    BY <2>1 DEF Kept
  <2>. QED BY <1>5, <2>2, SameKept
<1>. QED BY <1>1, <1>2, <1>3, <1>4, <1>5 DEF Next, Dirs

\* Once a call that set up, cleared or invalidated a queue's contexts has
\* returned without error, the hardware holds what it wrote, whatever others
\* did through the shared indirect registers meanwhile (indirect_reg_clear(),
\* _write() of the xxx_access.c variants, under hw_prg_lock), for calls of any
\* number of threads and any number of polls that time out.
THEOREM ContextsKeptHolds == Spec => []ContextsKept
<1>1. ASSUME Kept PROVE ContextsKept
  <2>. SUFFICES ASSUME NEW t \in Targets, Ops(t) # {}, Writers(t) = {}, last[t].ok, ~clobbered
                PROVE  /\ \A c \in Held(t) :
                            store[Sel(c, t)] = Halves(last[t].tag, last[t].tag)
                       /\ VectorKept(t, store["FMAP"])
    BY DEF ContextsKept
  <2>1. TargetKept(t, Writers(t), last[t], store)
    BY <1>1 DEF Kept, AllKept, KeptInv
  <2>2. UsesQid2vec /\ t \in Dirs => HalfKept(t, Writers(t), last[t], lost, store["FMAP"])
    BY <1>1 DEF Kept, AllKept, MapInv
  <2>. QED BY <2>1, <2>2 DEF TargetKept, HalfKept, VectorKept, Dirs
<1>2. Kept => ContextsKept
  BY <1>1
<1>. QED BY <1>2, BaseInit, BaseNext, KeptInit, KeptNext, PTL DEF Spec

\* A read or a dump that returns without error, and during which no call
\* changed what it reads, returns the contexts as they were last written,
\* although it shares the data registers with all calls and the tables it is
\* printed from with all dumps (indirect_reg_read() and dump_xxx_context() of
\* the xxx_access.c variants).
THEOREM ReadBackHolds == Spec => []ReadBack
<1>1. ASSUME Kept PROVE ReadBack
  <2>. SUFFICES ASSUME NEW th \in Threads, thr[th].pc = "next", thr[th].clean,
                       ~IsWriter(thr[th].op), ~clobbered
                PROVE  /\ \A x \in DOMAIN thr[th].got \cap (Held(thr[th].t) \cup {"intr"}) :
                            LET v == last[IF x = "intr" THEN x ELSE thr[th].t].tag IN
                              thr[th].got[x] = Halves(v, v)
                       /\ "qid2vec" \in DOMAIN thr[th].got =>
                            VectorKept(thr[th].t, thr[th].got["qid2vec"])
    BY DEF ReadBack
  <2>1. GotRight(thr[th], last, lost)
    BY <1>1 DEF Kept, AllKept, ReadInv, CallRead, Reading
  <2>2. \A x \in DOMAIN thr[th].got : Right(x, thr[th].t, last, lost, thr[th].got[x])
    BY <2>1 DEF GotRight
  <2>. QED BY <2>2 DEF Right, VectorKept, Dirs
<1>2. Kept => ReadBack
  BY <1>1
<1>. QED BY <1>2, BaseInit, BaseNext, KeptInit, KeptNext, PTL DEF Spec
=============================================================================
