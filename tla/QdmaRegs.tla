------------------------------ MODULE QdmaRegs ------------------------------
(***************************************************************************)
(* The configuration registers that the three QDMA variants list for their *)
(* register dumps: eqdma (EQDMA soft IP), soft (QDMA soft IP), s80 (Versal *)
(* hard IP).  The order is the one of the source, on which the dumps rest. *)
(*                                                                         *)
(* A register is known by its address; a field of it by its place in the   *)
(* register's list of fields.  Fields are given by their highest and       *)
(* lowest bit: <<31, 20, 19, 0>> is a field in bits 31..20 and one in bits *)
(* 19..0.  The i-th list of fields belongs to the i-th register.           *)
(***************************************************************************)
EXTENDS Integers, Sequences

\* The engines a register belongs to (the bits of struct xreg_info.mode).
Mm == {"mm"}
Cmpt == {"cmpt"}
St == {"st"}
Mbox == {"mailbox"}
All == {"mm", "cmpt", "st"}        \* QDMA_MM_ST_MODE

\* A register that fills repeat addresses from addr on.
Array(mode, vf, addr, repeat) ==
  <<[addr |-> addr, repeat |-> repeat, mode |-> mode, vf |-> vf,
     debug |-> FALSE]>>

\* Registers that are alike; vf: a VF may read them (QDMA_REG_READ_PF_VF).
Block(mode, vf, debug, addrs) ==
  [k \in DOMAIN addrs |->
     [addr |-> addrs[k], repeat |-> 1, mode |-> mode, vf |-> vf,
      debug |-> debug]]

Pf(mode, addrs) == Block(mode, FALSE, FALSE, addrs)
PfVf(mode, addrs) == Block(mode, TRUE, FALSE, addrs)
PfDebug(mode, addrs) == Block(mode, FALSE, TRUE, addrs)
PfVfDebug(mode, addrs) == Block(mode, TRUE, TRUE, addrs)

-----------------------------------------------------------------------------
(* EQDMA soft IP *)

EqdmaRegs1 ==
  Pf(All, <<\h0, \h8, \hC, \h10, \h14, \h18, \h1C, \h20, \h40, \h44, \h4C,
        \h68, \h80, \hA0, \hE0, \hE4, \hE8, \hEC, \hF0, \hF4, \hF8, \hFC,
        \h100, \h114, \h118>>)

EqdmaRegs2 ==
  Pf(All, <<\h11C, \h120, \h128, \h130, \h134, \h1B8, \h1BC, \h1C0, \h1C4,
        \h1C8, \h1CC, \h1D0, \h1D4, \h1F4, \h1F8, \h1FC>>)
    \o PfVf(All, <<\h204, \h208, \h20C, \h210, \h214, \h218, \h21C, \h220,
        \h224>>)

EqdmaRegs3 ==
  PfVf(All, <<\h228, \h22C, \h230, \h234, \h238, \h23C, \h240, \h248, \h24C,
        \h250, \h254, \h258, \h25C, \h260, \h264, \h268, \h26C, \h270, \h274,
        \h278, \h27C, \h2C4, \h2C8, \h308, \h30C>>)

EqdmaRegs4 ==
  PfVf(All, <<\h314>>)
    \o Pf(All, <<\h318, \h31C, \h804, \h824, \h844>>)
    \o Pf(Cmpt, <<\hA00, \hA40>>)
    \o PfVfDebug(St, <<\hA88, \hA8C, \hA90, \hA94>>)
    \o PfDebug(St, <<\hA98, \hA9C, \hAA0, \hAA4, \hAA8, \hAAC>>)
    \o Pf(St, <<\hAB0>>)
    \o PfVf(St, <<\hAF0, \hAF4, \hAF8, \hAFC, \hB00, \hB04>>)

EqdmaRegs5 ==
  Pf(St, <<\hB08>>)
    \o Pf(Cmpt, <<\hA80, \hA84>>)
    \o Pf(St, <<\hB0C>>)
    \o PfVfDebug(St, <<\hB10, \hB14>>)
    \o PfDebug(St, <<\hB18, \hB1C, \hB20, \hB24, \hB28>>)
    \o Pf(St, <<\hB2C>>)
    \o PfVf(St, <<\hB30>>)
    \o PfDebug(St, <<\hB34, \hB38, \hB3C, \hB40>>)
    \o Pf(St, <<\hB44, \hB48, \hB4C, \hB50>>)
    \o PfVf(St, <<\hB54, \hB58, \hB5C, \hB60>>)

EqdmaRegs6 ==
  Pf(St, <<\hB64, \hB68, \hB6C, \hB70>>)
    \o PfVf(St, <<\hB74, \hB78>>)
    \o Pf(St, <<\hB7C, \hB80, \hB84, \hB88, \hB8C, \hB90, \hB94, \hB98,
        \hB9C, \hBA0, \hBA4, \hBA8, \hBAC, \hBB0, \hBB4, \hBB8, \hBBC, \hBC0,
        \hBC4>>)

EqdmaRegs7 ==
  Pf(St, <<\hBC8, \hBCC, \hBD0, \hBD4, \hBD8, \hBDC, \hBE0, \hBE4, \hBE8>>)
    \o PfDebug(St, <<\hBEC, \hBF0>>)
    \o Pf(St, <<\hBF4, \hBF8, \hBFC>>)
    \o PfVf(St, <<\hE00, \hE04, \hE08>>)
    \o PfDebug(St, <<\hE0C, \hE10, \hE14, \hE18, \hE1C>>)
    \o PfVf(St, <<\hE20>>)
    \o Pf(St, <<\hE24>>)
    \o PfDebug(St, <<\hE28>>)

EqdmaRegs8 ==
  Pf(St, <<\hE2C>>)
    \o Pf(Mm, <<\h1004, \h1040, \h1048, \h1054, \h1058, \h105C, \h10C0,
        \h10C4, \h10C8, \h10CC, \h10D0, \h10E8, \h1204, \h1240, \h1248,
        \h1254, \h1258, \h125C, \h12C0, \h12C4, \h12C8, \h12CC, \h12D0,
        \h12E8>>)

EqdmaRegs9 ==
  Pf(St, <<\h1400, \h1404, \h1408, \h140C, \h1500>>)

EqdmaRegs ==
  EqdmaRegs1 \o EqdmaRegs2 \o EqdmaRegs3 \o EqdmaRegs4 \o EqdmaRegs5
    \o EqdmaRegs6 \o EqdmaRegs7 \o EqdmaRegs8 \o EqdmaRegs9

EqdmaFields1 ==
  <<<<31, 20, 19, 16, 15, 8, 7, 0>>, <<31, 7, 6, 4, 3, 3, 2, 0>>,
    <<31, 7, 6, 4, 3, 3, 2, 0>>, <<31, 17, 16, 16, 15, 0>>, <<31, 0>>,
    <<31, 3, 2, 0>>, <<31, 18, 17, 16, 15, 2, 1, 1, 0, 0>>, <<31, 0>>,
    <<31, 7, 6, 4, 3, 3, 2, 0>>, <<31, 7, 6, 4, 3, 3, 2, 0>>,
    <<31, 24, 23, 23, 22, 22, 21, 21, 20, 20, 19, 8, 7, 5, 4, 0>>,
    <<31, 5, 4, 4, 3, 1, 0, 0>>>>

EqdmaFields2 ==
  <<<<31, 0>>, <<31, 1, 0, 0>>, <<31, 0>>,
    <<31, 5, 4, 4, 3, 3, 2, 2, 1, 1, 0, 0>>, <<31, 0>>,
    <<31, 5, 4, 4, 3, 3, 2, 2, 1, 1, 0, 0>>, <<31, 0>>,
    <<31, 31, 30, 30, 29, 29, 28, 28, 27, 27, 26, 26, 25, 25, 24, 24, 23,
      23, 22, 19, 18, 18, 17, 17, 16, 16, 15, 15, 14, 14, 13, 13, 12, 12,
      11, 11, 10, 10, 9, 9, 8, 8, 7, 7, 6, 6, 5, 5, 4, 4, 3, 3, 2, 2, 1, 1,
      0, 0>>, <<31, 0>>>>

EqdmaFields3 ==
  <<<<31, 31, 30, 30, 29, 29, 28, 28, 27, 27, 26, 26, 25, 25, 24, 24, 23,
      23, 22, 19, 18, 18, 17, 17, 16, 16, 15, 15, 14, 14, 13, 13, 12, 12,
      11, 11, 10, 10, 9, 9, 8, 8, 7, 7, 6, 6, 5, 5, 4, 4, 3, 3, 2, 2, 1, 1,
      0, 0>>, <<31, 8, 7, 0>>,
    <<31, 18, 17, 17, 16, 16, 15, 12, 11, 8, 7, 4, 3, 0>>,
    <<31, 18, 17, 17, 16, 16, 15, 12, 11, 8, 7, 4, 3, 0>>,
    <<31, 18, 17, 17, 16, 16, 15, 12, 11, 8, 7, 4, 3, 0>>, <<31, 12, 11, 0>>,
    <<31, 2, 1, 1, 0, 0>>>>

EqdmaFields4 ==
  <<<<31, 16, 15, 0>>, <<31, 0>>, <<31, 20, 19, 9, 8, 2, 1, 0>>,
    <<31, 21, 20, 19, 18, 18, 17, 17, 16, 16, 15, 15, 14, 12, 11, 9, 8, 8,
      7, 7, 6, 6, 5, 5, 4, 4, 3, 3, 2, 2, 1, 1, 0, 0>>,
    <<31, 27, 26, 26, 25, 23, 22, 22, 21, 21, 20, 18, 17, 12, 11, 9, 8, 8,
      7, 7, 6, 6, 5, 5, 4, 2, 1, 1, 0, 0>>,
    <<31, 30, 29, 24, 23, 18, 17, 12, 11, 6, 5, 0>>,
    <<31, 23, 22, 17, 16, 16, 15, 13, 12, 10, 9, 7, 6, 6, 5, 5, 4, 2, 1, 1,
      0, 0>>>>

EqdmaFields5 ==
  <<<<31, 30, 29, 24, 23, 18, 17, 12, 11, 6, 5, 0>>,
    <<31, 31, 30, 30, 29, 29, 28, 28, 27, 24, 23, 23, 22, 16, 15, 15, 14,
      14, 13, 10, 9, 9, 8, 8, 7, 7, 6, 6, 5, 5, 4, 4, 3, 3, 2, 2, 1, 1, 0,
      0>>,
    <<31, 25, 24, 18, 17, 17, 16, 16, 15, 13, 12, 12, 11, 9, 8, 8, 7, 5, 4,
      4, 3, 1, 0, 0>>, <<31, 18, 17, 13, 12, 12, 11, 10, 9, 8, 7, 0>>,
    <<31, 0>>, <<31, 0>>, <<31, 16, 15, 0>>, <<31, 16, 15, 0>>,
    <<31, 16, 15, 0>>>>

EqdmaFields6 ==
  <<<<31, 16, 15, 0>>, <<31, 16, 15, 0>>, <<31, 16, 15, 0>>,
    <<31, 16, 15, 0>>, <<31, 16, 15, 0>>, <<31, 16, 15, 0>>,
    <<31, 16, 15, 0>>, <<31, 16, 15, 0>>, <<31, 16, 15, 0>>,
    <<31, 16, 15, 0>>, <<31, 16, 15, 0>>, <<31, 16, 15, 0>>,
    <<31, 16, 15, 0>>,
    <<31, 18, 17, 17, 16, 16, 15, 15, 14, 9, 8, 8, 7, 7, 6, 6, 5, 5, 4, 4,
      3, 3, 2, 2, 1, 1, 0, 0>>>>

EqdmaFields7 ==
  <<<<31, 0>>, <<31, 10, 9, 9, 8, 8, 7, 6, 5, 3, 2, 0>>,
    <<31, 26, 25, 25, 24, 24, 23, 23, 22, 22, 21, 21, 20, 20, 19, 19, 18,
      17, 16, 16, 9, 9, 8, 8, 6, 6, 5, 5, 4, 4, 3, 3, 2, 2, 1, 1>>,
    <<31, 0>>, <<31, 31, 30, 30, 29, 13, 12, 0>>,
    <<31, 28, 27, 12, 11, 9, 8, 5, 4, 0>>,
    <<31, 8, 7, 7, 6, 6, 5, 5, 4, 4, 3, 3, 2, 2, 1, 1, 0, 0>>, <<31, 0>>,
    <<31, 31, 30, 27, 26, 17, 16, 0>>>>

EqdmaFields8 ==
  <<<<31, 30, 29, 29, 28, 17, 16, 12, 11, 11, 10, 10, 9, 8, 7, 6, 5, 4, 3,
      2, 1, 0>>, <<31, 28, 27, 22, 21, 16, 15, 8, 7, 0>>, <<31, 3, 2, 0>>,
    <<31, 16, 15, 0>>, <<31, 2, 1, 1, 0, 0>>,
    <<31, 28, 27, 24, 23, 20, 19, 16, 15, 12, 11, 8, 7, 4, 3, 0>>,
    <<31, 4, 3, 0>>, <<31, 0>>, <<31, 7, 6, 0>>,
    <<31, 11, 10, 10, 9, 9, 8, 8, 7, 7, 6, 6, 5, 5, 4, 4, 3, 3, 2, 2, 1, 1,
      0, 0>>>>

EqdmaFields9 ==
  <<<<31, 0>>, <<31, 0>>, <<31, 0>>, <<31, 20, 19, 7, 6, 5, 4, 1, 0, 0>>,
    <<31, 16, 15, 0>>, <<31, 16, 15, 0>>, <<31, 0>>, <<31, 0>>, <<31, 0>>,
    <<31, 0>>, <<31, 0>>, <<31, 0>>, <<31, 0>>, <<31, 0>>, <<31, 0>>,
    <<31, 0>>, <<31, 0>>>>

EqdmaFields10 ==
  <<<<31, 21, 20, 20, 19, 19, 18, 18, 17, 17, 16, 16, 15, 15, 14, 14, 13,
      13, 12, 12, 11, 11, 10, 10, 9, 9, 8, 8, 7, 7, 6, 6, 5, 5, 4, 4, 3, 3,
      2, 2, 1, 1, 0, 0>>, <<31, 0>>,
    <<31, 21, 20, 20, 19, 19, 18, 18, 17, 17, 16, 16, 15, 15, 14, 14, 13,
      13, 12, 12, 11, 11, 10, 10, 9, 9, 8, 8, 7, 4, 3, 3, 2, 2, 1, 1, 0,
      0>>, <<31, 0>>, <<31, 2, 1, 1, 0, 0>>,
    <<31, 30, 29, 26, 25, 25, 24, 24, 23, 23, 22, 12, 11, 0>>,
    <<31, 16, 15, 0>>>>

EqdmaFields11 ==
  <<<<31, 16, 15, 0>>, <<31, 31, 30, 29, 28, 28, 27, 12, 11, 6, 5, 0>>,
    <<31, 0>>, <<31, 0>>, <<31, 0>>, <<31, 0>>,
    <<31, 31, 30, 30, 29, 27, 26, 24, 23, 23, 22, 22, 21, 21, 20, 9, 8, 8,
      7, 5, 4, 4, 3, 0>>, <<31, 29, 28, 18, 17, 7, 6, 0>>,
    <<31, 29, 28, 18, 17, 7, 6, 0>>>>

EqdmaFields12 ==
  <<<<31, 24, 23, 19, 18, 18, 17, 17, 16, 16, 15, 15, 14, 14, 13, 13, 12,
      12, 11, 11, 10, 10, 9, 9, 8, 8, 7, 7, 6, 6, 5, 5, 4, 4, 3, 3, 2, 2, 1,
      1, 0, 0>>, <<31, 14, 13, 13, 12, 12, 11, 1, 0, 0>>,
    <<31, 21, 20, 16, 15, 13, 12, 0>>, <<31, 16, 15, 0>>, <<31, 16, 15, 0>>,
    <<31, 16, 15, 0>>, <<31, 16, 15, 0>>, <<31, 16, 15, 0>>,
    <<31, 16, 15, 0>>, <<31, 11, 10, 0>>>>

EqdmaFields13 ==
  <<<<31, 26, 25, 14, 13, 2, 1, 1, 0, 0>>, <<31, 18, 17, 0>>,
    <<31, 18, 17, 0>>, <<31, 18, 17, 0>>, <<31, 18, 17, 0>>,
    <<31, 18, 17, 0>>, <<31, 18, 17, 0>>, <<31, 18, 17, 0>>,
    <<31, 18, 17, 0>>, <<31, 18, 17, 0>>, <<31, 18, 17, 0>>,
    <<31, 18, 17, 0>>, <<31, 18, 17, 0>>, <<31, 18, 17, 0>>>>

EqdmaFields14 ==
  <<<<31, 24, 23, 19, 18, 18, 17, 17, 16, 16, 15, 15, 14, 14, 13, 13, 12,
      12, 11, 11, 10, 10, 9, 9, 8, 8, 7, 7, 6, 6, 5, 5, 4, 4, 3, 3, 2, 2, 1,
      1, 0, 0>>,
    <<31, 30, 29, 29, 28, 24, 23, 22, 21, 6, 5, 5, 4, 4, 3, 3, 2, 2, 1, 1,
      0, 0>>, <<31, 16, 15, 15, 14, 12, 11, 0>>, <<31, 0>>,
    <<31, 8, 7, 4, 3, 0>>, <<31, 18, 17, 0>>, <<31, 18, 17, 0>>,
    <<31, 18, 17, 0>>, <<31, 18, 17, 0>>, <<31, 18, 17, 0>>>>

EqdmaFields15 ==
  <<<<31, 18, 17, 0>>, <<31, 18, 17, 0>>, <<31, 18, 17, 0>>,
    <<31, 18, 17, 0>>, <<31, 18, 17, 0>>, <<31, 16, 15, 0>>,
    <<31, 16, 15, 0>>, <<31, 16, 15, 0>>, <<31, 16, 15, 0>>,
    <<31, 16, 15, 0>>, <<31, 16, 15, 0>>, <<31, 16, 15, 0>>,
    <<23, 16, 7, 0>>, <<31, 8, 7, 0>>, <<31, 1, 0, 0>>, <<31, 18, 17, 0>>>>

EqdmaFields16 ==
  <<<<31, 18, 17, 0>>, <<31, 16, 15, 0>>, <<31, 16, 15, 0>>,
    <<31, 18, 17, 0>>, <<31, 6, 5, 5, 4, 4, 3, 3, 2, 2, 1, 1, 0, 0>>,
    <<31, 0>>, <<31, 20, 19, 16, 15, 13, 12, 0>>, <<31, 16, 15, 0>>,
    <<31, 16, 15, 0>>, <<31, 16, 15, 0>>,
    <<31, 31, 30, 30, 29, 29, 28, 26, 25, 16, 15, 6, 5, 5, 4, 4, 3, 2, 1, 1,
      0, 0>>, <<31, 0>>, <<31, 1, 0, 0>>>>

EqdmaFields17 ==
  <<<<31, 31, 30, 19, 18, 18, 17, 0>>, <<15, 0>>,
    <<31, 31, 30, 19, 18, 18, 17, 0>>, <<31, 9, 8, 8, 7, 1, 0, 0>>,
    <<31, 1, 0, 0>>, <<31, 0>>,
    <<31, 31, 30, 30, 29, 29, 28, 28, 27, 2, 1, 1, 0, 0>>,
    <<31, 28, 27, 12, 11, 10, 9, 5, 4, 0>>,
    <<31, 31, 30, 30, 29, 24, 23, 0>>, <<31, 4, 3, 3, 2, 2, 1, 1, 0, 0>>,
    <<31, 0>>, <<31, 10, 9, 0>>, <<31, 0>>>>

EqdmaFields18 ==
  <<<<31, 10, 9, 0>>,
    <<31, 24, 23, 17, 16, 7, 6, 6, 5, 5, 4, 4, 3, 3, 2, 2, 1, 1, 0, 0>>,
    <<31, 9, 8, 8, 7, 1, 0, 0>>, <<31, 1, 0, 0>>, <<31, 0>>,
    <<31, 30, 29, 29, 28, 28, 27, 23, 22, 22, 21, 17, 16, 16, 15, 9, 8, 8,
      7, 6, 5, 5, 4, 4, 3, 3, 2, 2, 1, 1, 0, 0>>,
    <<31, 28, 27, 12, 11, 10, 9, 5, 4, 0>>,
    <<31, 31, 30, 30, 29, 24, 23, 0>>, <<31, 4, 3, 3, 2, 2, 1, 1, 0, 0>>,
    <<31, 0>>>>

EqdmaFields19 ==
  <<<<31, 10, 9, 0>>, <<31, 0>>, <<31, 10, 9, 0>>,
    <<31, 24, 23, 17, 16, 7, 6, 6, 5, 5, 4, 4, 3, 3, 2, 2, 1, 1, 0, 0>>,
    <<31, 18, 17, 10, 9, 0>>, <<31, 24, 23, 16, 15, 11, 10, 0>>,
    <<31, 12, 11, 0>>, <<31, 20, 19, 8, 7, 7, 6, 0>>, <<31, 16, 15, 0>>>>

EqdmaFields ==
  EqdmaFields1 \o EqdmaFields2 \o EqdmaFields3 \o EqdmaFields4
    \o EqdmaFields5 \o EqdmaFields6 \o EqdmaFields7 \o EqdmaFields8
    \o EqdmaFields9 \o EqdmaFields10 \o EqdmaFields11 \o EqdmaFields12
    \o EqdmaFields13 \o EqdmaFields14 \o EqdmaFields15 \o EqdmaFields16
    \o EqdmaFields17 \o EqdmaFields18 \o EqdmaFields19

-----------------------------------------------------------------------------
(* QDMA soft IP *)

SoftRegs1 ==
  Pf(All, <<\h0, \h4, \h8, \hC, \h10, \h14, \h18, \h1C, \h40, \h44, \h4C>>)
    \o Array(All, FALSE, \h80, 8)
    \o Pf(All, <<\hF0, \hF4, \hF8, \hFC, \h100, \h104, \h108, \h10C, \h110,
        \h114, \h118, \h11C, \h120, \h128, \h12C, \h130, \h134>>)
    \o Array(All, FALSE, \h1B8, 2)
    \o Array(All, FALSE, \h1C0, 2)
    \o Array(All, FALSE, \h1C8, 2)
    \o Array(All, FALSE, \h204, 16)
    \o PfVf(All, <<\h248, \h24C, \h250, \h254, \h258>>)
    \o Array(All, TRUE, \h25C, 2)
    \o PfVf(All, <<\h264, \h268, \h26C>>)
    \o Array(All, TRUE, \h270, 2)
    \o PfVf(All, <<\h27C, \h288>>)
    \o Array(All, FALSE, \h400, 4)
    \o Array(All, FALSE, \h804, 8)

SoftRegs2 ==
  Array(All, FALSE, \h824, 8)
    \o Pf(All, <<\h844>>)
    \o Array(Cmpt, FALSE, \hA00, 16)
    \o Array(Cmpt, FALSE, \hA40, 16)
    \o PfVf(St, <<\hA88, \hA8C, \hA90, \hA94, \hA98>>)
    \o Pf(St, <<\hA9C, \hAA0, \hAA4, \hAA8, \hAAC>>)
    \o Array(St, FALSE, \hAB0, 16)
    \o PfVf(St, <<\hAF0, \hAF4, \hAF8, \hAFC, \hB00, \hB04>>)
    \o Pf(St, <<\hB08, \hB0C>>)
    \o PfVf(St, <<\hB10, \hB14>>)
    \o Pf(St, <<\hB18>>)
    \o Array(St, FALSE, \hB1C, 4)
    \o Pf(St, <<\hB2C>>)
    \o PfVf(St, <<\hB30>>)
    \o Pf(St, <<\hB34, \hB38, \hB3C, \hB40, \hB44, \hB48, \hB4C, \hB50>>)
    \o PfVf(St, <<\hB54, \hB58, \hB5C, \hB60>>)
    \o Pf(St, <<\hB64, \hB68, \hB6C, \hB70>>)
    \o PfVf(St, <<\hB74, \hB78>>)
    \o Pf(St, <<\hB7C, \hB80>>)

SoftRegs3 ==
  Pf(St, <<\hB84, \hB88, \hB8C, \hB90, \hB94, \hB98, \hB9C, \hBA0, \hBA4,
        \hBA8, \hBAC, \hBB0, \hBB4, \hBB8, \hBBC, \hBC0>>)
    \o Array(St, FALSE, \hBC4, 7)
    \o Pf(St, <<\hBE0, \hBE4, \hBE8>>)
    \o PfVf(St, <<\hE00, \hE04, \hE08>>)
    \o Array(St, FALSE, \hE0C, 5)
    \o Pf(St, <<\hE20, \hE24, \hE28>>)
    \o Array(Mm, FALSE, \h1004, 3)
    \o Array(Mm, FALSE, \h1040, 2)
    \o Pf(Mm, <<\h1048, \h1054, \h1058, \h105C, \h10C0>>)
    \o Array(Mm, FALSE, \h10C4, 2)
    \o Array(Mm, FALSE, \h10CC, 2)
    \o Array(Mm, FALSE, \h10E8, 2)
    \o Array(Mm, FALSE, \h1204, 3)
    \o Pf(Mm, <<\h1240, \h1248, \h1254, \h1258, \h125C, \h12C0>>)
    \o Array(Mm, FALSE, \h12C4, 2)
    \o Array(Mm, FALSE, \h12CC, 2)
    \o Pf(Mm, <<\h12E8, \h12EC>>)

SoftRegs4 ==
  Pf(Mbox, <<\h2400, \h2404, \h2408, \h240C, \h2410>>)
    \o Array(Mbox, FALSE, \h2420, 8)
    \o Pf(Mbox, <<\h2500>>)
    \o Array(Mbox, FALSE, \h2800, 32)
    \o Array(Mbox, FALSE, \h2C00, 32)
    \o Array({}, FALSE, \h0, 0)

SoftRegs ==
  SoftRegs1 \o SoftRegs2 \o SoftRegs3 \o SoftRegs4

-----------------------------------------------------------------------------
(* Versal hard IP *)

S80Regs1 ==
  Pf(All, <<\h0, \h4, \h8, \hC, \h10, \h14, \h18, \h1C, \h40, \h44, \h4C,
        \h80, \h84, \h88, \h8C, \h90, \h94, \h98, \h9C, \hF0, \hF4, \hF8,
        \hFC, \h100, \h104>>)

S80Regs2 ==
  Pf(All, <<\h108, \h10C, \h110, \h114, \h118, \h11C, \h120, \h128, \h12C,
        \h130, \h134, \h1B8, \h1BC, \h1C0, \h1C4, \h1C8, \h1CC>>)
    \o PfVf(All, <<\h204, \h208, \h20C, \h210, \h214, \h218, \h21C, \h220>>)

S80Regs3 ==
  PfVf(All, <<\h224, \h228, \h22C, \h230, \h234, \h238, \h23C, \h240, \h248,
        \h24C, \h250, \h254, \h258, \h25C, \h260, \h264, \h268, \h26C, \h270,
        \h274>>)
    \o Pf(All, <<\h400, \h404, \h408, \h40C, \h410>>)

S80Regs4 ==
  Pf(All, <<\h414, \h418, \h41C, \h420, \h424, \h428, \h42C, \h430, \h434,
        \h438, \h43C, \h440, \h444, \h448, \h44C, \h450, \h454, \h458, \h45C,
        \h460, \h464, \h468, \h46C, \h470, \h474>>)

S80Regs5 ==
  Pf(All, <<\h478, \h47C, \h480, \h484, \h488, \h48C, \h490, \h494, \h498,
        \h49C, \h4A0, \h4A4, \h4A8, \h4AC, \h4B0, \h4B4, \h4B8, \h4BC, \h4D0,
        \h4D4, \h4D8, \h4DC, \h4E0, \h4E4, \h4E8>>)

S80Regs6 ==
  Pf(All, <<\h4EC, \h4F0, \h4F4, \h4F8, \h4FC, \h500, \h504, \h508, \h50C,
        \h510, \h514, \h518, \h51C, \h520, \h524, \h528, \h52C, \h530, \h534,
        \h538, \h53C, \h540, \h544, \h548, \h54C>>)

S80Regs7 ==
  Pf(All, <<\h550, \h554, \h558, \h55C, \h560, \h564, \h568, \h56C, \h570,
        \h574, \h578, \h57C, \h580, \h584, \h588, \h58C, \h590, \h594, \h598,
        \h59C, \h5A0, \h5A4, \h5A8, \h5AC, \h5B0>>)

S80Regs8 ==
  Pf(All, <<\h5B4, \h5B8, \h5BC, \h5C0, \h5C4, \h5C8, \h5CC, \h5D0, \h5D4,
        \h5D8, \h5DC, \h5E0, \h5E4, \h5E8, \h5EC, \h5F0, \h5F4, \h5F8, \h5FC,
        \h600, \h604, \h608, \h60C, \h610, \h614>>)

S80Regs9 ==
  Pf(All, <<\h618, \h61C, \h620, \h624, \h628, \h62C, \h630, \h634, \h638,
        \h63C, \h640, \h644, \h648, \h64C, \h650, \h654, \h658, \h65C, \h660,
        \h664, \h668, \h66C, \h670, \h674, \h678>>)

S80Regs10 ==
  Pf(All, <<\h67C, \h680, \h684, \h688, \h68C, \h690, \h694, \h698, \h69C,
        \h6A0, \h6A4, \h6A8, \h6AC, \h6B0, \h6B4, \h6B8, \h6BC, \h6D0, \h6D4,
        \h6D8, \h6DC, \h6E0, \h6E4, \h6E8, \h6EC>>)

S80Regs11 ==
  Pf(All, <<\h6F0, \h6F4, \h6F8, \h6FC, \h700, \h704, \h708, \h70C, \h710,
        \h714, \h718, \h71C, \h720, \h734, \h748, \h74C, \h750, \h754, \h758,
        \h75C, \h760, \h764, \h768, \h76C, \h770>>)

S80Regs12 ==
  Pf(All, <<\h774, \h778, \h77C, \h780, \h784, \h788, \h78C, \h790, \h794,
        \h798, \h79C, \h7A0, \h7A4, \h7A8, \h7AC, \h7B0, \h7B4, \h7B8, \h7BC,
        \h7C0, \h7C4, \h7C8, \h7CC, \h7D0, \h7D4>>)

S80Regs13 ==
  Pf(All, <<\h7D8, \h7DC, \h7E0, \h7E4, \h7E8, \h7EC, \h7F0, \h7F4, \h7F8,
        \h7FC, \h804, \h808, \h80C, \h810, \h814, \h818, \h81C, \h820,
        \h824>>)
    \o Pf(Cmpt, <<\hA00, \hA04, \hA08, \hA0C, \hA10, \hA14>>)

S80Regs14 ==
  Pf(Cmpt, <<\hA18, \hA1C, \hA20, \hA24, \hA28, \hA2C, \hA30, \hA34, \hA38,
        \hA3C, \hA40, \hA44, \hA48, \hA4C, \hA50, \hA54, \hA58, \hA5C, \hA60,
        \hA64, \hA68, \hA6C, \hA70, \hA74, \hA78>>)

S80Regs15 ==
  Pf(Cmpt, <<\hA7C>>)
    \o Pf(All, <<\hA80, \hA84>>)
    \o PfVf(St, <<\hA88, \hA8C, \hA90, \hA94>>)
    \o Pf(St, <<\hA98, \hA9C, \hAA0, \hAA4, \hAA8, \hAAC, \hAB0, \hAB4,
        \hAB8, \hABC, \hAC0, \hAC4, \hAC8, \hACC, \hAD0, \hAD4, \hAD8,
        \hAE0>>)

S80Regs16 ==
  Pf(St, <<\hAE4, \hAE8, \hAEC>>)
    \o PfVf(St, <<\hAF0, \hAF4, \hAF8, \hAFC, \hB00, \hB04>>)
    \o Pf(St, <<\hB08, \hB0C>>)
    \o PfVf(St, <<\hB10, \hB14>>)
    \o Pf(St, <<\hB18, \hB1C, \hB20, \hB24, \hB28, \hB2C>>)
    \o PfVf(St, <<\hB30>>)
    \o Pf(St, <<\hB34, \hB38, \hB3C, \hB40, \hB44>>)

S80Regs17 ==
  Pf(St, <<\hB48, \hB4C, \hB50>>)
    \o PfVf(St, <<\hB54, \hB58, \hB5C, \hB60>>)
    \o Pf(St, <<\hB64, \hB68, \hB6C, \hB70>>)
    \o PfVf(St, <<\hB74, \hB78>>)
    \o Pf(St, <<\hB7C, \hB80, \hB84, \hB88, \hB8C, \hB90, \hB94, \hB98,
        \hB9C, \hBA0, \hBA4, \hBA8>>)

S80Regs18 ==
  PfVf(St, <<\hE00, \hE04, \hE08>>)
    \o Pf(St, <<\hE0C, \hE10, \hE14, \hE18, \hE1C>>)
    \o PfVf(St, <<\hE20>>)
    \o Pf(Mm, <<\h1004, \h1008, \h1040, \h1048, \h1054, \h1058, \h105C,
        \h10C0, \h10C4, \h10C8, \h10CC, \h10D0, \h10E8, \h1204, \h1208,
        \h120C>>)

S80Regs19 ==
  Pf(Mm, <<\h1240, \h1248, \h1254, \h1258, \h125C, \h12C0, \h12C4, \h12C8,
        \h12CC, \h12D0, \h12E8>>)
    \o Pf(Mbox, <<\h2400, \h2404, \h2408, \h240C, \h2410>>)

S80Regs ==
  S80Regs1 \o S80Regs2 \o S80Regs3 \o S80Regs4 \o S80Regs5 \o S80Regs6
    \o S80Regs7 \o S80Regs8 \o S80Regs9 \o S80Regs10 \o S80Regs11
    \o S80Regs12 \o S80Regs13 \o S80Regs14 \o S80Regs15 \o S80Regs16
    \o S80Regs17 \o S80Regs18 \o S80Regs19

S80Fields1 ==
  <<<<31, 20, 19, 16, 15, 8, 7, 0>>, <<15, 0>>, <<2, 0>>, <<2, 0>>,
    <<15, 0>>, <<17, 17, 16, 16, 13, 13, 12, 12, 9, 9, 8, 8, 1, 1, 0, 0>>,
    <<2, 0>>, <<1, 1, 0, 0>>, <<6, 4, 2, 0>>, <<6, 4, 2, 0>>,
    <<19, 8, 4, 0>>, <<31, 0>>, <<31, 0>>, <<31, 0>>, <<31, 0>>, <<31, 0>>,
    <<31, 0>>>>

S80Fields2 ==
  <<<<31, 0>>, <<31, 0>>, <<31, 0>>,
    <<31, 31, 30, 30, 29, 29, 28, 28, 27, 27, 26, 26, 25, 25, 24, 24, 23,
      23, 22, 22, 21, 21, 20, 20, 19, 19, 18, 18, 17, 17, 16, 16, 15, 15,
      14, 14, 13, 13, 12, 12, 11, 11, 10, 10, 9, 9, 8, 5, 4, 4, 3, 1, 0,
      0>>, <<31, 0>>,
    <<31, 31, 30, 30, 29, 29, 28, 28, 27, 27, 26, 26, 25, 25, 24, 24, 23,
      23, 22, 22, 21, 21, 20, 20, 19, 19, 18, 18, 17, 17, 16, 16, 15, 15,
      14, 14, 13, 13, 12, 12, 11, 11, 10, 10, 9, 9, 8, 5, 4, 4, 3, 1, 0,
      0>>>>

S80Fields3 ==
  <<<<31, 8, 7, 0>>, <<23, 18, 17, 12, 11, 6, 5, 0>>,
    <<23, 18, 17, 12, 11, 6, 5, 0>>, <<23, 18, 17, 12, 11, 6, 5, 0>>,
    <<23, 18, 17, 12, 11, 6, 5, 0>>,
    <<31, 18, 17, 17, 16, 16, 15, 9, 8, 8, 7, 1, 0, 0>>,
    <<31, 18, 17, 17, 16, 16, 15, 9, 8, 8, 7, 1, 0, 0>>,
    <<31, 18, 17, 17, 16, 16, 15, 9, 8, 8, 7, 1, 0, 0>>, <<31, 12, 11, 0>>,
    <<31, 16, 15, 4, 3, 2, 1, 1, 0, 0>>, <<31, 8, 7, 0>>>>

S80Fields4 ==
  <<<<31, 16, 15, 0>>, <<31, 0>>, <<31, 20, 19, 10, 9, 4, 3, 2, 1, 0>>,
    <<31, 17, 16, 16, 15, 15, 14, 14, 13, 13, 12, 12, 11, 9, 8, 6, 5, 5, 4,
      4, 3, 3, 2, 2, 1, 1, 0, 0>>,
    <<31, 27, 26, 26, 25, 23, 22, 22, 21, 21, 20, 18, 17, 12, 11, 9, 8, 8,
      7, 7, 6, 6, 5, 5, 4, 2, 1, 1, 0, 0>>,
    <<31, 30, 29, 24, 23, 18, 17, 12, 11, 6, 5, 0>>,
    <<31, 23, 22, 17, 16, 14, 13, 13, 12, 10, 9, 7, 6, 6, 5, 5, 4, 2, 1, 1,
      0, 0>>>>

S80Fields5 ==
  <<<<31, 30, 29, 24, 23, 18, 17, 12, 11, 6, 5, 0>>, <<31, 16, 15, 0>>,
    <<31, 16, 15, 0>>, <<31, 16, 15, 0>>, <<31, 16, 15, 0>>,
    <<31, 16, 15, 0>>, <<31, 16, 15, 0>>, <<31, 16, 15, 0>>,
    <<31, 16, 15, 0>>, <<31, 16, 15, 0>>, <<31, 16, 15, 0>>,
    <<31, 16, 15, 0>>, <<31, 16, 15, 0>>, <<31, 16, 15, 0>>,
    <<31, 16, 15, 0>>, <<31, 16, 15, 0>>>>

S80Fields6 ==
  <<<<31, 16, 15, 0>>,
    <<31, 12, 11, 11, 10, 10, 9, 9, 8, 8, 7, 7, 6, 6, 5, 5, 4, 4, 3, 3, 2,
      2, 1, 1, 0, 0>>, <<31, 9, 8, 0>>,
    <<31, 10, 9, 9, 8, 8, 7, 6, 5, 3, 2, 0>>,
    <<31, 25, 24, 24, 23, 23, 22, 22, 21, 21, 20, 20, 19, 19, 18, 17, 16,
      16, 9, 9, 5, 5, 4, 4, 3, 3, 2, 2, 1, 1, 0, 0>>, <<8, 0>>,
    <<31, 31, 30, 29, 28, 17, 16, 16, 15, 0>>, <<31, 9, 8, 5, 4, 0>>,
    <<31, 4, 3, 3, 2, 2, 1, 1, 0, 0>>>>

S80Fields7 ==
  <<<<31, 0>>, <<31, 28, 27, 24, 23, 16, 15, 0>>,
    <<31, 30, 29, 29, 28, 17, 16, 12, 11, 11, 10, 10, 9, 8, 7, 6, 5, 4, 3,
      2, 1, 0>>, <<31, 28, 27, 22, 21, 16, 15, 8, 7, 0>>,
    <<31, 23, 22, 11, 10, 0>>, <<31, 23, 22, 11, 10, 0>>,
    <<31, 23, 22, 11, 10, 0>>, <<31, 23, 22, 11, 10, 0>>,
    <<31, 23, 22, 11, 10, 0>>, <<31, 23, 22, 11, 10, 0>>,
    <<31, 23, 22, 11, 10, 0>>, <<31, 23, 22, 11, 10, 0>>>>

S80Fields8 ==
  <<<<31, 23, 22, 11, 10, 0>>, <<31, 23, 22, 11, 10, 0>>,
    <<31, 23, 22, 11, 10, 0>>, <<31, 23, 22, 11, 10, 0>>,
    <<31, 23, 22, 11, 10, 0>>, <<31, 23, 22, 11, 10, 0>>,
    <<31, 23, 22, 11, 10, 0>>, <<31, 23, 22, 11, 10, 0>>,
    <<31, 23, 22, 11, 10, 0>>, <<31, 23, 22, 11, 10, 0>>,
    <<31, 23, 22, 11, 10, 0>>, <<31, 23, 22, 11, 10, 0>>,
    <<31, 23, 22, 11, 10, 0>>>>

S80Fields9 ==
  <<<<31, 23, 22, 11, 10, 0>>, <<31, 23, 22, 11, 10, 0>>,
    <<31, 23, 22, 11, 10, 0>>, <<31, 23, 22, 11, 10, 0>>,
    <<31, 23, 22, 11, 10, 0>>, <<31, 23, 22, 11, 10, 0>>,
    <<31, 23, 22, 11, 10, 0>>, <<31, 23, 22, 11, 10, 0>>,
    <<31, 23, 22, 11, 10, 0>>, <<31, 23, 22, 11, 10, 0>>,
    <<31, 23, 22, 11, 10, 0>>, <<31, 23, 22, 11, 10, 0>>,
    <<31, 23, 22, 11, 10, 0>>>>

S80Fields10 ==
  <<<<31, 23, 22, 11, 10, 0>>, <<31, 23, 22, 11, 10, 0>>,
    <<31, 23, 22, 11, 10, 0>>, <<31, 23, 22, 11, 10, 0>>,
    <<31, 23, 22, 11, 10, 0>>, <<31, 23, 22, 11, 10, 0>>,
    <<31, 23, 22, 11, 10, 0>>, <<31, 23, 22, 11, 10, 0>>,
    <<31, 23, 22, 11, 10, 0>>, <<31, 23, 22, 11, 10, 0>>,
    <<31, 23, 22, 11, 10, 0>>, <<31, 23, 22, 11, 10, 0>>,
    <<31, 23, 22, 11, 10, 0>>>>

S80Fields11 ==
  <<<<31, 23, 22, 11, 10, 0>>, <<31, 23, 22, 11, 10, 0>>,
    <<31, 23, 22, 11, 10, 0>>, <<31, 23, 22, 11, 10, 0>>,
    <<31, 23, 22, 11, 10, 0>>, <<31, 23, 22, 11, 10, 0>>,
    <<31, 23, 22, 11, 10, 0>>, <<31, 23, 22, 11, 10, 0>>,
    <<31, 23, 22, 11, 10, 0>>, <<31, 23, 22, 11, 10, 0>>,
    <<31, 23, 22, 11, 10, 0>>, <<31, 23, 22, 11, 10, 0>>,
    <<31, 23, 22, 11, 10, 0>>>>

S80Fields12 ==
  <<<<31, 23, 22, 11, 10, 0>>, <<31, 23, 22, 11, 10, 0>>,
    <<31, 23, 22, 11, 10, 0>>, <<31, 23, 22, 11, 10, 0>>,
    <<31, 23, 22, 11, 10, 0>>, <<31, 23, 22, 11, 10, 0>>,
    <<31, 23, 22, 11, 10, 0>>, <<31, 23, 22, 11, 10, 0>>,
    <<31, 23, 22, 11, 10, 0>>, <<31, 23, 22, 11, 10, 0>>,
    <<31, 23, 22, 11, 10, 0>>, <<31, 23, 22, 11, 10, 0>>,
    <<31, 23, 22, 11, 10, 0>>>>

S80Fields13 ==
  <<<<31, 23, 22, 11, 10, 0>>, <<31, 23, 22, 11, 10, 0>>,
    <<31, 23, 22, 11, 10, 0>>, <<31, 23, 22, 11, 10, 0>>,
    <<31, 23, 22, 11, 10, 0>>, <<31, 23, 22, 11, 10, 0>>,
    <<31, 23, 22, 11, 10, 0>>, <<31, 23, 22, 11, 10, 0>>,
    <<31, 23, 22, 11, 10, 0>>, <<31, 23, 22, 11, 10, 0>>,
    <<31, 23, 22, 11, 10, 0>>, <<31, 23, 22, 11, 10, 0>>,
    <<31, 23, 22, 11, 10, 0>>>>

S80Fields14 ==
  <<<<31, 23, 22, 11, 10, 0>>, <<31, 23, 22, 11, 10, 0>>,
    <<31, 23, 22, 11, 10, 0>>, <<31, 23, 22, 11, 10, 0>>,
    <<31, 23, 22, 11, 10, 0>>, <<31, 23, 22, 11, 10, 0>>,
    <<31, 23, 22, 11, 10, 0>>, <<31, 23, 22, 11, 10, 0>>,
    <<31, 23, 22, 11, 10, 0>>, <<31, 23, 22, 11, 10, 0>>,
    <<31, 23, 22, 11, 10, 0>>, <<31, 23, 22, 11, 10, 0>>,
    <<31, 23, 22, 11, 10, 0>>>>

S80Fields15 ==
  <<<<31, 23, 22, 11, 10, 0>>, <<31, 23, 22, 11, 10, 0>>,
    <<31, 23, 22, 11, 10, 0>>, <<31, 23, 22, 11, 10, 0>>,
    <<31, 23, 22, 11, 10, 0>>, <<31, 23, 22, 11, 10, 0>>,
    <<31, 23, 22, 11, 10, 0>>, <<31, 23, 22, 11, 10, 0>>,
    <<31, 23, 22, 11, 10, 0>>, <<31, 23, 22, 11, 10, 0>>,
    <<31, 23, 22, 11, 10, 0>>, <<31, 23, 22, 11, 10, 0>>,
    <<31, 23, 22, 11, 10, 0>>>>

S80Fields16 ==
  <<<<31, 23, 22, 11, 10, 0>>, <<31, 23, 22, 11, 10, 0>>,
    <<31, 23, 22, 11, 10, 0>>, <<31, 23, 22, 11, 10, 0>>,
    <<31, 23, 22, 11, 10, 0>>, <<31, 23, 22, 11, 10, 0>>,
    <<31, 23, 22, 11, 10, 0>>, <<31, 23, 22, 11, 10, 0>>,
    <<31, 23, 22, 11, 10, 0>>, <<31, 23, 22, 11, 10, 0>>,
    <<31, 23, 22, 11, 10, 0>>, <<31, 23, 22, 11, 10, 0>>,
    <<31, 23, 22, 11, 10, 0>>>>

S80Fields17 ==
  <<<<31, 23, 22, 11, 10, 0>>, <<31, 23, 22, 11, 10, 0>>,
    <<31, 23, 22, 11, 10, 0>>, <<31, 23, 22, 11, 10, 0>>,
    <<31, 23, 22, 11, 10, 0>>, <<31, 23, 22, 11, 10, 0>>,
    <<31, 23, 22, 11, 10, 0>>, <<31, 23, 22, 11, 10, 0>>,
    <<31, 23, 22, 11, 10, 0>>, <<31, 23, 22, 11, 10, 0>>,
    <<31, 23, 22, 11, 10, 0>>, <<31, 23, 22, 11, 10, 0>>,
    <<31, 23, 22, 11, 10, 0>>>>

S80Fields18 ==
  <<<<31, 23, 22, 11, 10, 0>>, <<31, 23, 22, 11, 10, 0>>,
    <<31, 23, 22, 11, 10, 0>>, <<31, 23, 22, 11, 10, 0>>,
    <<31, 23, 22, 11, 10, 0>>, <<31, 23, 22, 11, 10, 0>>,
    <<31, 23, 22, 11, 10, 0>>, <<31, 23, 22, 11, 10, 0>>,
    <<31, 23, 22, 11, 10, 0>>, <<31, 23, 22, 11, 10, 0>>,
    <<31, 23, 22, 11, 10, 0>>, <<31, 23, 22, 11, 10, 0>>,
    <<31, 23, 22, 11, 10, 0>>>>

S80Fields19 ==
  <<<<31, 23, 22, 11, 10, 0>>, <<31, 23, 22, 11, 10, 0>>,
    <<31, 23, 22, 11, 10, 0>>, <<31, 23, 22, 11, 10, 0>>,
    <<31, 23, 22, 11, 10, 0>>, <<31, 23, 22, 11, 10, 0>>,
    <<31, 23, 22, 11, 10, 0>>, <<31, 23, 22, 11, 10, 0>>,
    <<31, 23, 22, 11, 10, 0>>, <<31, 23, 22, 11, 10, 0>>,
    <<31, 23, 22, 11, 10, 0>>, <<31, 23, 22, 11, 10, 0>>,
    <<31, 23, 22, 11, 10, 0>>>>

S80Fields20 ==
  <<<<31, 23, 22, 11, 10, 0>>, <<31, 23, 22, 11, 10, 0>>,
    <<31, 23, 22, 11, 10, 0>>, <<31, 23, 22, 11, 10, 0>>,
    <<31, 23, 22, 11, 10, 0>>, <<31, 23, 22, 11, 10, 0>>,
    <<31, 23, 22, 11, 10, 0>>, <<31, 23, 22, 11, 10, 0>>,
    <<31, 23, 22, 11, 10, 0>>, <<31, 23, 22, 11, 10, 0>>,
    <<31, 23, 22, 11, 10, 0>>, <<31, 23, 22, 11, 10, 0>>,
    <<31, 23, 22, 11, 10, 0>>>>

S80Fields21 ==
  <<<<31, 23, 22, 11, 10, 0>>, <<31, 23, 22, 11, 10, 0>>,
    <<31, 23, 22, 11, 10, 0>>, <<31, 23, 22, 11, 10, 0>>,
    <<31, 23, 22, 11, 10, 0>>, <<31, 23, 22, 11, 10, 0>>,
    <<31, 23, 22, 11, 10, 0>>, <<31, 23, 22, 11, 10, 0>>,
    <<31, 23, 22, 11, 10, 0>>, <<31, 23, 22, 11, 10, 0>>,
    <<31, 23, 22, 11, 10, 0>>, <<31, 23, 22, 11, 10, 0>>,
    <<31, 23, 22, 11, 10, 0>>>>

S80Fields22 ==
  <<<<31, 23, 22, 11, 10, 0>>, <<31, 23, 22, 11, 10, 0>>,
    <<31, 23, 22, 11, 10, 0>>, <<31, 23, 22, 11, 10, 0>>,
    <<31, 23, 22, 11, 10, 0>>, <<31, 23, 22, 11, 10, 0>>,
    <<31, 23, 22, 11, 10, 0>>, <<31, 23, 22, 11, 10, 0>>,
    <<31, 23, 22, 11, 10, 0>>, <<31, 23, 22, 11, 10, 0>>,
    <<31, 23, 22, 11, 10, 0>>, <<31, 23, 22, 11, 10, 0>>,
    <<31, 23, 22, 11, 10, 0>>>>

S80Fields23 ==
  <<<<31, 23, 22, 11, 10, 0>>, <<31, 23, 22, 11, 10, 0>>,
    <<31, 23, 22, 11, 10, 0>>, <<31, 23, 22, 11, 10, 0>>,
    <<31, 23, 22, 11, 10, 0>>, <<31, 23, 22, 11, 10, 0>>,
    <<31, 23, 22, 11, 10, 0>>, <<31, 23, 22, 11, 10, 0>>,
    <<31, 23, 22, 11, 10, 0>>, <<31, 23, 22, 11, 10, 0>>,
    <<31, 23, 22, 11, 10, 0>>, <<31, 23, 22, 11, 10, 0>>,
    <<31, 23, 22, 11, 10, 0>>>>

S80Fields24 ==
  <<<<31, 23, 22, 11, 10, 0>>, <<31, 23, 22, 11, 10, 0>>,
    <<31, 23, 22, 11, 10, 0>>, <<31, 23, 22, 11, 10, 0>>,
    <<31, 23, 22, 11, 10, 0>>, <<31, 23, 22, 11, 10, 0>>,
    <<31, 23, 22, 11, 10, 0>>, <<31, 23, 22, 11, 10, 0>>,
    <<31, 23, 22, 11, 10, 0>>, <<31, 23, 22, 11, 10, 0>>,
    <<31, 23, 22, 11, 10, 0>>, <<31, 23, 22, 11, 10, 0>>,
    <<31, 23, 22, 11, 10, 0>>>>

S80Fields25 ==
  <<<<31, 23, 22, 11, 10, 0>>, <<31, 23, 22, 11, 10, 0>>,
    <<31, 23, 22, 11, 10, 0>>, <<31, 23, 22, 11, 10, 0>>,
    <<31, 23, 22, 11, 10, 0>>, <<31, 23, 22, 11, 10, 0>>,
    <<31, 23, 22, 11, 10, 0>>, <<31, 23, 22, 11, 10, 0>>,
    <<31, 23, 22, 11, 10, 0>>, <<31, 23, 22, 11, 10, 0>>,
    <<31, 23, 22, 11, 10, 0>>, <<31, 0>>, <<31, 0>>, <<31, 0>>, <<31, 0>>>>

S80Fields26 ==
  <<<<31, 0>>, <<31, 0>>, <<31, 0>>, <<31, 0>>,
    <<31, 18, 17, 7, 6, 5, 4, 1, 0, 0>>, <<31, 8, 7, 0>>, <<31, 8, 7, 0>>,
    <<31, 8, 7, 0>>, <<31, 8, 7, 0>>, <<31, 8, 7, 0>>, <<31, 8, 7, 0>>,
    <<31, 8, 7, 0>>, <<31, 8, 7, 0>>, <<31, 8, 7, 0>>, <<31, 8, 7, 0>>,
    <<31, 8, 7, 0>>, <<31, 8, 7, 0>>>>

S80Fields27 ==
  <<<<31, 8, 7, 0>>, <<31, 8, 7, 0>>, <<31, 8, 7, 0>>, <<31, 8, 7, 0>>,
    <<31, 8, 7, 0>>, <<31, 8, 7, 0>>, <<31, 8, 7, 0>>, <<31, 8, 7, 0>>,
    <<31, 8, 7, 0>>, <<31, 8, 7, 0>>, <<31, 8, 7, 0>>, <<31, 8, 7, 0>>,
    <<31, 8, 7, 0>>, <<31, 8, 7, 0>>, <<31, 8, 7, 0>>, <<31, 8, 7, 0>>>>

S80Fields28 ==
  <<<<31, 8, 7, 0>>, <<31, 8, 7, 0>>, <<31, 8, 7, 0>>, <<31, 8, 7, 0>>,
    <<31, 11, 10, 0>>, <<31, 19, 18, 18, 17, 9, 8, 8, 7, 0>>, <<31, 0>>,
    <<31, 0>>, <<31, 0>>, <<31, 0>>, <<31, 0>>, <<31, 0>>, <<31, 0>>,
    <<31, 0>>, <<31, 0>>, <<31, 0>>, <<31, 0>>, <<31, 0>>, <<31, 0>>>>

S80Fields29 ==
  <<<<31, 0>>, <<31, 0>>, <<31, 0>>, <<31, 0>>, <<31, 0>>, <<31, 0>>,
    <<31, 0>>, <<31, 0>>, <<31, 0>>, <<31, 0>>, <<31, 0>>, <<31, 0>>,
    <<31, 16, 15, 15, 14, 14, 13, 13, 12, 12, 11, 11, 10, 10, 9, 9, 8, 8, 7,
      7, 6, 6, 5, 5, 4, 4, 3, 3, 2, 2, 1, 1, 0, 0>>, <<31, 0>>>>

S80Fields30 ==
  <<<<31, 19, 18, 18, 17, 17, 16, 16, 15, 15, 14, 14, 13, 13, 12, 12, 11,
      11, 10, 10, 9, 9, 8, 8, 7, 4, 3, 3, 2, 2, 1, 1, 0, 0>>, <<31, 0>>,
    <<31, 2, 1, 1, 0, 0>>, <<31, 18, 17, 17, 16, 16, 15, 8, 7, 0>>,
    <<31, 25, 24, 16, 15, 8, 7, 0>>, <<31, 0>>, <<31, 0>>, <<31, 0>>,
    <<31, 0>>, <<31, 31, 30, 28, 27, 18, 17, 8, 7, 5, 4, 4, 3, 0>>,
    <<31, 31, 30, 30, 29, 20, 19, 10, 9, 0>>>>

S80Fields31 ==
  <<<<31, 30, 29, 20, 19, 10, 9, 0>>, <<31, 30, 29, 20, 19, 10, 9, 0>>,
    <<31, 14, 13, 13, 12, 12, 11, 1, 0, 0>>,
    <<31, 21, 20, 16, 15, 12, 11, 0>>, <<31, 16, 15, 0>>, <<31, 16, 15, 0>>,
    <<31, 16, 15, 0>>, <<31, 16, 15, 0>>, <<31, 16, 15, 0>>,
    <<31, 16, 15, 0>>, <<31, 11, 10, 0>>,
    <<31, 26, 25, 14, 13, 2, 1, 1, 0, 0>>, <<31, 18, 17, 0>>,
    <<31, 18, 17, 0>>>>

S80Fields32 ==
  <<<<31, 18, 17, 0>>, <<31, 18, 17, 0>>, <<31, 18, 17, 0>>,
    <<31, 18, 17, 0>>, <<31, 18, 17, 0>>, <<31, 18, 17, 0>>,
    <<31, 18, 17, 0>>, <<31, 18, 17, 0>>, <<31, 18, 17, 0>>,
    <<31, 18, 17, 0>>, <<31, 18, 17, 0>>,
    <<31, 31, 30, 30, 29, 20, 19, 10, 9, 0>>,
    <<31, 25, 24, 24, 23, 23, 22, 13, 12, 3, 2, 0>>,
    <<31, 15, 14, 14, 13, 11, 10, 0>>, <<31, 0>>>>

S80Fields33 ==
  <<<<31, 8, 7, 4, 3, 0>>, <<31, 18, 17, 0>>, <<31, 18, 17, 0>>,
    <<31, 18, 17, 0>>, <<31, 18, 17, 0>>,
    <<31, 5, 4, 4, 3, 3, 2, 2, 1, 1, 0, 0>>, <<31, 0>>,
    <<31, 20, 19, 16, 15, 12, 11, 0>>, <<31, 16, 15, 0>>, <<31, 16, 15, 0>>,
    <<31, 16, 15, 0>>,
    <<31, 31, 30, 30, 29, 29, 28, 26, 25, 16, 15, 6, 5, 5, 4, 4, 3, 2, 1, 1,
      0, 0>>, <<31, 0>>>>

S80Fields34 ==
  <<<<31, 1, 0, 0>>, <<31, 1, 0, 0>>, <<31, 1, 0, 0>>, <<31, 1, 0, 0>>,
    <<31, 0>>, <<31, 31, 30, 30, 29, 29, 28, 28, 27, 2, 1, 1, 0, 0>>,
    <<31, 18, 17, 17, 16, 16, 4, 0>>, <<31, 29, 28, 17, 16, 16, 15, 0>>,
    <<31, 4, 3, 3, 2, 2, 1, 1, 0, 0>>, <<31, 0>>, <<31, 10, 9, 0>>,
    <<31, 0>>, <<31, 10, 9, 0>>>>

S80Fields35 ==
  <<<<31, 24, 23, 17, 16, 7, 6, 6, 5, 5, 4, 4, 3, 3, 2, 2, 1, 1, 0, 0>>,
    <<31, 1, 0, 0>>, <<0, 0>>, <<0, 0>>, <<31, 1, 0, 0>>, <<31, 0>>,
    <<31, 30, 29, 29, 28, 28, 27, 23, 22, 22, 21, 17, 16, 16, 15, 9, 8, 8,
      7, 6, 5, 5, 4, 4, 3, 3, 2, 2, 1, 1, 0, 0>>,
    <<31, 18, 17, 17, 16, 16, 4, 0>>, <<31, 29, 28, 17, 16, 16, 15, 0>>,
    <<31, 4, 3, 3, 2, 2, 1, 1, 0, 0>>, <<31, 0>>>>

S80Fields36 ==
  <<<<31, 10, 9, 0>>, <<31, 0>>, <<31, 10, 9, 0>>,
    <<31, 24, 23, 17, 16, 7, 6, 6, 5, 5, 4, 4, 3, 3, 2, 2, 1, 1, 0, 0>>,
    <<31, 12, 11, 4, 2, 2, 1, 1, 0, 0>>, <<31, 3, 2, 2, 1, 1, 0, 0>>,
    <<31, 5, 4, 0>>, <<31, 8, 7, 0>>, <<31, 1, 0, 0>>>>

S80Fields ==
  S80Fields1 \o S80Fields2 \o S80Fields3 \o S80Fields4 \o S80Fields5
    \o S80Fields6 \o S80Fields7 \o S80Fields8 \o S80Fields9 \o S80Fields10
    \o S80Fields11 \o S80Fields12 \o S80Fields13 \o S80Fields14
    \o S80Fields15 \o S80Fields16 \o S80Fields17 \o S80Fields18
    \o S80Fields19 \o S80Fields20 \o S80Fields21 \o S80Fields22
    \o S80Fields23 \o S80Fields24 \o S80Fields25 \o S80Fields26
    \o S80Fields27 \o S80Fields28 \o S80Fields29 \o S80Fields30
    \o S80Fields31 \o S80Fields32 \o S80Fields33 \o S80Fields34
    \o S80Fields35 \o S80Fields36

-----------------------------------------------------------------------------
Regs == [eqdma |-> EqdmaRegs, soft |-> SoftRegs, s80 |-> S80Regs]

\* The registers of the QDMA soft IP have no lists of fields.
FieldLists ==
  [eqdma |-> EqdmaFields, soft |-> [i \in DOMAIN SoftRegs |-> <<>>],
   s80 |-> S80Fields]

\* The fields of a register as pairs of highest and lowest bit.
Fields(ip, i) ==
  LET f == FieldLists[ip][i]
  IN  [k \in 1..(Len(f) \div 2) |-> <<f[2 * k - 1], f[2 * k]>>]
=============================================================================
