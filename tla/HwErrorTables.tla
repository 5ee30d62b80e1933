--------------------------- MODULE HwErrorTables ---------------------------
(***************************************************************************)
(* The hardware error tables of the three register access layers           *)
(* (eqdma_err_info[], qdma_err_info[], qdma_s80_hard_err_info[]).  A leaf   *)
(* aggregator is one leaf status register with its mask register:          *)
(*   errs  the bits of each listed error, in the order of the table (the   *)
(*         names and addresses are left out);                              *)
(*   all   the bits of its ..._ERR_ALL entry, written to enable the group; *)
(*   glbl  the bit of the global status and mask registers it feeds;       *)
(*   st    whether it belongs to the streaming engine, whose registers are *)
(*         not touched in a memory-mapped-only bitstream.                  *)
(***************************************************************************)
EXTENDS Integers, Sequences

(* Errors of one bit each. *)
Each(bits) == [i \in DOMAIN bits |-> {bits[i]}]

(* EQDMA soft IP: eqdma_err_info[] of eqdma_soft_access.c. *)
EqdmaDsc ==
  [glbl |-> 2, st |-> FALSE, all |-> (1 .. 6) \cup (19 .. 24) \cup {8, 9, 16},
   errs |-> Each(<<1, 2, 3, 4, 5, 6, 8, 9, 16, 19, 20, 21, 22, 23, 24>>)]

EqdmaTrq ==
  [glbl |-> 3, st |-> FALSE, all |-> {0, 1, 4, 5, 7},
   errs |-> Each(<<0, 1, 3, 4, 5, 7>>)]

EqdmaC2h ==
  [glbl |-> 8, st |-> TRUE,
   all |-> (0 .. 4) \cup (12 .. 17) \cup {6, 7, 9, 10},
   errs |-> Each(<<0, 1, 2, 3, 4, 6, 7, 9, 10, 12, 13, 14, 15, 16, 17, 18>>)]

EqdmaFatal ==
  [glbl |-> 8, st |-> TRUE,
   all |-> (8 .. 12) \cup (14 .. 20) \cup {0, 1, 3, 4},
   errs |-> Each(<<0, 1, 3>>) \o <<4 .. 7>> \o Each(<<8, 9, 10, 11, 12, 14,
            15, 16, 17, 18, 19, 20>>)]

EqdmaH2c ==
  [glbl |-> 16, st |-> TRUE, all |-> 0 .. 5,
   errs |-> Each(<<0, 1, 2, 4, 3, 5>>)]

EqdmaSbe1 ==
  [glbl |-> 0, st |-> FALSE, all |-> 0 .. 31,
   errs |-> Each(<<0, 1, 2, 3, 4>>)]

EqdmaSbeLow == Each(<<0, 1, 2, 3, 4, 5, 6, 7, 8, 9, 10, 11, 12, 13, 14>>)

EqdmaSbe ==
  [glbl |-> 0, st |-> FALSE, all |-> 0 .. 31,
   errs |-> EqdmaSbeLow \o Each(<<15, 16, 17, 18>>) \o <<19 .. 22>> \o
            Each(<<23, 24, 25, 26, 27, 28, 29, 30, 31>>)]

EqdmaDbe1 ==
  [glbl |-> 1, st |-> FALSE, all |-> 0 .. 31,
   errs |-> Each(<<0, 1, 2, 3, 3>>)]

EqdmaDbeLow == Each(<<0, 1, 2, 3, 4, 5, 6, 7, 8, 9, 10, 11, 12, 13, 14>>)

EqdmaDbe ==
  [glbl |-> 1, st |-> FALSE, all |-> 0 .. 31,
   errs |-> EqdmaDbeLow \o Each(<<15, 16, 17, 18>>) \o <<19 .. 22>> \o
            Each(<<23, 24, 25, 26, 27, 28, 29, 30, 31>>)]

EqdmaErrs == <<EqdmaDsc, EqdmaTrq, EqdmaC2h, EqdmaFatal, EqdmaH2c,
    EqdmaSbe1, EqdmaSbe, EqdmaDbe1, EqdmaDbe>>

(* QDMA soft IP: qdma_err_info[] of qdma_soft_access.c. *)
SoftDsc ==
  [glbl |-> 2, st |-> FALSE, all |-> (0 .. 5) \cup (19 .. 24) \cup {9, 16},
   errs |-> Each(<<0, 1, 2, 3, 4, 5, 9, 16, 19, 20, 21, 22, 23, 24>>)]

SoftTrq ==
  [glbl |-> 3, st |-> FALSE, all |-> 0 .. 3,
   errs |-> Each(<<0, 1, 2, 3>>)]

SoftC2h ==
  [glbl |-> 8, st |-> TRUE, all |-> (9 .. 15) \cup {0, 1, 3, 4, 6, 7},
   errs |-> Each(<<0, 1, 3, 4, 6, 7, 9, 10, 11, 12, 13, 14, 15>>)]

SoftFatal ==
  [glbl |-> 8, st |-> TRUE,
   all |-> (8 .. 12) \cup (14 .. 18) \cup {0, 1, 3, 4},
   errs |-> Each(<<0, 1, 3, 4, 8, 9, 10, 11, 12, 14, 15, 16, 17, 18>>)]

SoftH2c ==
  [glbl |-> 11, st |-> TRUE, all |-> 0 .. 4,
   errs |-> Each(<<0, 1, 2, 3, 4>>)]

SoftSbeLow == Each(<<0, 4, 9, 10, 11, 12, 13, 14, 15, 16, 17, 18, 19>>)

SoftSbe ==
  [glbl |-> 0, st |-> FALSE, all |-> (8 .. 31) \cup {0, 4},
   errs |-> SoftSbeLow \o Each(<<20, 21, 22, 23, 24, 25, 26, 27, 28, 29, 30,
            31>>)]

SoftDbeLow == Each(<<0, 4, 9, 10, 11, 12, 13, 14, 15, 16, 17, 18, 19>>)

SoftDbe ==
  [glbl |-> 1, st |-> FALSE, all |-> (8 .. 31) \cup {0, 4},
   errs |-> SoftDbeLow \o Each(<<20, 21, 22, 23, 24, 25, 26, 27, 28, 29, 30,
            31>>)]

SoftErrs == <<SoftDsc, SoftTrq, SoftC2h, SoftFatal, SoftH2c, SoftSbe,
    SoftDbe>>

(* QDMA hard IP: qdma_s80_hard_err_info[] of qdma_s80_hard_access.c. *)
S80Dsc ==
  [glbl |-> 2, st |-> FALSE, all |-> 0 .. 31,
   errs |-> Each(<<0, 1, 2, 3, 4, 5, 9, 16, 19, 20, 21, 22, 23, 24>>)]

S80Trq ==
  [glbl |-> 3, st |-> FALSE, all |-> {0, 1, 4, 5, 7},
   errs |-> Each(<<0, 1, 2, 3>>)]

S80C2h ==
  [glbl |-> 8, st |-> TRUE,
   all |-> (0 .. 4) \cup (12 .. 17) \cup {6, 7, 9, 10},
   errs |-> Each(<<0, 1, 3, 4, 6, 7, 9, 10, 10, 12, 13, 14, 15>>)]

S80Fatal ==
  [glbl |-> 8, st |-> TRUE,
   all |-> (8 .. 12) \cup (14 .. 20) \cup {0, 1, 3, 4},
   errs |-> Each(<<0, 1, 3>>) \o <<4 .. 7>> \o Each(<<8, 9, 10, 11, 12, 13,
            14, 15, 16, 17, 18>>)]

S80H2c ==
  [glbl |-> 11, st |-> TRUE, all |-> 0 .. 5,
   errs |-> Each(<<0, 1, 2, 3, 4>>)]

S80SbeLow == Each(<<0, 4, 9, 10, 11, 12, 13, 14, 15, 16, 17, 18>>)

S80Sbe ==
  [glbl |-> 0, st |-> FALSE, all |-> 0 .. 31,
   errs |-> S80SbeLow \o Each(<<19, 20, 21, 22, 23, 24, 25, 26, 27, 28, 29,
            30>>)]

S80DbeLow == Each(<<0, 4, 9, 10, 11, 12, 13, 14, 15, 16, 17, 18>>)

S80Dbe ==
  [glbl |-> 1, st |-> FALSE, all |-> 0 .. 31,
   errs |-> S80DbeLow \o Each(<<19, 20, 21, 22, 24, 25, 26, 27, 28, 29, 30>>)]

S80Errs == <<S80Dsc, S80Trq, S80C2h, S80Fatal, S80H2c, S80Sbe, S80Dbe>>

============================================================================
