--------------------------- MODULE MCQdmaContext ---------------------------
(***************************************************************************)
(* Devices for model checking QdmaContext.  The EQDMA and the QDMA soft IP *)
(* make the same accesses, and direct mode differs from indirect mode only *)
(* in having no interrupt ring; so one of the two soft variants streams    *)
(* and the other is memory-mapped, and the Versal variant has both.        *)
(***************************************************************************)
EXTENDS QdmaContext

Device(ip, st, mode) == [ip |-> ip, st |-> st, mode |-> mode]

MCConfigs ==
  {Device("eqdma", TRUE, "indirect"), Device("soft", FALSE, "indirect"),
   Device("s80", TRUE, "direct"), Device("s80", FALSE, "poll")}
=============================================================================
