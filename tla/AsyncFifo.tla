----------------------------- MODULE AsyncFifo -----------------------------
(***************************************************************************)
(* The dual-clock FIFO xpm_fifo_async (external) that the compute control  *)
(* logic uses to cross between the AXI-Lite and the AXI-Stream clock.  The *)
(* writer's side learns of a read, and the reader's side of a write, some  *)
(* cycles later: the flags are late, and late on the safe side.            *)
(*                                                                         *)
(* A FIFO is a record: the words in memory, how many of the last ones the  *)
(* reader does not see yet, and how many slots have been read without the  *)
(* writer knowing.                                                         *)
(***************************************************************************)
EXTENDS Naturals, Sequences

CONSTANT Depth       \* ASYNC_FIFO_DEPTH

ASSUME DepthAssumption == Depth \in Nat \ {0}

EmptyFifo == [mem |-> <<>>, unseen |-> 0, freed |-> 0]

\* The flags and counts, each as the side that uses it sees them
full(f) == Len(f.mem) + f.freed >= Depth
empty(f) == Len(f.mem) = f.unseen
rd_data_count(f) == Len(f.mem) - f.unseen

dout(f) == Head(f.mem)

\* wr_en for a cycle: a write to a full FIFO is ignored
Push(f, x) == IF full(f) THEN f
              ELSE [f EXCEPT !.mem = Append(@, x), !.unseen = @ + 1]
\* rd_en for a cycle: a read of an empty FIFO is ignored
Pop(f) == IF empty(f) THEN f
          ELSE [f EXCEPT !.mem = Tail(@), !.freed = @ + 1]

\* The two synchronisers: the reader sees one more word, the writer one more
\* free slot.
SeeWrite(f) == [f EXCEPT !.unseen = @ - 1]
SeeRead(f) == [f EXCEPT !.freed = @ - 1]

\* Never more words and unseen slots than there is memory
FifoOK(f) == /\ Len(f.mem) + f.freed <= Depth
             /\ f.unseen \in 0 .. Len(f.mem) /\ f.freed \in 0 .. Depth
=============================================================================
