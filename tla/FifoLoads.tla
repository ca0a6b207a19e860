------------------------------ MODULE FifoLoads ------------------------------
(***************************************************************************)
(* The two calls under way on a FIFO when one step is one load or store of *)
(* an index, and what the values they loaded must still be worth when they *)
(* are used.  The steps are in IccFifoStores.                              *)
(***************************************************************************)
EXTENDS FifoRing

VARIABLES
  w,  \* the writer: its place, the part it pushes, its locals
  r   \* the reader: its place, the part it pops, its locals

\* What the writer loaded is still free when it uses it, and what the reader
\* loaded is still pending: the other core's moves only help.
LoadsStayTrue ==
  /\ w.pc = "fits" => w.free <= FreeBytes(head, tail)
  /\ r.pc = "order" => r.pending <= PendingBytes(head, tail)

\* A receive hands over the payload of the message it is due, which the
\* writer has stored to its end.
HandedOverWhole ==
  rret = "SUCCESS" /\ r.pc = "idle" =>
    /\ taken \in 1 .. Len(sent)
    /\ out = [i \in 1 .. sent[taken] |-> Byte(taken, HeaderSize + i - 1)]
==============================================================================
