--------------------------- MODULE IccFifoAligned ---------------------------
(***************************************************************************)
(* IccFifo under the assumption on truncated receives that its properties  *)
(* need.  The code does not ensure it: section 4 of the README says what   *)
(* happens without it.                                                     *)
(***************************************************************************)
EXTENDS IccFifo

\* A message of m bytes read as b and then m - b bytes moves the read index
\* as far as it moved the write index.
ASSUME TruncationAssumption ==
  \A m \in MsgSizes, b \in RxBufSizes :
     b < m => Padding(b) + Padding(m - b) = Padding(m)
==============================================================================
