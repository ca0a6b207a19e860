----------------------------- MODULE MCSigFifo -----------------------------
(***************************************************************************)
(* A queue of three slots and more signals than it takes, so that it       *)
(* overflows while the reader is at each of its steps.                     *)
(***************************************************************************)
EXTENDS SigFifo
============================================================================
