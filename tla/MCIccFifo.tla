----------------------------- MODULE MCIccFifo -----------------------------
(***************************************************************************)
(* A FIFO of 14 bytes with 4-byte headers on 2-byte boundaries: messages   *)
(* of 1, 2 and 5 bytes occupy 6, 6 and 10 bytes, so headers and payloads   *)
(* are split by the end of the ring, and the ring fills up exactly.        *)
(***************************************************************************)
EXTENDS IccFifoAligned

const_MsgSizes == {1, 2, 5}
const_RxBufSizes == {2, 5}
============================================================================
