-------------------------- MODULE MCIccFifoStores --------------------------
(***************************************************************************)
(* Payloads of 2 bytes on 2-byte boundaries: headers meet the end of the   *)
(* ring (in two pieces, or with no piece before the end), payloads end     *)
(* there or begin behind it but are never torn, and nothing is padded.     *)
(* Seven messages pass every position of the ring.                         *)
(***************************************************************************)
EXTENDS IccFifoStores

const_MsgSizes == {2}
============================================================================
