------------------------- MODULE MCMsgTransferLive -------------------------
(***************************************************************************)
(* Interrupts, and calls that wait for ever or not at all, under fairness: *)
(* the FIFO takes one message, so every message but the first has to wait  *)
(* for a receive.                                                          *)
(***************************************************************************)
EXTENDS MsgTransfer

const_MsgSizes == {6}
const_Timeouts == {"zero", "forever"}
const_RxOps == {"normal", "peek"}
============================================================================
