------------------------- MODULE MCMsgTransferAlarm -------------------------
(***************************************************************************)
(* Two small messages fill the FIFO; the receive of one makes no room for  *)
(* the large one that waits with a timeout.                                *)
(***************************************************************************)
EXTENDS MsgTransfer

const_MsgSizes == {2, 6}
const_Timeouts == {"timed"}
const_RxOps == {"normal"}
============================================================================
