--------------------------- MODULE MCMsgTransfer ---------------------------
(***************************************************************************)
(* One sending and one receiving task with the polled notification word:   *)
(* calls that do not wait and calls with a timeout, receives and peeks,    *)
(* and the end of the communication.  Messages of 2 and 6 bytes occupy 6   *)
(* and 10 of the 12 bytes of the FIFO: a second message often has to wait, *)
(* and a receive may free too little for it.  A call with a timeout takes  *)
(* every path of one without: its second wait has no timer.                *)
(***************************************************************************)
EXTENDS MsgTransfer

const_MsgSizes == {2, 6}
const_Timeouts == {"zero", "timed"}
const_RxOps == {"normal", "peek"}
============================================================================
