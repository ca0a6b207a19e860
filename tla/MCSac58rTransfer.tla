-------------------------- MODULE MCSac58rTransfer --------------------------
(***************************************************************************)
(* The SAC58R port from the first ICC_Initialize on: a node comes late,    *)
(* fails, or starts again, with a reader that calls ICC_Msg_Recv and with  *)
(* one that receives in its callback.                                      *)
(***************************************************************************)
EXTENDS Sac58rTransfer
============================================================================
