----------------------------- MODULE MCHeartbeat -----------------------------
(***************************************************************************)
(* Two nodes of either port with up to two runs each; one is stopped.      *)
(***************************************************************************)
EXTENDS Heartbeat

const_Stoppable == {"A"}
==============================================================================
