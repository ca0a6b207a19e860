------------------------ MODULE MCNodeRestartClosed ------------------------
(***************************************************************************)
(* A call that waits when its channel is closed and its node finalized.    *)
(***************************************************************************)
EXTENDS NodeRestart
============================================================================
