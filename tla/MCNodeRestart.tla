--------------------------- MODULE MCNodeRestart ---------------------------
(***************************************************************************)
(* Each side may be finalized, and one of them initializes again, while    *)
(* the other one stays up or is down; or one node is finalized and one of  *)
(* the two opens or closes its end besides.  The FIFO has room for one     *)
(* message, so that both sides come to wait.                               *)
(***************************************************************************)
EXTENDS NodeRestart

\* Bound: the calls of ICC_Finalize, ICC_Open_Channel and ICC_Close_Channel
\* taken together.
FewChanges == ends + switches <= 2
============================================================================
