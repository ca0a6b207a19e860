----------------------------- MODULE MCLinuxPair -----------------------------
(***************************************************************************)
(* The ICC module and the sample of each node are loaded up to twice.      *)
(***************************************************************************)
EXTENDS LinuxPair
==============================================================================
