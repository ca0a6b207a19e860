-------------------------- MODULE MCChannelStates --------------------------
(***************************************************************************)
(* Core 1 may finalize and initialize again while core 0 lives on; each    *)
(* opens its end once, in any of its lives.                                *)
(***************************************************************************)
EXTENDS ChannelStates

const_MaxLives == [c \in Core |-> 1 + c]
const_MaxChanges == [c \in Core |-> 1]
============================================================================
