------------------------------ MODULE MsgQueue ------------------------------
(***************************************************************************)
(* What one direction of an ICC channel promises: a bounded first-in       *)
(* first-out queue of messages.  A message is known by its number in the   *)
(* order of sending and by its length.  `taken' is the last message handed *)
(* to the receiver.                                                        *)
(***************************************************************************)
EXTENDS Naturals, Sequences

CONSTANTS
  Lengths,   \* the lengths of messages
  NoMessage  \* nothing was received yet

VARIABLES
  queue,     \* messages sent and not yet received, oldest first
  sentCount, \* how many messages were sent
  taken      \* the message received last

vars == <<queue, sentCount, taken>>

Message == [number: Nat \ {0}, len: Lengths]

Init ==
  /\ queue = <<>>
  /\ sentCount = 0
  /\ taken = NoMessage

Send(len) ==
  /\ queue' = Append(queue, [number |-> sentCount + 1, len |-> len])
  /\ sentCount' = sentCount + 1
  /\ UNCHANGED taken

Receive ==
  /\ queue # <<>>
  /\ taken' = Head(queue)
  /\ queue' = Tail(queue)
  /\ UNCHANGED sentCount

Next == Receive \/ \E len \in Lengths : Send(len)

Spec == Init /\ [][Next]_vars
==============================================================================
