------------------------------ MODULE FifoRing ------------------------------
(***************************************************************************)
(* One FIFO of a channel in shared memory, with the history of what passed *)
(* through it: IccFifo, where a step of the reader is a call, and          *)
(* IccFifoStores, where it is a load or a store, both keep their state in  *)
(* it.                                                                     *)
(***************************************************************************)
EXTENDS FifoOps, Sequences

CONSTANTS
  MsgSizes,  \* tx_user_buffer_size of the messages sent
  MaxMsgs    \* bound: how many messages are sent

VARIABLES
  head, tail,  \* ICC_Fifo_Ram_t.head and tail
  buf,         \* the bytes fifo_buffer_ptr points to
  rret,        \* what the last ICC_Msg_Recv returned
  out,         \* what the reader's buffer holds
  \* History, read by no guard: the messages pushed, the headers popped, and
  \* the stream positions of ring index 0 in the writer's and in the reader's
  \* current lap.
  sent, taken, wbase, rbase

\* The number of the message being written.
Writing == Len(sent) + 1

\* Stream positions of the two indexes.
WritePos == wbase + tail
ReadPos == rbase + head

\* ICC_FIFO_Pending, computed from the two indexes alone, is the number of
\* bytes pushed and not popped: whatever the order of the two cores' steps, a
\* full ring is never taken for an empty one and the reader never passes the
\* writer.
Occupancy == PendingBytes(head, tail) = WritePos - ReadPos
=============================================================================
