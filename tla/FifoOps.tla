------------------------------- MODULE FifoOps -------------------------------
(***************************************************************************)
(* The index arithmetic of one ICC FIFO (ICC_Fifo.c): a byte ring with a   *)
(* read index `head', moved only by the reader's core, and a write index   *)
(* `tail', moved only by the writer's core.  Either index may rest at      *)
(* FifoSize, one past the last byte, until the next access that starts     *)
(* there.  Every message is stored as a header of HeaderSize bytes, its    *)
(* payload, and padding up to a multiple of Alignment.                     *)
(*                                                                         *)
(* The operators take the two indexes as parameters, so that a caller can  *)
(* evaluate them on the values it has read.                                *)
(***************************************************************************)
EXTENDS Integers

CONSTANTS
  FifoSize,    \* ICC_Fifo_Config_t.fifo_size
  HeaderSize,  \* ICC_HEADER_SIZE
  Alignment    \* ICC_Fifo_Config_t.alignment

\* ICC_Config.c gives every FIFO a size that is a multiple of its alignment;
\* the code relies on it (ICC_FIFO_Push pads tail without a wrap check).
ASSUME FifoAssumption ==
  /\ FifoSize \in Nat \ {0}
  /\ HeaderSize \in Nat \ {0}
  /\ Alignment \in Nat \ {0}
  /\ FifoSize % Alignment = 0

Index == 0 .. FifoSize

\* TRUE when the data wraps around the end of the ring (order 1 in the code).
WrappedAround(head, tail) == tail < head

\* Alignment is a power of two, so "& (alignment - 1)" is the remainder.
ExcessAlign(len) == (HeaderSize + len) % Alignment

\* What ALIGN_WRITE and ALIGN_READ add behind `len' payload bytes.
Padding(len) ==
  IF ExcessAlign(len) = 0 THEN 0 ELSE Alignment - ExcessAlign(len)

\* The bytes a message of len payload bytes occupies in the ring.
RealSize(len) == HeaderSize + len + Padding(len)

PendingBytes(head, tail) ==
  IF WrappedAround(head, tail) THEN tail + (FifoSize - head) ELSE tail - head

\* A mutant of FreeBytes: only the room up to the end of the ring counts.
FreeBytes_Contiguous(head, tail) ==
  IF WrappedAround(head, tail) THEN head - tail ELSE FifoSize - tail

FreeBytes(head, tail) ==
  IF WrappedAround(head, tail) THEN head - tail ELSE head + (FifoSize - tail)

(***************************************************************************)
(* ICC_Fifo_Msg_Fits.  Filling the ring completely is refused when tail    *)
(* would come to rest on head, where the ring would look empty; it is      *)
(* accepted when the message ends exactly at FifoSize.                     *)
(***************************************************************************)
\* Mutants of MsgFits: tail may come to rest on head, and the padding is
\* forgotten.
MsgFits_AllowsEqual(head, tail, len) == RealSize(len) <= FreeBytes(head, tail)

MsgFits_NoPadding(head, tail, len) ==
  HeaderSize + len < FreeBytes(head, tail)

MsgFits(head, tail, len) ==
  /\ RealSize(len) <= FreeBytes(head, tail)
  /\ \/ RealSize(len) # FreeBytes(head, tail)
     \/ /\ ~WrappedAround(head, tail)
        /\ HeaderSize + len <= FifoSize - tail

\* A mutant of PushSplits: the comparison with the gap is off by one.
PushSplits_OffByOne(head, tail, len) ==
  ~WrappedAround(head, tail) /\ len > FifoSize - tail + 1

\* A write of len bytes is split at the end of the ring.
PushSplits(head, tail, len) ==
  ~WrappedAround(head, tail) /\ len > FifoSize - tail

\* A read of len bytes is split at the end of the ring.
PopSplits(head, tail, len) ==
  WrappedAround(head, tail) /\ len > FifoSize - head

\* tail behind a write of len bytes followed by pad bytes of padding.
TailAfter(head, tail, len, pad) ==
  IF PushSplits(head, tail, len) THEN (len - (FifoSize - tail)) + pad
                                 ELSE tail + len + pad

\* head behind a read of len bytes followed by pad bytes of padding.
HeadAfter(head, tail, len, pad) ==
  IF PopSplits(head, tail, len) THEN (len - (FifoSize - head)) + pad
                                ELSE head + len + pad

(***************************************************************************)
(* The contents of a byte are abstracted to where it comes from: <<n, i>>  *)
(* is byte i of the n-th message, header first.                            *)
(***************************************************************************)
Byte(n, i) == <<n, i>>
Junk == <<0, 0>>

\* memory with bytes from, from + 1, ... of message n stored at index at.
Stored(memory, at, n, from, len) ==
  [k \in 0 .. FifoSize - 1 |->
     IF k \in at .. at + len - 1 THEN Byte(n, from + (k - at)) ELSE memory[k]]
==============================================================================
