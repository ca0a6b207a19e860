------------------------------- MODULE IccFifo -------------------------------
(***************************************************************************)
(* One FIFO of a channel between its writer, a task in ICC_Msg_Send on one *)
(* core, and its reader, a task in ICC_Msg_Recv on the other.  The two     *)
(* cores interleave between the check for room, the header and the stores  *)
(* of tail that a payload takes, and between the check for data, the       *)
(* header and the payload on the reading side.                             *)
(*                                                                         *)
(* ICC_FIFO_Push stores tail once for a payload in one piece, once more    *)
(* when the end of the ring tears it, and once more for padding: each is a *)
(* step.  A header is one step, since a part of it lets no receive begin,  *)
(* and so is a pop, whose stores of head only the writer sees:             *)
(* IccFifoStores has them apart.                                           *)
(*                                                                         *)
(* A receive that begins between the stores of its message goes wrong      *)
(* (README, section 4).  `early' records it, and what is said of the FIFO  *)
(* is said of the behaviours without it.                                   *)
(***************************************************************************)
EXTENDS FifoRing

CONSTANTS
  RxBufSizes,  \* rx_user_buffer_size of the receive calls
  PastEarly    \* bound: whether a behaviour is followed on after `early'

ASSUME SizesAssumption ==
  /\ MsgSizes \subseteq Nat \ {0}
  /\ RxBufSizes \subseteq Nat \ {0}
  /\ MaxMsgs \in Nat
  /\ PastEarly \in BOOLEAN

\* `out' is [op, data], sent[n] the n-th message with its position in the
\* stream of bytes pushed.
VARIABLES
  spc, slen,  \* the writer: next step, tx_user_buffer_size
  written,    \* the bytes of its message in the ring so far, header first
  rpc, rlen,  \* the reader: next call, rx_user_buffer_size
  rhdr,       \* the reader's msg_header
  \* History: what the last header popped said, and whether a receive began
  \* while the payload of its message was being pushed.
  last, early

ring == <<head, tail, buf>>
writerVars == <<spc, slen, written, sent, wbase>>
readerHist == <<taken, last, rbase>>
readerVars == <<rpc, rlen, rhdr, rret, out, readerHist, early>>
vars == <<head, tail, buf, spc, slen, written, rpc, rlen, rhdr, rret, out,
          sent, taken, last, wbase, rbase, early>>

NoHeader == [number |-> 0, len |-> 0]
NoData == [op |-> "none", data |-> <<>>]

\* The length of message n.
LenOf(n) == IF n \in 1 .. Len(sent) THEN sent[n].len ELSE slen
-----------------------------------------------------------------------------
(***************************************************************************)
(* Copies to and from the ring.                                            *)
(***************************************************************************)

\* buf with the header of message n written at tail.
HeaderPushed(n) ==
  LET gap == FifoSize - tail IN
  IF PushSplits(head, tail, HeaderSize)
  THEN Stored(Stored(buf, tail, n, 0, gap), 0, n, gap, HeaderSize - gap)
  ELSE Stored(buf, tail, n, 0, HeaderSize)

\* The byte at index k; past the end of the ring lies memory of others.
At(k) == IF k \in 0 .. FifoSize - 1 THEN buf[k] ELSE Junk

\* The len bytes at head.
Popped(len) ==
  LET gap == FifoSize - head IN
  [i \in 1 .. len |-> IF PopSplits(head, tail, len) /\ i > gap
                      THEN At(i - gap - 1) ELSE At(head + i - 1)]

\* The values a header made of these bytes can have: any, when they are not
\* the header of one message.
HeaderValues(bytes) ==
  LET n == bytes[1][1] IN
  IF n \in 1 .. Writing /\ \A i \in 1 .. HeaderSize : bytes[i] = Byte(n, i - 1)
  THEN {LenOf(n)} ELSE MsgSizes \union {FifoSize}
-----------------------------------------------------------------------------
Init ==
  /\ head = 0 /\ tail = 0
  /\ buf = [k \in 0 .. FifoSize - 1 |-> Junk]
  /\ spc = "idle" /\ slen = 0 /\ written = 0
  /\ rpc = "idle" /\ rlen = 0 /\ rhdr = 0 /\ rret = "none" /\ out = NoData
  /\ sent = <<>> /\ taken = 0 /\ last = NoHeader /\ wbase = 0 /\ rbase = 0
  /\ early = FALSE

(***************************************************************************)
(* The writer: ICC_Msg_Send between the check for room and the signal.     *)
(* A message that does not fit changes nothing here.                       *)
(***************************************************************************)
CheckFits(len) ==
  /\ spc = "idle"
  /\ Len(sent) < MaxMsgs
  /\ MsgFits(head, tail, len)
  /\ spc' = "header"
  /\ slen' = len
  /\ UNCHANGED <<ring, written, sent, wbase, readerVars>>

\* ICC_FIFO_Push_Header: no padding behind a header.
PushHeader ==
  /\ spc = "header"
  /\ buf' = HeaderPushed(Writing)
  /\ tail' = TailAfter(head, tail, HeaderSize, 0)
  /\ wbase' = IF PushSplits(head, tail, HeaderSize) THEN wbase + FifoSize
                                                    ELSE wbase
  /\ written' = HeaderSize
  /\ spc' = "payload"
  /\ UNCHANGED <<head, slen, sent, readerVars>>

\* Where the message being pushed, or the next one, starts.
WriteStart == WritePos - written

\* With its last store of tail a message is complete.
Complete ==
  /\ sent' = Append(sent, [at |-> WriteStart, len |-> slen])
  /\ written' = 0
  /\ spc' = "idle"

\* memcpy of what is left of the message to tail, and ALIGN_WRITE up to its
\* first store.
PushWhole ==
  LET rest == HeaderSize + slen - written IN
  /\ buf' = Stored(buf, tail, Writing, written, rest)
  /\ tail' = tail + rest
  /\ \/ Padding(slen) = 0 /\ Complete
     \/ /\ Padding(slen) # 0
        /\ written' = HeaderSize + slen
        /\ spc' = "pad"
        /\ UNCHANGED sent
  /\ UNCHANGED <<head, slen, wbase, readerVars>>

\* memcpy of what fits before the end of the ring: tail is 0 before the rest is
\* copied.
PushTorn ==
  LET gap == FifoSize - tail IN
  /\ buf' = Stored(buf, tail, Writing, written, gap)
  /\ tail' = 0
  /\ wbase' = wbase + FifoSize
  /\ written' = written + gap
  /\ spc' = "rest"
  /\ UNCHANGED <<head, slen, sent, readerVars>>

\* ICC_FIFO_Push of the payload.
Push ==
  /\ spc = "payload"
  /\ IF PushSplits(head, tail, slen) THEN PushTorn ELSE PushWhole

PushRest == spc = "rest" /\ PushWhole

\* The second store of ALIGN_WRITE.
PushPadding ==
  /\ spc = "pad"
  /\ tail' = tail + Padding(slen)
  /\ Complete
  /\ UNCHANGED <<head, buf, slen, wbase, readerVars>>
-----------------------------------------------------------------------------
(***************************************************************************)
(* The reader: ICC_Msg_Recv from its check for data on.                    *)
(***************************************************************************)

\* The receiver's next message is between two stores of its payload.
TooEarly == taken = Len(sent) /\ spc \in {"rest", "pad"}

\* A mutant of CheckPending: a header alone counts as a message.
CheckPending_HeaderOnly(len, op) ==
  /\ rpc = "idle"
  /\ PendingBytes(head, tail) >= HeaderSize
  /\ rpc' = IF op = "peek" THEN "peek_header" ELSE "header"
  /\ rlen' = len
  /\ early' = (early \/ TooEarly)
  /\ UNCHANGED <<ring, rhdr, rret, out, readerHist, writerVars>>

CheckPending(len, op) ==
  /\ rpc = "idle"
  /\ PendingBytes(head, tail) > HeaderSize
  /\ rpc' = IF op = "peek" THEN "peek_header" ELSE "header"
  /\ rlen' = len
  /\ early' = (early \/ TooEarly)
  /\ UNCHANGED <<ring, rhdr, rret, out, readerHist, writerVars>>

\* A call that cannot be served returns ICC_ERR_FIFO_EMPTY.
ReturnEmpty ==
  /\ rret' = "FIFO_EMPTY"
  /\ rpc' = "idle"
  /\ UNCHANGED <<ring, rlen, rhdr, out, readerHist, early, writerVars>>

\* A mutant of Advance: the padding stays in the ring.
Advance_LeavesPadding(len, pad) ==
  /\ head' = HeadAfter(head, tail, len, 0)
  /\ rbase' = IF PopSplits(head, tail, len) THEN rbase + FifoSize ELSE rbase
  /\ UNCHANGED <<tail, buf, early, writerVars>>

\* A mutant of Advance: the padding is taken off twice.
Advance_PadsTwice(len, pad) ==
  /\ head' = HeadAfter(head, tail, len, pad + pad)
  /\ rbase' = IF PopSplits(head, tail, len) THEN rbase + FifoSize ELSE rbase
  /\ UNCHANGED <<tail, buf, early, writerVars>>

\* The read index moves over len bytes and pad bytes of padding.
Advance(len, pad) ==
  /\ head' = HeadAfter(head, tail, len, pad)
  /\ rbase' = IF PopSplits(head, tail, len) THEN rbase + FifoSize ELSE rbase
  /\ UNCHANGED <<tail, buf, early, writerVars>>

\* ICC_FIFO_Pop_Header.
PopHeader ==
  /\ rpc = "header"
  /\ \/ /\ HeaderSize > PendingBytes(head, tail)
        /\ ReturnEmpty
     \/ /\ HeaderSize <= PendingBytes(head, tail)
        /\ rhdr' \in HeaderValues(Popped(HeaderSize))
        /\ Advance(HeaderSize, 0)
        /\ taken' = taken + 1
        /\ last' = [number |-> Popped(HeaderSize)[1][1], len |-> rhdr']
        /\ out' = NoData
        /\ rpc' = "payload"
        /\ UNCHANGED <<rlen, rret>>

\* rx_msg_size: the message, or as much of it as the user's buffer takes.
RxSize == IF rhdr <= rlen THEN rhdr ELSE rlen

Truncated == rhdr > rlen

\* A mutant of PopBytes: the data is read in one piece and never wraps.
PopBytes_NeverSplits(len) == [i \in 1 .. len |-> At(head + i - 1)]

PopBytes(len) == Popped(len)

\* ICC_FIFO_Pop of the payload.  Its padding is computed from the bytes read.
\* What it returns is dropped when the message is truncated.
Pop ==
  /\ rpc = "payload"
  /\ \/ /\ RxSize > PendingBytes(head, tail)
        /\ ~Truncated
        /\ ReturnEmpty
     \/ /\ RxSize > PendingBytes(head, tail)
        /\ Truncated
        /\ rpc' = "discard"
        /\ UNCHANGED <<ring, rlen, rhdr, rret, out, readerHist, early,
                       writerVars>>
     \/ /\ RxSize <= PendingBytes(head, tail)
        /\ out' = [op |-> "normal", data |-> PopBytes(RxSize)]
        /\ Advance(RxSize, Padding(RxSize))
        /\ rpc' = IF Truncated THEN "discard" ELSE "idle"
        /\ rret' = IF Truncated THEN rret ELSE "SUCCESS"
        /\ UNCHANGED <<rlen, rhdr, taken, last>>

\* ICC_FIFO_Pop with a null buffer drops the rest of a truncated message.
Discard ==
  /\ rpc = "discard"
  /\ \/ /\ rhdr - rlen > PendingBytes(head, tail)
        /\ ReturnEmpty
     \/ /\ rhdr - rlen <= PendingBytes(head, tail)
        /\ Advance(rhdr - rlen, Padding(rhdr - rlen))
        /\ rpc' = "idle"
        /\ rret' = "TRUNCATED"
        /\ UNCHANGED <<rlen, rhdr, out, taken, last>>

PeekHeader ==
  /\ rpc = "peek_header"
  /\ \/ /\ HeaderSize > PendingBytes(head, tail)
        /\ ReturnEmpty
     \/ /\ HeaderSize <= PendingBytes(head, tail)
        /\ rhdr' \in HeaderValues(Popped(HeaderSize))
        /\ rpc' = "peek"
        /\ UNCHANGED <<ring, rlen, rret, out, readerHist, early, writerVars>>

\* The header is still in the ring, so ICC_FIFO_Peek is asked for 4 bytes more
\* and the user's buffer receives the header in front of the payload.
Peek ==
  /\ rpc = "peek"
  /\ \/ /\ RxSize + HeaderSize > PendingBytes(head, tail)
        /\ ReturnEmpty
     \/ /\ RxSize + HeaderSize <= PendingBytes(head, tail)
        /\ out' = [op |-> "peek", data |-> Popped(RxSize + HeaderSize)]
        /\ rpc' = "idle"
        /\ rret' = IF Truncated THEN "TRUNCATED" ELSE "SUCCESS"
        /\ UNCHANGED <<ring, rlen, rhdr, readerHist, early, writerVars>>
-----------------------------------------------------------------------------
(***************************************************************************)
(* The queries change nothing.  All of them are about the TX FIFO, so it   *)
(* is the writer who asks.                                                 *)
(***************************************************************************)
\* ICC_Get_Channel_Free: the room without a header; padding is not deducted.
ChannelFree ==
  IF FreeBytes(head, tail) <= HeaderSize THEN 0
                                         ELSE FreeBytes(head, tail) - HeaderSize

\* ICC_Get_Channel_Pending.
ChannelPending == PendingBytes(head, tail)

\* ICC_Get_Next_Msg_Size: what the four bytes at head say, if there are four.
NextMsgSizes ==
  IF ChannelPending < HeaderSize THEN {} ELSE HeaderValues(Popped(HeaderSize))
-----------------------------------------------------------------------------
Writer ==
  \/ \E len \in MsgSizes : CheckFits(len)
  \/ PushHeader \/ Push \/ PushRest \/ PushPadding

Reader ==
  \/ \E len \in RxBufSizes, op \in {"normal", "peek"} : CheckPending(len, op)
  \/ PopHeader \/ Pop \/ Discard \/ PeekHeader \/ Peek

Next ==
  /\ early => PastEarly
  /\ Writer \/ Reader

Spec == Init /\ [][Next]_vars
-----------------------------------------------------------------------------
(***************************************************************************)
(* Properties.                                                             *)
(***************************************************************************)

\* The queue of messages this FIFO stands for.
Mailbox == INSTANCE MsgQueue WITH
  Lengths <- MsgSizes,
  NoMessage <- NoHeader,
  queue <- [i \in 1 .. Len(sent) - taken |->
              [number |-> taken + i, len |-> sent[taken + i].len]],
  sentCount <- Len(sent),
  taken <- last

RingTypeOK ==
  head \in Index /\ tail \in Index /\ buf \in [0 .. FifoSize - 1 -> Nat \X Nat]

WriterTypeOK ==
  /\ spc \in {"idle", "header", "payload", "rest", "pad"}
  /\ slen \in MsgSizes \union {0} /\ written \in Nat
  /\ sent \in Seq([at: Nat, len: MsgSizes]) /\ wbase \in Nat

ReaderTypeOK ==
  /\ rpc \in {"idle", "header", "payload", "discard", "peek_header", "peek"}
  /\ rlen \in RxBufSizes \union {0}
  /\ rhdr \in MsgSizes \union {0}
  /\ rret \in {"none", "SUCCESS", "TRUNCATED", "FIFO_EMPTY"}
  /\ out.op \in {"none", "normal", "peek"}
  /\ out.data \in Seq(Nat \X Nat)
  /\ taken \in Nat /\ last \in [number: Nat, len: MsgSizes \union {0}]
  /\ rbase \in Nat

VarsTypeOK == RingTypeOK /\ WriterTypeOK /\ ReaderTypeOK

\* The variables hold what the code can store in them; the indexes stay in
\* the ring.
TypeOK == early \in BOOLEAN /\ (early \/ VarsTypeOK)

\* What ICC_FIFO_Pending makes of the two indexes is the number of bytes pushed
\* and not popped, at each store of tail that a payload takes: unless a receive
\* began between them.
PendingRight == early \/ Occupancy

\* Where byte p of the stream lies in the ring while it is unread.
RingIndex(p) == IF p - rbase < FifoSize THEN p - rbase ELSE p - rbase - FifoSize

\* Position of the n-th message, and how many of its bytes were pushed.
StartOf(n) == IF n <= Len(sent) THEN sent[n].at ELSE WriteStart
BytesOf(n) == IF n <= Len(sent) THEN HeaderSize + sent[n].len ELSE written

Intact ==
  \A n \in 1 .. Writing : \A i \in 0 .. BytesOf(n) - 1 :
    StartOf(n) + i >= ReadPos => buf[RingIndex(StartOf(n) + i)] = Byte(n, i)

\* No byte of a message is overwritten before the reader has gone past it:
\* ICC_FIFO_Push writes only into what ICC_Fifo_Msg_Fits found free.
UnreadIntact == early \/ Intact

OnBoundary ==
  rpc \in {"idle", "header", "peek_header", "peek"} =>
    ReadPos = IF taken < Len(sent) THEN sent[taken + 1].at ELSE WriteStart

\* Between two receives the read index is where a message starts or, when
\* none is complete, where the next one does or will: header, payload and
\* padding are taken off exactly as they were put in.
AtBoundary == early \/ OnBoundary

\* "at this point there is a message pending": a receive that has passed its
\* check for data never runs out of bytes half way (ICC_ERR_FIFO_EMPTY), unless
\* it began early.
CheckedReceive == early \/ rret # "FIFO_EMPTY"

Delivered ==
  /\ out.op = "normal" =>
       \A i \in DOMAIN out.data : out.data[i] = Byte(taken, HeaderSize + i - 1)
  /\ out.op = "peek" =>
       \A i \in DOMAIN out.data : out.data[i] = Byte(taken + 1, i - 1)
  /\ rpc = "idle" /\ out.op # "none" =>
       LET len == LenOf(IF out.op = "normal" THEN taken ELSE taken + 1)
           got == IF out.op = "normal" THEN Len(out.data)
                                       ELSE Len(out.data) - HeaderSize
       IN  got = IF len <= rlen THEN len ELSE rlen

\* A receive hands over the payload of the message it is due, cut to the
\* user's buffer, each message once and in the order of sending; a peek shows
\* the message the next receive will hand over, behind its header.
DeliveredInOrder == early \/ Delivered

\* An idle FIFO takes any message that is shorter than the ring, wherever its
\* indexes came to rest: a sender cannot be refused for ever.
EmptyAccepts ==
  spc = "idle" /\ taken = Len(sent) /\ rpc = "idle" /\ ~early =>
    \A len \in MsgSizes : RealSize(len) < FifoSize => MsgFits(head, tail, len)

\* What a sending task learns from ICC_Get_Channel_Free stays true until it
\* sends: the receiver, at whatever point of a call it is, only adds to the
\* room, and never by a byte more than is pending.
FreeOnlyGrows ==
  [][tail' = tail =>
       \/ early'
       \/ /\ ChannelFree' >= ChannelFree
          /\ ChannelFree' <= ChannelFree + ChannelPending]_vars

\* The sender is told the size of the message the receiver gets next, unless
\* the receiver is between the header and the end of a message: then it is
\* told what four bytes of a payload happen to say.
NextSizeRight ==
  rpc \notin {"payload", "discard"} /\ NextMsgSizes # {} =>
    early \/ NextMsgSizes = {LenOf(taken + 1)}

\* The FIFO implements a queue of messages: a message enters it with the last
\* store of tail and leaves it when its header is popped, until a receive is
\* early.
ImplementsQueue == Mailbox!Init /\ [][early' \/ Mailbox!Next]_(Mailbox!vars)
==============================================================================
