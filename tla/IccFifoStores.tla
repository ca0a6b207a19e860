---------------------------- MODULE IccFifoStores ----------------------------
(***************************************************************************)
(* The calls of IccFifo taken apart: one action is one load of the other   *)
(* core's index or one store of an own index, together with the copies     *)
(* that precede the store.  A call may store its index up to three times   *)
(* (at the end of the ring, behind the bytes, behind the padding), and the *)
(* other core can load every one of these values.                          *)
(*                                                                         *)
(* The indexes are plain fields.  A build loads each of them once in       *)
(* ICC_FIFO_Free and ICC_FIFO_Pending, and once more in the function that  *)
(* calls them.  The shared memory is mapped uncached, so loads and stores  *)
(* take effect in program order.                                           *)
(*                                                                         *)
(* Here `out' is the payload handed over last, and sent[n] the size of the *)
(* n-th message.                                                           *)
(***************************************************************************)
EXTENDS FifoLoads

ASSUME StoresAssumption == MsgSizes \subseteq Nat \ {0} /\ MaxMsgs \in Nat

writerVars == <<tail, buf, w, sent, wbase>>
readerVars == <<head, r, rret, out, taken, rbase>>
vars == <<head, tail, buf, w, r, rret, out, sent, taken, wbase, rbase>>

\* The length of message n.
LenOf(n) == IF n \in 1 .. Len(sent) THEN sent[n] ELSE w.len

\* done counts the bytes of the part that went before the end of the ring.
WriterIdle == [pc |-> "idle", part |-> "header", len |-> 0, free |-> 0,
               wrapped |-> FALSE, done |-> 0]
ReaderIdle == [pc |-> "idle", part |-> "header", len |-> 0, pending |-> 0,
               wrapped |-> FALSE, got |-> <<>>]

Init ==
  /\ head = 0 /\ tail = 0 /\ buf = [k \in 0 .. FifoSize - 1 |-> Junk]
  /\ w = WriterIdle /\ r = ReaderIdle /\ rret = "none" /\ out = <<>>
  /\ sent = <<>> /\ taken = 0 /\ wbase = 0 /\ rbase = 0
-----------------------------------------------------------------------------
(***************************************************************************)
(* The writer.  A message that does not fit is given up (ICC_ERR_FULL).    *)
(***************************************************************************)

\* ICC_FIFO_Free.
LoadFree(len) ==
  /\ w.pc = "idle" /\ Len(sent) < MaxMsgs
  /\ w' = [WriterIdle EXCEPT !.pc = "fits", !.len = len,
                             !.free = FreeBytes(head, tail)]
  /\ UNCHANGED <<tail, buf, sent, wbase, readerVars>>

\* A mutant of FitsIn: tail may come to rest on head.
FitsIn_AllowsEqual(free, wrapped, len) == RealSize(len) <= free

\* The rest of ICC_Fifo_Msg_Fits, with the free bytes and the order at hand.
FitsIn(free, wrapped, len) ==
  /\ RealSize(len) <= free
  /\ \/ RealSize(len) # free
     \/ ~wrapped /\ HeaderSize + len <= FifoSize - tail

CheckFits ==
  /\ w.pc = "fits"
  /\ w' = IF FitsIn(w.free, WrappedAround(head, tail), w.len)
          THEN [w EXCEPT !.pc = "order"] ELSE WriterIdle
  /\ UNCHANGED <<tail, buf, sent, wbase, readerVars>>

\* ICC_FIFO_Push_Header and ICC_FIFO_Push: ICC_FIFO_HeadTail_Order.
LoadPushOrder ==
  /\ w.pc = "order"
  /\ w' = [w EXCEPT !.pc = "store", !.wrapped = WrappedAround(head, tail)]
  /\ UNCHANGED <<tail, buf, sent, wbase, readerVars>>

\* The bytes of the part that is pushed, where they start in the message, and
\* the padding behind them.
PushSize == IF w.part = "header" THEN HeaderSize ELSE w.len
PushFrom == IF w.part = "header" THEN 0 ELSE HeaderSize
PushPadding == IF w.part = "header" THEN 0 ELSE Padding(w.len)

\* Behind the last store of a part: the payload follows the header.
PartPushed ==
  IF w.part = "header"
  THEN /\ w' = [w EXCEPT !.pc = "order", !.part = "payload", !.done = 0]
       /\ UNCHANGED sent
  ELSE w' = WriterIdle /\ sent' = Append(sent, w.len)

BytesPushed ==
  IF PushPadding = 0 THEN PartPushed
  ELSE w' = [w EXCEPT !.pc = "pad"] /\ UNCHANGED sent

\* A mutant of StoreTail: the index is announced with the first of the bytes.
StoreTail_Early ==
  /\ w.pc = "store"
  /\ w.wrapped \/ PushSize <= FifoSize - tail
  /\ buf' = Stored(buf, tail, Writing, PushFrom, 1)
  /\ tail' = tail + PushSize
  /\ BytesPushed
  /\ UNCHANGED <<wbase, readerVars>>

\* The part lies in one piece.
StoreTail ==
  /\ w.pc = "store"
  /\ w.wrapped \/ PushSize <= FifoSize - tail
  /\ buf' = Stored(buf, tail, Writing, PushFrom, PushSize)
  /\ tail' = tail + PushSize
  /\ BytesPushed
  /\ UNCHANGED <<wbase, readerVars>>

\* The part meets the end of the ring.
StoreTailZero ==
  LET gap == FifoSize - tail IN
  /\ w.pc = "store"
  /\ ~w.wrapped /\ gap < PushSize
  /\ buf' = Stored(buf, tail, Writing, PushFrom, gap)
  /\ tail' = 0
  /\ wbase' = wbase + FifoSize
  /\ w' = [w EXCEPT !.pc = "store_rest", !.done = gap]
  /\ UNCHANGED <<sent, readerVars>>

\* The stores behind the first: of the bytes from the start of the ring on,
\* and of the padding.
StoreTailAgain ==
  LET padding == w.pc = "pad"
      rest == PushSize - w.done
  IN
  /\ w.pc \in {"store_rest", "pad"}
  /\ tail' = tail + (IF padding THEN PushPadding ELSE rest)
  /\ IF padding THEN PartPushed /\ UNCHANGED buf
     ELSE /\ buf' = Stored(buf, 0, Writing, PushFrom + w.done, rest)
          /\ BytesPushed
  /\ UNCHANGED <<wbase, readerVars>>
-----------------------------------------------------------------------------
(***************************************************************************)
(* The reader, with a buffer that takes every message.                     *)
(***************************************************************************)

CheckPending ==
  /\ r.pc = "idle"
  /\ PendingBytes(head, tail) > HeaderSize
  /\ r' = [ReaderIdle EXCEPT !.pc = "pending"]
  /\ UNCHANGED <<head, rret, out, taken, rbase, writerVars>>

\* ICC_FIFO_Pop_Header and ICC_FIFO_Pop: ICC_FIFO_Pending.
LoadPending ==
  /\ r.pc = "pending"
  /\ r' = [r EXCEPT !.pc = "order", !.pending = PendingBytes(head, tail)]
  /\ UNCHANGED <<head, rret, out, taken, rbase, writerVars>>

PopSize == IF r.part = "header" THEN HeaderSize ELSE r.len
PopPadding == IF r.part = "header" THEN 0 ELSE Padding(r.len)

\* ICC_FIFO_HeadTail_Order, and ICC_ERR_FIFO_EMPTY for too few bytes.
LoadPopOrder ==
  /\ r.pc = "order"
  /\ IF PopSize > r.pending
     THEN r' = ReaderIdle /\ rret' = "FIFO_EMPTY"
     ELSE /\ r' = [r EXCEPT !.pc = "store",
                            !.wrapped = WrappedAround(head, tail)]
          /\ UNCHANGED rret
  /\ UNCHANGED <<head, out, taken, rbase, writerVars>>

\* len bytes at index k; past the end of the ring lies memory of others.
Read(k, len) ==
  [i \in 1 .. len |-> IF k + i - 1 < FifoSize THEN buf[k + i - 1] ELSE Junk]

\* The values a header made of these bytes can have: any, when they are not
\* the header of one message.
HeaderValues(bytes) ==
  LET n == bytes[1][1] IN
  IF n \in 1 .. Writing /\ \A i \in 1 .. HeaderSize : bytes[i] = Byte(n, i - 1)
  THEN {LenOf(n)} ELSE MsgSizes \union {FifoSize}

\* Behind the last store of a part.
PartPopped(bytes) ==
  IF r.part = "header"
  THEN /\ \E len \in HeaderValues(bytes) :
            r' = [ReaderIdle EXCEPT !.pc = "pending", !.part = "payload",
                                    !.len = len]
       /\ taken' = taken + 1
       /\ UNCHANGED <<rret, out>>
  ELSE r' = ReaderIdle /\ rret' = "SUCCESS" /\ out' = bytes /\ UNCHANGED taken

BytesPopped(bytes) ==
  IF PopPadding = 0 THEN PartPopped(bytes)
  ELSE /\ r' = [r EXCEPT !.pc = "pad", !.got = bytes]
       /\ UNCHANGED <<rret, out, taken>>

StoreHead ==
  /\ r.pc = "store"
  /\ ~r.wrapped \/ PopSize <= FifoSize - head
  /\ head' = head + PopSize
  /\ BytesPopped(Read(head, PopSize))
  /\ UNCHANGED <<rbase, writerVars>>

StoreHeadZero ==
  LET gap == FifoSize - head IN
  /\ r.pc = "store"
  /\ r.wrapped /\ gap < PopSize
  /\ head' = 0
  /\ rbase' = rbase + FifoSize
  /\ r' = [r EXCEPT !.pc = "store_rest", !.got = Read(head, gap)]
  /\ UNCHANGED <<rret, out, taken, writerVars>>

StoreHeadAgain ==
  LET padding == r.pc = "pad"
      rest == PopSize - Len(r.got)
  IN
  /\ r.pc \in {"store_rest", "pad"}
  /\ head' = head + (IF padding THEN PopPadding ELSE rest)
  /\ IF padding THEN PartPopped(r.got) ELSE BytesPopped(r.got \o Read(0, rest))
  /\ UNCHANGED <<rbase, writerVars>>
-----------------------------------------------------------------------------
Writer ==
  \/ \E len \in MsgSizes : LoadFree(len)
  \/ CheckFits \/ LoadPushOrder
  \/ StoreTail \/ StoreTailZero \/ StoreTailAgain

Reader ==
  \/ CheckPending \/ LoadPending \/ LoadPopOrder
  \/ StoreHead \/ StoreHeadZero \/ StoreHeadAgain

Next == Writer \/ Reader

Spec == Init /\ [][Next]_vars
-----------------------------------------------------------------------------
(***************************************************************************)
(* Properties.                                                             *)
(***************************************************************************)
Places == {"idle", "order", "store", "store_rest", "pad"}

\* The variables hold what the code can store in them; every value stored in
\* an index, the ones in the middle of a call included, is in the ring.
TypeOK ==
  /\ head \in Index /\ tail \in Index /\ buf \in [0 .. FifoSize - 1 -> Nat \X Nat]
  /\ w \in [pc: Places \union {"fits"}, part: {"header", "payload"},
            len: MsgSizes \union {0}, free: 0 .. FifoSize, wrapped: BOOLEAN,
            done: 0 .. FifoSize]
  /\ r.pc \in Places \union {"pending"} /\ r.part \in {"header", "payload"}
  /\ r.len \in MsgSizes \union {0} /\ r.pending \in 0 .. FifoSize
  /\ rret \in {"none", "SUCCESS", "FIFO_EMPTY"} /\ out \in Seq(Nat \X Nat)
  /\ sent \in Seq(MsgSizes) /\ taken \in Nat /\ wbase \in Nat /\ rbase \in Nat
==============================================================================
