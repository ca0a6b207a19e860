--------------------------- MODULE IccFifo_proofs ---------------------------
(***************************************************************************)
(* Proofs about IccFifo for every ring size, alignment, header size and    *)
(* set of message sizes that satisfy FifoAssumption, SizesAssumption and   *)
(* TruncationAssumption.                                                   *)
(***************************************************************************)
EXTENDS IccFifoAligned, FifoLoads, FifoOps_proofs, SequenceTheorems

-----------------------------------------------------------------------------
(***************************************************************************)
(* The inductive invariant.                                                *)
(***************************************************************************)

\* The indexes are in the same lap, or the writer is one lap ahead.
Laps ==
  \/ wbase = rbase /\ head <= tail
  \/ wbase = rbase + FifoSize /\ tail < head

\* Messages lie one behind the other, on aligned positions.
Chain ==
  /\ Aligned(wbase) /\ Aligned(rbase) /\ Aligned(WriteStart)
  /\ WriteStart \in Nat
  /\ \A n \in 1 .. Len(sent) :
       /\ Aligned(sent[n].at)
       /\ sent[n].at + RealSize(sent[n].len) <= WriteStart
       /\ sent[n].at + RealSize(sent[n].len) =
            IF n < Len(sent) THEN sent[n + 1].at ELSE WriteStart

\* k more bytes leave tail short of head, or end at the end of the ring.
RoomFor(k) ==
  \/ WritePos + k < ReadPos + FifoSize
  \/ wbase = rbase /\ tail + k <= FifoSize

\* The room found by ICC_Fifo_Msg_Fits is still there.
RoomKept ==
  spc # "idle" => slen \in MsgSizes /\ RoomFor(RealSize(slen) - written)

\* How far into its message the writer is.
SenderPlace ==
  /\ spc \in {"idle", "header"} => written = 0
  /\ spc = "payload" => written = HeaderSize
  /\ spc = "rest" =>
       tail = 0 /\ written >= HeaderSize /\ written < HeaderSize + slen
  /\ spc = "pad" => written = HeaderSize + slen /\ Padding(slen) # 0

\* How far into which message the reader is.
ReaderPlace ==
  /\ taken <= Len(sent)
  /\ rpc \in {"header", "peek_header", "peek"} => taken < Len(sent)
  /\ rpc = "peek" => rhdr = sent[taken + 1].len
  /\ rpc # "idle" => rlen \in RxBufSizes
  /\ rpc \in {"payload", "discard"} => taken >= 1 /\ rhdr = sent[taken].len
  /\ rpc = "payload" => ReadPos = sent[taken].at + HeaderSize
  /\ rpc = "discard" =>
       /\ rlen < rhdr
       /\ ReadPos = sent[taken].at + HeaderSize + rlen + Padding(rlen)

\* No receive ran out of bytes.
Served == rret # "FIFO_EMPTY"

IInv ==
  /\ VarsTypeOK /\ Laps /\ Chain /\ RoomKept /\ SenderPlace /\ ReaderPlace
  /\ OnBoundary /\ Intact /\ Served

LEMMA Numbers ==
  ASSUME VarsTypeOK
  PROVE  /\ head \in 0 .. FifoSize /\ tail \in 0 .. FifoSize
         /\ wbase \in Nat /\ rbase \in Nat
         /\ FifoSize \in Nat /\ HeaderSize \in Nat /\ HeaderSize > 0
         /\ WritePos = wbase + tail /\ ReadPos = rbase + head
         /\ WritePos \in Nat /\ ReadPos \in Nat
<1>1. /\ head \in 0 .. FifoSize /\ tail \in 0 .. FifoSize
      /\ wbase \in Nat /\ rbase \in Nat
  BY DEF VarsTypeOK, RingTypeOK, WriterTypeOK, ReaderTypeOK, Index
<1>2. /\ FifoSize \in Nat /\ HeaderSize \in Nat /\ HeaderSize > 0
  BY FifoAssumption
<1>. QED  BY <1>1, <1>2 DEF WritePos, ReadPos

\* The distance of the two positions is what the indexes say.
LEMMA OccupancyFromLaps ==
  ASSUME VarsTypeOK, Laps
  PROVE  /\ PendingBytes(head, tail) = WritePos - ReadPos
         /\ FreeBytes(head, tail) = ReadPos + FifoSize - WritePos
         /\ WrappedAround(head, tail) <=> wbase # rbase
         /\ WritePos - ReadPos \in 0 .. FifoSize
<1>1. CASE wbase = rbase /\ head <= tail
  BY <1>1, Numbers DEF PendingBytes, FreeBytes, WrappedAround
<1>2. CASE wbase = rbase + FifoSize /\ tail < head
  BY <1>2, Numbers DEF PendingBytes, FreeBytes, WrappedAround
<1>. QED  BY <1>1, <1>2 DEF Laps

LEMMA InitInv == Init => IInv
<1> SUFFICES ASSUME Init PROVE IInv
  OBVIOUS
<1> USE FifoAssumption, SizesAssumption DEF Init
<1>1. VarsTypeOK
  BY DEF VarsTypeOK, RingTypeOK, WriterTypeOK, ReaderTypeOK, Index, Junk, NoData, NoHeader
<1>2. Laps /\ RoomKept /\ SenderPlace /\ ReaderPlace /\ OnBoundary /\ Served
  BY DEF Laps, RoomKept, SenderPlace, ReaderPlace, OnBoundary, Served, WritePos,
     ReadPos, WriteStart
<1>3. Aligned(0)
  BY DEF Aligned
<1>4. Chain
  BY <1>3 DEF Chain, WriteStart, WritePos
<1>5. Intact
  BY DEF Intact, Writing, BytesOf
<1>. QED  BY <1>1, <1>2, <1>4, <1>5 DEF IInv
-----------------------------------------------------------------------------
(***************************************************************************)
(* The bytes in the ring.                                                  *)
(***************************************************************************)

LEMMA StoredType ==
  ASSUME NEW memory \in [0 .. FifoSize - 1 -> Nat \X Nat], NEW at \in Nat,
         NEW n \in Nat, NEW from \in Nat, NEW len \in Int
  PROVE  Stored(memory, at, n, from, len) \in [0 .. FifoSize - 1 -> Nat \X Nat]
<1>1. ASSUME NEW k \in 0 .. FifoSize - 1
      PROVE  (IF k \in at .. at + len - 1
              THEN Byte(n, from + (k - at)) ELSE memory[k]) \in Nat \X Nat
  <2>1. CASE k \in at .. at + len - 1
    <3>1. from + (k - at) \in Nat
      BY <2>1, FifoAssumption
    <3>. QED  BY <2>1, <3>1 DEF Byte
  <2>2. CASE ~(k \in at .. at + len - 1)
    BY <2>2
  <2>. QED  BY <2>1, <2>2
<1>. QED  BY <1>1 DEF Stored

\* buf with len bytes of message n, from its from-th on, written at tail, in two
\* parts at the end of the ring.
Pushed(n, from, len) ==
  LET gap == FifoSize - tail IN
  IF PushSplits(head, tail, len)
  THEN Stored(Stored(buf, tail, n, from, gap), 0, n, from + gap, len - gap)
  ELSE Stored(buf, tail, n, from, len)

\* A write of len bytes behind tail that stays short of the reader leaves the
\* unread bytes alone and puts its own where the reader will look for them.
LEMMA PushedProperties ==
  ASSUME VarsTypeOK, Laps,
         NEW len \in Nat, NEW n \in Nat, NEW from \in Nat,
         WritePos + len <= ReadPos + FifoSize,
         PushSplits(head, tail, len) \/ tail + len <= FifoSize
  PROVE  /\ Pushed(n, from, len) \in [0 .. FifoSize - 1 -> Nat \X Nat]
         /\ \A p \in Int : ReadPos <= p /\ p < WritePos =>
              Pushed(n, from, len)[RingIndex(p)] = buf[RingIndex(p)]
         /\ \A i \in 0 .. len - 1 :
              Pushed(n, from, len)[RingIndex(WritePos + i)] = Byte(n, from + i)
<1>1. buf \in [0 .. FifoSize - 1 -> Nat \X Nat]
  BY DEF VarsTypeOK, RingTypeOK
<1>n. /\ head \in 0 .. FifoSize /\ tail \in 0 .. FifoSize
      /\ wbase \in Nat /\ rbase \in Nat /\ FifoSize \in Nat
      /\ WritePos = wbase + tail /\ ReadPos = rbase + head
      /\ tail \in Nat
  BY Numbers
<1>2. CASE PushSplits(head, tail, len)
  <2> DEFINE gap == FifoSize - tail
             first == Stored(buf, tail, n, from, gap)
  <2>1. /\ wbase = rbase /\ head <= tail /\ gap \in Nat /\ gap < len
        /\ len - gap <= head
    BY <1>2, <1>n DEF PushSplits, WrappedAround, Laps
  <2>2. Pushed(n, from, len) = Stored(first, 0, n, from + gap, len - gap)
    BY <1>2 DEF Pushed
  <2>3. first \in [0 .. FifoSize - 1 -> Nat \X Nat]
    <3>1. tail \in Nat /\ gap \in Int
      BY <1>n, <2>1
    <3>. QED  BY ONLY <1>1, <3>1, n \in Nat, from \in Nat, StoredType, ZenonT(30)
  <2>4. \A k \in 0 .. FifoSize - 1 :
          first[k] = IF k \in tail .. tail + gap - 1
                     THEN Byte(n, from + (k - tail)) ELSE buf[k]
    BY <1>1 DEF Stored
  <2> HIDE DEF first
  <2>5. from + gap \in Nat /\ len - gap \in Int /\ 0 \in Nat
    BY <2>1, <1>n
  <2>6. /\ Pushed(n, from, len) \in [0 .. FifoSize - 1 -> Nat \X Nat]
        /\ \A k \in 0 .. FifoSize - 1 :
             Pushed(n, from, len)[k] =
               IF k \in 0 .. len - gap - 1
               THEN Byte(n, from + gap + k) ELSE first[k]
    <3>1. Pushed(n, from, len) \in [0 .. FifoSize - 1 -> Nat \X Nat]
      <4>1. Stored(first, 0, n, from + gap, len - gap)
              \in [0 .. FifoSize - 1 -> Nat \X Nat]
        BY ONLY <2>3, <2>5, n \in Nat, StoredType, ZenonT(30)
      <4>. QED  BY ONLY <2>2, <4>1, Zenon
    <3>2. \A k \in 0 .. FifoSize - 1 :
            Pushed(n, from, len)[k] =
              IF k \in 0 .. 0 + (len - gap) - 1
              THEN Byte(n, from + gap + (k - 0)) ELSE first[k]
      BY <2>2 DEF Stored
    <3>3. \A k \in 0 .. FifoSize - 1 : k - 0 = k
      BY <1>n
    <3>4. 0 + (len - gap) - 1 = len - gap - 1
      BY <2>1
    <3>. QED  BY <3>1, <3>2, <3>3, <3>4
  <2>7. ASSUME NEW p \in Int, ReadPos <= p, p < WritePos
        PROVE  Pushed(n, from, len)[RingIndex(p)] = buf[RingIndex(p)]
    <3> DEFINE k == RingIndex(p)
    <3>1. k \in 0 .. FifoSize - 1 /\ k >= head /\ k < tail
      BY <2>1, <2>7, <1>n DEF RingIndex
    <3> HIDE DEF k
    <3>2. ~(k \in 0 .. len - gap - 1) /\ ~(k \in tail .. tail + gap - 1)
      BY <2>1, <3>1, <1>n
    <3>3. Pushed(n, from, len)[k] = first[k]
      BY <2>6, <3>1, <3>2, Zenon
    <3>4. first[k] = buf[k]
      BY <2>4, <3>1, <3>2, Zenon
    <3>. QED  BY <3>3, <3>4 DEF k
  <2>8. ASSUME NEW i \in 0 .. len - 1
        PROVE  Pushed(n, from, len)[RingIndex(WritePos + i)] = Byte(n, from + i)
    <3>1. CASE i < gap
      <4>1. RingIndex(WritePos + i) = tail + i /\ tail + i \in 0 .. FifoSize - 1
        BY <2>1, <3>1, <1>n DEF RingIndex
      <4>2. ~(tail + i \in 0 .. len - gap - 1)
        BY <2>1, <1>n
      <4>3. from + ((tail + i) - tail) = from + i
        BY <1>n
      <4>4. tail + i \in tail .. tail + gap - 1
        BY <2>1, <3>1, <1>n
      <4>5. Pushed(n, from, len)[tail + i] = first[tail + i]
        BY <2>6, <4>1, <4>2, Zenon
      <4>6. first[tail + i] = Byte(n, from + ((tail + i) - tail))
        BY <2>4, <4>1, <4>4, Zenon
      <4>. QED  BY <4>1, <4>3, <4>5, <4>6
    <3>2. CASE i >= gap
      <4>1. /\ RingIndex(WritePos + i) = i - gap
            /\ i - gap \in 0 .. FifoSize - 1
            /\ i - gap \in 0 .. len - gap - 1
        BY <2>1, <3>2, <1>n DEF RingIndex
      <4>2. from + gap + (i - gap) = from + i
        BY <2>1
      <4>. QED  BY <2>6, <4>1, <4>2
    <3>. QED  BY <2>1, <3>1, <3>2
  <2>. QED  BY <2>6, <2>7, <2>8
<1>3. CASE ~PushSplits(head, tail, len)
  <2>1. tail + len <= FifoSize
    BY <1>3
  <2>2. Pushed(n, from, len) = Stored(buf, tail, n, from, len)
    BY <1>3 DEF Pushed
  <2>3. Pushed(n, from, len) \in [0 .. FifoSize - 1 -> Nat \X Nat]
    <3>1. tail \in Nat /\ len \in Int
      BY <1>n
    <3>2. Stored(buf, tail, n, from, len) \in [0 .. FifoSize - 1 -> Nat \X Nat]
      BY ONLY <1>1, <3>1, n \in Nat, from \in Nat, StoredType, ZenonT(30)
    <3>. QED  BY ONLY <2>2, <3>2, Zenon
  <2>4. \A k \in 0 .. FifoSize - 1 :
          Pushed(n, from, len)[k] =
            IF k \in tail .. tail + len - 1
            THEN Byte(n, from + (k - tail)) ELSE buf[k]
    BY <2>2 DEF Stored
  <2>5. ASSUME NEW p \in Int, ReadPos <= p, p < WritePos
        PROVE  Pushed(n, from, len)[RingIndex(p)] = buf[RingIndex(p)]
    <3>1. RingIndex(p) \in 0 .. FifoSize - 1
          /\ ~(RingIndex(p) \in tail .. tail + len - 1)
      BY <2>1, <2>5, <1>n DEF RingIndex, Laps
    <3>. QED  BY <2>4, <3>1
  <2>6. ASSUME NEW i \in 0 .. len - 1
        PROVE  Pushed(n, from, len)[RingIndex(WritePos + i)] = Byte(n, from + i)
    <3>1. /\ RingIndex(WritePos + i) = tail + i
          /\ tail + i \in 0 .. FifoSize - 1
          /\ tail + i \in tail .. tail + len - 1
          /\ from + ((tail + i) - tail) = from + i
      BY <2>1, <1>n DEF RingIndex, Laps
    <3>. QED  BY <2>4, <3>1
  <2>. QED  BY <2>3, <2>5, <2>6
<1>. QED  BY <1>2, <1>3

\* A read of len unread bytes gets the bytes at the reader's positions.
LEMMA PoppedProperties ==
  ASSUME VarsTypeOK, Laps, NEW len \in Nat, ReadPos + len <= WritePos
  PROVE  /\ Popped(len) \in [1 .. len -> Nat \X Nat]
         /\ \A i \in 1 .. len :
              Popped(len)[i] = buf[RingIndex(ReadPos + i - 1)]
<1>1. buf \in [0 .. FifoSize - 1 -> Nat \X Nat]
  BY DEF VarsTypeOK, RingTypeOK
<1>2. ASSUME NEW i \in 1 .. len
      PROVE  /\ Popped(len)[i] = buf[RingIndex(ReadPos + i - 1)]
             /\ RingIndex(ReadPos + i - 1) \in 0 .. FifoSize - 1
  <2> DEFINE gap == FifoSize - head
  <2>1. CASE PopSplits(head, tail, len) /\ i > gap
    <3>1. /\ RingIndex(ReadPos + i - 1) = i - gap - 1
          /\ i - gap - 1 \in 0 .. FifoSize - 1
      BY <2>1, Numbers DEF RingIndex, Laps, PopSplits, WrappedAround
    <3>. QED  BY <2>1, <3>1 DEF Popped, At
  <2>2. CASE ~(PopSplits(head, tail, len) /\ i > gap)
    <3>1. /\ RingIndex(ReadPos + i - 1) = head + i - 1
          /\ head + i - 1 \in 0 .. FifoSize - 1
      BY <2>2, Numbers DEF RingIndex, Laps, PopSplits, WrappedAround
    <3>. QED  BY <2>2, <3>1 DEF Popped, At
  <2>. QED  BY <2>1, <2>2
<1>3. Popped(len) = [i \in 1 .. len |-> buf[RingIndex(ReadPos + i - 1)]]
  BY <1>2 DEF Popped
<1>. QED  BY <1>1, <1>2, <1>3
-----------------------------------------------------------------------------
(***************************************************************************)
(* What moves the two indexes.                                             *)
(***************************************************************************)

\* A write of len bytes and pad bytes of padding into free room.
LEMMA WriteAdvances ==
  ASSUME VarsTypeOK, Laps, NEW len \in Nat, NEW pad \in Nat, RoomFor(len + pad),
         tail + len <= FifoSize /\ wbase = rbase => tail + len + pad <= FifoSize,
         head' = head, rbase' = rbase,
         tail' = TailAfter(head, tail, len, pad),
         wbase' = IF PushSplits(head, tail, len) THEN wbase + FifoSize ELSE wbase
  PROVE  /\ tail' \in 0 .. FifoSize /\ wbase' \in Nat /\ Laps'
         /\ WritePos' = WritePos + len + pad /\ ReadPos' = ReadPos
         /\ wbase' = wbase \/ wbase' = wbase + FifoSize
         /\ WritePos + len <= ReadPos + FifoSize
         /\ PushSplits(head, tail, len) \/ tail + len <= FifoSize
         /\ wbase = rbase /\ tail + (len + pad) <= FifoSize
              => wbase' = rbase /\ tail' = tail + len + pad
<1>n. /\ head \in 0 .. FifoSize /\ tail \in 0 .. FifoSize
      /\ wbase \in Nat /\ rbase \in Nat /\ FifoSize \in Nat
      /\ WritePos = wbase + tail /\ ReadPos = rbase + head
      /\ WritePos' = wbase' + tail' /\ ReadPos' = rbase' + head'
  BY Numbers DEF WritePos, ReadPos
<1>1. CASE PushSplits(head, tail, len)
  <2>1. /\ wbase = rbase /\ head <= tail /\ len > FifoSize - tail
        /\ wbase' = wbase + FifoSize /\ tail' = (len - (FifoSize - tail)) + pad
    BY <1>1, <1>n DEF PushSplits, WrappedAround, Laps, TailAfter
  <2>2. wbase + tail + (len + pad) < rbase + head + FifoSize
    BY <2>1, <1>n DEF RoomFor
  <2>. QED  BY <1>1, <2>1, <2>2, <1>n DEF Laps
<1>2. CASE ~PushSplits(head, tail, len)
  <2>1. wbase' = wbase /\ tail' = tail + len + pad
    BY <1>2 DEF TailAfter
  <2>2. CASE wbase = rbase
    <3>1. head <= tail /\ tail + len <= FifoSize
      BY <1>2, <2>2, <1>n DEF PushSplits, WrappedAround, Laps
    <3>. QED  BY <2>1, <2>2, <3>1, <1>n DEF Laps, RoomFor
  <2>3. CASE wbase # rbase
    <3>1. /\ wbase = rbase + FifoSize /\ tail < head
          /\ wbase + tail + (len + pad) < rbase + head + FifoSize
      BY <2>3, <1>n DEF Laps, RoomFor
    <3>. QED  BY <2>1, <2>3, <3>1, <1>n DEF Laps
  <2>. QED  BY <2>2, <2>3
<1>. QED  BY <1>1, <1>2

\* A read of len bytes and pad bytes of padding of what was written.
LEMMA ReadAdvances ==
  ASSUME VarsTypeOK, Laps, NEW len \in Nat, NEW pad \in Nat,
         ReadPos + len + pad <= WritePos,
         head + len <= FifoSize => head + len + pad <= FifoSize,
         tail' = tail, wbase' = wbase,
         head' = HeadAfter(head, tail, len, pad),
         rbase' = IF PopSplits(head, tail, len) THEN rbase + FifoSize ELSE rbase
  PROVE  /\ head' \in 0 .. FifoSize /\ rbase' \in Nat /\ Laps'
         /\ ReadPos' = ReadPos + len + pad /\ WritePos' = WritePos
         /\ rbase' = rbase \/ rbase' = rbase + FifoSize
         /\ wbase = rbase => rbase' = rbase
         /\ \A p \in Int : ReadPos' <= p /\ p < WritePos =>
              RingIndex(p)' = RingIndex(p)
<1>n. /\ head \in 0 .. FifoSize /\ tail \in 0 .. FifoSize
      /\ wbase \in Nat /\ rbase \in Nat /\ FifoSize \in Nat
      /\ WritePos = wbase + tail /\ ReadPos = rbase + head
      /\ WritePos' = wbase' + tail' /\ ReadPos' = rbase' + head'
  BY Numbers DEF WritePos, ReadPos
<1>r. \A p \in Int : RingIndex(p)' = IF p - rbase' < FifoSize
                                     THEN p - rbase' ELSE p - rbase' - FifoSize
  BY DEF RingIndex
<1>1. CASE PopSplits(head, tail, len)
  <2>1. /\ wbase = rbase + FifoSize /\ tail < head /\ len > FifoSize - head
        /\ rbase' = rbase + FifoSize /\ head' = (len - (FifoSize - head)) + pad
    BY <1>1, <1>n DEF PopSplits, WrappedAround, Laps, HeadAfter
  <2>2. \A p \in Int : ReadPos' <= p /\ p < WritePos =>
           RingIndex(p)' = RingIndex(p)
    BY <2>1, <1>n, <1>r DEF RingIndex
  <2>. QED  BY <2>1, <2>2, <1>n DEF Laps
<1>2. CASE ~PopSplits(head, tail, len)
  <2>1. rbase' = rbase /\ head' = head + len + pad
    BY <1>2 DEF HeadAfter
  <2>2. CASE wbase = rbase
    BY <2>1, <2>2, <1>n, <1>r DEF Laps, RingIndex
  <2>3. CASE wbase # rbase
    <3>1. wbase = rbase + FifoSize /\ tail < head /\ head + len <= FifoSize
      BY <1>2, <2>3, <1>n DEF PopSplits, WrappedAround, Laps
    <3>. QED  BY <2>1, <2>3, <3>1, <1>n, <1>r DEF Laps, RingIndex
  <2>. QED  BY <2>2, <2>3
<1>. QED  BY <1>1, <1>2
-----------------------------------------------------------------------------
(***************************************************************************)
(* Messages and their places.                                              *)
(***************************************************************************)

LEMMA SentLength == VarsTypeOK => Len(sent) \in Nat
<1>1. VarsTypeOK => sent \in Seq([at: Nat, len: MsgSizes])
  BY Zenon DEF VarsTypeOK, WriterTypeOK
<1>. QED  BY <1>1, LenProperties

LEMMA SentMessage ==
  ASSUME VarsTypeOK, NEW n \in 1 .. Len(sent)
  PROVE  /\ sent[n].at \in Nat
         /\ sent[n].len \in MsgSizes /\ sent[n].len \in Nat
         /\ Padding(sent[n].len) \in Nat
         /\ RealSize(sent[n].len) = HeaderSize + sent[n].len
                                      + Padding(sent[n].len)
<1>1. sent \in Seq([at: Nat, len: MsgSizes])
  BY Zenon DEF VarsTypeOK, WriterTypeOK
<1>2. sent[n] \in [at: Nat, len: MsgSizes]
  BY <1>1, ElementOfSeq
<1>3. sent[n].at \in Nat /\ sent[n].len \in MsgSizes /\ sent[n].len \in Nat
  BY <1>2, SizesAssumption
<1>4. PICK m \in Nat : m = sent[n].len
  BY <1>3
<1>5. Padding(m) \in 0 .. Alignment - 1 /\ RealSize(m) = HeaderSize + m + Padding(m)
  BY PaddingProperties
<1>6. Padding(m) \in Nat
  BY <1>5, FifoAssumption
<1>. QED  BY <1>3, <1>4, <1>5, <1>6

\* The bytes of a message lie before the writer.
LEMMA MessageInside ==
  ASSUME VarsTypeOK, Chain, NEW n \in 1 .. Writing,
         NEW i \in Nat, i < BytesOf(n)
  PROVE  StartOf(n) + i \in Int /\ StartOf(n) + i < WritePos
<1>1. CASE n \in 1 .. Len(sent)
  <2>1. sent[n].at + RealSize(sent[n].len) <= WriteStart
    BY <1>1 DEF Chain
  <2>2. /\ StartOf(n) = sent[n].at /\ BytesOf(n) = HeaderSize + sent[n].len
        /\ WriteStart <= WritePos /\ WriteStart \in Int /\ WritePos \in Int
    <3>1. StartOf(n) = sent[n].at /\ BytesOf(n) = HeaderSize + sent[n].len
      <4>1. n <= Len(sent)
        BY ONLY <1>1, SentLength, VarsTypeOK
      <4>. QED  BY ONLY <4>1 DEF StartOf, BytesOf
    <3>2. WritePos \in Nat /\ written \in Nat
      BY Numbers DEF VarsTypeOK, WriterTypeOK
    <3>. QED  BY ONLY <3>1, <3>2 DEF WriteStart
  <2>3. /\ sent[n].at \in Int /\ sent[n].len \in Int
        /\ RealSize(sent[n].len) \in Int
        /\ RealSize(sent[n].len) >= HeaderSize + sent[n].len
    BY <1>1, SentMessage, FifoAssumption
  <2>4. i < HeaderSize + sent[n].len
    BY <2>2
  <2>. QED  BY <2>1, <2>2, <2>3, <2>4, FifoAssumption
<1>2. CASE ~(n \in 1 .. Len(sent))
  <2>1. Len(sent) \in Nat /\ n = Len(sent) + 1
    BY <1>2, SentLength DEF Writing
  <2>2. StartOf(n) = WritePos - written /\ BytesOf(n) = written
    BY ONLY <2>1 DEF StartOf, BytesOf, WriteStart
  <2>3. WritePos \in Int /\ written \in Nat
    BY Numbers DEF VarsTypeOK, WriterTypeOK
  <2>. QED  BY ONLY <2>2, <2>3, i \in Nat, i < BytesOf(n)
<1>. QED  BY <1>1, <1>2

\* The message the reader is due ends where the next one starts.
LEMMA AlignedEnd ==
  ASSUME VarsTypeOK, Chain, NEW n \in 1 .. Len(sent), NEW m \in Nat
  PROVE  Aligned(sent[n].at + HeaderSize + m + Padding(m))
<1>1. Aligned(sent[n].at) /\ Aligned(RealSize(m)) /\ RealSize(m) \in Int
      /\ RealSize(m) = HeaderSize + m + Padding(m) /\ Padding(m) \in Int
  <2>1. Aligned(sent[n].at)
    BY Zenon DEF Chain
  <2>2. /\ Aligned(RealSize(m)) /\ RealSize(m) \in Nat
        /\ RealSize(m) = HeaderSize + m + Padding(m)
        /\ Padding(m) \in 0 .. Alignment - 1
    BY PaddingProperties, Zenon
  <2>. QED  BY <2>1, <2>2, FifoAssumption
<1>2. Aligned(sent[n].at + RealSize(m))
  <2>1. sent[n].at \in Int
    BY SentMessage
  <2>. QED  BY <1>1, <2>1, AlignedSum, Zenon
<1>3. sent[n].at + RealSize(m) = sent[n].at + HeaderSize + m + Padding(m)
  BY <1>1, SentMessage, FifoAssumption
<1>. QED  BY <1>2, <1>3

LEMMA BytesOfMessage ==
  ASSUME VarsTypeOK, NEW n \in 1 .. Writing
  PROVE  BytesOf(n) \in Nat /\ StartOf(n) \in Int
<1>1. Len(sent) \in Nat
  BY SentLength
<1>2. CASE n <= Len(sent)
  <2>1. n \in 1 .. Len(sent)
    BY <1>1, <1>2 DEF Writing
  <2>. QED  BY <1>2, <2>1, SentMessage, FifoAssumption DEF BytesOf, StartOf
<1>3. CASE ~(n <= Len(sent))
  BY <1>3, Numbers DEF BytesOf, StartOf, WriteStart, VarsTypeOK, WriterTypeOK
<1>. QED  BY <1>2, <1>3

LEMMA UnreadByte ==
  ASSUME VarsTypeOK, Intact, NEW n \in 1 .. Writing,
         NEW i \in Nat, i < BytesOf(n), StartOf(n) + i >= ReadPos
  PROVE  buf[RingIndex(StartOf(n) + i)] = Byte(n, i)
<1>1. i \in 0 .. BytesOf(n) - 1
  BY BytesOfMessage
<1>. QED  BY <1>1, Zenon DEF Intact
-----------------------------------------------------------------------------
(***************************************************************************)
(* The writer's steps.                                                     *)
(***************************************************************************)

\* The room ICC_Fifo_Msg_Fits finds, with the padding behind the message.
LEMMA FitsIsRoom ==
  ASSUME VarsTypeOK, Laps, Chain, written = 0, NEW len \in Nat,
         MsgFits(head, tail, len)
  PROVE  RoomFor(RealSize(len))
<1>n. /\ head \in 0 .. FifoSize /\ tail \in 0 .. FifoSize
      /\ wbase \in Nat /\ rbase \in Nat /\ FifoSize \in Nat
      /\ WritePos = wbase + tail /\ ReadPos = rbase + head
      /\ HeaderSize \in Nat /\ Alignment \in Nat
  BY Numbers, FifoAssumption
<1>1. /\ RealSize(len) = HeaderSize + len + Padding(len)
      /\ Padding(len) \in 0 .. Alignment - 1
      /\ RealSize(len) \in Nat /\ Aligned(RealSize(len))
  BY PaddingProperties
<1>2. /\ FreeBytes(head, tail) = ReadPos + FifoSize - WritePos
      /\ WrappedAround(head, tail) <=> wbase # rbase
  BY OccupancyFromLaps
<1>3. CASE RealSize(len) # FreeBytes(head, tail)
  BY <1>1, <1>2, <1>3, <1>n DEF MsgFits, RoomFor
<1>4. CASE RealSize(len) = FreeBytes(head, tail)
  <2>1. wbase = rbase /\ HeaderSize + len <= FifoSize - tail
    BY <1>2, <1>4 DEF MsgFits
  <2>2. Aligned(tail)
    <3>1. /\ WriteStart = WritePos /\ Aligned(wbase) /\ WritePos \in Int
          /\ wbase \in Int /\ WritePos - wbase = tail
      BY <1>n DEF Chain, WriteStart
    <3>2. Aligned(WritePos - wbase)
      BY <3>1, AlignedSum DEF Chain
    <3>. QED  BY <3>1, <3>2
  <2>3. Aligned(tail + RealSize(len))
    BY <1>1, <1>n, <2>2, AlignedSum
  <2>4. tail + RealSize(len) <= FifoSize
    <3> DEFINE x == tail + RealSize(len)
    <3>1. x \in Int /\ FifoSize \in Int /\ x - Padding(len) <= FifoSize
      BY <1>1, <1>n, <2>1
    <3> HIDE DEF x
    <3>2. x <= FifoSize
      BY <1>1, <2>3, <3>1, AlignedFifoSize, PaddingStaysInside DEF x
    <3>. QED  BY <3>2 DEF x
  <2>. QED  BY <2>1, <2>4 DEF RoomFor
<1>. QED  BY <1>3, <1>4

LEMMA CheckFitsStep ==
  ASSUME IInv, NEW len \in MsgSizes, CheckFits(len)
  PROVE  IInv'
<1> USE DEF IInv
<1>1. /\ spc = "idle" /\ spc' = "header" /\ slen' = len
      /\ MsgFits(head, tail, len)
      /\ UNCHANGED <<head, tail, buf, written, sent, wbase, rpc, rlen, rhdr, rret,
                     out, taken, last, rbase>>
  BY DEF CheckFits, ring, readerVars, readerHist
<1>2. VarsTypeOK'
  BY <1>1 DEF VarsTypeOK, RingTypeOK, WriterTypeOK, ReaderTypeOK
<1>3. WritePos' = WritePos /\ ReadPos' = ReadPos /\ WriteStart' = WriteStart
  BY <1>1 DEF WritePos, ReadPos, WriteStart
<1>4. Laps'
  BY <1>1 DEF Laps
<1>5. Chain'
  BY <1>1, <1>3, Zenon DEF Chain
<1>6. RoomKept'
  <2>1. RoomFor(RealSize(len)) /\ RealSize(len) - written = RealSize(len)
    <3>1. written = 0 /\ len \in Nat
      BY <1>1, SizesAssumption DEF SenderPlace
    <3>. QED  BY <1>1, <3>1, FitsIsRoom, PaddingProperties
  <2>2. RoomFor(RealSize(len) - written)'
    BY <1>1, <1>3, <2>1, Zenon DEF RoomFor
  <2>. QED  BY <1>1, <2>2 DEF RoomKept
<1>7. SenderPlace' /\ ReaderPlace' /\ OnBoundary' /\ Served'
  BY <1>1, <1>3 DEF SenderPlace, ReaderPlace, OnBoundary, Served
<1>8. Intact'
  <2> SUFFICES ASSUME NEW n \in (1 .. Writing)',
                      NEW i \in (0 .. BytesOf(n) - 1)',
                      (StartOf(n) + i >= ReadPos)'
               PROVE  (buf[RingIndex(StartOf(n) + i)] = Byte(n, i))'
    BY Zenon DEF Intact
  <2>1. /\ n \in 1 .. Writing /\ i \in 0 .. BytesOf(n) - 1
        /\ StartOf(n)' = StartOf(n) /\ StartOf(n) + i >= ReadPos
    BY <1>1, <1>3 DEF Writing, BytesOf, StartOf
  <2>2. buf[RingIndex(StartOf(n) + i)] = Byte(n, i)
    BY <2>1, Zenon DEF Intact
  <2>. QED  BY <1>1, <2>1, <2>2 DEF RingIndex, Byte
<1>. QED  BY <1>2, <1>4, <1>5, <1>6, <1>7, <1>8

\* A step in the middle of a message keeps the room for the rest of it.
LEMMA RoomRemains ==
  ASSUME IInv, spc # "idle", NEW len \in Nat,
         slen' = slen, written' = written + len, rbase' = rbase,
         WritePos' = WritePos + len, ReadPos' = ReadPos,
         wbase = rbase /\ tail + (RealSize(slen) - written) <= FifoSize
           => wbase' = rbase /\ tail' = tail + len
  PROVE  RoomKept'
<1> USE DEF IInv
<1>1. /\ slen \in MsgSizes /\ RoomFor(RealSize(slen) - written)
      /\ RealSize(slen) \in Nat /\ written \in Nat
  <2>1. slen \in MsgSizes /\ RoomFor(RealSize(slen) - written)
    BY DEF RoomKept
  <2>. QED  BY <2>1, PaddingProperties, SizesAssumption DEF VarsTypeOK, WriterTypeOK
<1>2. PICK k \in Int : k = RealSize(slen) - written
  BY <1>1
<1>3. (RealSize(slen) - written)' = k - len
  <2>1. RealSize(slen)' = RealSize(slen)
    BY DEF RealSize, Padding, ExcessAlign
  <2>2. RealSize(slen) - (written + len) = k - len
    BY ONLY <1>1, <1>2, len \in Nat
  <2>. QED  BY <2>1, <2>2
<1>4. /\ WritePos \in Nat /\ ReadPos \in Nat /\ FifoSize \in Nat /\ tail \in Nat
  BY Numbers
<1>5. \/ WritePos' + (k - len) < ReadPos' + FifoSize
      \/ wbase' = rbase' /\ tail' + (k - len) <= FifoSize
  <2>1. CASE WritePos + k < ReadPos + FifoSize
    <3>1. WritePos' + (k - len) < ReadPos' + FifoSize
      BY <1>4, <2>1
    <3>. QED  BY <3>1
  <2>2. CASE wbase = rbase /\ tail + k <= FifoSize
    <3>1. wbase' = rbase /\ tail' = tail + len
      BY <1>2, <2>2
    <3>. QED  BY <1>4, <2>2, <3>1
  <2>. QED  BY <1>1, <1>2, <2>1, <2>2 DEF RoomFor
<1>6. RoomFor(RealSize(slen) - written)'
  BY <1>3, <1>5 DEF RoomFor
<1>. QED  BY <1>1, <1>6 DEF RoomKept

\* len more bytes of the message under way, and the index behind them.
LEMMA BytesAdded ==
  ASSUME IInv, spc # "idle", NEW len \in Nat,
         buf' \in [0 .. FifoSize - 1 -> Nat \X Nat],
         \A p \in Int : ReadPos <= p /\ p < WritePos =>
           buf'[RingIndex(p)] = buf[RingIndex(p)],
         \A k \in 0 .. len - 1 :
           buf'[RingIndex(WritePos + k)] = Byte(Writing, written + k),
         tail' \in 0 .. FifoSize, wbase' = wbase \/ wbase' = wbase + FifoSize,
         WritePos' = WritePos + len, ReadPos' = ReadPos,
         written' = written + len, spc' \in {"payload", "rest", "pad"},
         UNCHANGED <<head, slen, sent, rpc, rlen, rhdr, rret, out, taken, last,
                     rbase>>
  PROVE  VarsTypeOK' /\ Chain' /\ ReaderPlace' /\ OnBoundary' /\ Intact' /\ Served'
<1> USE DEF IInv
<1>n. /\ wbase \in Nat /\ FifoSize \in Nat /\ written \in Nat
      /\ Len(sent) \in Nat /\ Writing \in Nat /\ Writing = Len(sent) + 1
      /\ WritePos \in Nat /\ ReadPos \in Nat
  BY Numbers, SentLength DEF Writing, VarsTypeOK, WriterTypeOK
<1>1. VarsTypeOK'
  <2>1. written' \in Nat /\ wbase' \in Nat
    BY <1>n
  <2>. QED  BY <2>1 DEF VarsTypeOK, RingTypeOK, WriterTypeOK, ReaderTypeOK, Index
<1>2. WriteStart' = WriteStart
  BY <1>n DEF WriteStart
<1>3. Chain'
  <2>1. Aligned(wbase) /\ wbase \in Int /\ FifoSize \in Int /\ Aligned(FifoSize)
    BY <1>n, AlignedFifoSize DEF Chain
  <2>2. Aligned(wbase + FifoSize)
    BY <2>1, AlignedSum
  <2>3. Aligned(wbase')
    BY <2>1, <2>2
  <2>4. Aligned(wbase)'
    BY <2>3 DEF Aligned
  <2>. QED  BY <1>2, <2>4 DEF Chain, Aligned
<1>4. OnBoundary'
  BY <1>2 DEF OnBoundary
<1>5. ReaderPlace' /\ Served'
  BY DEF ReaderPlace, Served
<1>6. Intact'
  <2> SUFFICES ASSUME NEW n \in (1 .. Writing)',
                      NEW i \in (0 .. BytesOf(n) - 1)',
                      (StartOf(n) + i >= ReadPos)'
               PROVE  (buf[RingIndex(StartOf(n) + i)] = Byte(n, i))'
    BY Zenon DEF Intact
  <2>1. RingIndex(StartOf(n) + i)' = RingIndex(StartOf(n)' + i)
    BY DEF RingIndex
  <2>2. n \in 1 .. Writing /\ StartOf(n)' = StartOf(n)
    BY <1>2 DEF Writing, StartOf
  <2>3. BytesOf(n) \in Nat /\ StartOf(n) \in Int
    BY <2>2, BytesOfMessage
  <2>4. CASE i < BytesOf(n)
    <3>1. i \in Nat /\ StartOf(n) + i >= ReadPos
      BY <2>2
    <3>2. buf[RingIndex(StartOf(n) + i)] = Byte(n, i)
      BY <2>2, <2>4, <3>1, UnreadByte
    <3>3. StartOf(n) + i \in Int /\ StartOf(n) + i < WritePos
      BY <2>2, <2>4, <3>1, MessageInside
    <3>4. buf'[RingIndex(StartOf(n) + i)] = buf[RingIndex(StartOf(n) + i)]
      BY <3>1, <3>3, <1>n
    <3>. QED  BY <2>1, <2>2, <3>2, <3>4 DEF Byte
  <2>5. CASE ~(i < BytesOf(n))
    <3>1. ~(n <= Len(sent))
      <4> SUFFICES ASSUME n <= Len(sent) PROVE FALSE
        OBVIOUS
      <4>1. BytesOf(n)' = BytesOf(n)
        BY Zenon DEF BytesOf
      <4>2. i \in 0 .. BytesOf(n) - 1
        BY <4>1, Zenon
      <4>. QED  BY <2>3, <2>5, <4>2
    <3>2. n = Writing
      BY <1>n, <2>2, <3>1
    <3>3. BytesOf(n) = written /\ BytesOf(n)' = written + len
          /\ StartOf(n) = WritePos - written
      BY <3>1 DEF BytesOf, StartOf, WriteStart
    <3>4. i \in 0 .. (written + len) - 1
      BY <3>3, Zenon
    <3> DEFINE k == i - written
    <3>5. /\ k \in 0 .. len - 1 /\ WritePos + k = StartOf(n) + i
          /\ written + k = i
      BY <1>n, <2>5, <3>3, <3>4
    <3> HIDE DEF k
    <3>6. buf'[RingIndex(WritePos + k)] = Byte(Writing, written + k)
      BY <3>5
    <3>. QED  BY <2>1, <2>2, <3>2, <3>5, <3>6 DEF Byte
  <2>. QED  BY <2>4, <2>5
<1>. QED  BY <1>1, <1>3, <1>4, <1>5, <1>6

\* The last bytes of a message, and pad bytes of padding behind it.
LEMMA MessageCompleted ==
  ASSUME IInv, spc # "idle", NEW len \in Nat, NEW pad \in Nat,
         written + len = HeaderSize + slen, Padding(slen) = pad,
         buf' \in [0 .. FifoSize - 1 -> Nat \X Nat],
         \A p \in Int : ReadPos <= p /\ p < WritePos =>
           buf'[RingIndex(p)] = buf[RingIndex(p)],
         \A k \in 0 .. len - 1 :
           buf'[RingIndex(WritePos + k)] = Byte(Writing, written + k),
         tail' \in 0 .. FifoSize, wbase' = wbase \/ wbase' = wbase + FifoSize,
         Laps', WritePos' = WritePos + len + pad, ReadPos' = ReadPos,
         Complete,
         UNCHANGED <<head, slen, rpc, rlen, rhdr, rret, out, taken, last, rbase>>
  PROVE  IInv'
<1> USE DEF IInv
<1> DEFINE entry == [at |-> WriteStart, len |-> slen]
<1>1. spc' = "idle" /\ written' = 0 /\ sent' = Append(sent, entry)
  BY DEF Complete
<1>n. /\ wbase \in Nat /\ FifoSize \in Nat /\ written \in Nat
      /\ HeaderSize \in Nat
      /\ Len(sent) \in Nat /\ Writing \in Nat /\ Writing = Len(sent) + 1
      /\ WritePos \in Nat /\ ReadPos \in Nat
      /\ WriteStart \in Nat /\ WriteStart = WritePos - written
      /\ slen \in MsgSizes /\ slen \in Nat
  BY Numbers, SentLength, SizesAssumption
     DEF Writing, VarsTypeOK, WriterTypeOK, Chain, WriteStart, RoomKept
<1>2. /\ RealSize(slen) = HeaderSize + slen + pad /\ Aligned(RealSize(slen))
      /\ RealSize(slen) \in Nat
  BY <1>n, PaddingProperties
\* The message ends where the next one starts.
<1>3. /\ WriteStart' = WritePos' /\ WriteStart' = WriteStart + RealSize(slen)
      /\ WriteStart' \in Nat /\ WriteStart <= WriteStart'
      /\ Aligned(WriteStart')
  <2>1. WriteStart' = WritePos' /\ WriteStart' = WriteStart + RealSize(slen)
    <3>1. WriteStart' = WritePos' - written'
      BY DEF WriteStart
    <3>2. WritePos + len + pad - 0 = WritePos + len + pad
          /\ WritePos + len + pad = WriteStart + RealSize(slen)
      BY <1>n, <1>2
    <3>. QED  BY <1>1, <3>1, <3>2
  <2>2. Aligned(WriteStart + RealSize(slen))
    <3>1. Aligned(WriteStart) /\ WriteStart \in Int /\ RealSize(slen) \in Int
      BY <1>n, <1>2 DEF Chain
    <3>. QED  BY ONLY <1>2, <3>1, AlignedSum
  <2>. QED  BY <1>n, <1>2, <2>1, <2>2
<1>7. /\ sent' \in Seq([at: Nat, len: MsgSizes])
      /\ Len(sent') = Len(sent) + 1
      /\ \A n \in 1 .. Len(sent) : sent'[n] = sent[n]
      /\ sent'[Len(sent) + 1] = entry
  <2>1. sent \in Seq([at: Nat, len: MsgSizes])
    BY Zenon DEF VarsTypeOK, WriterTypeOK
  <2>2. entry \in [at: Nat, len: MsgSizes]
    BY <1>n
  <2>. QED  BY <1>1, <2>1, <2>2, AppendProperties
<1>9. entry.at = WriteStart /\ entry.len = slen
  OBVIOUS
<1> HIDE DEF entry
<1>8. VarsTypeOK'
  <2>1. wbase' \in Nat
    BY <1>n
  <2>. QED  BY <1>1, <1>7, <2>1
            DEF VarsTypeOK, RingTypeOK, WriterTypeOK, ReaderTypeOK, Index
<1>11. Chain'
  <2>1. Aligned(wbase) /\ wbase \in Int /\ FifoSize \in Int /\ Aligned(FifoSize)
    BY <1>n, AlignedFifoSize DEF Chain
  <2>2. Aligned(wbase + FifoSize)
    BY <2>1, AlignedSum
  <2>3. Aligned(wbase') /\ Aligned(rbase')
    BY <2>1, <2>2 DEF Chain
  <2>4. ASSUME NEW n \in 1 .. Len(sent')
        PROVE  /\ Aligned(sent'[n].at)
               /\ sent'[n].at + RealSize(sent'[n].len) <= WriteStart'
               /\ sent'[n].at + RealSize(sent'[n].len) =
                    IF n < Len(sent') THEN sent'[n + 1].at ELSE WriteStart'
    <3>1. CASE n < Len(sent) + 1
      <4>1. n \in 1 .. Len(sent) /\ sent'[n] = sent[n]
        BY <1>7, <1>n, <3>1
      <4>2. /\ Aligned(sent[n].at)
            /\ sent[n].at + RealSize(sent[n].len) <= WriteStart
            /\ sent[n].at + RealSize(sent[n].len) =
                 IF n < Len(sent) THEN sent[n + 1].at ELSE WriteStart
        BY <4>1 DEF Chain
      <4>3. sent[n].at + RealSize(sent[n].len) \in Int
        <5>1. /\ sent[n].at \in Int /\ sent[n].len \in Int
              /\ Padding(sent[n].len) \in Int
              /\ RealSize(sent[n].len) = HeaderSize + sent[n].len
                                           + Padding(sent[n].len)
          BY <4>1, SentMessage
        <5>2. RealSize(sent[n].len) \in Int
          BY ONLY <5>1, <1>n
        <5>. QED  BY ONLY <5>1, <5>2
      <4>4. sent[n].at + RealSize(sent[n].len) <= WriteStart'
        BY ONLY <1>3, <1>n, <4>2, <4>3
      <4>5. (IF n < Len(sent) THEN sent[n + 1].at ELSE WriteStart) = sent'[n + 1].at
        <5>1. CASE n < Len(sent)
          <6>1. n + 1 \in 1 .. Len(sent)
            BY <1>n, <4>1, <5>1
          <6>. QED  BY <1>7, <5>1, <6>1
        <5>2. CASE ~(n < Len(sent))
          <6>1. n + 1 = Len(sent) + 1
            BY <1>n, <4>1, <5>2
          <6>. QED  BY <1>7, <1>9, <5>2, <6>1
        <5>. QED  BY <5>1, <5>2
      <4>. QED  BY <1>7, <3>1, <4>1, <4>2, <4>4, <4>5
    <3>2. CASE n = Len(sent) + 1
      <4>1. sent'[n].at = WriteStart /\ sent'[n].len = slen
        BY <1>7, <1>9, <3>2
      <4>2. ~(n < Len(sent')) /\ WriteStart' <= WriteStart'
        BY <1>7, <1>3, <1>n, <3>2
      <4>3. Aligned(WriteStart)
        BY DEF Chain
      <4>. QED  BY <1>3, <4>1, <4>2, <4>3
    <3>. QED  BY <1>7, <1>n, <3>1, <3>2
  <2>. QED  BY <1>3, <2>3, <2>4 DEF Chain, Aligned
<1>12. RoomKept' /\ SenderPlace' /\ Served'
  BY <1>1 DEF RoomKept, SenderPlace, Served
<1>13. taken \in Nat /\ taken <= Len(sent)
  BY DEF VarsTypeOK, ReaderTypeOK, ReaderPlace
<1>14. ReaderPlace'
  <2>1. taken' <= Len(sent') /\ (taken < Len(sent) => taken' < Len(sent'))
    <3>1. taken' = taken /\ Len(sent') = Len(sent) + 1 /\ Len(sent) \in Nat
      BY <1>7, <1>n
    <3>. QED  BY <1>13, <3>1
  <2>2. taken < Len(sent) => sent'[taken + 1] = sent[taken + 1]
    <3>1. taken < Len(sent) => taken + 1 \in 1 .. Len(sent)
      BY ONLY <1>13, <1>n
    <3>. QED  BY ONLY <1>7, <3>1
  <2>3. taken >= 1 => sent'[taken] = sent[taken]
    BY <1>7, <1>13, <1>n
  <2>. QED  BY <2>1, <2>2, <2>3 DEF ReaderPlace
<1>15. OnBoundary'
  <2> SUFFICES ASSUME rpc \in {"idle", "header", "peek_header", "peek"}
               PROVE  ReadPos' = sent'[taken + 1].at
    <3>1. taken < Len(sent')
      BY ONLY <1>7, <1>13, <1>n
    <3>. QED  BY <3>1 DEF OnBoundary
  <2>1. CASE taken < Len(sent)
    <3>1. taken + 1 \in 1 .. Len(sent)
      BY ONLY <1>13, <1>n, <2>1
    <3>2. sent'[taken + 1] = sent[taken + 1]
      BY <1>7, <3>1
    <3>. QED  BY <2>1, <3>2 DEF OnBoundary
  <2>2. CASE ~(taken < Len(sent))
    <3>1. taken + 1 = Len(sent) + 1
      BY ONLY <1>13, <1>n, <2>2
    <3>2. ReadPos = WriteStart
      BY <2>2 DEF OnBoundary
    <3>. QED  BY <1>7, <1>9, <3>1, <3>2
  <2>. QED  BY <2>1, <2>2
<1>17. Intact'
  <2> SUFFICES ASSUME NEW n \in (1 .. Writing)',
                      NEW i \in (0 .. BytesOf(n) - 1)',
                      (StartOf(n) + i >= ReadPos)'
               PROVE  (buf[RingIndex(StartOf(n) + i)] = Byte(n, i))'
    BY Zenon DEF Intact
  <2>1. RingIndex(StartOf(n) + i)' = RingIndex(StartOf(n)' + i)
    BY DEF RingIndex
  <2>2. n \in 1 .. Len(sent) + 2
    BY <1>7, <1>n DEF Writing
  <2>3. BytesOf(n)' = IF n <= Len(sent') THEN HeaderSize + sent'[n].len ELSE 0
    BY <1>1 DEF BytesOf
  <2>4. n \in 1 .. Writing /\ StartOf(n)' = StartOf(n)
    <3>1. CASE n \in 1 .. Len(sent)
      <4>1. n <= Len(sent) /\ n <= Len(sent) + 1 /\ n \in 1 .. Writing
        BY ONLY <1>n, <3>1
      <4>2. sent'[n] = sent[n] /\ Len(sent') = Len(sent) + 1
        BY <1>7, <3>1
      <4>. QED  BY <4>1, <4>2, Zenon DEF StartOf
    <3>2. CASE n = Len(sent) + 1
      <4>1. n \in 1 .. Writing /\ ~(n <= Len(sent)) /\ n <= Len(sent) + 1
        BY ONLY <1>n, <3>2
      <4>2. sent'[n].at = WriteStart /\ Len(sent') = Len(sent) + 1
        BY <1>7, <1>9, <3>2
      <4>. QED  BY <4>1, <4>2, Zenon DEF StartOf
    <3>3. CASE n = Len(sent) + 2
      <4>1. ~(n <= Len(sent'))
        BY <1>7, <1>n, <3>3
      <4>2. i \in 0 .. 0 - 1
        BY <2>3, <4>1, Zenon
      <4>. QED  BY <4>2
    <3>. QED  BY <1>n, <2>2, <3>1, <3>2, <3>3
  <2>5. BytesOf(n) \in Nat /\ StartOf(n) \in Int
    BY <2>4, BytesOfMessage
  <2>6. CASE i < BytesOf(n)
    <3>1. i \in Nat /\ StartOf(n) + i >= ReadPos
      BY <2>4
    <3>2. buf[RingIndex(StartOf(n) + i)] = Byte(n, i)
      BY <2>4, <2>6, <3>1, UnreadByte
    <3>3. StartOf(n) + i \in Int /\ StartOf(n) + i < WritePos
      BY <2>4, <2>6, <3>1, MessageInside
    <3>4. buf'[RingIndex(StartOf(n) + i)] = buf[RingIndex(StartOf(n) + i)]
      BY <3>1, <3>3, <1>n
    <3>. QED  BY <2>1, <2>4, <3>2, <3>4 DEF Byte
  <2>7. CASE ~(i < BytesOf(n))
    <3>1. n = Len(sent) + 1
      <4>1. ASSUME n \in 1 .. Len(sent) PROVE FALSE
        <5>1. n <= Len(sent) /\ n <= Len(sent) + 1
          BY ONLY <1>n, <4>1
        <5>2. sent'[n] = sent[n] /\ Len(sent') = Len(sent) + 1
          BY <1>7, <4>1
        <5>3. BytesOf(n)' = BytesOf(n)
          BY <5>1, <5>2, Zenon DEF BytesOf
        <5>4. i \in 0 .. BytesOf(n) - 1
          BY <5>3, Zenon
        <5>. QED  BY <2>5, <2>7, <5>4
      <4>2. n \in 1 .. Writing
        BY <2>4
      <4>. QED  BY ONLY <1>n, <4>1, <4>2
    <3>2. /\ BytesOf(n) = written /\ BytesOf(n)' = HeaderSize + slen
          /\ StartOf(n) = WritePos - written
      <4>1. ~(n <= Len(sent)) /\ n <= Len(sent) + 1
        BY ONLY <1>n, <3>1
      <4>2. sent'[n].len = slen /\ Len(sent') = Len(sent) + 1
        BY <1>7, <1>9, <3>1
      <4>. QED  BY <1>n, <4>1, <4>2, Zenon DEF BytesOf, StartOf
    <3>3. i \in 0 .. (HeaderSize + slen) - 1
      BY <3>2, Zenon
    <3> DEFINE k == i - written
    <3>4. /\ k \in 0 .. len - 1 /\ WritePos + k = StartOf(n) + i
          /\ written + k = i
      BY <1>n, <2>7, <3>2, <3>3
    <3> HIDE DEF k
    <3>5. buf'[RingIndex(WritePos + k)] = Byte(Writing, written + k)
      BY <3>4
    <3>. QED  BY <1>n, <2>1, <2>4, <3>1, <3>4, <3>5 DEF Byte
  <2>. QED  BY <2>6, <2>7
<1>. QED  BY <1>8, <1>11, <1>12, <1>14, <1>15, <1>17

\* The room a writer in the middle of a message has.
LEMMA SendingNumbers ==
  ASSUME IInv, spc # "idle"
  PROVE  /\ slen \in MsgSizes /\ slen \in Nat /\ written \in Nat
         /\ Padding(slen) \in Nat /\ Padding(slen) \in 0 .. Alignment - 1
         /\ RealSize(slen) = HeaderSize + slen + Padding(slen)
         /\ RealSize(slen) \in Nat /\ Aligned(RealSize(slen))
         /\ RoomFor(RealSize(slen) - written)
         /\ WriteStart \in Nat /\ Aligned(WriteStart)
         /\ WriteStart = WritePos - written
<1>1. slen \in MsgSizes /\ slen \in Nat /\ RoomFor(RealSize(slen) - written)
  BY SizesAssumption DEF IInv, RoomKept
<1>2. /\ Padding(slen) \in 0 .. Alignment - 1
      /\ RealSize(slen) = HeaderSize + slen + Padding(slen)
      /\ RealSize(slen) \in Nat /\ Aligned(RealSize(slen))
  BY <1>1, PaddingProperties
<1>. QED  BY <1>1, <1>2, FifoAssumption
          DEF IInv, VarsTypeOK, WriterTypeOK, Chain, WriteStart

LEMMA PushHeaderStep ==
  ASSUME IInv, PushHeader
  PROVE  IInv'
<1> USE DEF IInv
<1>1. /\ spc = "header" /\ spc' = "payload" /\ written' = HeaderSize
      /\ buf' = HeaderPushed(Writing)
      /\ tail' = TailAfter(head, tail, HeaderSize, 0)
      /\ wbase' = IF PushSplits(head, tail, HeaderSize) THEN wbase + FifoSize
                                                        ELSE wbase
      /\ UNCHANGED <<head, slen, sent, rpc, rlen, rhdr, rret, out,
                     taken, last, rbase>>
  BY DEF PushHeader, readerVars, readerHist
<1>n. /\ head \in 0 .. FifoSize /\ tail \in 0 .. FifoSize
      /\ wbase \in Nat /\ rbase \in Nat /\ FifoSize \in Nat
      /\ HeaderSize \in Nat /\ Len(sent) \in Nat /\ Writing \in Nat
      /\ WritePos \in Nat /\ ReadPos \in Nat
      /\ WritePos = wbase + tail /\ ReadPos = rbase + head
  BY Numbers, SentLength DEF Writing
<1>2. /\ slen \in Nat /\ Padding(slen) \in Nat /\ written = 0
      /\ RealSize(slen) = HeaderSize + slen + Padding(slen)
      /\ RoomFor(RealSize(slen) - written)
  BY <1>1, SendingNumbers DEF SenderPlace
<1>3. RoomFor(HeaderSize + 0)
  BY <1>2, <1>n DEF RoomFor
<1>4. /\ tail' \in 0 .. FifoSize /\ wbase' \in Nat /\ Laps'
      /\ WritePos' = WritePos + HeaderSize /\ ReadPos' = ReadPos
      /\ wbase' = wbase \/ wbase' = wbase + FifoSize
      /\ WritePos + HeaderSize <= ReadPos + FifoSize
      /\ PushSplits(head, tail, HeaderSize) \/ tail + HeaderSize <= FifoSize
      /\ wbase = rbase /\ tail + HeaderSize <= FifoSize
           => wbase' = rbase /\ tail' = tail + HeaderSize
  <2>1. \A x \in Int : x + 0 = x
    OBVIOUS
  <2>2. /\ tail' \in 0 .. FifoSize /\ wbase' \in Nat /\ Laps'
        /\ WritePos' = WritePos + HeaderSize + 0 /\ ReadPos' = ReadPos
        /\ wbase' = wbase \/ wbase' = wbase + FifoSize
        /\ WritePos + HeaderSize <= ReadPos + FifoSize
        /\ PushSplits(head, tail, HeaderSize) \/ tail + HeaderSize <= FifoSize
        /\ wbase = rbase /\ tail + (HeaderSize + 0) <= FifoSize
             => wbase' = rbase /\ tail' = tail + HeaderSize + 0
    <3>1. tail + HeaderSize <= FifoSize /\ wbase = rbase
            => tail + HeaderSize + 0 <= FifoSize
      BY <1>n
    <3>2. head' = head /\ rbase' = rbase /\ 0 \in Nat
      BY <1>1
    <3>. QED  BY <1>1, <1>3, <1>n, <3>1, <3>2, WriteAdvances, Zenon
  <2>. QED  BY <2>2, <1>n
<1>5. /\ buf' \in [0 .. FifoSize - 1 -> Nat \X Nat]
      /\ \A p \in Int : ReadPos <= p /\ p < WritePos =>
           buf'[RingIndex(p)] = buf[RingIndex(p)]
      /\ \A k \in 0 .. HeaderSize - 1 :
           buf'[RingIndex(WritePos + k)] = Byte(Writing, written + k)
  <2> DEFINE new == Pushed(Writing, 0, HeaderSize)
  <2>1. /\ new \in [0 .. FifoSize - 1 -> Nat \X Nat]
        /\ \A p \in Int : ReadPos <= p /\ p < WritePos =>
             new[RingIndex(p)] = buf[RingIndex(p)]
        /\ \A k \in 0 .. HeaderSize - 1 :
             new[RingIndex(WritePos + k)] = Byte(Writing, 0 + k)
    <3>1. /\ VarsTypeOK /\ Laps /\ HeaderSize \in Nat /\ Writing \in Nat /\ 0 \in Nat
          /\ WritePos + HeaderSize <= ReadPos + FifoSize
          /\ PushSplits(head, tail, HeaderSize) \/ tail + HeaderSize <= FifoSize
      BY <1>4, <1>n
    <3>. QED  BY ONLY <3>1, PushedProperties, ZenonT(30)
  <2>2. buf' = new
    <3>1. 0 + (FifoSize - tail) = FifoSize - tail
      BY <1>n
    <3>. QED  BY <1>1, <3>1 DEF HeaderPushed, Pushed
  <2> HIDE DEF new
  <2>. QED  BY <2>1, <2>2, <1>2
<1>6. written' = written + HeaderSize
  BY <1>1, <1>2, <1>n
<1>7. VarsTypeOK' /\ Chain' /\ ReaderPlace' /\ OnBoundary' /\ Intact' /\ Served'
  BY <1>1, <1>4, <1>5, <1>6, <1>n, BytesAdded
<1>8. RoomKept'
  <2>1. wbase = rbase /\ tail + (RealSize(slen) - written) <= FifoSize
          => wbase' = rbase /\ tail' = tail + HeaderSize
    BY <1>2, <1>4, <1>n
  <2>. QED  BY <1>1, <1>4, <1>6, <1>n, <2>1, RoomRemains
<1>9. SenderPlace'
  BY <1>1 DEF SenderPlace
<1>. QED  BY <1>4, <1>7, <1>8, <1>9

\* The bytes that are left of a message, in one piece.
LEMMA RestWritten ==
  ASSUME IInv, spc # "idle", NEW rest \in Nat,
         written + rest = HeaderSize + slen,
         ~PushSplits(head, tail, rest),
         buf' = Stored(buf, tail, Writing, written, rest), tail' = tail + rest,
         UNCHANGED <<head, wbase, rbase>>
  PROVE  /\ buf' \in [0 .. FifoSize - 1 -> Nat \X Nat]
         /\ \A p \in Int : ReadPos <= p /\ p < WritePos =>
              buf'[RingIndex(p)] = buf[RingIndex(p)]
         /\ \A k \in 0 .. rest - 1 :
              buf'[RingIndex(WritePos + k)] = Byte(Writing, written + k)
         /\ tail' \in 0 .. FifoSize /\ Laps'
         /\ WritePos' = WritePos + rest /\ ReadPos' = ReadPos
<1> USE DEF IInv
<1>n. /\ head \in 0 .. FifoSize /\ tail \in 0 .. FifoSize
      /\ wbase \in Nat /\ rbase \in Nat /\ FifoSize \in Nat
      /\ HeaderSize \in Nat /\ Writing \in Nat
      /\ WritePos \in Nat /\ ReadPos \in Nat
      /\ WritePos = wbase + tail /\ ReadPos = rbase + head
  BY Numbers, SentLength DEF Writing
<1>1. /\ slen \in Nat /\ written \in Nat /\ Padding(slen) \in Nat
      /\ RealSize(slen) = HeaderSize + slen + Padding(slen)
      /\ RoomFor(RealSize(slen) - written)
  BY SendingNumbers
<1>2. RoomFor(rest + 0)
  <2>1. RealSize(slen) - written = rest + Padding(slen)
    BY <1>1, <1>n
  <2>2. RoomFor(rest + Padding(slen))
    BY <1>1, <2>1
  <2>. QED  BY <1>1, <1>n, <2>2 DEF RoomFor
<1>3. /\ tail' = TailAfter(head, tail, rest, 0)
      /\ wbase' = IF PushSplits(head, tail, rest) THEN wbase + FifoSize ELSE wbase
  BY <1>n DEF TailAfter
<1>4. /\ tail' \in 0 .. FifoSize /\ Laps'
      /\ WritePos' = WritePos + rest + 0 /\ ReadPos' = ReadPos
      /\ WritePos + rest <= ReadPos + FifoSize
      /\ PushSplits(head, tail, rest) \/ tail + rest <= FifoSize
  <2>1. tail + rest <= FifoSize /\ wbase = rbase => tail + rest + 0 <= FifoSize
    BY <1>n
  <2>2. head' = head /\ rbase' = rbase /\ 0 \in Nat
    OBVIOUS
  <2>. QED  BY <1>2, <1>3, <2>1, <2>2, WriteAdvances, Zenon
<1>5. WritePos + rest + 0 = WritePos + rest
  BY <1>n
<1>6. /\ buf' \in [0 .. FifoSize - 1 -> Nat \X Nat]
      /\ \A p \in Int : ReadPos <= p /\ p < WritePos =>
           buf'[RingIndex(p)] = buf[RingIndex(p)]
      /\ \A k \in 0 .. rest - 1 :
           buf'[RingIndex(WritePos + k)] = Byte(Writing, written + k)
  <2> DEFINE new == Pushed(Writing, written, rest)
  <2>1. /\ new \in [0 .. FifoSize - 1 -> Nat \X Nat]
        /\ \A p \in Int : ReadPos <= p /\ p < WritePos =>
             new[RingIndex(p)] = buf[RingIndex(p)]
        /\ \A k \in 0 .. rest - 1 :
             new[RingIndex(WritePos + k)] = Byte(Writing, written + k)
    <3>1. /\ VarsTypeOK /\ Laps /\ rest \in Nat /\ Writing \in Nat
          /\ written \in Nat
          /\ WritePos + rest <= ReadPos + FifoSize
          /\ PushSplits(head, tail, rest) \/ tail + rest <= FifoSize
      BY <1>1, <1>4, <1>n
    <3>. QED  BY ONLY <3>1, PushedProperties, ZenonT(30)
  <2>2. buf' = new
    BY DEF Pushed
  <2> HIDE DEF new
  <2>. QED  BY <2>1, <2>2
<1>. QED  BY <1>4, <1>5, <1>6

LEMMA PushWholeStep ==
  ASSUME IInv, PushWhole, spc \in {"payload", "rest"},
         ~PushSplits(head, tail, HeaderSize + slen - written)
  PROVE  IInv'
<1> USE DEF IInv
<1> DEFINE rest == HeaderSize + slen - written
<1>1. /\ buf' = Stored(buf, tail, Writing, written, rest) /\ tail' = tail + rest
      /\ UNCHANGED <<head, slen, wbase, rbase, rpc, rlen, rhdr, rret, out, taken,
                     last>>
  BY DEF PushWhole, readerVars, readerHist
<1>n. /\ slen \in Nat /\ written \in Nat /\ HeaderSize \in Nat
      /\ Padding(slen) \in Nat
      /\ RealSize(slen) = HeaderSize + slen + Padding(slen)
      /\ tail \in Nat /\ FifoSize \in Nat /\ WritePos \in Nat
  BY SendingNumbers, Numbers
<1>2. rest \in Nat /\ written + rest = HeaderSize + slen
  BY <1>n DEF SenderPlace
<1> HIDE DEF rest
<1>3. ~PushSplits(head, tail, rest)
  BY DEF rest
<1>4. /\ buf' \in [0 .. FifoSize - 1 -> Nat \X Nat]
      /\ \A p \in Int : ReadPos <= p /\ p < WritePos =>
           buf'[RingIndex(p)] = buf[RingIndex(p)]
      /\ \A k \in 0 .. rest - 1 :
           buf'[RingIndex(WritePos + k)] = Byte(Writing, written + k)
      /\ tail' \in 0 .. FifoSize /\ Laps'
      /\ WritePos' = WritePos + rest /\ ReadPos' = ReadPos
  BY <1>1, <1>2, <1>3, RestWritten
<1>5. CASE Padding(slen) = 0 /\ Complete
  <2>1. WritePos' = WritePos + rest + 0
    BY <1>2, <1>4, <1>n
  <2>. QED  BY <1>1, <1>2, <1>4, <1>5, <2>1, MessageCompleted
<1>6. CASE /\ Padding(slen) # 0 /\ written' = HeaderSize + slen
           /\ spc' = "pad" /\ UNCHANGED sent
  <2>1. written' = written + rest
    BY <1>2, <1>6
  <2>2. VarsTypeOK' /\ Chain' /\ ReaderPlace' /\ OnBoundary' /\ Intact' /\ Served'
    BY <1>1, <1>2, <1>4, <1>6, <2>1, BytesAdded
  <2>3. RoomKept'
    BY <1>1, <1>2, <1>4, <2>1, RoomRemains
  <2>4. SenderPlace'
    BY <1>1, <1>6 DEF SenderPlace, Padding, ExcessAlign
  <2>. QED  BY <1>4, <2>2, <2>3, <2>4
<1>. QED  BY <1>5, <1>6 DEF PushWhole

LEMMA PushTornStep ==
  ASSUME IInv, PushTorn, spc = "payload", PushSplits(head, tail, slen)
  PROVE  IInv'
<1> USE DEF IInv
<1> DEFINE gap == FifoSize - tail
<1>1. /\ buf' = Stored(buf, tail, Writing, written, gap) /\ tail' = 0
      /\ wbase' = wbase + FifoSize /\ written' = written + gap /\ spc' = "rest"
      /\ UNCHANGED <<head, slen, sent, rbase, rpc, rlen, rhdr, rret, out, taken,
                     last>>
  BY DEF PushTorn, readerVars, readerHist
<1>n. /\ head \in 0 .. FifoSize /\ tail \in 0 .. FifoSize
      /\ wbase \in Nat /\ rbase \in Nat /\ FifoSize \in Nat
      /\ HeaderSize \in Nat /\ Writing \in Nat
      /\ WritePos \in Nat /\ ReadPos \in Nat
      /\ WritePos = wbase + tail /\ ReadPos = rbase + head
  BY Numbers, SentLength DEF Writing
<1>2. /\ slen \in Nat /\ written = HeaderSize /\ Padding(slen) \in Nat
      /\ RoomFor(slen + Padding(slen))
      /\ RealSize(slen) - written = slen + Padding(slen)
  <2>1. /\ slen \in Nat /\ written = HeaderSize /\ Padding(slen) \in Nat
        /\ RealSize(slen) = HeaderSize + slen + Padding(slen)
        /\ RoomFor(RealSize(slen) - written)
    BY SendingNumbers DEF SenderPlace
  <2>2. RealSize(slen) - written = slen + Padding(slen)
    BY <1>n, <2>1
  <2>. QED  BY <2>1, <2>2
<1>3. /\ wbase = rbase /\ head <= tail /\ gap \in Nat /\ gap < slen
      /\ ~(tail + (slen + Padding(slen)) <= FifoSize)
      /\ (slen - gap) + Padding(slen) < head
  <2>1. wbase = rbase /\ head <= tail /\ gap \in Nat /\ gap < slen
    BY <1>2, <1>n DEF PushSplits, WrappedAround, Laps
  <2>2. ~(tail + (slen + Padding(slen)) <= FifoSize)
    BY <1>2, <1>n, <2>1
  <2>. QED  BY <1>2, <1>n, <2>1, <2>2 DEF RoomFor
<1>4. /\ tail' \in 0 .. FifoSize /\ Laps'
      /\ WritePos' = WritePos + gap /\ ReadPos' = ReadPos
  <2>1. Laps'
    BY <1>1, <1>2, <1>3, <1>n DEF Laps
  <2>. QED  BY <1>1, <1>n, <2>1 DEF WritePos, ReadPos
<1>5. /\ buf' \in [0 .. FifoSize - 1 -> Nat \X Nat]
      /\ \A p \in Int : ReadPos <= p /\ p < WritePos =>
           buf'[RingIndex(p)] = buf[RingIndex(p)]
      /\ \A k \in 0 .. gap - 1 :
           buf'[RingIndex(WritePos + k)] = Byte(Writing, written + k)
  <2> DEFINE new == Pushed(Writing, written, gap)
  <2>2. buf' = new
    <3>1. ~PushSplits(head, tail, gap)
      BY <1>3, <1>n DEF PushSplits
    <3>. QED  BY <1>1, <3>1 DEF Pushed
  <2>1. /\ new \in [0 .. FifoSize - 1 -> Nat \X Nat]
        /\ \A p \in Int : ReadPos <= p /\ p < WritePos =>
             new[RingIndex(p)] = buf[RingIndex(p)]
        /\ \A k \in 0 .. gap - 1 :
             new[RingIndex(WritePos + k)] = Byte(Writing, written + k)
    <3>1. /\ VarsTypeOK /\ Laps /\ gap \in Nat /\ Writing \in Nat
          /\ written \in Nat
          /\ WritePos + gap <= ReadPos + FifoSize
          /\ PushSplits(head, tail, gap) \/ tail + gap <= FifoSize
      BY <1>2, <1>3, <1>n
    <3> HIDE DEF gap
    <3>. QED  BY ONLY <3>1, PushedProperties, ZenonT(30)
  <2> HIDE DEF new
  <2>. QED  BY <2>1, <2>2
<1> HIDE DEF gap
<1>6. VarsTypeOK' /\ Chain' /\ ReaderPlace' /\ OnBoundary' /\ Intact' /\ Served'
  BY <1>1, <1>3, <1>4, <1>5, BytesAdded
<1>7. RoomKept'
  <2>1. wbase = rbase /\ tail + (RealSize(slen) - written) <= FifoSize
          => wbase' = rbase /\ tail' = tail + gap
    BY <1>2, <1>3
  <2>. QED  BY <1>1, <1>3, <1>4, <2>1, RoomRemains
<1>8. SenderPlace'
  <2>1. written' >= HeaderSize /\ written' < HeaderSize + slen
    BY <1>1, <1>2, <1>3, <1>n
  <2>. QED  BY <1>1, <2>1 DEF SenderPlace
<1>. QED  BY <1>4, <1>6, <1>7, <1>8

LEMMA PushStep ==
  ASSUME IInv, Push
  PROVE  IInv'
<1>1. spc = "payload" /\ HeaderSize + slen - written = slen
  <2>1. spc = "payload"
    BY DEF Push
  <2>2. written = HeaderSize /\ slen \in Nat /\ HeaderSize \in Nat
    BY <2>1, SendingNumbers, FifoAssumption DEF IInv, SenderPlace
  <2>. QED  BY <2>1, <2>2
<1>2. CASE PushSplits(head, tail, slen) /\ PushTorn
  BY <1>1, <1>2, PushTornStep
<1>3. CASE ~PushSplits(head, tail, slen) /\ PushWhole
  BY <1>1, <1>3, PushWholeStep
<1>. QED  BY <1>2, <1>3 DEF Push

LEMMA PushRestStep ==
  ASSUME IInv, PushRest
  PROVE  IInv'
<1> USE DEF IInv
<1>1. spc = "rest" /\ PushWhole
  BY DEF PushRest
<1>2. /\ slen \in Nat /\ written \in Nat /\ Padding(slen) \in Nat
      /\ RealSize(slen) = HeaderSize + slen + Padding(slen)
      /\ RoomFor(RealSize(slen) - written)
      /\ tail = 0 /\ written < HeaderSize + slen
  BY <1>1, SendingNumbers DEF SenderPlace
<1>n. /\ head \in 0 .. FifoSize /\ wbase \in Nat /\ rbase \in Nat
      /\ FifoSize \in Nat /\ HeaderSize \in Nat
      /\ WritePos = wbase + tail /\ ReadPos = rbase + head
  BY Numbers
\* What is left is less than the ring holds.
<1>3. ~PushSplits(head, tail, HeaderSize + slen - written)
  <2>1. HeaderSize + slen - written <= FifoSize
    BY <1>2, <1>n DEF RoomFor, Laps
  <2>. QED  BY <1>2, <1>n, <2>1 DEF PushSplits
<1>. QED  BY <1>1, <1>3, PushWholeStep

LEMMA PushPaddingStep ==
  ASSUME IInv, PushPadding
  PROVE  IInv'
<1> USE DEF IInv
<1>1. /\ spc = "pad" /\ tail' = tail + Padding(slen) /\ Complete
      /\ UNCHANGED <<head, buf, slen, wbase, rbase, rpc, rlen, rhdr, rret, out,
                     taken, last>>
  BY DEF PushPadding, readerVars, readerHist
<1>n. /\ head \in 0 .. FifoSize /\ tail \in 0 .. FifoSize
      /\ wbase \in Nat /\ rbase \in Nat /\ FifoSize \in Nat
      /\ HeaderSize \in Nat
      /\ WritePos \in Nat /\ ReadPos \in Nat
      /\ WritePos = wbase + tail /\ ReadPos = rbase + head
  BY Numbers
<1>2. /\ slen \in Nat /\ written = HeaderSize + slen /\ written \in Nat
      /\ Padding(slen) \in Nat /\ Padding(slen) \in 0 .. Alignment - 1
      /\ RealSize(slen) = HeaderSize + slen + Padding(slen)
      /\ RealSize(slen) \in Nat /\ Aligned(RealSize(slen))
      /\ RoomFor(RealSize(slen) - written)
      /\ WriteStart \in Nat /\ Aligned(WriteStart)
      /\ WriteStart = WritePos - written
  BY <1>1, SendingNumbers DEF SenderPlace
<1> DEFINE pad == Padding(slen)
<1>3. pad \in Nat /\ pad \in 0 .. Alignment - 1 /\ RoomFor(0 + pad)
  <2>1. RealSize(slen) - written = 0 + pad
    BY <1>2, <1>n
  <2>. QED  BY <1>2, <2>1
<1>4. Aligned(WritePos + pad)
  <2>1. Aligned(WriteStart + RealSize(slen))
    BY <1>2, AlignedSum
  <2>2. WriteStart + RealSize(slen) = WritePos + pad
    BY <1>2, <1>n
  <2>. QED  BY <2>1, <2>2
<1> HIDE DEF pad
<1>5. tail + pad <= FifoSize
  <2> DEFINE x == tail + pad
  <2>1. /\ WritePos + pad \in Int /\ wbase \in Int /\ Aligned(wbase)
        /\ (WritePos + pad) - wbase = x
        /\ x \in Int /\ FifoSize \in Int /\ x - pad <= FifoSize
    BY <1>3, <1>n DEF Chain
  <2>2. Aligned((WritePos + pad) - wbase)
    BY <1>4, <2>1, AlignedSum
  <2> HIDE DEF x
  <2>3. Aligned(x)
    BY <2>1, <2>2
  <2>4. x <= FifoSize
    BY <1>3, <2>1, <2>3, AlignedFifoSize, PaddingStaysInside
  <2>. QED  BY <2>4 DEF x
<1>6. /\ ~PushSplits(head, tail, 0)
      /\ tail' = TailAfter(head, tail, 0, pad)
      /\ wbase' = IF PushSplits(head, tail, 0) THEN wbase + FifoSize ELSE wbase
  <2>1. ~PushSplits(head, tail, 0)
    BY <1>n DEF PushSplits
  <2>2. tail + 0 + pad = tail + pad
    BY <1>3, <1>n
  <2>. QED  BY <1>1, <2>1, <2>2 DEF TailAfter, pad
<1>7. /\ tail' \in 0 .. FifoSize /\ Laps'
      /\ WritePos' = WritePos + 0 + pad /\ ReadPos' = ReadPos
  <2>1. tail + 0 <= FifoSize /\ wbase = rbase => tail + 0 + pad <= FifoSize
    BY <1>3, <1>5, <1>n
  <2>2. head' = head /\ rbase' = rbase /\ 0 \in Nat
    BY <1>1
  <2>. QED  BY <1>3, <1>6, <2>1, <2>2, WriteAdvances, Zenon
<1>8. /\ buf' \in [0 .. FifoSize - 1 -> Nat \X Nat]
      /\ \A p \in Int : ReadPos <= p /\ p < WritePos =>
           buf'[RingIndex(p)] = buf[RingIndex(p)]
      /\ \A k \in 0 .. 0 - 1 :
           buf'[RingIndex(WritePos + k)] = Byte(Writing, written + k)
  BY <1>1 DEF VarsTypeOK, RingTypeOK
<1>9. written + 0 = HeaderSize + slen
  BY <1>2
<1>. QED  BY <1>1, <1>3, <1>7, <1>8, <1>9, MessageCompleted DEF pad
-----------------------------------------------------------------------------
(***************************************************************************)
(* The reader's steps.                                                     *)
(***************************************************************************)

\* A reader that does not move the read index disturbs nothing.
LEMMA ReaderStays ==
  ASSUME IInv, UNCHANGED <<head, tail, buf, spc, slen, written, sent, wbase, rbase>>
  PROVE  /\ RingTypeOK' /\ WriterTypeOK' /\ rbase' \in Nat
         /\ Laps' /\ Chain' /\ RoomKept' /\ SenderPlace' /\ Intact'
         /\ ReadPos' = ReadPos /\ WritePos' = WritePos
<1> USE DEF IInv
<1>1. WritePos' = WritePos /\ ReadPos' = ReadPos /\ WriteStart' = WriteStart
  BY DEF WritePos, ReadPos, WriteStart
<1>2. RingTypeOK' /\ WriterTypeOK' /\ rbase' \in Nat
  BY DEF VarsTypeOK, RingTypeOK, WriterTypeOK, ReaderTypeOK
<1>3. Laps'
  BY DEF Laps
<1>4. Chain'
  BY <1>1, Zenon DEF Chain
<1>5. RoomKept' /\ SenderPlace'
  <2>1. RoomFor(RealSize(slen) - written) => RoomFor(RealSize(slen) - written)'
    BY <1>1 DEF RoomFor, RealSize, Padding, ExcessAlign
  <2>. QED  BY <2>1 DEF RoomKept, SenderPlace, Padding, ExcessAlign
<1>6. Intact'
  BY <1>1, Zenon DEF Intact, BytesOf, StartOf, RingIndex, Writing, Byte
<1>. QED  BY <1>1, <1>2, <1>3, <1>4, <1>5, <1>6

\* Neither does one that moves it over len bytes, and pad bytes of padding up
\* to an aligned position, of what was written.
LEMMA ReaderMoves ==
  ASSUME IInv, NEW len \in Nat, NEW pad \in 0 .. Alignment - 1,
         pad = 0 \/ Aligned(ReadPos + len + pad),
         ReadPos + len + pad <= WritePos, Advance(len, pad)
  PROVE  /\ RingTypeOK' /\ WriterTypeOK' /\ rbase' \in Nat
         /\ Laps' /\ Chain' /\ RoomKept' /\ SenderPlace' /\ Intact'
         /\ ReadPos' = ReadPos + len + pad /\ WritePos' = WritePos
<1> USE DEF IInv
<1>n. /\ head \in 0 .. FifoSize /\ tail \in 0 .. FifoSize
      /\ wbase \in Nat /\ rbase \in Nat /\ FifoSize \in Nat
      /\ Len(sent) \in Nat
      /\ WritePos \in Nat /\ ReadPos \in Nat
      /\ WritePos = wbase + tail /\ ReadPos = rbase + head
      /\ Alignment \in Nat /\ pad \in Nat
  BY Numbers, SentLength, FifoAssumption
<1>1. /\ head' = HeadAfter(head, tail, len, pad)
      /\ rbase' = IF PopSplits(head, tail, len) THEN rbase + FifoSize ELSE rbase
      /\ UNCHANGED <<tail, buf, spc, slen, written, sent, wbase>>
  BY DEF Advance, writerVars
<1>2. head + len <= FifoSize => head + len + pad <= FifoSize
  <2> SUFFICES ASSUME head + len <= FifoSize, Aligned(ReadPos + len + pad)
               PROVE  head + len + pad <= FifoSize
    BY <1>n
  <2> DEFINE x == head + len + pad
  <2>1. /\ ReadPos + len + pad \in Int /\ rbase \in Int /\ Aligned(rbase)
        /\ (ReadPos + len + pad) - rbase = x
        /\ x \in Int /\ FifoSize \in Int /\ x - pad <= FifoSize
    BY <1>n DEF Chain
  <2>2. Aligned((ReadPos + len + pad) - rbase)
    BY <2>1, AlignedSum
  <2> HIDE DEF x
  <2>3. Aligned(x)
    BY <2>1, <2>2
  <2>4. x <= FifoSize
    BY <2>1, <2>3, AlignedFifoSize, PaddingStaysInside
  <2>. QED  BY <2>4 DEF x
<1>3. /\ head' \in 0 .. FifoSize /\ rbase' \in Nat /\ Laps'
      /\ ReadPos' = ReadPos + len + pad /\ WritePos' = WritePos
      /\ rbase' = rbase \/ rbase' = rbase + FifoSize
      /\ wbase = rbase => rbase' = rbase
      /\ \A p \in Int : ReadPos' <= p /\ p < WritePos =>
           RingIndex(p)' = RingIndex(p)
  BY <1>1, <1>2, <1>n, ReadAdvances, Zenon
<1>4. ReadPos' \in Nat /\ ReadPos <= ReadPos' /\ WriteStart' = WriteStart
  BY <1>1, <1>3, <1>n DEF WriteStart
<1>5. RingTypeOK' /\ WriterTypeOK'
  BY <1>1, <1>3 DEF VarsTypeOK, RingTypeOK, WriterTypeOK, Index
<1>6. Chain'
  <2>1. Aligned(rbase) /\ rbase \in Int /\ FifoSize \in Int /\ Aligned(FifoSize)
    BY <1>n, AlignedFifoSize DEF Chain
  <2>2. Aligned(rbase + FifoSize)
    BY <2>1, AlignedSum
  <2>3. Aligned(rbase')
    BY <1>3, <2>1, <2>2
  <2>. QED  BY <1>1, <1>4, <2>3 DEF Chain, Aligned
<1>7. RoomKept'
  <2>1. ASSUME NEW k \in Int, RoomFor(k)
        PROVE  \/ WritePos' + k < ReadPos' + FifoSize
               \/ wbase' = rbase' /\ tail' + k <= FifoSize
    <3>1. CASE WritePos + k < ReadPos + FifoSize
      <4>1. WritePos' + k < ReadPos' + FifoSize
        BY ONLY <3>1, <1>3, <1>4, <1>n, k \in Int
      <4>. QED  BY <4>1
    <3>2. CASE wbase = rbase /\ tail + k <= FifoSize
      BY <1>1, <1>3, <3>2
    <3>. QED  BY <2>1, <3>1, <3>2 DEF RoomFor
  <2>2. slen \in MsgSizes =>
          /\ RealSize(slen) - written \in Int
          /\ (RealSize(slen) - written)' = RealSize(slen) - written
    <3>1. slen \in MsgSizes => RealSize(slen) \in Nat
      BY PaddingProperties, SizesAssumption
    <3>2. written \in Nat
      BY DEF VarsTypeOK, WriterTypeOK
    <3>. QED  BY <1>1, <3>1, <3>2 DEF RealSize, Padding, ExcessAlign
  <2>3. ASSUME spc # "idle"
        PROVE  RoomFor(RealSize(slen) - written)'
    <3>1. slen \in MsgSizes /\ RoomFor(RealSize(slen) - written)
      BY <2>3 DEF RoomKept
    <3>. QED  BY <2>1, <2>2, <3>1 DEF RoomFor
  <2>. QED  BY <1>1, <2>3 DEF RoomKept
<1>9. SenderPlace'
  BY <1>1 DEF SenderPlace, Padding, ExcessAlign
<1>8. Intact'
  <2> SUFFICES ASSUME NEW n \in (1 .. Writing)',
                      NEW i \in (0 .. BytesOf(n) - 1)',
                      (StartOf(n) + i >= ReadPos)'
               PROVE  (buf[RingIndex(StartOf(n) + i)] = Byte(n, i))'
    BY Zenon DEF Intact
  <2>1. /\ n \in 1 .. Writing /\ i \in 0 .. BytesOf(n) - 1
        /\ StartOf(n)' = StartOf(n) /\ StartOf(n) + i >= ReadPos'
    BY <1>1, <1>4 DEF Writing, BytesOf, StartOf
  <2>2. BytesOf(n) \in Nat /\ StartOf(n) \in Int
    BY <2>1, BytesOfMessage
  <2>3. i \in Nat /\ i < BytesOf(n) /\ StartOf(n) + i >= ReadPos
    BY <1>4, <1>n, <2>1, <2>2
  <2>4. buf[RingIndex(StartOf(n) + i)] = Byte(n, i)
    BY <2>1, <2>3, UnreadByte
  <2>5. StartOf(n) + i \in Int /\ StartOf(n) + i < WritePos
    BY <2>1, <2>3, MessageInside
  <2>6. RingIndex(StartOf(n) + i)' = RingIndex(StartOf(n) + i)
    <3>1. PICK q \in Int : q = StartOf(n) + i
      BY <2>5
    <3>2. RingIndex(q)' = RingIndex(q)
      BY <1>3, <2>1, <2>5, <3>1
    <3>3. RingIndex(StartOf(n) + i)' = RingIndex(q)'
      BY <2>1, <3>1 DEF RingIndex
    <3>. QED  BY <3>1, <3>2, <3>3
  <2>. QED  BY <1>1, <2>4, <2>6 DEF Byte
<1>. QED  BY <1>3, <1>5, <1>6, <1>7, <1>8, <1>9

\* Where a message ends: at the next one, or where the writer will start it.
EndOf(n) == IF n < Len(sent) THEN sent[n + 1].at ELSE WriteStart

LEMMA MessageEnd ==
  ASSUME IInv, NEW n \in 1 .. Len(sent)
  PROVE  /\ sent[n].at \in Nat /\ sent[n].len \in Nat /\ sent[n].len \in MsgSizes
         /\ Padding(sent[n].len) \in Nat
         /\ sent[n].at + HeaderSize + sent[n].len + Padding(sent[n].len) = EndOf(n)
         /\ EndOf(n) <= WritePos /\ EndOf(n) \in Nat
<1>1. VarsTypeOK /\ Chain
  BY DEF IInv
<1>2. /\ sent[n].at \in Nat /\ sent[n].len \in Nat /\ sent[n].len \in MsgSizes
      /\ Padding(sent[n].len) \in Nat
      /\ RealSize(sent[n].len) = HeaderSize + sent[n].len
                                   + Padding(sent[n].len)
  BY <1>1, SentMessage
<1>3. /\ sent[n].at + RealSize(sent[n].len) = EndOf(n)
      /\ sent[n].at + RealSize(sent[n].len) <= WriteStart
  BY <1>1, Zenon DEF Chain, EndOf
<1>4. WriteStart \in Int /\ WriteStart <= WritePos /\ WritePos \in Int
  BY <1>1, Numbers DEF WriteStart, VarsTypeOK, WriterTypeOK
<1>5. HeaderSize \in Nat /\ EndOf(n) \in Int /\ EndOf(n) <= WritePos
  BY <1>2, <1>3, <1>4, FifoAssumption
<1>6. sent[n].at + HeaderSize + sent[n].len + Padding(sent[n].len) = EndOf(n)
  BY <1>2, <1>3, <1>5
<1>. QED  BY <1>2, <1>5, <1>6

\* The message a receive is due starts at the read index; its header says so.
LEMMA DueMessage ==
  ASSUME IInv, rpc \in {"header", "peek_header", "peek"}
  PROVE  /\ taken + 1 \in 1 .. Len(sent) /\ taken \in Nat
         /\ ReadPos = sent[taken + 1].at
         /\ ReadPos + HeaderSize + sent[taken + 1].len <= WritePos
         /\ \A i \in Nat : i < HeaderSize + sent[taken + 1].len =>
              buf[RingIndex(ReadPos + i)] = Byte(taken + 1, i)
<1> USE DEF IInv
<1>1. taken \in Nat /\ taken < Len(sent) /\ Len(sent) \in Nat
  BY SentLength DEF VarsTypeOK, ReaderTypeOK, ReaderPlace
<1> DEFINE n == taken + 1
<1>2. n \in 1 .. Len(sent)
  BY <1>1
<1>3. ReadPos = sent[n].at
  BY <1>1 DEF OnBoundary
<1> HIDE DEF n
<1>4. /\ sent[n].at \in Nat /\ sent[n].len \in Nat
      /\ Padding(sent[n].len) \in Nat
      /\ sent[n].at + HeaderSize + sent[n].len + Padding(sent[n].len) = EndOf(n)
      /\ EndOf(n) <= WritePos /\ EndOf(n) \in Nat
  BY <1>2, MessageEnd
<1>5. ReadPos + HeaderSize + sent[n].len <= WritePos
  BY <1>3, <1>4, Numbers
<1>6. ASSUME NEW i \in Nat, i < HeaderSize + sent[n].len
      PROVE  buf[RingIndex(ReadPos + i)] = Byte(n, i)
  <2>1. n \in 1 .. Writing /\ n <= Len(sent)
    BY <1>1, <1>2 DEF Writing
  <2>2. BytesOf(n) = HeaderSize + sent[n].len /\ StartOf(n) = sent[n].at
    BY <2>1 DEF BytesOf, StartOf
  <2>3. StartOf(n) + i >= ReadPos /\ i < BytesOf(n)
    BY <1>3, <1>4, <1>6, <2>2
  <2>4. buf[RingIndex(StartOf(n) + i)] = Byte(n, i)
    BY <2>1, <2>3, UnreadByte
  <2>. QED  BY <1>3, <2>2, <2>4
<1>. QED  BY <1>1, <1>2, <1>3, <1>5, <1>6 DEF n

LEMMA DueHeader ==
  ASSUME IInv, rpc \in {"header", "peek_header", "peek"}
  PROVE  /\ HeaderSize <= PendingBytes(head, tail)
         /\ Popped(HeaderSize)[1][1] = taken + 1
         /\ HeaderValues(Popped(HeaderSize)) = {sent[taken + 1].len}
<1> DEFINE n == taken + 1
<1>1. /\ n \in 1 .. Len(sent) /\ taken \in Nat
      /\ ReadPos + HeaderSize + sent[n].len <= WritePos
      /\ \A i \in Nat : i < HeaderSize + sent[n].len =>
           buf[RingIndex(ReadPos + i)] = Byte(n, i)
  BY DueMessage
<1> HIDE DEF n
<1>2. VarsTypeOK /\ Laps
  BY DEF IInv
<1>3. sent[n].len \in Nat /\ HeaderSize \in Nat /\ HeaderSize > 0
  BY <1>1, <1>2, SentMessage, FifoAssumption
<1>4. ReadPos + HeaderSize <= WritePos /\ ReadPos \in Nat /\ WritePos \in Nat
  <2>1. ReadPos \in Nat /\ WritePos \in Nat
    BY <1>2, Numbers
  <2>2. ReadPos + HeaderSize + sent[n].len <= WritePos
    BY <1>1, Zenon
  <2>. QED  BY ONLY <1>3, <2>1, <2>2
<1>5. HeaderSize <= PendingBytes(head, tail)
  BY <1>2, <1>3, <1>4, OccupancyFromLaps
<1>6. \A i \in 1 .. HeaderSize :
        Popped(HeaderSize)[i] = buf[RingIndex(ReadPos + i - 1)]
  BY <1>2, <1>3, <1>4, PoppedProperties
<1>7. ASSUME NEW i \in 1 .. HeaderSize
      PROVE  Popped(HeaderSize)[i] = Byte(n, i - 1)
  <2>1. /\ i - 1 \in Nat /\ i - 1 < HeaderSize + sent[n].len
        /\ ReadPos + (i - 1) = ReadPos + i - 1
    BY <1>3, <1>4
  <2>. QED  BY <1>1, <1>6, <2>1
<1>8. Popped(HeaderSize)[1][1] = n
  <2>1. 1 \in 1 .. HeaderSize
    BY <1>3
  <2>. QED  BY <1>7, <2>1 DEF Byte
<1>9. HeaderValues(Popped(HeaderSize)) = {sent[n].len}
  <2>1. n \in 1 .. Writing /\ LenOf(n) = sent[n].len
    BY <1>1, <1>2, SentLength DEF Writing, LenOf
  <2>. QED  BY <1>7, <1>8, <2>1 DEF HeaderValues
<1>. QED  BY <1>5, <1>8, <1>9 DEF n

\* The message a receive is in the middle of.
LEMMA CurrentMessage ==
  ASSUME IInv, rpc \in {"payload", "discard"}
  PROVE  /\ taken \in 1 .. Len(sent)
         /\ rhdr = sent[taken].len /\ rhdr \in Nat /\ rhdr \in MsgSizes
         /\ rlen \in Nat /\ rlen \in RxBufSizes
         /\ sent[taken].at \in Nat
         /\ sent[taken].at + HeaderSize + rhdr + Padding(rhdr) = EndOf(taken)
         /\ EndOf(taken) <= WritePos /\ EndOf(taken) \in Nat
<1>1. taken \in 1 .. Len(sent) /\ rhdr = sent[taken].len /\ rlen \in RxBufSizes
  BY SentLength DEF IInv, VarsTypeOK, ReaderTypeOK, ReaderPlace
<1>. QED  BY <1>1, MessageEnd, SizesAssumption

LEMMA CheckPendingStep ==
  ASSUME IInv, NEW len \in RxBufSizes, NEW op \in {"normal", "peek"},
         CheckPending(len, op), ~early'
  PROVE  IInv'
<1> USE DEF IInv
<1>1. /\ rpc = "idle" /\ PendingBytes(head, tail) > HeaderSize
      /\ rpc' \in {"header", "peek_header"} /\ rlen' = len
      /\ ~TooEarly
      /\ UNCHANGED <<head, tail, buf, spc, slen, written, sent, wbase, rbase,
                     rhdr, rret, out, taken, last>>
  BY DEF CheckPending, ring, writerVars, readerHist
<1>2. /\ RingTypeOK' /\ WriterTypeOK' /\ rbase' \in Nat
      /\ Laps' /\ Chain' /\ RoomKept' /\ SenderPlace' /\ Intact'
      /\ ReadPos' = ReadPos /\ WritePos' = WritePos
  BY <1>1, ReaderStays
<1>3. VarsTypeOK'
  BY <1>1, <1>2 DEF VarsTypeOK, ReaderTypeOK
\* What is pending is more than the header of an incomplete message, and the
\* stores of its payload have not begun.
<1>4. taken < Len(sent)
  <2> SUFFICES ASSUME ~(taken < Len(sent)) PROVE FALSE
    OBVIOUS
  <2>1. ReadPos = WritePos - written
    BY <1>1 DEF OnBoundary, WriteStart
  <2>2. WritePos - ReadPos > HeaderSize
    BY <1>1, OccupancyFromLaps
  <2>3. WritePos \in Nat /\ HeaderSize \in Nat /\ HeaderSize > 0 /\ written \in Nat
    BY Numbers DEF VarsTypeOK, WriterTypeOK
  <2>4. written > HeaderSize
    BY ONLY <2>1, <2>2, <2>3
  <2>5. spc \in {"rest", "pad"}
    BY <2>3, <2>4 DEF SenderPlace, VarsTypeOK, WriterTypeOK
  <2>6. taken = Len(sent)
    BY SentLength DEF ReaderPlace, VarsTypeOK, ReaderTypeOK
  <2>. QED  BY <1>1, <2>5, <2>6 DEF TooEarly
<1>5. ReaderPlace'
  BY <1>1, <1>4 DEF ReaderPlace
<1>6. OnBoundary' /\ Served'
  BY <1>1, <1>2 DEF OnBoundary, Served, WriteStart
<1>. QED  BY <1>2, <1>3, <1>5, <1>6

\* ICC_FIFO_Pop_Header finds the header of the message that is due.
LEMMA HeaderServed ==
  ASSUME IInv, PopHeader
  PROVE  /\ taken + 1 \in 1 .. Len(sent) /\ taken \in Nat
         /\ rhdr' = sent[taken + 1].len /\ Advance(HeaderSize, 0)
         /\ taken' = taken + 1
         /\ last' = [number |-> taken + 1, len |-> rhdr']
         /\ out' = NoData /\ rpc' = "payload"
         /\ UNCHANGED <<rlen, rret>>
<1>1. rpc = "header"
  BY DEF PopHeader
<1>2. /\ HeaderSize <= PendingBytes(head, tail)
      /\ Popped(HeaderSize)[1][1] = taken + 1
      /\ HeaderValues(Popped(HeaderSize)) = {sent[taken + 1].len}
  BY <1>1, DueHeader
<1>3. taken + 1 \in 1 .. Len(sent) /\ taken \in Nat
  BY <1>1, DueMessage
<1>4. ~(HeaderSize > PendingBytes(head, tail))
  <2>1. PendingBytes(head, tail) \in Int /\ HeaderSize \in Nat
    BY OccupancyFromLaps, Numbers DEF IInv
  <2>. QED  BY <1>2, <2>1
<1>. QED  BY <1>2, <1>3, <1>4 DEF PopHeader

LEMMA PopHeaderStep ==
  ASSUME IInv, PopHeader
  PROVE  IInv'
<1> USE DEF IInv
<1> DEFINE n == taken + 1
<1>1. rpc = "header"
  BY DEF PopHeader
<1>3. /\ n \in 1 .. Len(sent) /\ taken \in Nat /\ ReadPos = sent[n].at
      /\ ReadPos + HeaderSize + sent[n].len <= WritePos
      /\ n \in Nat /\ Len(sent) \in Nat
  BY <1>1, DueMessage, SentLength
<1>4. sent[n].at \in Nat /\ sent[n].len \in Nat /\ sent[n].len \in MsgSizes
  BY <1>3, MessageEnd
<1>n. /\ HeaderSize \in Nat /\ ReadPos \in Nat /\ WritePos \in Nat
      /\ 0 \in 0 .. Alignment - 1
  BY Numbers, FifoAssumption
<1>6. /\ rhdr' = sent[n].len /\ Advance(HeaderSize, 0)
      /\ taken' = n /\ last' = [number |-> n, len |-> rhdr']
      /\ out' = NoData /\ rpc' = "payload"
      /\ UNCHANGED <<rlen, rret>>
  BY HeaderServed
<1> HIDE DEF n
<1>7. UNCHANGED <<spc, slen, written, sent, wbase>>
  BY <1>6 DEF Advance, writerVars
<1>8. /\ RingTypeOK' /\ WriterTypeOK' /\ rbase' \in Nat
      /\ Laps' /\ Chain' /\ RoomKept' /\ SenderPlace' /\ Intact'
      /\ ReadPos' = ReadPos + HeaderSize + 0 /\ WritePos' = WritePos
  <2>1. ReadPos + HeaderSize + 0 <= WritePos
    <3>1. /\ ReadPos + HeaderSize + sent[n].len <= WritePos
          /\ sent[n].len \in Nat /\ HeaderSize \in Nat
          /\ ReadPos \in Nat /\ WritePos \in Nat
      BY <1>3, <1>4, <1>n
    <3>. QED  BY ONLY <3>1
  <2>. QED  BY <1>6, <1>n, <2>1, ReaderMoves, Zenon
<1>9. ReadPos' = ReadPos + HeaderSize
  BY <1>8, <1>n
<1>10. VarsTypeOK'
  BY <1>3, <1>4, <1>6, <1>8 DEF VarsTypeOK, ReaderTypeOK, NoData
<1>11. ReaderPlace'
  <2>1. n <= Len(sent) /\ n >= 1 /\ rlen \in RxBufSizes
    BY <1>1, <1>3 DEF ReaderPlace
  <2>. QED  BY <1>3, <1>6, <1>7, <1>9, <2>1 DEF ReaderPlace
<1>12. OnBoundary' /\ Served'
  BY <1>6 DEF OnBoundary, Served
<1>. QED  BY <1>8, <1>10, <1>11, <1>12

\* The part of the message that a receive takes, and what is behind it.
LEMMA PartOfMessage ==
  ASSUME IInv, rpc \in {"payload", "discard"}
  PROVE  /\ RxSize \in Nat /\ RxSize <= rhdr
         /\ Padding(RxSize) \in 0 .. Alignment - 1 /\ Padding(RxSize) \in Nat
         /\ Padding(rhdr) \in Nat
         /\ RxSize + Padding(RxSize) <= rhdr + Padding(rhdr)
         /\ ~Truncated => RxSize = rhdr
         /\ Truncated => /\ RxSize = rlen /\ rhdr - rlen \in Nat
                         /\ Padding(rhdr - rlen) \in 0 .. Alignment - 1
                         /\ Padding(rhdr - rlen) \in Nat
                         /\ Padding(rlen) + Padding(rhdr - rlen) = Padding(rhdr)
<1>1. rhdr \in Nat /\ rhdr \in MsgSizes /\ rlen \in Nat /\ rlen \in RxBufSizes
  BY CurrentMessage
<1>2. /\ RxSize \in Nat /\ RxSize <= rhdr
      /\ ~Truncated => RxSize = rhdr
      /\ Truncated => RxSize = rlen /\ rhdr - rlen \in Nat /\ rlen < rhdr
  BY <1>1 DEF RxSize, Truncated
<1>3. Truncated => Padding(rlen) + Padding(rhdr - rlen) = Padding(rhdr)
  BY <1>1, <1>2, TruncationAssumption
<1>4. \A m \in Nat : Padding(m) \in 0 .. Alignment - 1
  BY PaddingProperties
<1>5. \A m \in Nat : Padding(m) \in Nat
  BY <1>4, FifoAssumption
<1>6. RxSize + Padding(RxSize) <= rhdr + Padding(rhdr)
  <2>1. CASE Truncated
    <3>1. /\ Padding(rlen) \in Nat /\ Padding(rhdr - rlen) \in Nat
          /\ RxSize = rlen /\ rlen < rhdr
          /\ Padding(rlen) + Padding(rhdr - rlen) = Padding(rhdr)
      BY <1>1, <1>2, <1>3, <1>5, <2>1
    <3>2. rlen + Padding(rlen) <= rhdr + (Padding(rlen) + Padding(rhdr - rlen))
      BY ONLY <1>1, <3>1
    <3>. QED  BY <3>1, <3>2
  <2>2. CASE ~Truncated
    <3>1. rhdr + Padding(rhdr) \in Int
      BY <1>1, <1>5
    <3>2. RxSize = rhdr
      BY <1>2, <2>2
    <3>. QED  BY ONLY <3>1, <3>2
  <2>. QED  BY <2>1, <2>2
<1>. QED  BY <1>1, <1>2, <1>3, <1>4, <1>5, <1>6

\* ICC_FIFO_Pop finds the payload, or the part of it that fits.
LEMMA PayloadServed ==
  ASSUME IInv, Pop
  PROVE  /\ ReadPos = sent[taken].at + HeaderSize
         /\ ReadPos + RxSize + Padding(RxSize) <= WritePos
         /\ out' = [op |-> "normal", data |-> PopBytes(RxSize)]
         /\ Advance(RxSize, Padding(RxSize))
         /\ rpc' = IF Truncated THEN "discard" ELSE "idle"
         /\ rret' = IF Truncated THEN rret ELSE "SUCCESS"
         /\ UNCHANGED <<rlen, rhdr, taken, last>>
<1> USE DEF IInv
<1>1. rpc = "payload"
  BY DEF Pop
<1>2. /\ taken \in 1 .. Len(sent)
      /\ rhdr = sent[taken].len /\ rhdr \in Nat /\ rhdr \in MsgSizes
      /\ rlen \in Nat /\ rlen \in RxBufSizes
      /\ sent[taken].at \in Nat
      /\ sent[taken].at + HeaderSize + rhdr + Padding(rhdr) = EndOf(taken)
      /\ EndOf(taken) <= WritePos /\ EndOf(taken) \in Nat
  BY <1>1, CurrentMessage
<1>3. /\ RxSize \in Nat /\ RxSize <= rhdr
      /\ Padding(RxSize) \in 0 .. Alignment - 1 /\ Padding(RxSize) \in Nat
      /\ Padding(rhdr) \in Nat
      /\ RxSize + Padding(RxSize) <= rhdr + Padding(rhdr)
      /\ ~Truncated => RxSize = rhdr
  BY <1>1, PartOfMessage
<1>n. /\ HeaderSize \in Nat /\ ReadPos \in Nat /\ WritePos \in Nat
      /\ PendingBytes(head, tail) = WritePos - ReadPos
      /\ ReadPos = sent[taken].at + HeaderSize
  <2>1. ReadPos = sent[taken].at + HeaderSize
    BY <1>1 DEF ReaderPlace
  <2>2. PendingBytes(head, tail) = WritePos - ReadPos
    BY OccupancyFromLaps
  <2>. QED  BY <2>1, <2>2, Numbers
<1>4. ReadPos + RxSize + Padding(RxSize) <= WritePos
  <2>1. ReadPos + rhdr + Padding(rhdr) = EndOf(taken)
    BY <1>2, <1>n
  <2>2. /\ ReadPos \in Nat /\ WritePos \in Nat /\ rhdr \in Nat
        /\ Padding(rhdr) \in Nat /\ EndOf(taken) \in Nat
        /\ EndOf(taken) <= WritePos
        /\ RxSize \in Nat /\ Padding(RxSize) \in Nat
        /\ RxSize + Padding(RxSize) <= rhdr + Padding(rhdr)
    BY <1>2, <1>3, <1>n
  <2>. QED  BY ONLY <2>1, <2>2
<1>5. ~(RxSize > PendingBytes(head, tail))
  BY ONLY <1>3, <1>4, <1>n
<1>6. /\ out' = [op |-> "normal", data |-> PopBytes(RxSize)]
      /\ Advance(RxSize, Padding(RxSize))
      /\ rpc' = IF Truncated THEN "discard" ELSE "idle"
      /\ rret' = IF Truncated THEN rret ELSE "SUCCESS"
      /\ UNCHANGED <<rlen, rhdr, taken, last>>
  BY <1>5, Zenon DEF Pop
<1>. QED  BY <1>4, <1>6, <1>n

LEMMA PopStep ==
  ASSUME IInv, Pop
  PROVE  IInv'
<1> USE DEF IInv
<1>1. rpc = "payload"
  BY DEF Pop
<1>2. /\ taken \in 1 .. Len(sent)
      /\ rhdr = sent[taken].len /\ rhdr \in Nat /\ rhdr \in MsgSizes
      /\ rlen \in Nat /\ rlen \in RxBufSizes
      /\ sent[taken].at \in Nat
      /\ sent[taken].at + HeaderSize + rhdr + Padding(rhdr) = EndOf(taken)
      /\ EndOf(taken) <= WritePos /\ EndOf(taken) \in Nat
  BY <1>1, CurrentMessage
<1>3. /\ RxSize \in Nat /\ RxSize <= rhdr
      /\ Padding(RxSize) \in 0 .. Alignment - 1 /\ Padding(RxSize) \in Nat
      /\ Padding(rhdr) \in Nat
      /\ RxSize + Padding(RxSize) <= rhdr + Padding(rhdr)
      /\ ~Truncated => RxSize = rhdr
  BY <1>1, PartOfMessage
<1>n. /\ HeaderSize \in Nat /\ ReadPos \in Nat /\ WritePos \in Nat
      /\ PendingBytes(head, tail) = WritePos - ReadPos
      /\ ReadPos = sent[taken].at + HeaderSize
  <2>1. ReadPos = sent[taken].at + HeaderSize
    BY <1>1 DEF ReaderPlace
  <2>2. PendingBytes(head, tail) = WritePos - ReadPos
    BY OccupancyFromLaps
  <2>. QED  BY <2>1, <2>2, Numbers
<1>4. ReadPos + RxSize + Padding(RxSize) <= WritePos
  BY PayloadServed
<1>6. /\ out' = [op |-> "normal", data |-> PopBytes(RxSize)]
      /\ Advance(RxSize, Padding(RxSize))
      /\ rpc' = IF Truncated THEN "discard" ELSE "idle"
      /\ rret' = IF Truncated THEN rret ELSE "SUCCESS"
      /\ UNCHANGED <<rlen, rhdr, taken, last>>
  BY PayloadServed
<1>7. UNCHANGED <<spc, slen, written, sent, wbase>>
  BY <1>6 DEF Advance, writerVars
<1>8. /\ RingTypeOK' /\ WriterTypeOK' /\ rbase' \in Nat
      /\ Laps' /\ Chain' /\ RoomKept' /\ SenderPlace' /\ Intact'
      /\ ReadPos' = ReadPos + RxSize + Padding(RxSize) /\ WritePos' = WritePos
  <2>1. Aligned(ReadPos + RxSize + Padding(RxSize))
    BY <1>2, <1>3, <1>n, AlignedEnd
  <2>. QED  BY <1>3, <1>4, <1>6, <2>1, ReaderMoves, Zenon
<1>9. VarsTypeOK'
  <2>1. PopBytes(RxSize) \in Seq(Nat \X Nat)
    <3>1. ReadPos + RxSize <= WritePos
      BY <1>3, <1>4, <1>n
    <3>2. PopBytes(RxSize) \in [1 .. RxSize -> Nat \X Nat]
      BY <1>3, <3>1, PoppedProperties DEF PopBytes
    <3>. QED  BY <1>3, <3>2, SeqDef
  <2>. QED  BY <1>6, <1>8, <2>1 DEF VarsTypeOK, ReaderTypeOK
<1>10. EndOf(taken)' = EndOf(taken)
  BY <1>6, <1>7, <1>8 DEF EndOf, WriteStart
<1>11. CASE Truncated
  <2>1. rpc' = "discard" /\ RxSize = rlen /\ rlen < rhdr
    BY <1>2, <1>6, <1>11 DEF Truncated, RxSize
  <2>2. ReadPos' = sent[taken].at + HeaderSize + rlen + Padding(rlen)
    BY <1>8, <1>n, <2>1
  <2>3. ReaderPlace'
    BY <1>2, <1>6, <1>7, <2>1, <2>2 DEF ReaderPlace, Padding, ExcessAlign
  <2>4. OnBoundary' /\ Served'
    BY <1>6, <1>11, <2>1 DEF OnBoundary, Served
  <2>. QED  BY <1>8, <1>9, <2>3, <2>4
<1>12. CASE ~Truncated
  <2>1. rpc' = "idle" /\ RxSize = rhdr /\ rret' = "SUCCESS"
    BY <1>3, <1>6, <1>12
  <2>2. ReaderPlace'
    BY <1>6, <1>7, <2>1 DEF ReaderPlace
  <2>3. ReadPos' = EndOf(taken)
    BY <1>2, <1>8, <1>n, <2>1
  <2>4. OnBoundary'
    BY <1>6, <1>7, <1>8, <2>3 DEF OnBoundary, EndOf, WriteStart
  <2>. QED  BY <1>8, <1>9, <2>1, <2>2, <2>4 DEF Served
<1>. QED  BY <1>11, <1>12

\* ICC_FIFO_Pop with a null buffer finds the rest of the message.
LEMMA RestServed ==
  ASSUME IInv, Discard
  PROVE  /\ ReadPos + (rhdr - rlen) + Padding(rhdr - rlen) = EndOf(taken)
         /\ Advance(rhdr - rlen, Padding(rhdr - rlen))
         /\ rpc' = "idle" /\ rret' = "TRUNCATED"
         /\ UNCHANGED <<rlen, rhdr, out, taken, last>>
<1> USE DEF IInv
<1> DEFINE rest == rhdr - rlen
<1>1. rpc = "discard"
  BY DEF Discard
<1>2. /\ taken \in 1 .. Len(sent)
      /\ rhdr = sent[taken].len /\ rhdr \in Nat /\ rhdr \in MsgSizes
      /\ rlen \in Nat /\ rlen \in RxBufSizes
      /\ sent[taken].at \in Nat
      /\ sent[taken].at + HeaderSize + rhdr + Padding(rhdr) = EndOf(taken)
      /\ EndOf(taken) <= WritePos /\ EndOf(taken) \in Nat
  BY <1>1, CurrentMessage
<1>3. /\ Padding(rlen) \in Nat /\ Padding(rhdr) \in Nat
      /\ rest \in Nat /\ Padding(rest) \in 0 .. Alignment - 1
      /\ Padding(rest) \in Nat
      /\ Padding(rlen) + Padding(rest) = Padding(rhdr)
  <2>1. Truncated
    BY <1>1, <1>2 DEF Truncated, ReaderPlace
  <2>. QED  BY <1>1, <2>1, PartOfMessage
<1>n. /\ HeaderSize \in Nat /\ ReadPos \in Nat /\ WritePos \in Nat
      /\ PendingBytes(head, tail) = WritePos - ReadPos
      /\ ReadPos = sent[taken].at + HeaderSize + rlen + Padding(rlen)
  <2>1. ReadPos = sent[taken].at + HeaderSize + rlen + Padding(rlen)
    BY <1>1 DEF ReaderPlace
  <2>2. PendingBytes(head, tail) = WritePos - ReadPos
    BY OccupancyFromLaps
  <2>. QED  BY <2>1, <2>2, Numbers
<1>4. ReadPos + rest + Padding(rest) = EndOf(taken)
  <2>1. /\ sent[taken].at \in Nat /\ HeaderSize \in Nat /\ rlen \in Nat
        /\ rhdr \in Nat /\ Padding(rlen) \in Nat /\ Padding(rest) \in Nat
    BY <1>2, <1>3, <1>n
  <2>2. sent[taken].at + HeaderSize + rlen + Padding(rlen) + rest + Padding(rest)
        = sent[taken].at + HeaderSize + rhdr + (Padding(rlen) + Padding(rest))
    BY ONLY <2>1
  <2>3. ReadPos + rest + Padding(rest)
        = sent[taken].at + HeaderSize + rhdr + Padding(rhdr)
    BY <1>3, <1>n, <2>2, Zenon
  <2>. QED  BY <1>2, <2>3, Zenon
<1> HIDE DEF rest
<1>5. ReadPos + rest + Padding(rest) <= WritePos
  BY <1>2, <1>4
<1>6. ~(rest > PendingBytes(head, tail))
  BY ONLY <1>3, <1>5, <1>n
<1>7. /\ Advance(rest, Padding(rest)) /\ rpc' = "idle" /\ rret' = "TRUNCATED"
      /\ UNCHANGED <<rlen, rhdr, out, taken, last>>
  BY <1>6, Zenon DEF Discard, rest
<1>. QED  BY <1>4, <1>7 DEF rest

LEMMA DiscardStep ==
  ASSUME IInv, Discard
  PROVE  IInv'
<1> USE DEF IInv
<1> DEFINE rest == rhdr - rlen
<1>1. rpc = "discard"
  BY DEF Discard
<1>2. /\ taken \in 1 .. Len(sent)
      /\ rhdr = sent[taken].len /\ rhdr \in Nat /\ rhdr \in MsgSizes
      /\ rlen \in Nat /\ rlen \in RxBufSizes
      /\ sent[taken].at \in Nat
      /\ sent[taken].at + HeaderSize + rhdr + Padding(rhdr) = EndOf(taken)
      /\ EndOf(taken) <= WritePos /\ EndOf(taken) \in Nat
  BY <1>1, CurrentMessage
<1>3. /\ Padding(rlen) \in Nat /\ Padding(rhdr) \in Nat
      /\ rest \in Nat /\ Padding(rest) \in 0 .. Alignment - 1
      /\ Padding(rest) \in Nat
      /\ Padding(rlen) + Padding(rest) = Padding(rhdr)
  <2>1. Truncated
    BY <1>1, <1>2 DEF Truncated, ReaderPlace
  <2>. QED  BY <1>1, <2>1, PartOfMessage
<1>n. /\ HeaderSize \in Nat /\ ReadPos \in Nat /\ WritePos \in Nat
      /\ PendingBytes(head, tail) = WritePos - ReadPos
      /\ ReadPos = sent[taken].at + HeaderSize + rlen + Padding(rlen)
  <2>1. ReadPos = sent[taken].at + HeaderSize + rlen + Padding(rlen)
    BY <1>1 DEF ReaderPlace
  <2>2. PendingBytes(head, tail) = WritePos - ReadPos
    BY OccupancyFromLaps
  <2>. QED  BY <2>1, <2>2, Numbers
<1>4. ReadPos + rest + Padding(rest) = EndOf(taken)
  BY RestServed
<1>7. /\ Advance(rest, Padding(rest)) /\ rpc' = "idle" /\ rret' = "TRUNCATED"
      /\ UNCHANGED <<rlen, rhdr, out, taken, last>>
  BY RestServed
<1> HIDE DEF rest
<1>5. ReadPos + rest + Padding(rest) <= WritePos
  BY <1>2, <1>4
<1>8. UNCHANGED <<spc, slen, written, sent, wbase>>
  BY <1>7 DEF Advance, writerVars
<1>9. /\ RingTypeOK' /\ WriterTypeOK' /\ rbase' \in Nat
      /\ Laps' /\ Chain' /\ RoomKept' /\ SenderPlace' /\ Intact'
      /\ ReadPos' = ReadPos + rest + Padding(rest) /\ WritePos' = WritePos
  <2>1. Aligned(ReadPos + rest + Padding(rest))
    <3>1. Aligned(sent[taken].at + HeaderSize + rhdr + Padding(rhdr))
      BY <1>2, AlignedEnd
    <3>. QED  BY <1>2, <1>4, <3>1
  <2>. QED  BY <1>3, <1>5, <1>7, <2>1, ReaderMoves, Zenon
<1>10. VarsTypeOK' /\ Served'
  BY <1>7, <1>9 DEF VarsTypeOK, ReaderTypeOK, Served
<1>11. ReaderPlace'
  BY <1>7, <1>8 DEF ReaderPlace
<1>12. OnBoundary'
  <2>1. ReadPos' = EndOf(taken)
    BY <1>4, <1>9
  <2>. QED  BY <1>7, <1>8, <1>9, <2>1 DEF OnBoundary, EndOf, WriteStart
<1>. QED  BY <1>9, <1>10, <1>11, <1>12

LEMMA PeekHeaderStep ==
  ASSUME IInv, PeekHeader
  PROVE  IInv'
<1> USE DEF IInv
<1>1. rpc = "peek_header"
  BY DEF PeekHeader
<1>2. /\ HeaderSize <= PendingBytes(head, tail)
      /\ HeaderValues(Popped(HeaderSize)) = {sent[taken + 1].len}
  BY <1>1, DueHeader
<1>3. taken + 1 \in 1 .. Len(sent)
  BY <1>1, DueMessage
<1>4. ~(HeaderSize > PendingBytes(head, tail))
  BY <1>2, OccupancyFromLaps, Numbers
<1>5. /\ rhdr' = sent[taken + 1].len /\ rpc' = "peek"
      /\ UNCHANGED <<head, tail, buf, spc, slen, written, sent, wbase, rbase,
                     rlen, rret, out, taken, last>>
  BY <1>2, <1>4 DEF PeekHeader, ring, readerHist, writerVars
<1>6. /\ RingTypeOK' /\ WriterTypeOK' /\ rbase' \in Nat
      /\ Laps' /\ Chain' /\ RoomKept' /\ SenderPlace' /\ Intact'
      /\ ReadPos' = ReadPos /\ WritePos' = WritePos
  BY <1>5, ReaderStays
<1>7. VarsTypeOK'
  <2>1. sent[taken + 1].len \in MsgSizes
    BY <1>3, MessageEnd
  <2>. QED  BY <1>5, <1>6, <2>1 DEF VarsTypeOK, ReaderTypeOK
<1>8. ReaderPlace' /\ OnBoundary' /\ Served'
  BY <1>1, <1>5, <1>6 DEF ReaderPlace, OnBoundary, Served, WriteStart
<1>. QED  BY <1>6, <1>7, <1>8

\* ICC_FIFO_Peek finds the header and what fits of the payload behind it.
LEMMA PeekServed ==
  ASSUME IInv, Peek
  PROVE  /\ RxSize \in Nat /\ RxSize <= rhdr
         /\ ReadPos + (RxSize + HeaderSize) <= WritePos
         /\ RxSize + HeaderSize \in Nat
         /\ out' = [op |-> "peek", data |-> Popped(RxSize + HeaderSize)]
         /\ rpc' = "idle"
         /\ rret' = IF Truncated THEN "TRUNCATED" ELSE "SUCCESS"
         /\ UNCHANGED <<head, tail, buf, spc, slen, written, sent, wbase, rbase,
                        rlen, rhdr, taken, last>>
<1> USE DEF IInv
<1> DEFINE size == RxSize + HeaderSize
<1>1. rpc = "peek"
  BY DEF Peek
<1>2. /\ taken + 1 \in 1 .. Len(sent)
      /\ ReadPos + HeaderSize + sent[taken + 1].len <= WritePos
  BY <1>1, DueMessage
<1>3. /\ rhdr = sent[taken + 1].len /\ rlen \in Nat
      /\ rhdr \in Nat /\ RxSize \in Nat /\ RxSize <= rhdr
  <2>1. rhdr = sent[taken + 1].len /\ rlen \in Nat
    BY <1>1, SizesAssumption DEF ReaderPlace
  <2>2. sent[taken + 1].len \in Nat
    BY <1>2, MessageEnd
  <2>. QED  BY <2>1, <2>2 DEF RxSize
<1>4. /\ ReadPos + size <= WritePos /\ size \in Nat
      /\ ~(size > PendingBytes(head, tail))
  <2>1. /\ HeaderSize \in Nat /\ ReadPos \in Nat /\ WritePos \in Nat
        /\ PendingBytes(head, tail) = WritePos - ReadPos
    BY Numbers, OccupancyFromLaps
  <2>2. /\ ReadPos + HeaderSize + rhdr <= WritePos
        /\ rhdr \in Nat /\ RxSize \in Nat /\ RxSize <= rhdr
    BY <1>2, <1>3
  <2>. QED  BY ONLY <2>1, <2>2
<1> HIDE DEF size
<1>6. /\ out' = [op |-> "peek", data |-> Popped(size)]
      /\ rpc' = "idle"
      /\ rret' = IF Truncated THEN "TRUNCATED" ELSE "SUCCESS"
      /\ UNCHANGED <<head, tail, buf, spc, slen, written, sent, wbase, rbase,
                     rlen, rhdr, taken, last>>
  BY <1>4, Zenon DEF Peek, ring, readerHist, writerVars, size
<1>. QED  BY <1>3, <1>4, <1>6 DEF size

LEMMA PeekStep ==
  ASSUME IInv, Peek
  PROVE  IInv'
<1> USE DEF IInv
<1> DEFINE size == RxSize + HeaderSize
<1>1. rpc = "peek"
  BY DEF Peek
<1>4. ReadPos + size <= WritePos /\ size \in Nat
  BY PeekServed
<1>5. Popped(size) \in Seq(Nat \X Nat)
  <2>1. Popped(size) \in [1 .. size -> Nat \X Nat]
    BY <1>4, PoppedProperties
  <2>. QED  BY <1>4, <2>1, SeqDef
<1>6. /\ out' = [op |-> "peek", data |-> Popped(size)]
      /\ rpc' = "idle"
      /\ rret' = IF Truncated THEN "TRUNCATED" ELSE "SUCCESS"
      /\ UNCHANGED <<head, tail, buf, spc, slen, written, sent, wbase, rbase,
                     rlen, rhdr, taken, last>>
  BY PeekServed
<1> HIDE DEF size
<1>7. /\ RingTypeOK' /\ WriterTypeOK' /\ rbase' \in Nat
      /\ Laps' /\ Chain' /\ RoomKept' /\ SenderPlace' /\ Intact'
      /\ ReadPos' = ReadPos /\ WritePos' = WritePos
  BY <1>6, ReaderStays
<1>8. VarsTypeOK'
  BY <1>5, <1>6, <1>7 DEF VarsTypeOK, ReaderTypeOK
<1>9. ReaderPlace' /\ OnBoundary' /\ Served'
  BY <1>1, <1>6, <1>7 DEF ReaderPlace, OnBoundary, Served, WriteStart
<1>. QED  BY <1>7, <1>8, <1>9
-----------------------------------------------------------------------------
(***************************************************************************)
(* Theorems.                                                               *)
(***************************************************************************)

LEMMA StutterStep ==
  ASSUME IInv, UNCHANGED vars
  PROVE  IInv'
<1>1. UNCHANGED <<head, tail, buf, spc, slen, written, sent, wbase, rbase,
                  rpc, rlen, rhdr, rret, out, taken, last>>
  BY DEF vars
<1>2. /\ RingTypeOK' /\ WriterTypeOK' /\ rbase' \in Nat
      /\ Laps' /\ Chain' /\ RoomKept' /\ SenderPlace' /\ Intact'
      /\ ReadPos' = ReadPos /\ WritePos' = WritePos
  BY <1>1, ReaderStays
<1>3. VarsTypeOK' /\ ReaderPlace' /\ OnBoundary' /\ Served'
  BY <1>1, <1>2 DEF IInv, VarsTypeOK, ReaderTypeOK, ReaderPlace, OnBoundary,
                    Served, WriteStart, Padding, ExcessAlign
<1>. QED  BY <1>2, <1>3 DEF IInv

\* Until a receive begins early, IInv holds.
Inv == early \in BOOLEAN /\ (early \/ IInv)

\* That a receive began early is not forgotten.
LEMMA EarlyStays ==
  ASSUME early \in BOOLEAN, [Next]_vars
  PROVE  early' \in BOOLEAN /\ (early => early')
<1>1. CASE UNCHANGED early
  BY <1>1
<1>2. ASSUME NEW len \in RxBufSizes, NEW op \in {"normal", "peek"},
             CheckPending(len, op)
      PROVE  early' \in BOOLEAN /\ (early => early')
  <2>1. early' = (early \/ TooEarly)
    BY <1>2 DEF CheckPending
  <2>2. TooEarly \in BOOLEAN
    BY DEF TooEarly
  <2>. QED  BY <2>1, <2>2
<1>3. CASE Writer
  BY <1>1, <1>3 DEF Writer, CheckFits, PushHeader, Push, PushRest, PushWhole,
                    PushTorn, PushPadding, readerVars
<1>4. CASE PopHeader \/ Pop \/ Discard \/ PeekHeader \/ Peek
  BY <1>1, <1>4 DEF PopHeader, Pop, Discard, PeekHeader, Peek, Advance, ReturnEmpty
<1>5. CASE UNCHANGED vars
  BY <1>1, <1>5 DEF vars
<1>. QED  BY <1>2, <1>3, <1>4, <1>5 DEF Next, Reader

LEMMA StepInv == Inv /\ [Next]_vars => Inv'
<1> SUFFICES ASSUME Inv, [Next]_vars, ~early' PROVE IInv'
  BY EarlyStays DEF Inv
<1> USE EarlyStays DEF Inv
<1>0. IInv
  OBVIOUS
<1>1. ASSUME NEW len \in MsgSizes, CheckFits(len) PROVE IInv'
  BY <1>0, <1>1, CheckFitsStep
<1>2. CASE PushHeader
  BY <1>0, <1>2, PushHeaderStep
<1>3. CASE Push
  BY <1>0, <1>3, PushStep
<1>11. CASE PushRest
  BY <1>0, <1>11, PushRestStep
<1>12. CASE PushPadding
  BY <1>0, <1>12, PushPaddingStep
<1>4. ASSUME NEW len \in RxBufSizes, NEW op \in {"normal", "peek"},
             CheckPending(len, op)
      PROVE  IInv'
  BY <1>0, <1>4, CheckPendingStep
<1>5. CASE PopHeader
  BY <1>0, <1>5, PopHeaderStep
<1>6. CASE Pop
  BY <1>0, <1>6, PopStep
<1>7. CASE Discard
  BY <1>0, <1>7, DiscardStep
<1>8. CASE PeekHeader
  BY <1>0, <1>8, PeekHeaderStep
<1>9. CASE Peek
  BY <1>0, <1>9, PeekStep
<1>10. CASE UNCHANGED vars
  BY <1>0, <1>10, StutterStep
<1>. QED  BY <1>1, <1>2, <1>3, <1>4, <1>5, <1>6, <1>7, <1>8, <1>9, <1>10,
             <1>11, <1>12 DEF Next, Writer, Reader

\* The inductive invariant holds in every reachable state of a FIFO of which no
\* receive began between the stores of its message's payload.
THEOREM Invariance == Spec => []Inv
<1>1. Init => Inv
  BY InitInv DEF Inv, Init
<1>. QED  BY <1>1, StepInv, PTL DEF Spec

\* The variables keep their types and the indexes never leave the ring, at each
\* store of tail that a push takes, until a receive begins early.
THEOREM TypeCorrect == Spec => []TypeOK
<1>1. Inv => TypeOK
  BY DEF Inv, IInv, TypeOK
<1>. QED  BY <1>1, Invariance, PTL

\* Until a receive begins early, ICC_FIFO_Pending counts exactly the bytes
\* pushed and not popped, between the stores of a torn or padded payload too:
\* full and empty are never confused and the reader never passes the writer.
THEOREM PendingCorrect == Spec => []PendingRight
<1>1. Inv => PendingRight
  BY OccupancyFromLaps DEF Inv, IInv, PendingRight, Occupancy
<1>. QED  BY <1>1, Invariance, PTL

\* ICC_FIFO_Push never overwrites a byte the reader has not gone past.
THEOREM UnreadStaysIntact == Spec => []UnreadIntact
<1>1. Inv => UnreadIntact
  BY DEF Inv, IInv, UnreadIntact
<1>. QED  BY <1>1, Invariance, PTL

\* Under TruncationAssumption the read index is at the start of a message
\* whenever a receive starts, as long as none starts between the stores of its
\* message's payload.
THEOREM BoundaryKept == Spec => []AtBoundary
<1>1. Inv => AtBoundary
  BY DEF Inv, IInv, AtBoundary
<1>. QED  BY <1>1, Invariance, PTL

\* Under TruncationAssumption a receive that found data pending is served: only
\* one that began between the stores of its message's payload can find too few
\* bytes.
THEOREM ReceiveServed == Spec => []CheckedReceive
<1>1. Inv => CheckedReceive
  BY DEF Inv, IInv, CheckedReceive, Served
<1>. QED  BY <1>1, Invariance, PTL
-----------------------------------------------------------------------------
(***************************************************************************)
(* The queries.                                                            *)
(***************************************************************************)

\* Whenever no receive is between a header and the end of its message, the
\* bytes at head, if there are enough, are the next message's header.
LEMMA HeaderAtHead ==
  ASSUME IInv, rpc \notin {"payload", "discard"},
         HeaderSize <= PendingBytes(head, tail)
  PROVE  HeaderValues(Popped(HeaderSize)) = {LenOf(taken + 1)}
<1> DEFINE n == taken + 1
<1>t. VarsTypeOK /\ Laps /\ Intact
  BY DEF IInv
<1>1. /\ taken \in Nat /\ Len(sent) \in Nat /\ taken <= Len(sent)
      /\ rpc \in {"idle", "header", "peek_header", "peek"}
  BY <1>t, SentLength DEF IInv, VarsTypeOK, ReaderTypeOK, ReaderPlace
<1>2. /\ ReadPos + HeaderSize <= WritePos /\ ReadPos \in Nat /\ WritePos \in Nat
      /\ HeaderSize \in Nat /\ HeaderSize > 0
  BY <1>t, OccupancyFromLaps, Numbers
<1>3. ReadPos = IF taken < Len(sent) THEN sent[n].at ELSE WritePos - written
  BY <1>1 DEF IInv, OnBoundary, WriteStart
<1>4. n \in 1 .. Writing /\ StartOf(n) = ReadPos
      /\ BytesOf(n) \in Nat /\ HeaderSize <= BytesOf(n)
  <2>1. CASE taken < Len(sent)
    <3>1. n \in 1 .. Len(sent) /\ n \in 1 .. Writing /\ n <= Len(sent)
      BY <1>1, <2>1 DEF Writing
    <3>2. sent[n].len \in Nat
      BY <1>t, <3>1, SentMessage
    <3>. QED  BY <1>2, <1>3, <2>1, <3>1, <3>2 DEF StartOf, BytesOf
  <2>2. CASE ~(taken < Len(sent))
    <3>1. n = Writing /\ n \in 1 .. Writing /\ ~(n <= Len(sent))
      BY <1>1, <2>2 DEF Writing
    <3>2. ReadPos = WritePos - written /\ written \in Nat
      BY <1>3, <1>t, <2>2 DEF VarsTypeOK, WriterTypeOK
    <3>3. StartOf(n) = ReadPos /\ BytesOf(n) = written
      BY <3>1, <3>2 DEF StartOf, BytesOf, WriteStart
    <3>4. HeaderSize <= written
      BY ONLY <1>2, <3>2
    <3>. QED  BY <3>1, <3>2, <3>3, <3>4
  <2>. QED  BY <2>1, <2>2
<1> HIDE DEF n
<1>5. \A i \in 1 .. HeaderSize :
        Popped(HeaderSize)[i] = buf[RingIndex(ReadPos + i - 1)]
  BY <1>t, <1>2, PoppedProperties
<1>6. ASSUME NEW i \in 1 .. HeaderSize
      PROVE  Popped(HeaderSize)[i] = Byte(n, i - 1)
  <2>1. /\ i - 1 \in Nat /\ i - 1 < BytesOf(n) /\ StartOf(n) + (i - 1) >= ReadPos
        /\ StartOf(n) + (i - 1) = ReadPos + i - 1
    BY <1>2, <1>4
  <2>2. buf[RingIndex(StartOf(n) + (i - 1))] = Byte(n, i - 1)
    BY <1>t, <1>4, <2>1, UnreadByte
  <2>. QED  BY <1>5, <2>1, <2>2
<1>7. Popped(HeaderSize)[1][1] = n
  <2>1. 1 \in 1 .. HeaderSize
    BY <1>2
  <2>. QED  BY <1>6, <2>1 DEF Byte
<1>8. HeaderValues(Popped(HeaderSize)) = {LenOf(n)}
  BY <1>4, <1>6, <1>7 DEF HeaderValues
<1>. QED  BY <1>8 DEF n

\* A step of the reader moves ReadPos forward, if at all, and the writer's
\* position not.
LEMMA AdvanceForward ==
  ASSUME VarsTypeOK, NEW len \in Nat, NEW pad \in Nat, Advance(len, pad)
  PROVE  ReadPos <= ReadPos' /\ WritePos' = WritePos
<1>1. /\ head' = HeadAfter(head, tail, len, pad)
      /\ rbase' = IF PopSplits(head, tail, len) THEN rbase + FifoSize ELSE rbase
      /\ tail' = tail /\ wbase' = wbase
  BY DEF Advance, writerVars
<1>2. ReadPos' = ReadPos + len + pad
  BY <1>1, Numbers DEF HeadAfter, ReadPos
<1>. QED  BY <1>1, <1>2, Numbers DEF WritePos

LEMMA ReaderForward ==
  ASSUME IInv, Reader
  PROVE  ReadPos <= ReadPos' /\ WritePos' = WritePos /\ tail' = tail
<1>t. VarsTypeOK
  BY DEF IInv
<1>s. ReadPos \in Nat
  BY <1>t, Numbers
<1>1. ASSUME UNCHANGED <<ring, rbase, writerVars>>
      PROVE  ReadPos <= ReadPos' /\ WritePos' = WritePos /\ tail' = tail
  BY <1>s, <1>1 DEF ring, writerVars, ReadPos, WritePos
<1>2. ASSUME NEW len \in Nat, NEW pad \in Nat, Advance(len, pad)
      PROVE  ReadPos <= ReadPos' /\ WritePos' = WritePos /\ tail' = tail
  BY <1>t, <1>2, AdvanceForward DEF Advance
<1>3. ASSUME NEW len \in Nat PROVE Padding(len) \in Nat
  BY PaddingProperties, FifoAssumption
<1>4. rhdr \in Nat /\ rlen \in Nat
  BY <1>t, SizesAssumption DEF VarsTypeOK, ReaderTypeOK
<1>5. CASE \E len \in RxBufSizes, op \in {"normal", "peek"} : CheckPending(len, op)
  BY <1>1, <1>5 DEF CheckPending, readerHist
<1>6. CASE PopHeader
  <2>1. CASE ReturnEmpty
    BY <1>1, <2>1 DEF ReturnEmpty, readerHist
  <2>2. CASE Advance(HeaderSize, 0)
    BY <1>2, <2>2, FifoAssumption
  <2>. QED  BY <1>6, <2>1, <2>2 DEF PopHeader
<1>7. CASE Pop
  <2>1. CASE ReturnEmpty
    BY <1>1, <2>1 DEF ReturnEmpty, readerHist
  <2>2. CASE UNCHANGED <<ring, rlen, rhdr, rret, out, readerHist, early, writerVars>>
    BY <1>1, <2>2 DEF readerHist
  <2>3. CASE Advance(RxSize, Padding(RxSize))
    BY <1>2, <1>3, <1>4, <2>3 DEF RxSize
  <2>. QED  BY <1>7, <2>1, <2>2, <2>3 DEF Pop
<1>8. CASE Discard
  <2>1. CASE ReturnEmpty
    BY <1>1, <2>1 DEF ReturnEmpty, readerHist
  <2>2. CASE Advance(rhdr - rlen, Padding(rhdr - rlen))
    <3>1. rhdr - rlen \in Nat
      BY <1>4, <1>8 DEF Discard, IInv, ReaderPlace
    <3>. QED  BY <1>2, <1>3, <2>2, <3>1
  <2>. QED  BY <1>8, <2>1, <2>2 DEF Discard
<1>9. CASE PeekHeader \/ Peek
  BY <1>1, <1>9 DEF PeekHeader, Peek, ReturnEmpty, readerHist
<1>. QED  BY <1>5, <1>6, <1>7, <1>8, <1>9 DEF Reader

\* The free bytes, from how far reader and writer have come.
LEMMA FreeFromBases ==
  ASSUME FifoSize \in Nat,
         NEW h \in 0 .. FifoSize, NEW t \in 0 .. FifoSize,
         NEW rb \in Nat, NEW wb \in Nat,
         \/ wb = rb /\ h <= t
         \/ wb = rb + FifoSize /\ t < h
  PROVE  /\ FreeBytes(h, t) = (rb + h) + FifoSize - (wb + t)
         /\ rb + h <= wb + t /\ rb + h \in Nat
BY DEF FreeBytes, WrappedAround

\* How ICC_Get_Channel_Free turns the free bytes into its answer, and what that
\* answer does when the reader has gone on from p to p2, the writer being at q.
SendableOf(free) == IF free <= HeaderSize THEN 0 ELSE free - HeaderSize

LEMMA SendableGrows ==
  ASSUME FifoSize \in Nat, HeaderSize \in Nat,
         NEW p \in Nat, NEW p2 \in Nat, NEW q \in Nat,
         p <= p2, p2 <= q
  PROVE  /\ SendableOf(p2 + FifoSize - q) >= SendableOf(p + FifoSize - q)
         /\ SendableOf(p2 + FifoSize - q) <=
              SendableOf(p + FifoSize - q) + (q - p)
BY DEF SendableOf

\* What ICC_Get_Channel_Free says changes, while tail stays, only as the reader
\* goes on over what was pending.
LEMMA FreeStep ==
  ASSUME IInv, IInv', [Next]_vars, tail' = tail
  PROVE  /\ ChannelFree' >= ChannelFree
         /\ ChannelFree' <= ChannelFree + ChannelPending
<1>1. /\ FreeBytes(head, tail) = ReadPos + FifoSize - WritePos
      /\ ChannelPending = WritePos - ReadPos
      /\ WritePos - ReadPos \in 0 .. FifoSize
      /\ ReadPos \in Nat /\ WritePos \in Nat /\ FifoSize \in Nat
      /\ HeaderSize \in Nat
  BY OccupancyFromLaps, Numbers DEF IInv, ChannelPending
<1>2. CASE head' = head
  <2>1. ChannelFree' = ChannelFree
    BY <1>2 DEF ChannelFree, FreeBytes, WrappedAround
  <2>2. ChannelFree \in Nat
    BY <1>1 DEF ChannelFree
  <2>. QED  BY <1>1, <2>1, <2>2
<1>3. CASE Reader
  <2>1. ReadPos <= ReadPos' /\ WritePos' = WritePos
    BY <1>3, ReaderForward
  <2>2. VarsTypeOK' /\ Laps'
    BY DEF IInv
  <2>3. /\ head' \in 0 .. FifoSize /\ tail' \in 0 .. FifoSize
        /\ wbase' \in Nat /\ rbase' \in Nat
    BY <2>2 DEF VarsTypeOK, RingTypeOK, WriterTypeOK, ReaderTypeOK, Index
  <2>4. /\ FreeBytes(head', tail') = ReadPos' + FifoSize - WritePos'
        /\ ReadPos' <= WritePos' /\ ReadPos' \in Nat
    <3>1. /\ ReadPos' = rbase' + head' /\ WritePos' = wbase' + tail'
          /\ \/ wbase' = rbase' /\ head' <= tail'
             \/ wbase' = rbase' + FifoSize /\ tail' < head'
      BY <2>2 DEF ReadPos, WritePos, Laps
    <3>2. FifoSize \in Nat
      BY <1>1
    <3>3. /\ FreeBytes(head', tail') =
               (rbase' + head') + FifoSize - (wbase' + tail')
          /\ rbase' + head' <= wbase' + tail' /\ rbase' + head' \in Nat
      BY ONLY <2>3, <3>1, <3>2, FreeFromBases
    <3>. QED  BY ONLY <3>1, <3>3
  <2>5. /\ ReadPos \in Nat /\ WritePos \in Nat /\ FifoSize \in Nat
        /\ HeaderSize \in Nat /\ ReadPos' \in Nat
        /\ ReadPos <= ReadPos' /\ ReadPos' <= WritePos
    BY <1>1, <2>1, <2>4
  <2>6. /\ ChannelFree = SendableOf(ReadPos + FifoSize - WritePos)
        /\ ChannelFree' = SendableOf(ReadPos' + FifoSize - WritePos)
    BY <1>1, <2>1, <2>4 DEF ChannelFree, SendableOf
  <2>. QED  BY <1>1, <2>5, <2>6, SendableGrows
<1>4. CASE Writer
  BY <1>2, <1>4 DEF Writer, PushHeader, Push, PushRest, PushWhole, PushTorn,
                    PushPadding, CheckFits, ring
<1>5. CASE UNCHANGED vars
  BY <1>2, <1>5 DEF vars
<1>. QED  BY <1>3, <1>4, <1>5 DEF Next

\* Whatever the receiver does meanwhile, a sender has at least the room that
\* ICC_Get_Channel_Free told it of, unless a receive began early.
THEOREM RoomStays == Spec => FreeOnlyGrows
<1>1. ASSUME Inv, Inv', [Next]_vars
      PROVE  [tail' = tail =>
                \/ early'
                \/ /\ ChannelFree' >= ChannelFree
                   /\ ChannelFree' <= ChannelFree + ChannelPending]_vars
  <2> SUFFICES ASSUME tail' = tail, ~early'
               PROVE  /\ ChannelFree' >= ChannelFree
                      /\ ChannelFree' <= ChannelFree + ChannelPending
    OBVIOUS
  <2>1. IInv /\ IInv'
    BY <1>1, EarlyStays DEF Inv
  <2>. QED  BY <1>1, <2>1, FreeStep
<1>. QED  BY <1>1, Invariance, PTL DEF Spec, FreeOnlyGrows

\* ICC_Get_Next_Msg_Size is right unless the receiver is inside a message, or
\* began to receive one whose payload was being pushed.
THEOREM NextSizeCorrect == Spec => []NextSizeRight
<1>1. Inv => NextSizeRight
  <2> SUFFICES ASSUME IInv, rpc \notin {"payload", "discard"}, NextMsgSizes # {}
               PROVE  NextMsgSizes = {LenOf(taken + 1)}
    BY DEF NextSizeRight, Inv
  <2>1. /\ HeaderSize <= PendingBytes(head, tail)
        /\ NextMsgSizes = HeaderValues(Popped(HeaderSize))
    <3>1. PendingBytes(head, tail) \in Int /\ HeaderSize \in Nat
      BY OccupancyFromLaps, Numbers DEF IInv
    <3>. QED  BY <3>1 DEF NextMsgSizes, ChannelPending
  <2>. QED  BY <2>1, HeaderAtHead
<1>. QED  BY <1>1, Invariance, PTL
-----------------------------------------------------------------------------
(***************************************************************************)
(* What the receiver is handed.                                            *)
(***************************************************************************)

\* Delivered, with the message that `out' shows known to exist, and with
\* what a truncated receive holds while the rest is dropped.
Delivery ==
  /\ Delivered
  /\ out.op = "normal" => taken \in 1 .. Len(sent)
  /\ out.op = "peek" => taken + 1 \in 1 .. Len(sent)
  /\ rpc = "discard" => out.op = "normal" /\ Len(out.data) = rlen

LEMMA InitDelivery == Init => Delivery
BY DEF Init, Delivery, Delivered, NoData

\* The writer leaves the reader's variables alone; a message becomes one that was
\* sent with its last store of tail.
Completes == sent' = Append(sent, [at |-> WriteStart, len |-> slen])

LEMMA WriterSends ==
  ASSUME IInv, Writer
  PROVE  /\ UNCHANGED readerVars
         /\ \/ UNCHANGED sent
            \/ Completes /\ [at |-> WriteStart, len |-> slen] \in [at: Nat, len: MsgSizes]
<1>1. CASE UNCHANGED sent
  BY <1>1 DEF Writer, CheckFits, PushHeader, Push, PushRest, PushWhole, PushTorn,
              PushPadding
<1>2. CASE Complete /\ spc # "idle"
  <2>1. Completes
    BY <1>2 DEF Complete, Completes
  <2>2. WriteStart \in Nat /\ slen \in MsgSizes
    BY <1>2, SendingNumbers
  <2>. QED  BY <2>1, <2>2 DEF Writer, CheckFits, PushHeader, Push, PushRest,
                              PushWhole, PushTorn, PushPadding
<1>. QED  BY <1>1, <1>2 DEF Writer, CheckFits, PushHeader, Push, PushRest,
                            PushWhole, PushTorn, PushPadding

\* The reader sends nothing.
LEMMA ReaderSendsNothing == Reader => UNCHANGED sent
BY DEF Reader, CheckPending, PopHeader, Pop, Discard, PeekHeader, Peek, Advance,
       ReturnEmpty, writerVars

\* A message that was sent keeps its place and its length.
LEMMA SentGrows ==
  ASSUME IInv, Writer \/ Reader
  PROVE  /\ Len(sent) \in Nat /\ Len(sent)' \in Nat
         /\ \A n \in 1 .. Len(sent) :
              n \in 1 .. Len(sent)' /\ sent'[n] = sent[n] /\ LenOf(n)' = LenOf(n)
<1>1. sent \in Seq([at: Nat, len: MsgSizes]) /\ Len(sent) \in Nat
  BY SentLength DEF IInv, VarsTypeOK, WriterTypeOK
<1>2. ASSUME sent' = sent
      PROVE  /\ Len(sent)' \in Nat
             /\ \A n \in 1 .. Len(sent) :
                  n \in 1 .. Len(sent)' /\ sent'[n] = sent[n]
  BY <1>1, <1>2
<1>3. ASSUME NEW m \in [at: Nat, len: MsgSizes], sent' = Append(sent, m)
      PROVE  /\ Len(sent)' \in Nat
             /\ \A n \in 1 .. Len(sent) :
                  n \in 1 .. Len(sent)' /\ sent'[n] = sent[n]
  <2>1. /\ Len(sent') = Len(sent) + 1
        /\ \A n \in 1 .. Len(sent) : sent'[n] = sent[n]
    BY <1>1, <1>3, AppendProperties
  <2>. QED  BY <1>1, <2>1
<1>5. /\ Len(sent)' \in Nat
      /\ \A n \in 1 .. Len(sent) : n \in 1 .. Len(sent)' /\ sent'[n] = sent[n]
  BY <1>2, <1>3, WriterSends, ReaderSendsNothing DEF Completes
<1>6. ASSUME NEW n \in 1 .. Len(sent)
      PROVE  LenOf(n)' = LenOf(n)
  BY <1>5, <1>6 DEF LenOf
<1>. QED  BY <1>1, <1>5, <1>6

\* A step that leaves what the receiver was handed, and where it stands.
LEMMA OutStays ==
  ASSUME IInv, Writer \/ Reader, Delivery, UNCHANGED <<out, taken>>,
         \/ UNCHANGED <<rpc, rlen>>
         \/ rpc' \notin {"idle", "discard"}
  PROVE  Delivery'
<1>1. \A n \in 1 .. Len(sent) : n \in 1 .. Len(sent)' /\ LenOf(n)' = LenOf(n)
  BY SentGrows
<1>2. /\ out.op = "normal" => taken \in 1 .. Len(sent)
      /\ out.op = "peek" => taken + 1 \in 1 .. Len(sent)
      /\ rpc = "discard" => out.op = "normal" /\ Len(out.data) = rlen
      /\ out.op \in {"none", "normal", "peek"}
  BY DEF Delivery, IInv, VarsTypeOK, ReaderTypeOK
<1>3. Delivered'
  <2>1. /\ out'.op = "normal" => \A i \in DOMAIN out'.data :
                                   out'.data[i] = Byte(taken', HeaderSize + i - 1)
        /\ out'.op = "peek" => \A i \in DOMAIN out'.data :
                                   out'.data[i] = Byte(taken' + 1, i - 1)
    BY DEF Delivery, Delivered
  <2>2. ASSUME rpc' = "idle", out'.op # "none"
        PROVE  LET len == LenOf(IF out.op = "normal" THEN taken ELSE taken + 1)'
                   got == IF out.op = "normal" THEN Len(out.data)
                                               ELSE Len(out.data) - HeaderSize
               IN  got = IF len <= rlen THEN len ELSE rlen
    <3>1. LenOf(IF out.op = "normal" THEN taken ELSE taken + 1)'
            = LenOf(IF out.op = "normal" THEN taken ELSE taken + 1)
      BY <1>1, <1>2, <2>2
    <3>2. rpc = "idle" /\ out.op # "none"
      BY <2>2
    <3>. QED  BY <3>1, <3>2 DEF Delivery, Delivered
  <2>. QED  BY <2>1, <2>2 DEF Delivered
<1>. QED  BY <1>1, <1>2, <1>3 DEF Delivery

\* The bytes a receive takes are those of its message.
LEMMA PopDelivers ==
  ASSUME IInv, Pop
  PROVE  /\ \A i \in 1 .. RxSize : PopBytes(RxSize)[i] = Byte(taken, HeaderSize + i - 1)
         /\ DOMAIN PopBytes(RxSize) = 1 .. RxSize
         /\ Len(PopBytes(RxSize)) = RxSize
<1>1. rpc = "payload" /\ VarsTypeOK /\ Laps /\ Intact
  BY DEF Pop, IInv
<1>2. /\ taken \in 1 .. Len(sent)
      /\ rhdr = sent[taken].len /\ rhdr \in Nat /\ sent[taken].at \in Nat
  BY <1>1, CurrentMessage
<1>3. /\ RxSize \in Nat /\ RxSize <= rhdr /\ Padding(RxSize) \in Nat
  BY <1>1, PartOfMessage
<1>4. /\ ReadPos = sent[taken].at + HeaderSize
      /\ ReadPos + RxSize + Padding(RxSize) <= WritePos
  BY PayloadServed
<1>5. /\ HeaderSize \in Nat /\ ReadPos \in Nat /\ WritePos \in Nat
      /\ Len(sent) \in Nat
  BY <1>1, Numbers, SentLength
<1>6. ReadPos + RxSize <= WritePos
  BY ONLY <1>3, <1>4, <1>5
<1>7. /\ PopBytes(RxSize) \in [1 .. RxSize -> Nat \X Nat]
      /\ \A i \in 1 .. RxSize :
           PopBytes(RxSize)[i] = buf[RingIndex(ReadPos + i - 1)]
  BY <1>1, <1>3, <1>6, PoppedProperties DEF PopBytes
<1>8. Len(PopBytes(RxSize)) = RxSize
  BY <1>3, <1>7
<1>9. ASSUME NEW i \in 1 .. RxSize
      PROVE  PopBytes(RxSize)[i] = Byte(taken, HeaderSize + i - 1)
  <2> DEFINE j == HeaderSize + i - 1
  <2>1. /\ taken \in 1 .. Writing
        /\ StartOf(taken) = sent[taken].at
        /\ BytesOf(taken) = HeaderSize + rhdr
    BY <1>2, <1>5 DEF Writing, StartOf, BytesOf
  <2>2. /\ j \in Nat /\ j < HeaderSize + rhdr
        /\ sent[taken].at + j >= ReadPos
        /\ sent[taken].at + j = ReadPos + i - 1
    <3> DEFINE a == sent[taken].at
    <3>1. a \in Nat /\ ReadPos = a + HeaderSize /\ rhdr \in Nat
      BY <1>2, <1>4
    <3> HIDE DEF a
    <3>2. /\ j \in Nat /\ j < HeaderSize + rhdr
          /\ a + j >= ReadPos /\ a + j = ReadPos + i - 1
      BY ONLY <3>1, <1>3, <1>5, i \in 1 .. RxSize
    <3>. QED  BY <3>2 DEF a
  <2> HIDE DEF j
  <2>3. buf[RingIndex(StartOf(taken) + j)] = Byte(taken, j)
    BY <1>1, <2>1, <2>2, UnreadByte
  <2>. QED  BY <1>7, <2>1, <2>2, <2>3 DEF j
<1>. QED  BY <1>7, <1>8, <1>9

\* A peek copies the header and the payload of the message that is due.
LEMMA PeekDelivers ==
  ASSUME IInv, Peek
  PROVE  LET size == RxSize + HeaderSize IN
         /\ size \in Nat
         /\ \A i \in 1 .. size : Popped(size)[i] = Byte(taken + 1, i - 1)
         /\ DOMAIN Popped(size) = 1 .. size /\ Len(Popped(size)) = size
<1> DEFINE size == RxSize + HeaderSize
<1>1. rpc = "peek" /\ VarsTypeOK /\ Laps
  BY DEF Peek, IInv
<1>2. /\ taken + 1 \in 1 .. Len(sent) /\ taken \in Nat
      /\ \A i \in Nat : i < HeaderSize + sent[taken + 1].len =>
           buf[RingIndex(ReadPos + i)] = Byte(taken + 1, i)
  BY <1>1, DueMessage
<1>3. rhdr = sent[taken + 1].len /\ rhdr \in Nat
  BY <1>1, <1>2, MessageEnd DEF IInv, ReaderPlace
<1>4. /\ RxSize \in Nat /\ RxSize <= rhdr /\ size \in Nat
      /\ ReadPos + size <= WritePos
  BY PeekServed
<1>5. HeaderSize \in Nat /\ ReadPos \in Nat
  BY <1>1, Numbers
<1>6. ASSUME NEW i \in 1 .. size
      PROVE  i - 1 \in Nat /\ i - 1 < HeaderSize + rhdr
             /\ ReadPos + (i - 1) = ReadPos + i - 1
  BY <1>3, <1>4, <1>5
<1> HIDE DEF size
<1>7. /\ Popped(size) \in [1 .. size -> Nat \X Nat]
      /\ \A i \in 1 .. size : Popped(size)[i] = buf[RingIndex(ReadPos + i - 1)]
  BY <1>1, <1>4, PoppedProperties
<1>8. Len(Popped(size)) = size
  BY <1>4, <1>7
<1>9. ASSUME NEW i \in 1 .. size
      PROVE  Popped(size)[i] = Byte(taken + 1, i - 1)
  BY <1>2, <1>3, <1>6, <1>7
<1>. QED  BY <1>4, <1>7, <1>8, <1>9 DEF size

LEMMA DeliveryStep ==
  ASSUME IInv, IInv', Delivery, Writer \/ Reader
  PROVE  Delivery'
<1>1. CASE Writer
  BY <1>1, OutStays, WriterSends DEF readerVars, readerHist
<1>2. ASSUME NEW len \in RxBufSizes, NEW op \in {"normal", "peek"},
             CheckPending(len, op)
      PROVE  Delivery'
  BY <1>2, OutStays DEF CheckPending, readerHist
<1>3. CASE PopHeader
  BY <1>3, HeaderServed DEF Delivery, Delivered, NoData
<1>4. CASE Pop
  <2>1. /\ out' = [op |-> "normal", data |-> PopBytes(RxSize)]
        /\ rpc' = IF Truncated THEN "discard" ELSE "idle"
        /\ UNCHANGED <<rlen, rhdr, taken>>
        /\ Advance(RxSize, Padding(RxSize))
    BY <1>4, PayloadServed
  <2>2. /\ \A i \in 1 .. RxSize :
             PopBytes(RxSize)[i] = Byte(taken, HeaderSize + i - 1)
        /\ DOMAIN PopBytes(RxSize) = 1 .. RxSize
        /\ Len(PopBytes(RxSize)) = RxSize
    BY <1>4, PopDelivers
  <2>3. /\ taken \in 1 .. Len(sent) /\ rhdr = sent[taken].len
        /\ rhdr \in Nat /\ rlen \in Nat
    BY <1>4, CurrentMessage DEF Pop
  <2>4. UNCHANGED sent
    BY <2>1 DEF Advance, writerVars
  <2>5. LenOf(taken)' = rhdr
    BY <2>1, <2>3, <2>4 DEF LenOf
  <2>6. RxSize = (IF rhdr <= rlen THEN rhdr ELSE rlen) /\ (Truncated <=> rhdr > rlen)
    BY DEF RxSize, Truncated
  <2>7. Delivered'
    BY <2>1, <2>2, <2>5, <2>6 DEF Delivered, Byte
  <2>. QED  BY <2>1, <2>2, <2>3, <2>4, <2>6, <2>7 DEF Delivery
<1>5. CASE Discard
  <2>1. rpc' = "idle" /\ UNCHANGED <<rlen, rhdr, out, taken>>
        /\ Advance(rhdr - rlen, Padding(rhdr - rlen))
    BY <1>5, RestServed
  <2>2. UNCHANGED sent
    BY <2>1 DEF Advance, writerVars
  <2>3. rpc = "discard" /\ out.op = "normal" /\ Len(out.data) = rlen
    BY <1>5 DEF Discard, Delivery
  <2>4. /\ taken \in 1 .. Len(sent) /\ rhdr = sent[taken].len
        /\ rlen < rhdr /\ rhdr \in Nat /\ rlen \in Nat
    BY <2>3, CurrentMessage DEF IInv, ReaderPlace
  <2>5. LenOf(taken)' = rhdr
    BY <2>1, <2>2, <2>4 DEF LenOf
  <2>6. Delivered'
    BY <2>1, <2>3, <2>4, <2>5 DEF Delivery, Delivered, Byte
  <2>. QED  BY <2>1, <2>2, <2>3, <2>4, <2>6 DEF Delivery
<1>6. CASE PeekHeader
  <2>1. ~(HeaderSize > PendingBytes(head, tail))
    <3>1. HeaderSize <= PendingBytes(head, tail)
      BY <1>6, DueHeader DEF PeekHeader
    <3>2. PendingBytes(head, tail) \in Int /\ HeaderSize \in Nat
      BY OccupancyFromLaps, Numbers DEF IInv
    <3>. QED  BY <3>1, <3>2
  <2>. QED  BY <1>6, <2>1, OutStays DEF PeekHeader, readerHist
<1>7. CASE Peek
  <2> DEFINE size == RxSize + HeaderSize
  <2>1. /\ out' = [op |-> "peek", data |-> Popped(size)]
        /\ rpc' = "idle" /\ UNCHANGED <<sent, rlen, rhdr, taken>>
        /\ RxSize \in Nat
    BY <1>7, PeekServed
  <2>2. /\ size \in Nat
        /\ \A i \in 1 .. size : Popped(size)[i] = Byte(taken + 1, i - 1)
        /\ DOMAIN Popped(size) = 1 .. size /\ Len(Popped(size)) = size
    BY <1>7, PeekDelivers
  <2>3. /\ taken + 1 \in 1 .. Len(sent) /\ rhdr = sent[taken + 1].len
    BY <1>7, DueMessage DEF Peek, IInv, ReaderPlace
  <2>4. LenOf(taken + 1)' = rhdr /\ size - HeaderSize = RxSize
    BY <2>1, <2>3, FifoAssumption DEF LenOf
  <2>5. RxSize = IF rhdr <= rlen THEN rhdr ELSE rlen
    BY DEF RxSize
  <2> HIDE DEF size
  <2>6. Delivered'
    BY <2>1, <2>2, <2>4, <2>5 DEF Delivered, Byte
  <2>. QED  BY <2>1, <2>3, <2>6 DEF Delivery
<1>. QED  BY <1>1, <1>2, <1>3, <1>4, <1>5, <1>6, <1>7 DEF Reader

\* Until a receive begins early, each message is handed over once, in the order
\* of sending and byte for byte, cut to the user's buffer; a peek shows the
\* message that comes next.
THEOREM DeliveryCorrect == Spec => []DeliveredInOrder
<1>1. Delivery /\ UNCHANGED vars => Delivery'
  BY DEF vars, Delivery, Delivered, LenOf
<1>2. ASSUME Inv, Inv', early \/ Delivery, [Next]_vars
      PROVE  (early \/ Delivery)'
  <2> SUFFICES ASSUME ~early' PROVE Delivery'
    OBVIOUS
  <2>1. IInv /\ IInv' /\ Delivery
    BY <1>2, EarlyStays DEF Inv
  <2>2. CASE Next
    BY <2>1, <2>2, DeliveryStep DEF Next
  <2>. QED  BY <1>1, <1>2, <2>1, <2>2
<1>3. early \/ Delivery => DeliveredInOrder
  BY DEF Delivery, DeliveredInOrder
<1>4. Init => early \/ Delivery
  BY InitDelivery
<1>. QED  BY <1>2, <1>3, <1>4, Invariance, PTL DEF Spec

\* A FIFO that has been emptied takes any message shorter than the ring,
\* wherever its indexes came to rest.
THEOREM EmptyRingAccepts == Spec => []EmptyAccepts
<1>1. Inv => EmptyAccepts
  <2> SUFFICES ASSUME IInv, spc = "idle", taken = Len(sent), rpc = "idle",
                      NEW len \in MsgSizes, RealSize(len) < FifoSize
               PROVE  MsgFits(head, tail, len)
    BY DEF EmptyAccepts, Inv
  <2>1. ReadPos = WritePos
    <3>1. ReadPos = WritePos - written /\ written = 0 /\ WritePos \in Nat
      BY SentLength, Numbers DEF IInv, OnBoundary, SenderPlace, WriteStart
    <3>. QED  BY <3>1
  <2>2. FreeBytes(head, tail) = FifoSize
    BY <2>1, OccupancyFromLaps, Numbers DEF IInv
  <2>3. len \in Nat
    BY SizesAssumption
  <2>4. RealSize(len) \in Nat
    BY <2>3, PaddingProperties
  <2>. QED  BY <2>2, <2>4, FifoAssumption DEF MsgFits
<1>. QED  BY <1>1, Invariance, PTL
-----------------------------------------------------------------------------
(***************************************************************************)
(* The FIFO implements the queue of messages.                              *)
(***************************************************************************)
QueueMessage == [number: Nat, len: MsgSizes]

\* The messages of s behind the t-th, as the queue holds them.
QueueOf(s, t) ==
  [i \in 1 .. Len(s) - t |-> [number |-> t + i, len |-> s[t + i].len]]

LEMMA QueueProperties ==
  ASSUME NEW s \in Seq([at: Nat, len: MsgSizes]), NEW t \in 0 .. Len(s)
  PROVE  /\ QueueOf(s, t) \in Seq(QueueMessage)
         /\ Len(QueueOf(s, t)) = Len(s) - t
         /\ \A i \in 1 .. Len(s) - t :
              QueueOf(s, t)[i] = [number |-> t + i, len |-> s[t + i].len]
<1>1. Len(s) \in Nat /\ t \in Nat /\ Len(s) - t \in Nat
  BY LenProperties
<1>2. ASSUME NEW i \in 1 .. Len(s) - t
      PROVE  [number |-> t + i, len |-> s[t + i].len] \in QueueMessage
  <2>1. t + i \in 1 .. Len(s) /\ t + i \in Nat
    BY <1>1
  <2>2. s[t + i] \in [at: Nat, len: MsgSizes]
    BY <2>1, ElementOfSeq
  <2>. QED  BY <2>1, <2>2 DEF QueueMessage
<1>3. QueueOf(s, t) \in [1 .. Len(s) - t -> QueueMessage]
  BY <1>2 DEF QueueOf
<1>4. QueueOf(s, t) \in Seq(QueueMessage)
  <2> DEFINE n == Len(s) - t
  <2>1. n \in Nat /\ QueueOf(s, t) \in [1 .. n -> QueueMessage]
    BY <1>1, <1>3
  <2> HIDE DEF n
  <2>. QED  BY <2>1, SeqDef
<1>5. Len(QueueOf(s, t)) = Len(s) - t
  BY <1>1, <1>3, <1>4
<1>. QED  BY <1>4, <1>5 DEF QueueOf

\* A message sent joins the end of the queue.
LEMMA QueueGrows ==
  ASSUME NEW s \in Seq([at: Nat, len: MsgSizes]), NEW t \in 0 .. Len(s),
         NEW m \in [at: Nat, len: MsgSizes]
  PROVE  QueueOf(Append(s, m), t) =
           Append(QueueOf(s, t), [number |-> Len(s) + 1, len |-> m.len])
<1> DEFINE e == [number |-> Len(s) + 1, len |-> m.len]
           q == QueueOf(s, t)
           longer == QueueOf(Append(s, m), t)
<1>1. Len(s) \in Nat /\ t \in Nat /\ t <= Len(s)
  BY LenProperties
<1>2. /\ Append(s, m) \in Seq([at: Nat, len: MsgSizes])
      /\ Len(Append(s, m)) = Len(s) + 1
      /\ \A i \in 1 .. Len(s) : Append(s, m)[i] = s[i]
      /\ Append(s, m)[Len(s) + 1] = m
  BY AppendProperties
<1>3. e \in QueueMessage
  BY <1>1 DEF QueueMessage
<1>4. /\ q \in Seq(QueueMessage) /\ Len(q) = Len(s) - t
      /\ \A i \in 1 .. Len(s) - t :
           q[i] = [number |-> t + i, len |-> s[t + i].len]
  BY QueueProperties
<1>5. t \in 0 .. Len(Append(s, m))
  BY <1>1, <1>2
<1>6. /\ longer \in Seq(QueueMessage) /\ Len(longer) = Len(Append(s, m)) - t
      /\ \A i \in 1 .. Len(Append(s, m)) - t :
           longer[i] = [number |-> t + i, len |-> Append(s, m)[t + i].len]
  <2> DEFINE s2 == Append(s, m)
  <2>1. s2 \in Seq([at: Nat, len: MsgSizes]) /\ t \in 0 .. Len(s2)
    BY <1>2, <1>5
  <2> HIDE DEF s2
  <2>2. /\ QueueOf(s2, t) \in Seq(QueueMessage)
        /\ Len(QueueOf(s2, t)) = Len(s2) - t
        /\ \A i \in 1 .. Len(s2) - t :
             QueueOf(s2, t)[i] = [number |-> t + i, len |-> s2[t + i].len]
    BY <2>1, QueueProperties
  <2>. QED  BY ONLY <2>2 DEF s2, longer
<1> HIDE DEF e, q, longer
<1>7. /\ Append(q, e) \in Seq(QueueMessage)
      /\ Len(Append(q, e)) = Len(q) + 1
      /\ \A i \in 1 .. Len(q) : Append(q, e)[i] = q[i]
      /\ Append(q, e)[Len(q) + 1] = e
  BY <1>3, <1>4, AppendProperties
<1>8. ASSUME NEW i \in 1 .. Len(longer)
      PROVE  longer[i] = Append(q, e)[i]
  <2>1. CASE i = Len(s) + 1 - t
    <3>1. t + i = Len(s) + 1 /\ i = Len(q) + 1 /\ i \in 1 .. Len(Append(s, m)) - t
      BY <1>1, <1>2, <1>4, <1>6, <2>1
    <3>2. longer[i] = [number |-> t + i, len |-> Append(s, m)[t + i].len]
      BY <1>6, <3>1, Zenon
    <3>3. Append(s, m)[t + i] = m /\ Append(q, e)[i] = e
      BY ONLY <1>2, <1>7, <3>1, Zenon
    <3>. QED  BY ONLY <3>1, <3>2, <3>3, Zenon DEF e
  <2>2. CASE i # Len(s) + 1 - t
    <3>1. /\ i \in 1 .. Len(s) - t /\ i \in 1 .. Len(q)
          /\ i \in 1 .. Len(Append(s, m)) - t /\ t + i \in 1 .. Len(s)
      <4>1. i \in 1 .. Len(Append(s, m)) - t
        BY <1>6
      <4>2. i \in 1 .. Len(s) + 1 - t
        <5>1. Len(Append(s, m)) - t = Len(s) + 1 - t
          BY <1>2
        <5>. QED  BY ONLY <4>1, <5>1, Zenon
      <4>3. i \in 1 .. Len(s) - t /\ t + i \in 1 .. Len(s)
        BY ONLY <1>1, <2>2, <4>2
      <4>. QED  BY <1>4, <4>1, <4>3
    <3>2. longer[i] = [number |-> t + i, len |-> Append(s, m)[t + i].len]
      BY <1>6, <3>1, Zenon
    <3>3. q[i] = [number |-> t + i, len |-> s[t + i].len]
      BY <1>4, <3>1, Zenon
    <3>4. Append(s, m)[t + i] = s[t + i] /\ Append(q, e)[i] = q[i]
      BY <1>2, <1>7, <3>1, Zenon
    <3>. QED  BY ONLY <3>2, <3>3, <3>4, Zenon
  <2>. QED  BY <2>1, <2>2
<1>9. Len(longer) = Len(Append(q, e))
  BY <1>1, <1>2, <1>4, <1>6, <1>7
<1>10. longer = Append(q, e)
  BY <1>6, <1>7, <1>8, <1>9, SeqEqual
<1>. QED  BY <1>10 DEF e, q, longer

\* A header popped takes its message off the front of the queue.
LEMMA QueueShrinks ==
  ASSUME NEW s \in Seq([at: Nat, len: MsgSizes]), NEW t \in Nat, t < Len(s)
  PROVE  /\ QueueOf(s, t) # <<>>
         /\ Head(QueueOf(s, t)) = [number |-> t + 1, len |-> s[t + 1].len]
         /\ Tail(QueueOf(s, t)) = QueueOf(s, t + 1)
<1> DEFINE q == QueueOf(s, t)
           rest == QueueOf(s, t + 1)
<1>1. Len(s) \in Nat /\ t \in 0 .. Len(s) /\ t + 1 \in 0 .. Len(s)
  BY LenProperties
<1>2. /\ q \in Seq(QueueMessage) /\ Len(q) = Len(s) - t
      /\ \A i \in 1 .. Len(s) - t :
           q[i] = [number |-> t + i, len |-> s[t + i].len]
  BY <1>1, QueueProperties
<1>3. /\ rest \in Seq(QueueMessage) /\ Len(rest) = Len(s) - (t + 1)
      /\ \A i \in 1 .. Len(s) - (t + 1) :
           rest[i] = [number |-> t + 1 + i, len |-> s[t + 1 + i].len]
  BY <1>1, QueueProperties
<1> HIDE DEF q, rest
<1>4. q # <<>> /\ 1 \in 1 .. Len(s) - t
  BY <1>1, <1>2, EmptySeq
<1>5. Head(q) = [number |-> t + 1, len |-> s[t + 1].len]
  <2>1. Head(q) = q[1]
    BY <1>2, <1>4
  <2>2. q[1] = [number |-> t + 1, len |-> s[t + 1].len]
    BY <1>2, <1>4, Zenon
  <2>. QED  BY <2>1, <2>2
<1>6. /\ Tail(q) \in Seq(QueueMessage) /\ Len(Tail(q)) = Len(q) - 1
      /\ \A i \in 1 .. Len(Tail(q)) : Tail(q)[i] = q[i + 1]
  BY <1>2, <1>4, HeadTailProperties
<1>7. ASSUME NEW i \in 1 .. Len(Tail(q))
      PROVE  Tail(q)[i] = rest[i]
  <2>1. /\ i + 1 \in 1 .. Len(s) - t /\ i \in 1 .. Len(s) - (t + 1)
        /\ t + (i + 1) = t + 1 + i
    BY <1>1, <1>2, <1>6
  <2>2. q[i + 1] = [number |-> t + (i + 1), len |-> s[t + (i + 1)].len]
    BY <1>2, <2>1
  <2>. QED  BY <1>3, <1>6, <2>1, <2>2
<1>8. Len(Tail(q)) = Len(rest)
  BY <1>1, <1>2, <1>3, <1>6
<1>9. Tail(q) = rest
  BY <1>3, <1>6, <1>7, <1>8, SeqEqual
<1>. QED  BY <1>4, <1>5, <1>9 DEF q, rest

\* What the ring's state is to the queue.
LEMMA QueueShown ==
  ASSUME IInv
  PROVE  /\ sent \in Seq([at: Nat, len: MsgSizes]) /\ taken \in 0 .. Len(sent)
         /\ Len(sent) \in Nat
BY SentLength DEF IInv, VarsTypeOK, WriterTypeOK, ReaderTypeOK, ReaderPlace

\* A step of the reader other than the pop of a header is none of the queue.
LEMMA OthersStutter ==
  ASSUME Reader, ~PopHeader
  PROVE  UNCHANGED <<sent, taken, last>>
<1>2. ASSUME NEW len \in RxBufSizes, NEW op \in {"normal", "peek"},
             CheckPending(len, op)
      PROVE  UNCHANGED <<sent, taken, last>>
  BY <1>2 DEF CheckPending, readerHist, writerVars
<1>3. CASE Pop \/ Discard
  BY <1>3 DEF Pop, Discard, ReturnEmpty, Advance, readerHist, writerVars
<1>4. CASE PeekHeader \/ Peek
  BY <1>4 DEF PeekHeader, Peek, ReturnEmpty, readerHist, writerVars
<1>. QED  BY <1>2, <1>3, <1>4 DEF Reader

\* The ring, its indexes and its interleaved stores implement a queue: a message
\* enters it with the last store of tail and leaves it when its header is
\* popped, in the order of sending, none lost and none seen twice, until a
\* receive begins before the last store of the message it is due.
THEOREM FifoIsQueue == Spec => ImplementsQueue
<1>1. Init => Mailbox!Init
  <2> SUFFICES ASSUME Init PROVE Mailbox!Init
    OBVIOUS
  <2>1. Len(sent) = 0 /\ taken = 0 /\ last = NoHeader
    BY DEF Init
  <2>2. QueueOf(sent, taken) = <<>>
    <3>1. sent \in Seq([at: Nat, len: MsgSizes]) /\ taken \in 0 .. Len(sent)
      BY <2>1, EmptySeq DEF Init
    <3>2. /\ QueueOf(sent, taken) \in Seq(QueueMessage)
          /\ Len(QueueOf(sent, taken)) = Len(sent) - taken
      BY <3>1, QueueProperties
    <3>3. Len(QueueOf(sent, taken)) = 0
      BY <2>1, <3>2
    <3>. QED  BY <3>2, <3>3, EmptySeq
  <2>. QED  BY <2>1, <2>2 DEF Mailbox!Init, QueueOf
<1>2. ASSUME Inv, Inv', [Next]_vars
      PROVE  [early' \/ Mailbox!Next]_(Mailbox!vars)
  <2> SUFFICES ASSUME ~early'
               PROVE  [Mailbox!Next]_(Mailbox!vars)
    OBVIOUS
  <2>0. IInv
    BY <1>2, EarlyStays DEF Inv
  <2>1. /\ sent \in Seq([at: Nat, len: MsgSizes]) /\ taken \in 0 .. Len(sent)
        /\ Len(sent) \in Nat
    BY <2>0, QueueShown
  <2>2. ASSUME UNCHANGED <<sent, taken, last>>
        PROVE  UNCHANGED Mailbox!vars
    BY <2>2 DEF Mailbox!vars
  <2>3. CASE Writer
    <3> DEFINE m == [at |-> WriteStart, len |-> slen]
    <3>1. /\ UNCHANGED <<taken, last>>
          /\ UNCHANGED sent \/ (sent' = Append(sent, m) /\ m \in [at: Nat, len: MsgSizes])
      BY <2>0, <2>3, WriterSends DEF readerVars, readerHist, Completes
    <3>2. m.len = slen
      OBVIOUS
    <3> HIDE DEF m
    <3>3. CASE UNCHANGED sent
      BY <2>2, <3>1, <3>3
    <3>4. CASE sent' = Append(sent, m) /\ m \in [at: Nat, len: MsgSizes]
      <4>1. QueueOf(sent', taken') =
              Append(QueueOf(sent, taken), [number |-> Len(sent) + 1, len |-> slen])
        BY <2>1, <3>1, <3>2, <3>4, QueueGrows
      <4>2. Len(sent') = Len(sent) + 1
        BY <2>1, <3>4, AppendProperties
      <4>3. Mailbox!Send(slen)
        BY <3>1, <4>1, <4>2 DEF Mailbox!Send, QueueOf
      <4>4. slen \in MsgSizes
        BY <3>2, <3>4
      <4>. QED  BY <4>3, <4>4 DEF Mailbox!Next, Mailbox!Send
    <3>. QED  BY <3>1, <3>3, <3>4
  <2>4. CASE PopHeader
    <3>1. /\ taken + 1 \in 1 .. Len(sent) /\ taken' = taken + 1
          /\ last' = [number |-> taken + 1, len |-> sent[taken + 1].len]
          /\ sent' = sent
      BY <2>0, <2>4, HeaderServed DEF Advance, writerVars
    <3>2. taken \in Nat /\ taken < Len(sent)
      BY <2>1, <3>1
    <3>3. /\ QueueOf(sent, taken) # <<>>
          /\ Head(QueueOf(sent, taken)) =
               [number |-> taken + 1, len |-> sent[taken + 1].len]
          /\ Tail(QueueOf(sent, taken)) = QueueOf(sent, taken + 1)
      BY <2>1, <3>2, QueueShrinks
    <3>4. Mailbox!Receive
      BY <3>1, <3>3 DEF Mailbox!Receive, QueueOf
    <3>. QED  BY <3>4 DEF Mailbox!Next
  <2>5. CASE Reader /\ ~PopHeader
    BY <2>2, <2>5, OthersStutter
  <2>6. CASE UNCHANGED vars
    BY <2>2, <2>6 DEF vars
  <2>. QED  BY <1>2, <2>3, <2>4, <2>5, <2>6 DEF Next
<1>. QED  BY <1>1, <1>2, Invariance, PTL DEF Spec, ImplementsQueue

-----------------------------------------------------------------------------
(***************************************************************************)
(* IccFifoStores: one step is one load or store of an index.  The messages *)
(* are never padded; the theorem on what a receive hands over also needs   *)
(* payloads that the end of the ring does not tear.                        *)
(***************************************************************************)
Stores == INSTANCE IccFifoStores

\* No payload is padded, and none is torn by the end of the ring: it may begin
\* behind that end, or end there.
Unpadded == \A len \in MsgSizes : Padding(len) = 0
NeverTorn ==
  w.pc = "store" /\ w.part = "payload" /\ ~w.wrapped =>
    tail = FifoSize \/ w.len <= FifoSize - tail

\* The part the writer stores, and how much of its message it has stored; the
\* part the reader loads, of which message, and how much it has loaded.
PartSize == IF w.part = "header" THEN HeaderSize ELSE w.len
PartFrom == IF w.part = "header" THEN 0 ELSE HeaderSize
StoredSoFar == PartFrom + (IF w.pc = "store_rest" THEN w.done ELSE 0)
DueSize == IF r.part = "header" THEN HeaderSize ELSE r.len
DueFrom == IF r.part = "header" THEN 0 ELSE HeaderSize
LoadedSoFar == DueFrom + (IF r.pc = "store_rest" THEN Len(r.got) ELSE 0)
Taking == IF r.part = "header" THEN taken + 1 ELSE taken

\* What the variables hold; where no payload is padded neither call reaches its
\* place "pad".
WriterKinds ==
  /\ tail \in Index /\ buf \in [0 .. FifoSize - 1 -> Nat \X Nat]
  /\ w \in [pc: {"idle", "fits", "order", "store", "store_rest"},
            part: {"header", "payload"}, len: MsgSizes \union {0},
            free: 0 .. FifoSize, wrapped: BOOLEAN, done: 0 .. FifoSize]
  /\ sent \in Seq(MsgSizes) /\ wbase \in Nat
ReaderKinds ==
  /\ head \in Index
  /\ r \in [pc: {"idle", "pending", "order", "store", "store_rest"},
            part: {"header", "payload"}, len: MsgSizes \union {0},
            pending: 0 .. FifoSize, wrapped: BOOLEAN, got: Seq(Nat \X Nat)]
  /\ rret \in {"none", "SUCCESS"} /\ out \in Seq(Nat \X Nat)
  /\ taken \in Nat /\ rbase \in Nat

\* The indexes are in the same lap, or the writer is one lap ahead.
StoresLaps ==
  \/ wbase = rbase /\ head <= tail
  \/ wbase = rbase + FifoSize /\ tail < head

\* The writer's place: it wraps only while both indexes are in one lap.
WriterPlace ==
  /\ w.pc \in {"idle", "fits"} => w.part = "header"
  /\ w.pc # "idle" => w.len \in MsgSizes
  /\ w.pc = "store" =>
       IF w.wrapped THEN tail + PartSize <= FifoSize ELSE wbase = rbase
  /\ w.pc = "store_rest" =>
       tail = 0 /\ w.done < PartSize /\ PartSize - w.done <= FifoSize

\* The same where NeverTorn holds.
WriterStep ==
  WriterPlace /\ (w.pc = "store_rest" /\ w.part = "payload" => w.done = 0)

\* The room the writer found is still there.
RoomLeft ==
  /\ w.pc = "fits" => WritePos + w.free <= ReadPos + FifoSize
  /\ w.pc \in {"order", "store", "store_rest"} =>
       LET rest == HeaderSize + w.len - StoredSoFar IN
       \/ WritePos + rest < ReadPos + FifoSize
       \/ wbase = rbase /\ head = 0 /\ tail + rest = FifoSize

\* The n-th message begins at starts[n]; the last one is being stored.
Starts(starts) ==
  /\ \A n \in 1 .. Len(sent) : starts[n + 1] = starts[n] + HeaderSize + sent[n]
  /\ \A m, n \in 1 .. Len(sent) + 1 :
       m < n => starts[m] + HeaderSize + sent[m] <= starts[n]
  /\ WritePos = starts[Len(sent) + 1] + StoredSoFar
  /\ Taking \in 1 .. Len(sent) + 1 /\ ReadPos = starts[Taking] + LoadedSoFar

\* The reader's place: it takes messages that are stored to the end.
ReaderStep ==
  /\ r.part = "header" /\ r.pc # "idle" => taken < Len(sent)
  /\ r.part = "payload" =>
       r.pc # "idle" /\ taken \in 1 .. Len(sent) /\ r.len = sent[taken]
  /\ r.pc = "order" => DueSize <= r.pending /\ r.pending <= WritePos - ReadPos
  /\ r.pc = "store" =>
       IF r.wrapped THEN wbase = rbase + FifoSize ELSE head + DueSize <= FifoSize
  /\ r.pc = "store_rest" =>
       /\ head = 0 /\ Len(r.got) < DueSize
       /\ \A i \in 1 .. Len(r.got) : r.got[i] = Byte(Taking, DueFrom + i - 1)

\* The ring index of a position ahead of the reader, and what lies there.
Place(p) == IF p - rbase < FifoSize THEN p - rbase ELSE p - rbase - FifoSize
UnreadBytes(starts) ==
  \A n \in 1 .. Len(sent) + 1 : \A i \in Nat :
    /\ ReadPos <= starts[n] + i /\ starts[n] + i < WritePos
    /\ n <= Len(sent) => i < HeaderSize + sent[n]
    => buf[Place(starts[n] + i)] = Byte(n, i)

\* The inductive invariant: some starts place the messages one behind the other
\* in the stream, and the unread part of it lies in the ring.
StoresInv ==
  /\ WriterKinds /\ ReaderKinds /\ StoresLaps
  /\ WriterStep /\ RoomLeft /\ ReaderStep /\ HandedOverWhole
  /\ \E starts \in [1 .. Len(sent) + 1 -> Nat] : Starts(starts) /\ UnreadBytes(starts)

-----------------------------------------------------------------------------
(***************************************************************************)
(* What the steps do.                                                      *)
(***************************************************************************)
\* The operators of FifoOps as IccFifoStores sees them.
LEMMA StoresOps ==
  ASSUME NEW h, NEW t, NEW n
  PROVE  /\ Stores!PendingBytes(h, t) = PendingBytes(h, t)
         /\ Stores!FreeBytes(h, t) = FreeBytes(h, t)
         /\ Stores!WrappedAround(h, t) <=> t < h
         /\ Stores!RealSize(n) = RealSize(n) /\ Stores!Padding(n) = Padding(n)
         /\ \A m, at, from, len : Stores!Stored(m, at, n, from, len) = Stored(m, at, n, from, len)
         /\ \A i : Stores!Byte(n, i) = Byte(n, i)
         /\ Stores!Writing = Len(sent) + 1
         /\ Stores!PushSize = PartSize /\ Stores!PushFrom = PartFrom /\ Stores!PopSize = DueSize
<1>1. Stores!ExcessAlign(n) = ExcessAlign(n)
  BY DEF Stores!ExcessAlign, ExcessAlign
<1>2. Stores!Padding(n) = Padding(n)
  BY <1>1 DEF Stores!Padding, Padding
<1>3. Stores!RealSize(n) = RealSize(n)
  BY <1>2 DEF Stores!RealSize, RealSize
<1>4. \A m, at, from, len : Stores!Stored(m, at, n, from, len) = Stored(m, at, n, from, len)
  BY DEF Stores!Stored, Stored, Stores!Byte, Byte
<1>5. \A i : Stores!Byte(n, i) = Byte(n, i)
  BY DEF Stores!Byte, Byte
<1>6. /\ Stores!PendingBytes(h, t) = PendingBytes(h, t)
      /\ Stores!FreeBytes(h, t) = FreeBytes(h, t)
      /\ Stores!WrappedAround(h, t) <=> t < h
  BY DEF Stores!PendingBytes, PendingBytes, Stores!FreeBytes, FreeBytes, Stores!WrappedAround,
     WrappedAround
<1>7. Stores!PushSize = PartSize /\ Stores!PushFrom = PartFrom /\ Stores!PopSize = DueSize /\ Stores!Writing = Len(sent) + 1
  BY DEF Stores!PushSize, PartSize, Stores!PushFrom, PartFrom, Stores!PopSize, DueSize,
     Stores!Writing
<1> QED
  BY <1>2, <1>3, <1>4, <1>5, <1>6, <1>7

\* The two calls at rest.
Idle == [pc |-> "idle", part |-> "header", len |-> 0, free |-> 0, wrapped |-> FALSE, done |-> 0]
AtRest == [pc |-> "idle", part |-> "header", len |-> 0, pending |-> 0, wrapped |-> FALSE, got |-> <<>>]

\* Behind the last store of a part, and behind the last load of one.
PartStored ==
  IF w.part = "header"
  THEN w' = [w EXCEPT !.pc = "order", !.part = "payload", !.done = 0] /\ sent' = sent
  ELSE w' = Idle /\ sent' = Append(sent, w.len)
PartLoaded(bytes) ==
  IF r.part = "header"
  THEN /\ \E len \in Stores!HeaderValues(bytes) :
            r' = [AtRest EXCEPT !.pc = "pending", !.part = "payload", !.len = len]
       /\ taken' = taken + 1 /\ rret' = rret /\ out' = out
  ELSE r' = AtRest /\ rret' = "SUCCESS" /\ out' = bytes /\ taken' = taken

\* What a step of the writer leaves alone, and what one of the reader does.
ReaderUntouched == UNCHANGED <<head, r, rret, out, taken, rbase>>
WriterUntouched == UNCHANGED <<tail, buf, w, sent, wbase>>

\* The steps of the writer, those that only load written out.
LEMMA LocalWriterSteps ==
  ASSUME Stores!Writer
  PROVE  /\ ReaderUntouched
         /\ \/ /\ UNCHANGED <<tail, buf, sent, wbase>>
               /\ \/ \E len \in MsgSizes :
                        w.pc = "idle" /\ w' = [Idle EXCEPT !.pc = "fits", !.len = len, !.free = FreeBytes(head, tail)]
                  \/ w.pc = "fits" /\ w' = Idle
                  \/ /\ w.pc = "fits" /\ w' = [w EXCEPT !.pc = "order"]
                     /\ RealSize(w.len) <= w.free
                     /\ RealSize(w.len) # w.free \/ (~(tail < head) /\ HeaderSize + w.len <= FifoSize - tail)
                  \/ w.pc = "order" /\ w' = [w EXCEPT !.pc = "store", !.wrapped = (tail < head)]
            \/ Stores!StoreTail
            \/ Stores!StoreTailZero
            \/ Stores!StoreTailAgain
<1> USE StoresOps DEF Idle, Stores!WriterIdle, Stores!readerVars, ReaderUntouched
<1>1. ASSUME NEW len \in MsgSizes, Stores!LoadFree(len)
      PROVE  /\ ReaderUntouched /\ UNCHANGED <<tail, buf, sent, wbase>>
             /\ w.pc = "idle" /\ w' = [Idle EXCEPT !.pc = "fits", !.len = len, !.free = FreeBytes(head, tail)]
  BY <1>1 DEF Stores!LoadFree
<1>2. ASSUME Stores!CheckFits
      PROVE  /\ ReaderUntouched /\ UNCHANGED <<tail, buf, sent, wbase>> /\ w.pc = "fits"
             /\ \/ w' = Idle
                \/ /\ w' = [w EXCEPT !.pc = "order"]
                   /\ RealSize(w.len) <= w.free
                   /\ RealSize(w.len) # w.free \/ (~(tail < head) /\ HeaderSize + w.len <= FifoSize - tail)
  <2>1. Stores!FitsIn(w.free, Stores!WrappedAround(head, tail), w.len) <=>
          /\ RealSize(w.len) <= w.free
          /\ RealSize(w.len) # w.free \/ (~(tail < head) /\ HeaderSize + w.len <= FifoSize - tail)
    BY DEF Stores!FitsIn
  <2> QED
    BY ONLY <1>2, <2>1 DEF Stores!CheckFits, Idle, Stores!WriterIdle, Stores!readerVars,
       ReaderUntouched
<1>3. ASSUME Stores!LoadPushOrder
      PROVE  /\ ReaderUntouched /\ UNCHANGED <<tail, buf, sent, wbase>> /\ w.pc = "order"
             /\ w' = [w EXCEPT !.pc = "store", !.wrapped = (tail < head)]
  <2>1. Stores!WrappedAround(head, tail) = (tail < head)
    BY DEF Stores!WrappedAround
  <2> QED
    BY ONLY <1>3, <2>1 DEF Stores!LoadPushOrder, Stores!readerVars, ReaderUntouched
<1>4. ASSUME Stores!StoreTail \/ Stores!StoreTailZero \/ Stores!StoreTailAgain
      PROVE  ReaderUntouched
  BY ONLY <1>4 DEF Stores!StoreTail, Stores!StoreTailZero, Stores!StoreTailAgain,
     Stores!readerVars, ReaderUntouched
<1> QED
  BY ONLY Stores!Writer, <1>1, <1>2, <1>3, <1>4 DEF Stores!Writer

\* The stores of tail, at the end of the ring and behind a part, where nothing
\* is padded.
LEMMA StoringSteps ==
  ASSUME Unpadded, w.part # "header" => w.len \in MsgSizes, w.pc # "pad",
         Stores!StoreTail \/ Stores!StoreTailAgain \/ Stores!StoreTailZero
  PROVE  \/ /\ w.pc = "store" /\ (w.wrapped \/ PartSize <= FifoSize - tail)
            /\ buf' = Stored(buf, tail, Len(sent) + 1, PartFrom, PartSize)
            /\ tail' = tail + PartSize /\ wbase' = wbase /\ PartStored
         \/ /\ w.pc = "store_rest"
            /\ buf' = Stored(buf, 0, Len(sent) + 1, PartFrom + w.done, PartSize - w.done)
            /\ tail' = tail + (PartSize - w.done) /\ wbase' = wbase /\ PartStored
         \/ /\ w.pc = "store" /\ ~w.wrapped /\ FifoSize - tail < PartSize
            /\ buf' = Stored(buf, tail, Len(sent) + 1, PartFrom, FifoSize - tail)
            /\ tail' = 0 /\ wbase' = wbase + FifoSize /\ sent' = sent
            /\ w' = [w EXCEPT !.pc = "store_rest", !.done = FifoSize - tail]
<1> USE DEF Stores!Writing
<1>1. Stores!PushPadding = 0
  <2>1. Stores!Padding(w.len) = Padding(w.len)
    BY StoresOps
  <2> QED
    BY ONLY <2>1, Unpadded, w.part # "header" => w.len \in MsgSizes DEF Stores!PushPadding,
       Unpadded
<1>2. Stores!BytesPushed => PartStored
  BY <1>1 DEF Stores!BytesPushed, Stores!PartPushed, PartStored, Idle, Stores!WriterIdle
<1>3. /\ \A m, at, from, len : Stores!Stored(m, at, Len(sent) + 1, from, len) = Stored(m, at, Len(sent) + 1, from, len)
      /\ Stores!PushSize = PartSize /\ Stores!PushFrom = PartFrom
  BY StoresOps
<1>4. ASSUME Stores!StoreTail
      PROVE  /\ w.pc = "store" /\ (w.wrapped \/ PartSize <= FifoSize - tail)
             /\ buf' = Stored(buf, tail, Len(sent) + 1, PartFrom, PartSize)
             /\ tail' = tail + PartSize /\ wbase' = wbase /\ PartStored
  BY ONLY <1>2, <1>3, <1>4 DEF Stores!StoreTail, Stores!Writing
<1>5. ASSUME Stores!StoreTailAgain
      PROVE  /\ w.pc = "store_rest"
             /\ buf' = Stored(buf, 0, Len(sent) + 1, PartFrom + w.done, PartSize - w.done)
             /\ tail' = tail + (PartSize - w.done) /\ wbase' = wbase /\ PartStored
  BY ONLY <1>2, <1>3, <1>5, w.pc # "pad" DEF Stores!StoreTailAgain, Stores!Writing
<1>6. ASSUME Stores!StoreTailZero
      PROVE  /\ w.pc = "store" /\ ~w.wrapped /\ FifoSize - tail < PartSize
             /\ buf' = Stored(buf, tail, Len(sent) + 1, PartFrom, FifoSize - tail)
             /\ tail' = 0 /\ wbase' = wbase + FifoSize /\ sent' = sent
             /\ w' = [w EXCEPT !.pc = "store_rest", !.done = FifoSize - tail]
  BY ONLY <1>3, <1>6 DEF Stores!StoreTailZero, Stores!Writing
<1> QED
  BY ONLY <1>4, <1>5, <1>6, Stores!StoreTail \/ Stores!StoreTailAgain \/ Stores!StoreTailZero

\* The steps of the reader, those that only load written out.
LEMMA LocalReaderSteps ==
  ASSUME Stores!Reader
  PROVE  /\ WriterUntouched
         /\ \/ /\ UNCHANGED <<head, out, taken, rbase>>
               /\ \/ /\ r.pc = "idle" /\ PendingBytes(head, tail) > HeaderSize
                     /\ r' = [AtRest EXCEPT !.pc = "pending"] /\ rret' = rret
                  \/ /\ r.pc = "pending" /\ rret' = rret
                     /\ r' = [r EXCEPT !.pc = "order", !.pending = PendingBytes(head, tail)]
                  \/ r.pc = "order" /\ DueSize > r.pending /\ r' = AtRest
                  \/ /\ r.pc = "order" /\ ~(DueSize > r.pending) /\ rret' = rret
                     /\ r' = [r EXCEPT !.pc = "store", !.wrapped = (tail < head)]
            \/ Stores!StoreHead
            \/ Stores!StoreHeadZero
            \/ Stores!StoreHeadAgain
<1>1. ASSUME Stores!CheckPending
      PROVE  /\ WriterUntouched /\ UNCHANGED <<head, out, taken, rbase>>
             /\ r.pc = "idle" /\ PendingBytes(head, tail) > HeaderSize
             /\ r' = [AtRest EXCEPT !.pc = "pending"] /\ rret' = rret
  <2>1. Stores!PendingBytes(head, tail) = PendingBytes(head, tail)
    BY StoresOps
  <2> QED
    BY ONLY <1>1, <2>1 DEF Stores!CheckPending, Stores!writerVars, WriterUntouched, AtRest,
       Stores!ReaderIdle
<1>2. ASSUME Stores!LoadPending
      PROVE  /\ WriterUntouched /\ UNCHANGED <<head, out, taken, rbase>>
             /\ r.pc = "pending" /\ rret' = rret
             /\ r' = [r EXCEPT !.pc = "order", !.pending = PendingBytes(head, tail)]
  <2>1. Stores!PendingBytes(head, tail) = PendingBytes(head, tail)
    BY StoresOps
  <2> QED
    BY ONLY <1>2, <2>1 DEF Stores!LoadPending, Stores!writerVars, WriterUntouched
<1>3. ASSUME Stores!LoadPopOrder
      PROVE  /\ WriterUntouched /\ UNCHANGED <<head, out, taken, rbase>> /\ r.pc = "order"
             /\ \/ DueSize > r.pending /\ r' = AtRest
                \/ /\ ~(DueSize > r.pending) /\ rret' = rret
                   /\ r' = [r EXCEPT !.pc = "store", !.wrapped = (tail < head)]
  <2>1. Stores!WrappedAround(head, tail) = (tail < head)
    BY DEF Stores!WrappedAround
  <2>2. Stores!PopSize = DueSize
    BY StoresOps
  <2> QED
    BY ONLY <1>3, <2>1, <2>2
    DEF Stores!LoadPopOrder, Stores!writerVars, WriterUntouched, AtRest, Stores!ReaderIdle
<1>4. ASSUME Stores!StoreHead \/ Stores!StoreHeadZero \/ Stores!StoreHeadAgain
      PROVE  WriterUntouched
  BY ONLY <1>4 DEF Stores!StoreHead, Stores!StoreHeadZero, Stores!StoreHeadAgain,
     Stores!writerVars, WriterUntouched
<1> QED
  BY ONLY Stores!Reader, <1>1, <1>2, <1>3, <1>4 DEF Stores!Reader

\* The stores of head, at the end of the ring and behind a part, where nothing
\* is padded.
LEMMA LoadingSteps ==
  ASSUME Unpadded, r.pc # "pad",
         r.pc \in {"store", "store_rest"} /\ r.part # "header" => r.len \in MsgSizes,
         Stores!StoreHead \/ Stores!StoreHeadAgain \/ Stores!StoreHeadZero
  PROVE  \/ /\ r.pc = "store" /\ (~r.wrapped \/ DueSize <= FifoSize - head)
            /\ head' = head + DueSize /\ rbase' = rbase /\ PartLoaded(Stores!Read(head, DueSize))
         \/ /\ r.pc = "store_rest"
            /\ head' = head + (DueSize - Len(r.got)) /\ rbase' = rbase
            /\ PartLoaded(r.got \o Stores!Read(0, DueSize - Len(r.got)))
         \/ /\ r.pc = "store" /\ r.wrapped /\ FifoSize - head < DueSize
            /\ head' = 0 /\ rbase' = rbase + FifoSize
            /\ r' = [r EXCEPT !.pc = "store_rest", !.got = Stores!Read(head, FifoSize - head)]
            /\ UNCHANGED <<rret, out, taken>>
<1>1. Stores!PopPadding = 0
  <2>0. r.pc \in {"store", "store_rest"}
    BY DEF Stores!StoreHead, Stores!StoreHeadAgain, Stores!StoreHeadZero
  <2>1. Stores!Padding(r.len) = Padding(r.len)
    BY StoresOps
  <2> QED
    BY <2>0, <2>1 DEF Stores!PopPadding, Unpadded
<1>2. ASSUME NEW bytes, Stores!BytesPopped(bytes)
      PROVE  PartLoaded(bytes)
  BY ONLY <1>1, <1>2 DEF Stores!BytesPopped, Stores!PartPopped, PartLoaded, AtRest,
     Stores!ReaderIdle
<1>3. Stores!PopSize = DueSize
  BY StoresOps
<1>4. ASSUME Stores!StoreHead
      PROVE  /\ r.pc = "store" /\ (~r.wrapped \/ DueSize <= FifoSize - head)
             /\ head' = head + DueSize /\ rbase' = rbase /\ PartLoaded(Stores!Read(head, DueSize))
  BY ONLY <1>2, <1>3, <1>4 DEF Stores!StoreHead
<1>5. ASSUME Stores!StoreHeadAgain
      PROVE  /\ r.pc = "store_rest"
             /\ head' = head + (DueSize - Len(r.got)) /\ rbase' = rbase
             /\ PartLoaded(r.got \o Stores!Read(0, DueSize - Len(r.got)))
  BY ONLY <1>2, <1>3, <1>5, r.pc # "pad" DEF Stores!StoreHeadAgain
<1>6. ASSUME Stores!StoreHeadZero
      PROVE  /\ r.pc = "store" /\ r.wrapped /\ FifoSize - head < DueSize
             /\ head' = 0 /\ rbase' = rbase + FifoSize
             /\ r' = [r EXCEPT !.pc = "store_rest", !.got = Stores!Read(head, FifoSize - head)]
             /\ UNCHANGED <<rret, out, taken>>
  BY ONLY <1>3, <1>6 DEF Stores!StoreHeadZero
<1> QED
  BY ONLY <1>4, <1>5, <1>6, Stores!StoreHead \/ Stores!StoreHeadAgain \/ Stores!StoreHeadZero

-----------------------------------------------------------------------------
(***************************************************************************)
(* The numbers they compute with, and the positions in the stream.         *)
(***************************************************************************)
\* Numbers the steps compute with.
LEMMA SizesAreNumbers ==
  /\ FifoSize \in Nat \ {0} /\ HeaderSize \in Nat \ {0}
  /\ \A len \in MsgSizes : len \in Nat \ {0}
  BY FifoAssumption, SizesAssumption

\* What ICC_FIFO_Pending and ICC_FIFO_Free compute from the two indexes is how
\* far the writer is ahead of the reader, and the rest of the ring.
LEMMA LapPositions ==
  ASSUME head \in Index, tail \in Index, wbase \in Nat, rbase \in Nat, StoresLaps
  PROVE  /\ WritePos \in Nat /\ ReadPos \in Nat
         /\ ReadPos <= WritePos /\ WritePos <= ReadPos + FifoSize
         /\ PendingBytes(head, tail) = WritePos - ReadPos
         /\ FreeBytes(head, tail) = FifoSize - (WritePos - ReadPos)
  BY ONLY SizesAreNumbers, StoresLaps, head \in Index, tail \in Index, wbase \in Nat, rbase \in
     Nat
     DEF Index, StoresLaps, WritePos, ReadPos, PendingBytes, FreeBytes, WrappedAround

\* The same, of the kinds of the variables.
LEMMA StreamPositions ==
  ASSUME WriterKinds, ReaderKinds, StoresLaps
  PROVE  /\ WritePos \in Nat /\ ReadPos \in Nat
         /\ ReadPos <= WritePos /\ WritePos <= ReadPos + FifoSize
         /\ PendingBytes(head, tail) = WritePos - ReadPos
         /\ FreeBytes(head, tail) = FifoSize - (WritePos - ReadPos)
  BY LapPositions DEF WriterKinds, ReaderKinds

\* The writer's numbers.
LEMMA PlaceNumbers ==
  ASSUME WriterKinds, WriterPlace
  PROVE  /\ StoredSoFar \in Nat /\ PartFrom \in Nat /\ PartSize \in Nat
         /\ w.len \in Nat /\ w.done \in Nat /\ w.free \in Nat
         /\ w.pc # "idle" => w.len \in Nat \ {0} /\ PartSize \in Nat \ {0}
         /\ w.part = "header" \/ w.part = "payload"
         /\ PartFrom + PartSize <= HeaderSize + w.len
         /\ w.part = "payload" => PartFrom + PartSize = HeaderSize + w.len
         /\ w.pc # "store_rest" => StoredSoFar = PartFrom
         /\ w.pc = "store_rest" => StoredSoFar = PartFrom + w.done
<1>1. /\ w.part = "header" \/ w.part = "payload"
      /\ w.len \in Nat /\ w.done \in Nat /\ w.free \in Nat
      /\ w.pc # "idle" => w.len \in Nat \ {0}
  BY SizesAreNumbers DEF WriterKinds, WriterPlace
<1> QED
  BY ONLY <1>1, SizesAreNumbers DEF StoredSoFar, PartFrom, PartSize

\* The same, where no payload is torn.
LEMMA WriterNumbers ==
  ASSUME WriterKinds, WriterStep
  PROVE  /\ StoredSoFar \in Nat /\ PartFrom \in Nat /\ PartSize \in Nat
         /\ w.len \in Nat /\ w.done \in Nat /\ w.free \in Nat
         /\ w.pc # "idle" => w.len \in Nat \ {0} /\ PartSize \in Nat \ {0}
         /\ w.part = "header" \/ w.part = "payload"
         /\ PartFrom + PartSize <= HeaderSize + w.len
         /\ StoredSoFar <= HeaderSize
         /\ w.pc # "store_rest" => StoredSoFar = PartFrom
         /\ w.pc = "store_rest" => StoredSoFar = PartFrom + w.done
<1>1. WriterPlace /\ w.done \in Nat /\ (w.part = "header" \/ w.part = "payload")
  BY DEF WriterStep, WriterKinds
<1>2. w.pc = "store_rest" => w.done < PartSize /\ (w.part = "payload" => w.done = 0)
  BY DEF WriterStep, WriterPlace
<1>3. StoredSoFar <= HeaderSize
  BY ONLY <1>1, <1>2, SizesAreNumbers DEF StoredSoFar, PartFrom, PartSize
<1> QED
  BY <1>1, <1>3, PlaceNumbers

\* The reader's numbers, and the message it takes.
LEMMA ReaderNumbers ==
  ASSUME ReaderKinds, WriterKinds, ReaderStep
  PROVE  /\ LoadedSoFar \in Nat /\ DueFrom \in Nat /\ DueSize \in Nat
         /\ r.len \in Nat /\ Len(r.got) \in Nat /\ r.pending \in Nat
         /\ r.pc # "idle" => DueSize \in Nat \ {0}
         /\ r.part = "header" \/ r.part = "payload"
         /\ r.pc # "store_rest" => LoadedSoFar = DueFrom
         /\ r.pc = "store_rest" => LoadedSoFar = DueFrom + Len(r.got)
         /\ r.pc # "idle" => /\ Taking \in 1 .. Len(sent)
                             /\ DueFrom + DueSize <= HeaderSize + sent[Taking]
                             /\ r.part = "payload" => DueFrom + DueSize = HeaderSize + sent[Taking]
         /\ Len(sent) \in Nat /\ \A n \in 1 .. Len(sent) : sent[n] \in MsgSizes /\ sent[n] \in Nat \ {0}
<1>1. /\ r.part = "header" \/ r.part = "payload"
      /\ r.len \in Nat /\ Len(r.got) \in Nat /\ r.pending \in Nat /\ taken \in Nat
  BY SizesAreNumbers DEF ReaderKinds
<1>2. Len(sent) \in Nat /\ \A n \in 1 .. Len(sent) : sent[n] \in MsgSizes /\ sent[n] \in Nat \ {0}
  <2>1. sent \in Seq(MsgSizes)
    BY DEF WriterKinds
  <2>2. Len(sent) \in Nat /\ \A n \in 1 .. Len(sent) : sent[n] \in MsgSizes
    BY ONLY <2>1
  <2> QED
    BY ONLY <2>2, SizesAreNumbers
<1>3. /\ r.part = "header" /\ r.pc # "idle" => taken < Len(sent)
      /\ r.part = "payload" => taken \in 1 .. Len(sent) /\ r.len = sent[taken]
  BY DEF ReaderStep
<1>4. CASE r.part = "header"
  <2>1. DueSize = HeaderSize /\ DueFrom = 0 /\ Taking = taken + 1
    BY <1>4 DEF DueSize, DueFrom, Taking
  <2>2. LoadedSoFar = IF r.pc = "store_rest" THEN Len(r.got) ELSE 0
    BY ONLY <1>1, <2>1 DEF LoadedSoFar
  <2>3. r.pc # "idle" => Taking \in 1 .. Len(sent) /\ sent[Taking] \in Nat \ {0}
    BY ONLY <1>1, <1>2, <1>3, <1>4, <2>1
  <2> QED
    BY ONLY <1>1, <1>2, <1>4, <2>1, <2>2, <2>3, SizesAreNumbers
<1>5. CASE r.part = "payload"
  <2>1. DueSize = r.len /\ DueFrom = HeaderSize /\ Taking = taken
    BY <1>5 DEF DueSize, DueFrom, Taking
  <2>2. LoadedSoFar = HeaderSize + (IF r.pc = "store_rest" THEN Len(r.got) ELSE 0)
    BY ONLY <1>1, <2>1 DEF LoadedSoFar
  <2>3. Taking \in 1 .. Len(sent) /\ r.len = sent[Taking] /\ sent[Taking] \in Nat \ {0}
    BY ONLY <1>1, <1>2, <1>3, <1>5, <2>1
  <2> QED
    BY ONLY <1>1, <1>2, <1>5, <2>1, <2>2, <2>3, SizesAreNumbers
<1> QED
  BY ONLY <1>1, <1>4, <1>5

\* Places in the ring: an unread position is not where the writer stores, and
\* a position it stores has a place of its own.
LEMMA PlacesApart ==
  ASSUME NEW h \in 0 .. FifoSize, NEW t \in 0 .. FifoSize, NEW hb \in Nat, NEW tb \in Nat,
         (tb = hb /\ h <= t) \/ (tb = hb + FifoSize /\ t < h),
         NEW k \in Nat, t + k <= FifoSize, tb + t + k <= hb + h + FifoSize,
         NEW p \in Nat, hb + h <= p, p < tb + t + k,
         NEW q, q = IF p - hb < FifoSize THEN p - hb ELSE p - hb - FifoSize
  PROVE  /\ q \in 0 .. FifoSize - 1
         /\ p < tb + t => ~(q \in t .. t + k - 1)
         /\ ~(p < tb + t) => q \in t .. t + k - 1 /\ q - t = p - (tb + t)
<1>1. FifoSize \in Nat \ {0}
  BY SizesAreNumbers
<1>2. CASE tb = hb /\ h <= t
  BY ONLY <1>1, <1>2, h \in 0 .. FifoSize, t \in 0 .. FifoSize, hb \in Nat, tb \in Nat, k \in Nat,
     t + k <= FifoSize, tb + t + k <= hb + h + FifoSize, p \in Nat, hb + h <= p, p < tb + t + k,
     q = IF p - hb < FifoSize THEN p - hb ELSE p - hb - FifoSize
<1>3. CASE tb = hb + FifoSize /\ t < h
  BY ONLY <1>1, <1>3, h \in 0 .. FifoSize, t \in 0 .. FifoSize, hb \in Nat, tb \in Nat, k \in Nat,
     t + k <= FifoSize, tb + t + k <= hb + h + FifoSize, p \in Nat, hb + h <= p, p < tb + t + k,
     q = IF p - hb < FifoSize THEN p - hb ELSE p - hb - FifoSize
<1> QED
  BY <1>2, <1>3

\* The bytes the writer stores next lie behind all unread ones.
LEMMA BytesStored ==
  ASSUME WriterKinds, ReaderKinds, StoresLaps, WriterStep,
         NEW starts \in [1 .. Len(sent) + 1 -> Nat], Starts(starts), UnreadBytes(starts),
         NEW k \in Nat, tail + k <= FifoSize, WritePos + k <= ReadPos + FifoSize,
         NEW n \in 1 .. Len(sent) + 1, NEW i \in Nat,
         ReadPos <= starts[n] + i, starts[n] + i < WritePos + k,
         n <= Len(sent) => i < HeaderSize + sent[n]
  PROVE  Stored(buf, tail, Len(sent) + 1, StoredSoFar, k)[Place(starts[n] + i)] = Byte(n, i)
<1> DEFINE p == starts[n] + i
           q == Place(p)
<1>1. /\ head \in 0 .. FifoSize /\ tail \in 0 .. FifoSize /\ wbase \in Nat /\ rbase \in Nat
      /\ Len(sent) \in Nat /\ StoredSoFar \in Nat /\ FifoSize \in Nat \ {0} /\ HeaderSize \in Nat
      /\ \A m \in 1 .. Len(sent) : sent[m] \in Nat
  <2>1. /\ head \in 0 .. FifoSize /\ tail \in 0 .. FifoSize /\ wbase \in Nat /\ rbase \in Nat
        /\ sent \in Seq(MsgSizes)
    BY DEF WriterKinds, ReaderKinds, Index
  <2>2. StoredSoFar \in Nat
    BY WriterNumbers
  <2> QED
    BY ONLY <2>1, <2>2, SizesAreNumbers
<1>2. p \in Nat /\ ReadPos <= p /\ p < WritePos + k /\ p = starts[n] + i /\ starts[n] \in Nat
      /\ starts[Len(sent) + 1] \in Nat
  <2>1. starts[n] \in Nat
    OBVIOUS
  <2>2. Len(sent) + 1 \in 1 .. Len(sent) + 1
    BY ONLY <1>1
  <2>3. starts[Len(sent) + 1] \in Nat
    BY ONLY <2>2, starts \in [1 .. Len(sent) + 1 -> Nat]
  <2>4. p \in Nat
    BY ONLY <2>1, i \in Nat
  <2> QED
    BY <2>1, <2>3, <2>4
<1> HIDE DEF p
<1>3. /\ q \in 0 .. FifoSize - 1
      /\ p < WritePos => ~(q \in tail .. tail + k - 1)
      /\ ~(p < WritePos) => q \in tail .. tail + k - 1 /\ q - tail = p - WritePos
  <2>1. /\ (wbase = rbase /\ head <= tail) \/ (wbase = rbase + FifoSize /\ tail < head)
        /\ wbase + tail + k <= rbase + head + FifoSize /\ rbase + head <= p /\ p < wbase + tail + k
    <3>1. (wbase = rbase /\ head <= tail) \/ (wbase = rbase + FifoSize /\ tail < head)
      BY DEF StoresLaps
    <3>2. ReadPos <= p /\ p < WritePos + k
      BY <1>2
    <3> QED
      BY ONLY <3>1, <3>2, WritePos + k <= ReadPos + FifoSize DEF WritePos, ReadPos
  <2>2. q = IF p - rbase < FifoSize THEN p - rbase ELSE p - rbase - FifoSize
    BY DEF Place
  <2>3. p \in Nat
    BY <1>2
  <2> HIDE DEF q
  <2> QED
    BY ONLY <1>1, <2>1, <2>2, <2>3, PlacesApart, k \in Nat, tail + k <= FifoSize DEF WritePos
<1>4. CASE p < WritePos
  <2>1. buf[q] = Byte(n, i)
    BY ONLY <1>2, <1>4, UnreadBytes(starts), n \in 1 .. Len(sent) + 1, i \in Nat,
       n <= Len(sent) => i < HeaderSize + sent[n] DEF UnreadBytes
  <2> QED
    BY ONLY <2>1, <1>2, <1>3, <1>4 DEF Stored
<1>5. CASE ~(p < WritePos)
  <2>1. n = Len(sent) + 1
    <3>1. n <= Len(sent) => starts[n] + HeaderSize + sent[n] <= starts[Len(sent) + 1]
      <4>1. \A m, l \in 1 .. Len(sent) + 1 : m < l => starts[m] + HeaderSize + sent[m] <= starts[l]
        BY DEF Starts
      <4> QED
        BY ONLY <4>1, <1>1, n \in 1 .. Len(sent) + 1
    <3>2. starts[Len(sent) + 1] <= WritePos
      <4>1. WritePos = starts[Len(sent) + 1] + StoredSoFar
        BY DEF Starts
      <4> QED
        BY ONLY <4>1, <1>1, <1>2
    <3>3. WritePos \in Nat
      BY ONLY <1>1 DEF WritePos
    <3>4. ASSUME n <= Len(sent) PROVE FALSE
      <4>1. sent[n] \in Nat /\ i < HeaderSize + sent[n] /\ starts[n] + HeaderSize + sent[n] <= starts[Len(sent) + 1]
        BY ONLY <1>1, <3>1, <3>4, n \in 1 .. Len(sent) + 1, n <= Len(sent) => i < HeaderSize +
           sent[n]
      <4>2. p < starts[n] + HeaderSize + sent[n]
        <5>1. \A a, b \in Nat : i < HeaderSize + b => a + i < a + HeaderSize + b
          BY ONLY <1>1, i \in Nat
        <5> QED
          BY ONLY <1>2, <4>1, <5>1
      <4>3. starts[n] + HeaderSize + sent[n] \in Nat
        <5>1. \A a, b \in Nat : a + HeaderSize + b \in Nat
          BY ONLY <1>1
        <5> QED
          BY ONLY <1>2, <4>1, <5>1
      <4>4. \A x, y \in Nat : p < x /\ x <= y /\ y <= WritePos => p < WritePos
        BY ONLY <1>2, <3>3
      <4> QED
        BY ONLY <1>2, <1>5, <3>2, <4>1, <4>2, <4>3, <4>4
    <3> QED
      BY ONLY <1>1, <3>4, n \in 1 .. Len(sent) + 1
  <2>2. i = StoredSoFar + (p - WritePos)
    <3>1. WritePos = starts[n] + StoredSoFar
      BY <2>1 DEF Starts
    <3>2. p = starts[n] + i /\ starts[n] \in Nat /\ StoredSoFar \in Nat
      BY <1>1, <1>2
    <3> QED
      BY ONLY <3>1, <3>2, i \in Nat
  <2> HIDE DEF q
  <2>3. Stored(buf, tail, Len(sent) + 1, StoredSoFar, k)[q] = Byte(Len(sent) + 1, StoredSoFar + (q - tail))
    BY ONLY <1>3, <1>5 DEF Stored
  <2> QED
    BY ONLY <2>1, <2>2, <1>3, <1>5, <2>3 DEF q, p
<1> QED
  BY <1>4, <1>5 DEF p

\* The stream behind a store of the writer, in the middle of a message or at
\* the end of one.
LEMMA StreamGrows ==
  ASSUME WriterKinds, ReaderKinds, StoresLaps, WriterStep,
         NEW starts \in [1 .. Len(sent) + 1 -> Nat], Starts(starts), UnreadBytes(starts),
         NEW k \in Nat, tail + k <= FifoSize, WritePos + k <= ReadPos + FifoSize,
         buf' = Stored(buf, tail, Len(sent) + 1, StoredSoFar, k),
         WritePos' = WritePos + k, ReaderUntouched,
         \/ sent' = sent /\ StoredSoFar' = StoredSoFar + k
         \/ /\ sent' = Append(sent, w.len) /\ StoredSoFar' = 0
            /\ w.len \in Nat /\ StoredSoFar + k = HeaderSize + w.len
  PROVE  \E next \in [1 .. Len(sent') + 1 -> Nat] : Starts(next)' /\ UnreadBytes(next)'
<1>1. /\ Len(sent) \in Nat /\ HeaderSize \in Nat /\ WritePos \in Nat /\ StoredSoFar \in Nat
      /\ \A m \in 1 .. Len(sent) + 1 : starts[m] \in Nat
      /\ \A m \in 1 .. Len(sent) : sent[m] \in Nat
      /\ sent \in Seq(MsgSizes)
  <2>1. sent \in Seq(MsgSizes)
    BY DEF WriterKinds
  <2>2. WritePos \in Nat /\ StoredSoFar \in Nat
    BY StreamPositions, WriterNumbers
  <2> QED
    BY ONLY <2>1, <2>2, SizesAreNumbers, starts \in [1 .. Len(sent) + 1 -> Nat]
<1>2. UNCHANGED <<ReadPos, Taking, LoadedSoFar, rbase>>
  BY ONLY ReaderUntouched DEF ReaderUntouched, ReadPos, Taking, LoadedSoFar, DueFrom
<1>3. /\ \A n \in 1 .. Len(sent) : starts[n + 1] = starts[n] + HeaderSize + sent[n]
      /\ \A m, n \in 1 .. Len(sent) + 1 :
           m < n => starts[m] + HeaderSize + sent[m] <= starts[n]
      /\ WritePos = starts[Len(sent) + 1] + StoredSoFar
      /\ Taking \in 1 .. Len(sent) + 1 /\ ReadPos = starts[Taking] + LoadedSoFar
  BY DEF Starts
<1>4. ASSUME NEW n \in 1 .. Len(sent) + 1, NEW i \in Nat,
             ReadPos <= starts[n] + i, starts[n] + i < WritePos + k,
             n <= Len(sent) => i < HeaderSize + sent[n]
      PROVE  buf'[Place(starts[n] + i)'] = Byte(n, i)
  <2>1. buf'[Place(starts[n] + i)] = Byte(n, i)
    BY <1>4, BytesStored
  <2>2. Place(starts[n] + i)' = Place(starts[n] + i)
    BY ONLY <1>2 DEF Place
  <2> QED
    BY ONLY <2>1, <2>2
<1>5. CASE sent' = sent /\ StoredSoFar' = StoredSoFar + k
  <2>1. WritePos' = starts[Len(sent) + 1] + StoredSoFar'
    <3>1. starts[Len(sent) + 1] \in Nat
      BY ONLY <1>1
    <3> QED
      BY ONLY <1>1, <1>3, <1>5, <3>1, k \in Nat, WritePos' = WritePos + k
  <2>2. Starts(starts)'
    BY ONLY <1>2, <1>3, <1>5, <2>1 DEF Starts
  <2>3. UnreadBytes(starts)'
    <3> SUFFICES ASSUME NEW n \in 1 .. Len(sent') + 1, NEW i \in Nat,
                        ReadPos' <= starts[n] + i, starts[n] + i < WritePos',
                        n <= Len(sent') => i < HeaderSize + sent'[n]
                 PROVE  buf'[Place(starts[n] + i)'] = Byte(n, i)
      BY DEF UnreadBytes
    <3>1. n \in 1 .. Len(sent) + 1 /\ (n <= Len(sent) => i < HeaderSize + sent[n])
      BY ONLY <1>5, n \in 1 .. Len(sent') + 1, n <= Len(sent') => i < HeaderSize + sent'[n]
    <3>2. ReadPos <= starts[n] + i /\ starts[n] + i < WritePos + k
      BY ONLY <1>2, WritePos' = WritePos + k, ReadPos' <= starts[n] + i, starts[n] + i < WritePos'
    <3> QED
      BY ONLY <1>4, <3>1, <3>2, i \in Nat
  <2> QED
    BY ONLY <2>2, <2>3, <1>5, starts \in [1 .. Len(sent) + 1 -> Nat]
<1>6. CASE /\ sent' = Append(sent, w.len) /\ StoredSoFar' = 0
           /\ w.len \in Nat /\ StoredSoFar + k = HeaderSize + w.len
  <2> DEFINE l == Len(sent)
             longer == [m \in 1 .. l + 2 |-> IF m = l + 2 THEN WritePos + k ELSE starts[m]]
  <2>1. /\ Len(sent') = l + 1 /\ l \in Nat
        /\ \A m \in 1 .. l : sent'[m] = sent[m]
        /\ sent'[l + 1] = w.len
    <3>1. w.len \in MsgSizes \union Nat
      BY <1>6
    <3>2. sent \in Seq(MsgSizes \union Nat)
      BY ONLY <1>1
    <3> QED
      BY ONLY <1>1, <1>6, <3>1, <3>2
  <2>2a. /\ longer \in [1 .. l + 2 -> Nat] /\ longer[l + 2] = WritePos + k
        /\ \A m \in 1 .. l + 1 : longer[m] = starts[m]
    <3>1. WritePos + k \in Nat
      BY ONLY <1>1, k \in Nat
    <3>2. \A m \in 1 .. l + 2 : m # l + 2 => m \in 1 .. l + 1
      BY ONLY <2>1
    <3>3. \A m \in 1 .. l + 1 : m # l + 2 /\ m \in 1 .. l + 2
      BY ONLY <2>1
    <3>4. l + 2 \in 1 .. l + 2
      BY ONLY <2>1
    <3> QED
      BY ONLY <1>1, <3>1, <3>2, <3>3, <3>4
  <2>2. PICK next \in [1 .. l + 2 -> Nat] :
          next[l + 2] = WritePos + k /\ \A m \in 1 .. l + 1 : next[m] = starts[m]
    BY <2>2a
  <2>3. next[l + 2] = starts[l + 1] + HeaderSize + w.len /\ starts[l + 1] \in Nat
    <3>1. starts[l + 1] \in Nat
      BY ONLY <1>1
    <3>2. WritePos = starts[l + 1] + StoredSoFar /\ next[l + 2] = WritePos + k
      BY ONLY <1>3, <2>2
    <3>3. StoredSoFar + k = HeaderSize + w.len /\ w.len \in Nat /\ StoredSoFar \in Nat /\ HeaderSize \in Nat
      BY ONLY <1>1, <1>6
    <3>4. \A a, b, c, d \in Nat : b + k = c + d => (a + b) + k = a + c + d
      BY ONLY k \in Nat
    <3>5. (starts[l + 1] + StoredSoFar) + k = starts[l + 1] + HeaderSize + w.len
      <4>1. \A a \in Nat : (a + StoredSoFar) + k = a + HeaderSize + w.len
        BY ONLY <3>3, k \in Nat
      <4> QED
        BY ONLY <3>1, <4>1
    <3> QED
      BY ONLY <3>1, <3>2, <3>5
  <2>4. \A n \in 1 .. l + 1 : next[n + 1] = next[n] + HeaderSize + sent'[n]
    <3> SUFFICES ASSUME NEW n \in 1 .. l + 1
                 PROVE  next[n + 1] = next[n] + HeaderSize + sent'[n]
      OBVIOUS
    <3>1. CASE n = l + 1
      <4>1. n + 1 = l + 2 /\ l + 1 \in 1 .. l + 1
        BY ONLY <2>1, <3>1
      <4> QED
        BY ONLY <2>1, <2>2, <2>3, <3>1, <4>1
    <3>2. CASE n # l + 1
      <4>1. n \in 1 .. l /\ n + 1 \in 1 .. l + 1
        BY ONLY <2>1, <3>2, n \in 1 .. l + 1
      <4> QED
        BY ONLY <1>3, <2>1, <2>2, <4>1, n \in 1 .. l + 1
    <3> QED
      BY <3>1, <3>2
  <2>5. \A m, n \in 1 .. l + 2 : m < n => next[m] + HeaderSize + sent'[m] <= next[n]
    <3> SUFFICES ASSUME NEW m \in 1 .. l + 2, NEW n \in 1 .. l + 2, m < n
                 PROVE  next[m] + HeaderSize + sent'[m] <= next[n]
      OBVIOUS
    <3>0. l + 1 \in 1 .. l + 1
      BY ONLY <2>1
    <3>1. CASE m = l + 1
      <4>1. n = l + 2
        BY ONLY <2>1, <3>1, m < n, n \in 1 .. l + 2
      <4>2. next[m] = starts[l + 1] /\ sent'[m] = w.len /\ next[n] = next[l + 2]
        BY ONLY <2>1, <2>2, <3>0, <3>1, <4>1
      <4>3. starts[l + 1] + HeaderSize + w.len \in Nat
        BY ONLY <1>1, <1>6, <2>3
      <4> QED
        BY ONLY <2>3, <4>2, <4>3
    <3>2. CASE m # l + 1
      <4>1. m \in 1 .. l /\ m \in 1 .. l + 1
        BY ONLY <2>1, <3>2, m < n, n \in 1 .. l + 2, m \in 1 .. l + 2
      <4>2. CASE n = l + 2
        <5>1. starts[m] + HeaderSize + sent[m] <= starts[l + 1]
          <6>1. m < l + 1
            BY ONLY <2>1, <4>1
          <6> QED
            BY ONLY <1>3, <3>0, <4>1, <6>1
        <5>2. starts[m] \in Nat /\ sent[m] \in Nat
          BY ONLY <1>1, <4>1
        <5>3. next[m] = starts[m] /\ sent'[m] = sent[m]
          BY ONLY <2>1, <2>2, <4>1
        <5>4. starts[m] + HeaderSize + sent[m] \in Nat /\ HeaderSize \in Nat /\ w.len \in Nat
          <6>1. HeaderSize \in Nat /\ w.len \in Nat
            BY ONLY <1>1, <1>6
          <6>2. \A a, b, c \in Nat : a + b + c \in Nat
            OBVIOUS
          <6> QED
            BY ONLY <5>2, <6>1, <6>2
        <5>5. \A a, b, c, d \in Nat : a <= b => a <= b + c + d
          OBVIOUS
        <5>6. starts[m] + HeaderSize + sent[m] <= starts[l + 1] + HeaderSize + w.len
          BY ONLY <2>3, <5>1, <5>4, <5>5
        <5> QED
          BY ONLY <2>3, <4>2, <5>3, <5>6
      <4>3. CASE n # l + 2
        <5>1. n \in 1 .. l + 1
          BY ONLY <2>1, <4>3, n \in 1 .. l + 2
        <5> QED
          BY ONLY <1>3, <2>1, <2>2, <4>1, <5>1, m < n
      <4> QED
        BY <4>2, <4>3
    <3> QED
      BY <3>1, <3>2
  <2>6. Starts(next)'
    <3>1. Taking \in 1 .. l + 2 /\ next[Taking] = starts[Taking]
      BY ONLY <1>3, <2>1, <2>2
    <3>2. WritePos' = next[l + 2] + StoredSoFar'
      <4>1. next[l + 2] \in Nat
        BY ONLY <1>1, <2>2, k \in Nat
      <4> QED
        BY ONLY <1>6, <2>2, <4>1, WritePos' = WritePos + k
    <3>3. Len(sent') + 1 = l + 2
      BY ONLY <2>1
    <3>4. Taking' = Taking /\ ReadPos' = starts[Taking] + LoadedSoFar'
      BY ONLY <1>2, <1>3
    <3>5. \A n \in 1 .. Len(sent') : next[n + 1] = next[n] + HeaderSize + sent'[n]
      BY ONLY <2>1, <2>4
    <3>6. \A m, n \in 1 .. Len(sent') + 1 : m < n => next[m] + HeaderSize + sent'[m] <= next[n]
      BY ONLY <2>5, <3>3
    <3>7. Taking' \in 1 .. Len(sent') + 1 /\ ReadPos' = next[Taking'] + LoadedSoFar'
      BY ONLY <3>1, <3>3, <3>4
    <3>8. WritePos' = next[Len(sent') + 1] + StoredSoFar'
      BY ONLY <3>2, <3>3
    <3> QED
      BY ONLY <3>5, <3>6, <3>7, <3>8 DEF Starts
  <2>7. UnreadBytes(next)'
    <3> SUFFICES ASSUME NEW n \in 1 .. Len(sent') + 1, NEW i \in Nat,
                        ReadPos' <= next[n] + i, next[n] + i < WritePos',
                        n <= Len(sent') => i < HeaderSize + sent'[n]
                 PROVE  buf'[Place(next[n] + i)'] = Byte(n, i)
      BY DEF UnreadBytes
    <3>1. n \in 1 .. l + 1
      <4>1. n = l + 2 => next[n] = WritePos + k
        BY ONLY <2>2
      <4>2. n # l + 2
        BY ONLY <1>1, <4>1, k \in Nat, i \in Nat, next[n] + i < WritePos', WritePos' = WritePos
           + k
      <4> QED
        BY ONLY <2>1, <4>2, n \in 1 .. Len(sent') + 1
    <3>2. next[n] = starts[n]
      BY ONLY <2>2, <3>1
    <3>3. n <= Len(sent) => i < HeaderSize + sent[n]
      <4> SUFFICES ASSUME n <= Len(sent) PROVE i < HeaderSize + sent[n]
        OBVIOUS
      <4>1. n \in 1 .. l /\ n <= Len(sent')
        BY ONLY <2>1, <3>1, n <= Len(sent)
      <4> QED
        BY ONLY <2>1, <4>1, n <= Len(sent') => i < HeaderSize + sent'[n]
    <3>4. ReadPos <= starts[n] + i /\ starts[n] + i < WritePos + k
      BY ONLY <1>2, <3>2, WritePos' = WritePos + k, ReadPos' <= next[n] + i, next[n] + i <
         WritePos'
    <3>5. n \in 1 .. Len(sent) + 1
      BY <3>1
    <3>6. buf'[Place(starts[n] + i)'] = Byte(n, i)
      BY ONLY <1>4, <3>3, <3>4, <3>5, i \in Nat
    <3>7. Place(next[n] + i)' = Place(starts[n] + i)'
      BY ONLY <3>2 DEF Place
    <3> QED
      BY ONLY <3>6, <3>7
  <2>8. next \in [1 .. Len(sent') + 1 -> Nat]
    <3>1. Len(sent') + 1 = l + 2
      BY ONLY <2>1
    <3> QED
      BY <2>2, <3>1
  <2> QED
    BY <2>6, <2>7, <2>8
<1> QED
  BY <1>5, <1>6

\* The stream behind a move of the reader, in the middle of a message or
\* behind one.
LEMMA StreamShrinks ==
  ASSUME WriterKinds, ReaderKinds, StoresLaps,
         NEW starts \in [1 .. Len(sent) + 1 -> Nat], Starts(starts), UnreadBytes(starts),
         NEW k \in Nat, ReadPos' = ReadPos + k, WriterUntouched,
         rbase' = rbase \/ (rbase' = rbase + FifoSize /\ wbase = rbase + FifoSize /\ ReadPos' = rbase'),
         \/ Taking' = Taking /\ LoadedSoFar' = LoadedSoFar + k
         \/ /\ Taking' = Taking + 1 /\ LoadedSoFar' = 0 /\ Taking \in 1 .. Len(sent)
            /\ LoadedSoFar + k = HeaderSize + sent[Taking],
         LoadedSoFar \in Nat
  PROVE  \E next \in [1 .. Len(sent') + 1 -> Nat] : Starts(next)' /\ UnreadBytes(next)'
<1>1. /\ Len(sent) \in Nat /\ HeaderSize \in Nat /\ FifoSize \in Nat /\ WritePos \in Nat /\ ReadPos \in Nat
      /\ \A m \in 1 .. Len(sent) + 1 : starts[m] \in Nat
      /\ \A m \in 1 .. Len(sent) : sent[m] \in Nat
      /\ tail \in 0 .. FifoSize /\ wbase \in Nat /\ rbase \in Nat
  <2>1. sent \in Seq(MsgSizes) /\ tail \in 0 .. FifoSize /\ wbase \in Nat /\ rbase \in Nat
    BY DEF WriterKinds, ReaderKinds, Index
  <2>2. WritePos \in Nat /\ ReadPos \in Nat
    BY StreamPositions
  <2> QED
    BY ONLY <2>1, <2>2, SizesAreNumbers, starts \in [1 .. Len(sent) + 1 -> Nat]
<1>2. UNCHANGED <<WritePos, StoredSoFar, buf, sent>>
  BY ONLY WriterUntouched DEF WriterUntouched, WritePos, StoredSoFar, PartFrom
<1>3. /\ \A n \in 1 .. Len(sent) : starts[n + 1] = starts[n] + HeaderSize + sent[n]
      /\ \A m, n \in 1 .. Len(sent) + 1 :
           m < n => starts[m] + HeaderSize + sent[m] <= starts[n]
      /\ WritePos = starts[Len(sent) + 1] + StoredSoFar
      /\ Taking \in 1 .. Len(sent) + 1 /\ ReadPos = starts[Taking] + LoadedSoFar
  BY DEF Starts
<1>4. Taking' \in 1 .. Len(sent) + 1 /\ ReadPos' = starts[Taking'] + LoadedSoFar'
  <2>1. starts[Taking] \in Nat
    BY ONLY <1>1, <1>3
  <2>2. CASE Taking' = Taking /\ LoadedSoFar' = LoadedSoFar + k
    <3>1. \A a, b \in Nat : (a + b) + k = a + (b + k)
      BY ONLY k \in Nat
    <3> QED
      BY ONLY <1>3, <2>1, <2>2, <3>1, LoadedSoFar \in Nat, ReadPos' = ReadPos + k
  <2>3. CASE /\ Taking' = Taking + 1 /\ LoadedSoFar' = 0 /\ Taking \in 1 .. Len(sent)
             /\ LoadedSoFar + k = HeaderSize + sent[Taking]
    <3>1. Taking + 1 \in 1 .. Len(sent) + 1 /\ sent[Taking] \in Nat
      BY ONLY <1>1, <2>3
    <3>2. starts[Taking + 1] = starts[Taking] + HeaderSize + sent[Taking] /\ starts[Taking + 1] \in Nat
      BY ONLY <1>1, <1>3, <2>3, <3>1
    <3>3. \A a, b, c, d \in Nat : b + k = c + d => (a + b) + k = a + c + d
      BY ONLY k \in Nat
    <3>4. (starts[Taking] + LoadedSoFar) + k = starts[Taking] + HeaderSize + sent[Taking]
      <4>0. HeaderSize \in Nat /\ sent[Taking] \in Nat /\ LoadedSoFar + k = HeaderSize + sent[Taking]
        BY ONLY <1>1, <2>3, <3>1
      <4>1. \A a \in Nat : (a + LoadedSoFar) + k = a + HeaderSize + sent[Taking]
        BY ONLY <4>0, <3>3, LoadedSoFar \in Nat
      <4> QED
        BY ONLY <2>1, <4>1
    <3>5. ReadPos' = starts[Taking + 1]
      BY ONLY <1>3, <3>2, <3>4, ReadPos' = ReadPos + k
    <3>6. starts[Taking + 1] = starts[Taking + 1] + 0
      BY ONLY <3>2
    <3> QED
      BY ONLY <2>3, <3>1, <3>5, <3>6
  <2> QED
    BY <2>2, <2>3
<1>5. Starts(starts)'
  BY ONLY <1>2, <1>3, <1>4 DEF Starts
<1>6. UnreadBytes(starts)'
  <2> SUFFICES ASSUME NEW n \in 1 .. Len(sent') + 1, NEW i \in Nat,
                      ReadPos' <= starts[n] + i, starts[n] + i < WritePos',
                      n <= Len(sent') => i < HeaderSize + sent'[n]
               PROVE  buf'[Place(starts[n] + i)'] = Byte(n, i)
    BY DEF UnreadBytes
  <2>1. n \in 1 .. Len(sent) + 1 /\ (n <= Len(sent) => i < HeaderSize + sent[n])
    BY ONLY <1>2, n \in 1 .. Len(sent') + 1, n <= Len(sent') => i < HeaderSize + sent'[n]
  <2>2. starts[n] + i \in Nat
    BY ONLY <1>1, <2>1, i \in Nat
  <2>3. ReadPos <= starts[n] + i /\ starts[n] + i < WritePos
    <3>1. \A x \in Nat : ReadPos + k <= x => ReadPos <= x
      BY ONLY <1>1, k \in Nat
    <3> QED
      BY ONLY <1>2, <2>2, <3>1, ReadPos' = ReadPos + k, ReadPos' <= starts[n] + i, starts[n] + i
         < WritePos'
  <2>4. buf[Place(starts[n] + i)] = Byte(n, i)
    BY ONLY <2>1, <2>3, i \in Nat, UnreadBytes(starts) DEF UnreadBytes
  <2>5. \A x \in Nat : ReadPos' <= x /\ x < WritePos => Place(x)' = Place(x)
    <3>1. CASE rbase' = rbase
      BY ONLY <3>1 DEF Place
    <3>2. CASE rbase' = rbase + FifoSize /\ wbase = rbase + FifoSize /\ ReadPos' = rbase'
      <4>1. tail <= FifoSize /\ WritePos = rbase + FifoSize + tail /\ (tail < FifoSize)
        <5>1. tail < head /\ head \in 0 .. FifoSize
          BY ONLY <1>1, <3>2, SizesAreNumbers, StoresLaps, ReaderKinds DEF StoresLaps,
             ReaderKinds, Index
        <5> QED
          BY ONLY <1>1, <3>2, <5>1 DEF WritePos
      <4> SUFFICES ASSUME NEW x \in Nat, rbase + FifoSize <= x, x < rbase + FifoSize + tail
                   PROVE  Place(x)' = Place(x)
        BY <3>2, <4>1
      <4>2. ~(x - rbase < FifoSize) /\ x - (rbase + FifoSize) < FifoSize
            /\ x - rbase - FifoSize = x - (rbase + FifoSize)
        BY ONLY <1>1, <4>1, x \in Nat, rbase + FifoSize <= x, x < rbase + FifoSize + tail
      <4> QED
        BY ONLY <3>2, <4>2 DEF Place
    <3> QED
      BY <3>1, <3>2
  <2>6. Place(starts[n] + i)' = Place(starts[n] + i)
    BY ONLY <1>2, <2>2, <2>3, <2>5, ReadPos' <= starts[n] + i
  <2> QED
    BY ONLY <1>2, <2>4, <2>6
<1> QED
  BY ONLY <1>2, <1>5, <1>6, starts \in [1 .. Len(sent) + 1 -> Nat]

\* What a load copies: the next bytes of the message the reader takes.
LEMMA BytesRead ==
  ASSUME WriterKinds, ReaderKinds,
         NEW starts \in [1 .. Len(sent) + 1 -> Nat], Starts(starts), UnreadBytes(starts),
         NEW k \in Nat, head + k <= FifoSize, ReadPos + k <= WritePos,
         Taking \in 1 .. Len(sent), LoadedSoFar \in Nat, LoadedSoFar + k <= HeaderSize +
         sent[Taking]
  PROVE  Stores!Read(head, k) = [i \in 1 .. k |-> Byte(Taking, LoadedSoFar + i - 1)]
<1>1. /\ Len(sent) \in Nat /\ HeaderSize \in Nat /\ FifoSize \in Nat
      /\ starts[Taking] \in Nat /\ sent[Taking] \in Nat /\ Taking \in 1 .. Len(sent) + 1
      /\ head \in 0 .. FifoSize /\ tail \in 0 .. FifoSize /\ wbase \in Nat /\ rbase \in Nat
  <2>1. sent \in Seq(MsgSizes) /\ tail \in 0 .. FifoSize /\ wbase \in Nat /\ rbase \in Nat
        /\ head \in 0 .. FifoSize
    BY DEF WriterKinds, ReaderKinds, Index
  <2>2. Len(sent) \in Nat /\ sent[Taking] \in Nat
    BY ONLY <2>1, SizesAreNumbers, Taking \in 1 .. Len(sent)
  <2>3. Taking \in 1 .. Len(sent) + 1
    BY ONLY <2>2, Taking \in 1 .. Len(sent)
  <2> QED
    BY ONLY <2>1, <2>2, <2>3, SizesAreNumbers, starts \in [1 .. Len(sent) + 1 -> Nat]
<1>2. ReadPos = starts[Taking] + LoadedSoFar
  BY DEF Starts
<1> SUFFICES ASSUME NEW i \in 1 .. k
             PROVE  (IF head + i - 1 < FifoSize THEN buf[head + i - 1] ELSE Junk)
                      = Byte(Taking, LoadedSoFar + i - 1)
  BY DEF Stores!Read, Stores!Junk, Junk
<1> DEFINE j == LoadedSoFar + i - 1
<1>3. /\ j \in Nat /\ j < HeaderSize + sent[Taking]
      /\ starts[Taking] + j = rbase + (head + i - 1) /\ head + i - 1 \in Nat /\ head + i - 1 < FifoSize
      /\ ReadPos <= starts[Taking] + j /\ starts[Taking] + j < WritePos
  <2>1. /\ j \in Nat /\ j < HeaderSize + sent[Taking]
    BY ONLY <1>1, LoadedSoFar \in Nat, LoadedSoFar + k <= HeaderSize + sent[Taking], k \in Nat,
       i \in 1 .. k
  <2>2. head + i - 1 \in Nat /\ head + i - 1 < FifoSize
    BY ONLY <1>1, head + k <= FifoSize, k \in Nat, i \in 1 .. k
  <2>3. rbase + head = starts[Taking] + LoadedSoFar
    BY ONLY <1>2 DEF ReadPos
  <2>4. rbase + head + k <= wbase + tail
    BY ONLY ReadPos + k <= WritePos DEF ReadPos, WritePos
  <2>5. \A a \in Nat : rbase + head = a + LoadedSoFar =>
          /\ a + j = rbase + (head + i - 1) /\ rbase + head <= a + j /\ a + j < wbase + tail
    BY ONLY <1>1, <2>4, k \in Nat, i \in 1 .. k, LoadedSoFar \in Nat
  <2> QED
    BY ONLY <1>1, <2>1, <2>2, <2>3, <2>5 DEF ReadPos, WritePos
<1> HIDE DEF j
<1>4. buf[Place(starts[Taking] + j)] = Byte(Taking, j)
  BY ONLY <1>1, <1>3, UnreadBytes(starts) DEF UnreadBytes
<1>5. Place(starts[Taking] + j) = head + i - 1
  <2>1. \A x, y \in Nat : x = rbase + y /\ y < FifoSize =>
          (IF x - rbase < FifoSize THEN x - rbase ELSE x - rbase - FifoSize) = y
    BY ONLY <1>1
  <2>2. starts[Taking] + j \in Nat
    BY ONLY <1>1, <1>3
  <2> QED
    BY ONLY <1>3, <2>1, <2>2 DEF Place
<1> QED
  BY ONLY <1>3, <1>4, <1>5 DEF j

\* The header of a stored message says how long its payload is.
LEMMA HeaderRead ==
  ASSUME sent \in Seq(MsgSizes), NEW n \in 1 .. Len(sent), NEW bytes,
         \A i \in 1 .. HeaderSize : bytes[i] = Byte(n, i - 1)
  PROVE  Stores!HeaderValues(bytes) = {sent[n]}
<1>1. Len(sent) \in Nat /\ n \in 1 .. Len(sent) + 1 /\ 1 \in 1 .. HeaderSize
  BY SizesAreNumbers
<1>2. bytes[1][1] = n
  BY ONLY <1>1, \A i \in 1 .. HeaderSize : bytes[i] = Byte(n, i - 1) DEF Byte
<1>3. Stores!LenOf(n) = sent[n]
  BY DEF Stores!LenOf
<1>4. \A i \in 1 .. HeaderSize : bytes[i] = Stores!Byte(n, i - 1)
  BY DEF Stores!Byte, Byte
<1> QED
  BY ONLY <1>1, <1>2, <1>3, <1>4 DEF Stores!HeaderValues, Stores!Writing

\* Two loads of a part make the part.
LEMMA PartsJoined ==
  ASSUME NEW got \in Seq(Nat \X Nat), NEW n \in Nat, NEW from \in Nat, NEW rest \in Nat,
         \A i \in 1 .. Len(got) : got[i] = Byte(n, from + i - 1)
  PROVE  got \o [i \in 1 .. rest |-> Byte(n, from + Len(got) + i - 1)]
           = [i \in 1 .. Len(got) + rest |-> Byte(n, from + i - 1)]
<1> DEFINE more == [i \in 1 .. rest |-> Byte(n, from + Len(got) + i - 1)]
<1>1. Len(got) \in Nat
  OBVIOUS
<1>2. more \in Seq(Nat \X Nat) /\ Len(more) = rest
  <2>1. \A i \in 1 .. rest : from + Len(got) + i - 1 \in Nat
    BY <1>1
  <2>2. \A i \in 1 .. rest : Byte(n, from + Len(got) + i - 1) \in Nat \X Nat
    BY <2>1 DEF Byte
  <2>3. more \in [1 .. rest -> Nat \X Nat]
    BY <2>2
  <2> HIDE DEF more
  <2>4. more \in Seq(Nat \X Nat)
    BY <2>3, SeqDef
  <2>5. Len(more) \in Nat /\ 1 .. Len(more) = 1 .. rest
    BY <2>3, <2>4, LenProperties
  <2> QED
    BY ONLY <2>4, <2>5, rest \in Nat
<1>3. \A i \in 1 .. rest : more[i] = Byte(n, from + Len(got) + i - 1)
  OBVIOUS
<1> HIDE DEF more
<1>4. /\ Len(got \o more) = Len(got) + rest
      /\ \A i \in 1 .. Len(got) + rest :
           (got \o more)[i] = IF i <= Len(got) THEN got[i] ELSE more[i - Len(got)]
  BY <1>2, ConcatProperties
<1>5. \A i \in 1 .. Len(got) + rest : (got \o more)[i] = Byte(n, from + i - 1)
  <2> SUFFICES ASSUME NEW i \in 1 .. Len(got) + rest PROVE (got \o more)[i] = Byte(n, from + i - 1)
    OBVIOUS
  <2>1. CASE i <= Len(got)
    BY <1>1, <1>4, <2>1
  <2>2. CASE ~(i <= Len(got))
    <3>1. i - Len(got) \in 1 .. rest /\ from + Len(got) + (i - Len(got)) - 1 = from + i - 1
      BY <1>1, <2>2
    <3> QED
      BY ONLY <1>3, <1>4, <2>2, <3>1, i \in 1 .. Len(got) + rest
  <2> QED
    BY <2>1, <2>2
<1>6. got \o more \in Seq(Nat \X Nat)
  BY <1>2
<1> QED
  BY <1>1, <1>4, <1>5, <1>6 DEF more

\* A step of one core leaves what is said of the other core true.
LEMMA ReaderUnmoved ==
  ASSUME ReaderKinds, WriterKinds, ReaderStep, HandedOverWhole, ReaderUntouched,
         WritePos \in Nat, WritePos' \in Nat, WritePos <= WritePos',
         wbase' = wbase \/ wbase = rbase,
         Len(sent') \in Nat, Len(sent) <= Len(sent'), \A n \in 1 .. Len(sent) : sent'[n] = sent[n]
  PROVE  ReaderKinds' /\ ReaderStep' /\ HandedOverWhole'
<1>1. /\ Len(sent) \in Nat /\ taken \in Nat /\ ReadPos \in Nat /\ r.pending \in Nat
      /\ rbase \in Nat /\ FifoSize \in Nat \ {0}
  <2>1. sent \in Seq(MsgSizes) /\ taken \in Nat /\ head \in 0 .. FifoSize /\ rbase \in Nat
        /\ r.pending \in 0 .. FifoSize
    BY DEF WriterKinds, ReaderKinds, Index
  <2> QED
    BY ONLY <2>1, SizesAreNumbers DEF ReadPos
<1>2. UNCHANGED <<head, r, rret, out, taken, rbase>>
  BY DEF ReaderUntouched
<1>3. ReaderKinds'
  BY <1>2 DEF ReaderKinds
<1>4. UNCHANGED <<Taking, DueSize, DueFrom, ReadPos>>
  BY ONLY <1>2 DEF Taking, DueSize, DueFrom, ReadPos
<1>5. ReaderStep'
  <2>1. r.part = "header" /\ r.pc # "idle" => taken < Len(sent')
    <3>1. r.part = "header" /\ r.pc # "idle" => taken < Len(sent)
      BY DEF ReaderStep
    <3> QED
      BY ONLY <1>1, <3>1, Len(sent') \in Nat, Len(sent) <= Len(sent')
  <2>2. r.part = "payload" => r.pc # "idle" /\ taken \in 1 .. Len(sent') /\ r.len = sent'[taken]
    <3>1. r.part = "payload" => r.pc # "idle" /\ taken \in 1 .. Len(sent) /\ r.len = sent[taken]
      BY DEF ReaderStep
    <3> QED
      BY ONLY <1>1, <3>1, Len(sent') \in Nat, Len(sent) <= Len(sent'),
         \A n \in 1 .. Len(sent) : sent'[n] = sent[n]
  <2>3. r.pc = "order" => DueSize <= r.pending /\ r.pending <= WritePos' - ReadPos
    <3>1. r.pc = "order" => DueSize <= r.pending /\ r.pending <= WritePos - ReadPos
      BY DEF ReaderStep
    <3> QED
      BY ONLY <1>1, <3>1, WritePos \in Nat, WritePos' \in Nat, WritePos <= WritePos'
  <2>4. r.pc = "store" => IF r.wrapped THEN wbase' = rbase + FifoSize ELSE head + DueSize <= FifoSize
    <3>1. r.pc = "store" => IF r.wrapped THEN wbase = rbase + FifoSize ELSE head + DueSize <= FifoSize
      BY DEF ReaderStep
    <3>2. wbase = rbase + FifoSize => wbase' = wbase
      BY ONLY <1>1, wbase' = wbase \/ wbase = rbase
    <3> QED
      BY ONLY <3>1, <3>2
  <2>5. r.pc = "store_rest" =>
          /\ head = 0 /\ Len(r.got) < DueSize
          /\ \A i \in 1 .. Len(r.got) : r.got[i] = Byte(Taking, DueFrom + i - 1)
    BY DEF ReaderStep
  <2> QED
    BY ONLY <1>2, <1>4, <2>1, <2>2, <2>3, <2>4, <2>5 DEF ReaderStep
<1>6. HandedOverWhole'
  <2>1. rret = "SUCCESS" /\ r.pc = "idle" =>
          /\ taken \in 1 .. Len(sent') /\ taken \in 1 .. Len(sent) /\ sent'[taken] = sent[taken]
          /\ out = [i \in 1 .. sent[taken] |-> Byte(taken, HeaderSize + i - 1)]
    BY <1>1 DEF HandedOverWhole
  <2> QED
    BY ONLY <1>2, <2>1 DEF HandedOverWhole
<1> QED
  BY <1>3, <1>5, <1>6

\* The moves of the reader leave the writer's place and the room it found.
LEMMA PlaceUnmoved ==
  ASSUME WriterKinds, WriterPlace, RoomLeft, WriterUntouched, StoresLaps,
         ReadPos \in Nat, ReadPos' \in Nat, WritePos \in Nat, wbase \in Nat, rbase \in Nat,
         ReadPos <= ReadPos',
         rbase' = rbase \/ wbase = rbase + FifoSize,
         UNCHANGED <<head, rbase>> \/ ReadPos < ReadPos' \/ wbase = rbase + FifoSize
  PROVE  WriterKinds' /\ WriterPlace' /\ RoomLeft'
<1>1. /\ FifoSize \in Nat \ {0} /\ HeaderSize \in Nat \ {0} /\ w.len \in Nat /\ w.free \in Nat
      /\ StoredSoFar \in Nat /\ tail \in 0 .. FifoSize
  <2>1. w.len \in Nat /\ w.free \in Nat /\ StoredSoFar \in Nat
    BY PlaceNumbers
  <2>2. tail \in 0 .. FifoSize
    BY DEF WriterKinds, Index
  <2> QED
    BY ONLY <2>1, <2>2, SizesAreNumbers
<1>2. UNCHANGED <<tail, buf, w, sent, wbase>>
  BY DEF WriterUntouched
<1>3. WriterKinds'
  BY <1>2 DEF WriterKinds
<1>4. UNCHANGED <<PartSize, PartFrom, StoredSoFar, WritePos>>
  BY ONLY <1>2 DEF PartSize, PartFrom, StoredSoFar, WritePos
<1>5. WriterPlace'
  <2>1. w.pc = "store" => IF w.wrapped THEN tail + PartSize <= FifoSize ELSE wbase = rbase'
    <3>1. w.pc = "store" => IF w.wrapped THEN tail + PartSize <= FifoSize ELSE wbase = rbase
      BY DEF WriterPlace
    <3>2. wbase = rbase => rbase' = rbase
      BY ONLY <1>1, rbase \in Nat, rbase' = rbase \/ wbase = rbase + FifoSize
    <3> QED
      BY ONLY <3>1, <3>2
  <2> QED
    BY <1>2, <1>4, <2>1 DEF WriterPlace
<1>6. RoomLeft'
  <2>1. w.pc = "fits" => WritePos + w.free <= ReadPos' + FifoSize
    <3>1. w.pc = "fits" => WritePos + w.free <= ReadPos + FifoSize
      BY DEF RoomLeft
    <3> QED
      BY ONLY <1>1, <3>1, ReadPos \in Nat, ReadPos' \in Nat, WritePos \in Nat, ReadPos <= ReadPos'
  <2> DEFINE rest == HeaderSize + w.len - StoredSoFar
  <2>2. ASSUME w.pc \in {"order", "store", "store_rest"}
        PROVE  \/ WritePos + rest < ReadPos' + FifoSize
               \/ wbase = rbase' /\ head' = 0 /\ tail + rest = FifoSize
    <3>1. \/ WritePos + rest < ReadPos + FifoSize
          \/ wbase = rbase /\ head = 0 /\ tail + rest = FifoSize
      BY <2>2 DEF RoomLeft
    <3>2. rest \in Int
      BY ONLY <1>1
    <3> HIDE DEF rest
    <3>3. CASE WritePos + rest < ReadPos + FifoSize
      <4>1. \A x \in Nat : ReadPos <= x => WritePos + rest < x + FifoSize
        BY ONLY <1>1, <3>2, <3>3, ReadPos \in Nat, WritePos \in Nat
      <4> QED
        BY ONLY <4>1, ReadPos' \in Nat, ReadPos <= ReadPos'
    <3>4. CASE wbase = rbase /\ head = 0 /\ tail + rest = FifoSize
      <4>1. UNCHANGED <<head, rbase>> \/ ReadPos < ReadPos'
        BY ONLY <1>1, <3>4, rbase \in Nat,
           UNCHANGED <<head, rbase>> \/ ReadPos < ReadPos' \/ wbase = rbase + FifoSize
      <4>2. WritePos + rest = ReadPos + FifoSize
        BY ONLY <1>1, <3>2, <3>4, rbase \in Nat DEF WritePos, ReadPos
      <4>3. ReadPos < ReadPos' => WritePos + rest < ReadPos' + FifoSize
        <5>1. \A x \in Nat : ReadPos < x => WritePos + rest < x + FifoSize
          BY ONLY <1>1, <3>2, <4>2, ReadPos \in Nat, WritePos \in Nat
        <5> QED
          BY ONLY <5>1, ReadPos' \in Nat
      <4> QED
        BY ONLY <3>4, <4>1, <4>3
    <3> QED
      BY <3>1, <3>3, <3>4
  <2> QED
    BY ONLY <1>2, <1>4, <2>1, <2>2 DEF RoomLeft
<1> QED
  BY <1>3, <1>5, <1>6

\* The same, where no payload is torn.
LEMMA WriterUnmoved ==
  ASSUME WriterKinds, WriterStep, RoomLeft, WriterUntouched, StoresLaps,
         ReadPos \in Nat, ReadPos' \in Nat, WritePos \in Nat, wbase \in Nat, rbase \in Nat,
         ReadPos <= ReadPos',
         rbase' = rbase \/ wbase = rbase + FifoSize,
         UNCHANGED <<head, rbase>> \/ ReadPos < ReadPos' \/ wbase = rbase + FifoSize
  PROVE  WriterKinds' /\ WriterStep' /\ RoomLeft'
<1>1. WriterPlace
  BY DEF WriterStep
<1>2. WriterKinds' /\ WriterPlace' /\ RoomLeft'
  BY <1>1, PlaceUnmoved
<1>3. w' = w
  BY DEF WriterUntouched
<1> QED
  BY <1>2, <1>3 DEF WriterStep

\* The steps of the writer that store nothing: room that was enough when it
\* was loaded is enough now, and a writer that is not ahead may wrap.
LEMMA LocalWriterPlace ==
  ASSUME Unpadded, WriterKinds, WriterPlace, RoomLeft, StoresLaps,
         head \in Index, rbase \in Nat, UNCHANGED <<head, rbase, tail, buf, sent, wbase>>,
         \/ \E len \in MsgSizes :
              w.pc = "idle" /\ w' = [Idle EXCEPT !.pc = "fits", !.len = len, !.free = FreeBytes(head, tail)]
         \/ w.pc = "fits" /\ w' = Idle
         \/ /\ w.pc = "fits" /\ w' = [w EXCEPT !.pc = "order"]
            /\ RealSize(w.len) <= w.free
            /\ RealSize(w.len) # w.free \/ (~(tail < head) /\ HeaderSize + w.len <= FifoSize - tail)
         \/ w.pc = "order" /\ w' = [w EXCEPT !.pc = "store", !.wrapped = (tail < head)]
  PROVE  /\ UNCHANGED StoredSoFar /\ w'.pc # "store_rest"
         /\ WriterKinds' /\ WriterPlace' /\ RoomLeft'
<1>0. WriterKinds /\ StoresLaps /\ WriterPlace /\ RoomLeft
  OBVIOUS
<1>1. /\ FifoSize \in Nat \ {0} /\ HeaderSize \in Nat \ {0} /\ w.len \in Nat /\ w.free \in Nat
      /\ StoredSoFar \in Nat /\ tail \in 0 .. FifoSize /\ head \in 0 .. FifoSize
      /\ WritePos \in Nat /\ ReadPos \in Nat /\ wbase \in Nat /\ rbase \in Nat
  <2>1. w.len \in Nat /\ w.free \in Nat /\ StoredSoFar \in Nat
    BY <1>0, PlaceNumbers
  <2>2. tail \in 0 .. FifoSize /\ head \in 0 .. FifoSize /\ wbase \in Nat /\ rbase \in Nat
    BY <1>0 DEF WriterKinds, Index
  <2>3. WritePos \in Nat /\ ReadPos \in Nat
    BY ONLY <2>2 DEF WritePos, ReadPos
  <2> QED
    BY ONLY <2>1, <2>2, <2>3, SizesAreNumbers
<1>2. UNCHANGED <<head, tail, buf, sent, wbase, rbase>>
  OBVIOUS
<1>3. UNCHANGED <<WritePos, ReadPos>>
  BY ONLY <1>2 DEF WritePos, ReadPos
<1>4. w \in [pc: {"idle", "fits", "order", "store", "store_rest"},
            part: {"header", "payload"}, len: MsgSizes \union {0},
            free: 0 .. FifoSize, wrapped: BOOLEAN, done: 0 .. FifoSize]
      /\ (w.pc \in {"idle", "fits"} => w.part = "header") /\ (w.pc # "idle" => w.len \in MsgSizes)
  BY <1>0 DEF WriterKinds, WriterPlace
<1>5. FreeBytes(head, tail) \in 0 .. FifoSize /\ FreeBytes(head, tail) = FifoSize - (WritePos - ReadPos)
  <2>1. /\ ReadPos <= WritePos /\ WritePos <= ReadPos + FifoSize
        /\ FreeBytes(head, tail) = FifoSize - (WritePos - ReadPos)
    BY <1>0, <1>1, LapPositions DEF Index
  <2> QED
    BY ONLY <1>1, <2>1
<1>6. /\ UNCHANGED StoredSoFar /\ w'.pc # "store_rest"
      /\ WriterKinds' /\ WriterPlace' /\ RoomLeft'
  <2>1. CASE \E len \in MsgSizes :
               w.pc = "idle" /\ w' = [Idle EXCEPT !.pc = "fits", !.len = len, !.free = FreeBytes(head, tail)]
    <3>1. /\ w.pc = "idle" /\ w.part = "header" /\ w'.pc = "fits" /\ w'.part = "header"
          /\ w'.free = FreeBytes(head, tail) /\ w'.len \in MsgSizes
      BY <1>4, <2>1 DEF Idle
    <3>2. WriterKinds'
      <4>1. PICK len \in MsgSizes : w' = [Idle EXCEPT !.pc = "fits", !.len = len, !.free = FreeBytes(head, tail)]
        BY <2>1
      <4>2. w' = [pc |-> "fits", part |-> "header", len |-> len, free |-> FreeBytes(head, tail),
                  wrapped |-> FALSE, done |-> 0]
        BY ONLY <4>1 DEF Idle
      <4>3. 0 \in 0 .. FifoSize /\ FALSE \in BOOLEAN
        BY ONLY <1>1
      <4>4. w' \in [pc: {"idle", "fits", "order", "store", "store_rest"},
                    part: {"header", "payload"}, len: MsgSizes \union {0},
                    free: 0 .. FifoSize, wrapped: BOOLEAN, done: 0 .. FifoSize]
        BY <1>5, <4>2, <4>3
      <4> QED
        BY ONLY <1>0, <1>2, <4>4 DEF WriterKinds
    <3>3. WriterPlace'
      BY ONLY <3>1 DEF WriterPlace
    <3>4. WritePos + FreeBytes(head, tail) <= ReadPos + FifoSize
      BY ONLY <1>1, <1>5
    <3>5. RoomLeft'
      BY ONLY <1>3, <3>1, <3>4 DEF RoomLeft
    <3>6. UNCHANGED StoredSoFar
      BY ONLY <3>1 DEF StoredSoFar, PartFrom
    <3> QED
      BY <3>1, <3>2, <3>3, <3>5, <3>6
  <2>2. CASE w.pc = "fits" /\ w' = Idle
    <3>1. /\ w.pc = "fits" /\ w.part = "header" /\ w'.pc = "idle" /\ w'.part = "header"
      BY <1>4, <2>2 DEF Idle
    <3>2. WriterKinds'
      BY <1>0, <1>1, <1>2, <2>2 DEF WriterKinds, Idle
    <3>3. WriterPlace' /\ RoomLeft' /\ UNCHANGED StoredSoFar
      BY ONLY <3>1 DEF WriterPlace, RoomLeft, StoredSoFar, PartFrom
    <3> QED
      BY <3>1, <3>2, <3>3
  <2>3. CASE /\ w.pc = "fits" /\ w' = [w EXCEPT !.pc = "order"]
             /\ RealSize(w.len) <= w.free
             /\ RealSize(w.len) # w.free \/ (~(tail < head) /\ HeaderSize + w.len <= FifoSize - tail)
    <3>1. /\ w.pc = "fits" /\ w.part = "header" /\ w'.pc = "order" /\ w'.part = "header"
          /\ w'.len = w.len /\ w.len \in MsgSizes
      BY <1>4, <2>3
    <3>2. WriterKinds'
      BY <1>0, <1>2, <1>4, <2>3 DEF WriterKinds
    <3>3. WriterPlace'
      BY ONLY <3>1 DEF WriterPlace
    <3>4. UNCHANGED StoredSoFar /\ StoredSoFar = 0
      BY ONLY <3>1 DEF StoredSoFar, PartFrom
    <3>5. RealSize(w.len) = HeaderSize + w.len
      BY <1>1, <3>1 DEF Unpadded, RealSize
    <3>6. WritePos + w.free <= ReadPos + FifoSize
      BY <1>0, <2>3 DEF RoomLeft
    <3>7. \/ WritePos + (HeaderSize + w.len - 0) < ReadPos + FifoSize
          \/ wbase = rbase /\ head = 0 /\ tail + (HeaderSize + w.len - 0) = FifoSize
      <4>1. CASE HeaderSize + w.len # w.free
        BY ONLY <1>1, <2>3, <3>5, <3>6, <4>1
      <4>2. CASE ~(tail < head) /\ HeaderSize + w.len <= FifoSize - tail
        <5>1. wbase = rbase
          BY ONLY <1>0, <1>1, <4>2 DEF StoresLaps
        <5> QED
          BY ONLY <1>1, <2>3, <3>5, <3>6, <4>2, <5>1 DEF WritePos, ReadPos
      <4> QED
        BY <2>3, <3>5, <4>1, <4>2
    <3>8. RoomLeft'
      BY ONLY <1>2, <1>3, <3>1, <3>4, <3>7 DEF RoomLeft
    <3> QED
      BY <3>1, <3>2, <3>3, <3>4, <3>8
  <2>4. CASE w.pc = "order" /\ w' = [w EXCEPT !.pc = "store", !.wrapped = (tail < head)]
    <3>1. /\ w.pc = "order" /\ w'.pc = "store" /\ w'.part = w.part /\ w'.len = w.len /\ w.len \in MsgSizes
          /\ (w'.wrapped <=> tail < head)
      BY <1>4, <2>4
    <3>2. WriterKinds'
      <4> DEFINE b == tail < head
      <4>1. b \in BOOLEAN
        <5>1. b = TRUE \/ b = FALSE
          BY ONLY <1>1
        <5> QED
          BY ONLY <5>1
      <4>2. w' = [w EXCEPT !.pc = "store", !.wrapped = b]
        BY <2>4
      <4> HIDE DEF b
      <4>3. w' \in [pc: {"idle", "fits", "order", "store", "store_rest"},
                    part: {"header", "payload"}, len: MsgSizes \union {0},
                    free: 0 .. FifoSize, wrapped: BOOLEAN, done: 0 .. FifoSize]
        BY ONLY <1>4, <4>1, <4>2
      <4> QED
        BY ONLY <1>0, <1>2, <4>3 DEF WriterKinds
    <3>3. UNCHANGED StoredSoFar /\ PartSize' = PartSize /\ StoredSoFar = PartFrom
      BY ONLY <3>1, SizesAreNumbers DEF StoredSoFar, PartFrom, PartSize
    <3> DEFINE rest == HeaderSize + w.len - StoredSoFar
    <3>4. \/ WritePos + rest < ReadPos + FifoSize
          \/ wbase = rbase /\ head = 0 /\ tail + rest = FifoSize
      BY <1>0, <3>1 DEF RoomLeft
    <3>5. RoomLeft'
      BY ONLY <1>2, <1>3, <3>1, <3>3, <3>4 DEF RoomLeft
    <3>6. ASSUME tail < head PROVE tail + PartSize <= FifoSize
      <4>1. wbase = rbase + FifoSize
        BY ONLY <1>0, <1>1, <3>6 DEF StoresLaps
      <4>2. PartSize <= rest /\ PartSize \in Nat /\ rest \in Int
        <5>1. PartFrom + PartSize <= HeaderSize + w.len /\ PartSize \in Nat /\ PartFrom \in Nat
          BY <1>0, PlaceNumbers
        <5> QED
          BY ONLY <1>1, <3>3, <5>1
      <4>3. WritePos + rest < ReadPos + FifoSize
        BY ONLY <1>1, <3>4, <4>1
      <4> HIDE DEF rest
      <4> QED
        BY ONLY <1>1, <4>1, <4>2, <4>3 DEF WritePos, ReadPos
    <3>7. ASSUME ~(tail < head) PROVE wbase = rbase
      BY ONLY <1>0, <1>1, <3>7 DEF StoresLaps
    <3>8. WriterPlace'
      BY ONLY <1>2, <3>1, <3>3, <3>6, <3>7 DEF WriterPlace
    <3> QED
      BY <3>1, <3>2, <3>3, <3>5, <3>8
  <2> QED
    BY <2>1, <2>2, <2>3, <2>4
<1> QED
  BY <1>6

\* The steps of the writer that store nothing keep the invariant.
LEMMA LocalWriterKeeps ==
  ASSUME Unpadded, StoresInv, ReaderUntouched, UNCHANGED <<tail, buf, sent, wbase>>,
         \/ \E len \in MsgSizes :
              w.pc = "idle" /\ w' = [Idle EXCEPT !.pc = "fits", !.len = len, !.free = FreeBytes(head, tail)]
         \/ w.pc = "fits" /\ w' = Idle
         \/ /\ w.pc = "fits" /\ w' = [w EXCEPT !.pc = "order"]
            /\ RealSize(w.len) <= w.free
            /\ RealSize(w.len) # w.free \/ (~(tail < head) /\ HeaderSize + w.len <= FifoSize - tail)
         \/ w.pc = "order" /\ w' = [w EXCEPT !.pc = "store", !.wrapped = (tail < head)]
  PROVE  StoresInv'
<1>0. /\ WriterKinds /\ ReaderKinds /\ StoresLaps /\ WriterStep /\ RoomLeft /\ ReaderStep /\ HandedOverWhole
      /\ \E starts \in [1 .. Len(sent) + 1 -> Nat] : Starts(starts) /\ UnreadBytes(starts)
  BY DEF StoresInv
<1>1. /\ head \in Index /\ tail \in Index /\ wbase \in Nat /\ rbase \in Nat
      /\ WritePos \in Nat /\ ReadPos \in Nat
  BY <1>0, StreamPositions DEF WriterKinds, ReaderKinds
<1>2. UNCHANGED <<head, tail, buf, sent, wbase, rbase>>
  BY DEF ReaderUntouched
<1>3. UNCHANGED <<WritePos, ReadPos, Taking, LoadedSoFar>>
  BY ONLY <1>2, ReaderUntouched DEF WritePos, ReadPos, ReaderUntouched, Taking, LoadedSoFar,
     DueFrom
<1>6. UNCHANGED StoredSoFar /\ WriterKinds' /\ WriterStep' /\ RoomLeft'
  <2>1. WriterPlace
    BY <1>0 DEF WriterStep
  <2>2. /\ UNCHANGED StoredSoFar /\ w'.pc # "store_rest"
        /\ WriterKinds' /\ WriterPlace' /\ RoomLeft'
    BY <1>0, <1>1, <1>2, <2>1, LocalWriterPlace
  <2> QED
    BY <2>2 DEF WriterStep
<1>7. ReaderKinds' /\ ReaderStep' /\ HandedOverWhole'
  <2>1. Len(sent) \in Nat
    BY <1>0, ReaderNumbers
  <2>2. WritePos' \in Nat /\ WritePos <= WritePos' /\ Len(sent') \in Nat /\ Len(sent) <= Len(sent')
        /\ \A n \in 1 .. Len(sent) : sent'[n] = sent[n]
    BY ONLY <1>1, <1>2, <1>3, <2>1
  <2> QED
    BY <1>0, <1>1, <1>2, <2>2, ReaderUnmoved
<1>8. StoresLaps'
  BY <1>0, <1>2 DEF StoresLaps
<1>9. (\E starts \in [1 .. Len(sent) + 1 -> Nat] : Starts(starts) /\ UnreadBytes(starts))'
  <2>1. PICK starts \in [1 .. Len(sent) + 1 -> Nat] : Starts(starts) /\ UnreadBytes(starts)
    BY <1>0
  <2>2. Starts(starts)' /\ UnreadBytes(starts)'
    BY ONLY <1>2, <1>3, <1>6, <2>1 DEF Starts, UnreadBytes, Place
  <2> QED
    BY ONLY <1>2, <2>1, <2>2
<1> QED
  BY <1>6, <1>7, <1>8, <1>9 DEF StoresInv

\* The bytes of messages that are stored are bytes of messages.
LEMMA StoredBytes ==
  ASSUME WriterKinds, WriterPlace, NEW k \in Nat
  PROVE  Stored(buf, tail, Len(sent) + 1, StoredSoFar, k) \in [0 .. FifoSize - 1 -> Nat \X Nat]
<1>1. /\ buf \in [0 .. FifoSize - 1 -> Nat \X Nat] /\ tail \in 0 .. FifoSize /\ sent \in Seq(MsgSizes)
  BY DEF WriterKinds, Index
<1>2. StoredSoFar \in Nat /\ Len(sent) + 1 \in Nat
  BY <1>1, PlaceNumbers
<1>3. ASSUME NEW i \in 0 .. FifoSize - 1, i \in tail .. tail + k - 1
      PROVE  Byte(Len(sent) + 1, StoredSoFar + (i - tail)) \in Nat \X Nat
  <2>1. StoredSoFar + (i - tail) \in Nat
    BY ONLY <1>1, <1>2, <1>3, SizesAreNumbers, k \in Nat
  <2> QED
    BY ONLY <1>2, <2>1 DEF Byte
<1> QED
  BY ONLY <1>1, <1>3 DEF Stored

\* Behind the last store of a part: the room the writer found has shrunk by
\* what it stored, and the other parts of the message still fit in.
LEMMA PartStoredPlace ==
  ASSUME WriterKinds, WriterPlace, RoomLeft, StoresLaps,
         head \in Index, rbase \in Nat, UNCHANGED <<head, rbase>>,
         w.pc \in {"store", "store_rest"},
         NEW k \in Nat, StoredSoFar + k = PartFrom + PartSize, tail + k <= FifoSize,
         buf' = Stored(buf, tail, Len(sent) + 1, StoredSoFar, k),
         tail' = tail + k, wbase' = wbase, PartStored
  PROVE  /\ StoresLaps' /\ WritePos' = WritePos + k /\ WritePos + k <= ReadPos + FifoSize
         /\ w'.pc # "store_rest" /\ WriterKinds' /\ WriterPlace' /\ RoomLeft'
         /\ \/ sent' = sent /\ StoredSoFar' = StoredSoFar + k
            \/ /\ sent' = Append(sent, w.len) /\ StoredSoFar' = 0
               /\ w.len \in Nat /\ StoredSoFar + k = HeaderSize + w.len
<1>0. WriterKinds /\ StoresLaps /\ WriterPlace /\ RoomLeft
  OBVIOUS
<1>1. /\ FifoSize \in Nat \ {0} /\ HeaderSize \in Nat \ {0} /\ w.len \in Nat
      /\ StoredSoFar \in Nat /\ tail \in 0 .. FifoSize /\ head \in 0 .. FifoSize
      /\ WritePos \in Nat /\ ReadPos \in Nat /\ wbase \in Nat /\ rbase \in Nat
      /\ PartFrom + PartSize <= HeaderSize + w.len /\ PartFrom \in Nat /\ PartSize \in Nat
      /\ w.part = "header" \/ w.part = "payload"
  <2>1. /\ w.len \in Nat /\ StoredSoFar \in Nat /\ PartFrom \in Nat /\ PartSize \in Nat
        /\ PartFrom + PartSize <= HeaderSize + w.len /\ (w.part = "header" \/ w.part = "payload")
    BY <1>0, PlaceNumbers
  <2>2. tail \in 0 .. FifoSize /\ head \in 0 .. FifoSize /\ wbase \in Nat /\ rbase \in Nat
    BY <1>0 DEF WriterKinds, Index
  <2>3. WritePos \in Nat /\ ReadPos \in Nat
    BY ONLY <2>2 DEF WritePos, ReadPos
  <2> QED
    BY ONLY <2>1, <2>2, <2>3, SizesAreNumbers
<1>2. UNCHANGED <<head, rbase, ReadPos>>
  BY DEF ReadPos
<1> DEFINE rest == HeaderSize + w.len - StoredSoFar
<1>3. rest \in Int /\ k <= rest
  BY ONLY <1>1, k \in Nat, StoredSoFar + k = PartFrom + PartSize
<1>4. \/ WritePos + rest < ReadPos + FifoSize
      \/ wbase = rbase /\ head = 0 /\ tail + rest = FifoSize
  BY <1>0 DEF RoomLeft
<1>5. WritePos + k <= ReadPos + FifoSize
  <2> HIDE DEF rest
  <2>1. CASE WritePos + rest < ReadPos + FifoSize
    BY ONLY <1>1, <1>3, <2>1, k \in Nat
  <2>2. CASE wbase = rbase /\ head = 0 /\ tail + rest = FifoSize
    BY ONLY <1>1, <1>3, <2>2, k \in Nat DEF WritePos, ReadPos
  <2> QED
    BY <1>4, <2>1, <2>2
<1>6. StoresLaps'
  <2> HIDE DEF rest
  <2>1. CASE wbase = rbase /\ head <= tail
    <3>1. head <= tail + k
      BY ONLY <1>1, <2>1, k \in Nat
    <3> QED
      BY ONLY <1>2, <2>1, <3>1, tail' = tail + k, wbase' = wbase DEF StoresLaps
  <2>2. CASE wbase = rbase + FifoSize /\ tail < head
    <3>1. WritePos + rest < ReadPos + FifoSize
      BY ONLY <1>1, <1>4, <2>2
    <3>2. tail + k < head
      BY ONLY <1>1, <1>3, <2>2, <3>1, k \in Nat DEF WritePos, ReadPos
    <3> QED
      BY ONLY <1>2, <2>2, <3>2, tail' = tail + k, wbase' = wbase DEF StoresLaps
  <2> QED
    BY <1>0, <2>1, <2>2 DEF StoresLaps
<1>7. WritePos' = WritePos + k
  <2>1. wbase + (tail + k) = (wbase + tail) + k
    BY ONLY <1>1, k \in Nat
  <2> QED
    BY ONLY <2>1, tail' = tail + k, wbase' = wbase DEF WritePos
<1>8. /\ w \in [pc: {"idle", "fits", "order", "store", "store_rest"},
              part: {"header", "payload"}, len: MsgSizes \union {0},
              free: 0 .. FifoSize, wrapped: BOOLEAN, done: 0 .. FifoSize]
      /\ w.len \in MsgSizes /\ sent \in Seq(MsgSizes)
  BY <1>0 DEF WriterKinds, WriterPlace
<1>9. tail' \in Index /\ buf' \in [0 .. FifoSize - 1 -> Nat \X Nat] /\ wbase' \in Nat
  <2>1. tail + k \in 0 .. FifoSize
    BY ONLY <1>1, k \in Nat, tail + k <= FifoSize
  <2>2. buf' \in [0 .. FifoSize - 1 -> Nat \X Nat]
    BY <1>0, StoredBytes
  <2> QED
    BY ONLY <1>1, <2>1, <2>2, tail' = tail + k, wbase' = wbase DEF Index
<1>10. /\ w'.pc # "store_rest" /\ WriterKinds' /\ WriterPlace' /\ RoomLeft'
       /\ \/ sent' = sent /\ StoredSoFar' = StoredSoFar + k
          \/ /\ sent' = Append(sent, w.len) /\ StoredSoFar' = 0
             /\ w.len \in Nat /\ StoredSoFar + k = HeaderSize + w.len
  <2>1. CASE w.part = "header"
    <3>1. w' = [w EXCEPT !.pc = "order", !.part = "payload", !.done = 0] /\ sent' = sent
      BY <2>1 DEF PartStored
    <3>2. w'.pc = "order" /\ w'.part = "payload" /\ w'.len = w.len
      BY ONLY <1>8, <3>1
    <3>3. WriterKinds'
      <4>1. 0 \in 0 .. FifoSize
        BY ONLY <1>1
      <4> QED
        BY ONLY <1>8, <1>9, <3>1, <4>1 DEF WriterKinds
    <3>4. WriterPlace'
      BY ONLY <1>8, <3>2 DEF WriterPlace
    <3>5. StoredSoFar' = HeaderSize
      BY ONLY <1>1, <3>2 DEF StoredSoFar, PartFrom
    <3>6. StoredSoFar + k = HeaderSize
      <4>1. PartFrom = 0 /\ PartSize = HeaderSize
        BY ONLY <2>1 DEF PartFrom, PartSize
      <4> QED
        BY ONLY <1>1, <4>1, StoredSoFar + k = PartFrom + PartSize
    <3>7. \/ (WritePos + k) + (HeaderSize + w.len - HeaderSize) < ReadPos + FifoSize
          \/ wbase = rbase /\ head = 0 /\ (tail + k) + (HeaderSize + w.len - HeaderSize) = FifoSize
      <4>1. (WritePos + k) + (HeaderSize + w.len - HeaderSize) = WritePos + rest
            /\ (tail + k) + (HeaderSize + w.len - HeaderSize) = tail + rest
        <5>1. \A x \in Nat : (x + k) + (HeaderSize + w.len - HeaderSize) = x + rest
          <6>1. HeaderSize \in Nat /\ w.len \in Nat /\ StoredSoFar \in Nat
            BY ONLY <1>1
          <6> QED
            BY ONLY <6>1, <3>6, k \in Nat
        <5>2. WritePos \in Nat /\ tail \in Nat
          BY ONLY <1>1
        <5> HIDE DEF rest
        <5> QED
          BY ONLY <5>1, <5>2
      <4> QED
        BY ONLY <1>4, <4>1
    <3>8. RoomLeft'
      BY ONLY <1>2, <1>7, <3>2, <3>5, <3>7, tail' = tail + k, wbase' = wbase DEF RoomLeft
    <3> QED
      BY <3>1, <3>2, <3>3, <3>4, <3>5, <3>6, <3>8
  <2>2. CASE w.part = "payload"
    <3>1. w' = Idle /\ sent' = Append(sent, w.len)
      BY <2>2 DEF PartStored
    <3>2. w'.pc = "idle" /\ w'.part = "header"
      BY ONLY <3>1 DEF Idle
    <3>3. WriterKinds'
      <4>1. 0 \in 0 .. FifoSize /\ sent' \in Seq(MsgSizes)
        BY ONLY <1>1, <1>8, <3>1
      <4> QED
        BY ONLY <1>9, <3>1, <4>1 DEF WriterKinds, Idle
    <3>4. WriterPlace' /\ RoomLeft'
      BY ONLY <3>2 DEF WriterPlace, RoomLeft
    <3>5. StoredSoFar' = 0
      BY ONLY <3>2 DEF StoredSoFar, PartFrom
    <3>6. StoredSoFar + k = HeaderSize + w.len
      BY ONLY <2>2, StoredSoFar + k = PartFrom + PartSize DEF PartFrom, PartSize
    <3> QED
      BY <1>1, <3>1, <3>2, <3>3, <3>4, <3>5, <3>6
  <2> QED
    BY <1>1, <2>1, <2>2
<1> QED
  BY <1>5, <1>6, <1>7, <1>10

\* The last store of a part keeps the invariant: the stream grows by the part.
LEMMA PartStoredKeeps ==
  ASSUME StoresInv, ReaderUntouched, w.pc \in {"store", "store_rest"},
         NEW k \in Nat, StoredSoFar + k = PartFrom + PartSize, tail + k <= FifoSize,
         buf' = Stored(buf, tail, Len(sent) + 1, StoredSoFar, k),
         tail' = tail + k, wbase' = wbase, PartStored
  PROVE  StoresInv'
<1>0. /\ WriterKinds /\ ReaderKinds /\ StoresLaps /\ WriterStep /\ RoomLeft /\ ReaderStep /\ HandedOverWhole
      /\ \E starts \in [1 .. Len(sent) + 1 -> Nat] : Starts(starts) /\ UnreadBytes(starts)
  BY DEF StoresInv
<1>1. /\ head \in Index /\ rbase \in Nat /\ wbase \in Nat /\ sent \in Seq(MsgSizes)
      /\ WritePos \in Nat /\ ReadPos \in Nat
  BY <1>0, StreamPositions DEF WriterKinds, ReaderKinds
<1>2. UNCHANGED <<head, rbase>>
  BY DEF ReaderUntouched
<1>3. WriterPlace
  BY <1>0 DEF WriterStep
<1>4. /\ StoresLaps' /\ WritePos' = WritePos + k /\ WritePos + k <= ReadPos + FifoSize
      /\ w'.pc # "store_rest" /\ WriterKinds' /\ WriterPlace' /\ RoomLeft'
  BY <1>0, <1>1, <1>2, <1>3, PartStoredPlace
<1>5. \/ sent' = sent /\ StoredSoFar' = StoredSoFar + k
      \/ /\ sent' = Append(sent, w.len) /\ StoredSoFar' = 0
         /\ w.len \in Nat /\ StoredSoFar + k = HeaderSize + w.len
  BY <1>0, <1>1, <1>2, <1>3, PartStoredPlace
<1>6. WriterStep'
  BY <1>4 DEF WriterStep
<1>7. ReaderKinds' /\ ReaderStep' /\ HandedOverWhole'
  <2>1. WritePos + k \in Nat /\ WritePos <= WritePos + k
    BY ONLY <1>1, k \in Nat
  <2>2. /\ Len(sent') \in Nat /\ Len(sent) <= Len(sent')
        /\ \A n \in 1 .. Len(sent) : sent'[n] = sent[n]
    <3>1. w.len \in MsgSizes
      BY <1>0 DEF WriterStep, WriterPlace
    <3> QED
      BY ONLY <1>1, <1>5, <3>1
  <2> QED
    BY <1>0, <1>1, <1>4, <2>1, <2>2, ReaderUnmoved
<1>8. (\E starts \in [1 .. Len(sent) + 1 -> Nat] : Starts(starts) /\ UnreadBytes(starts))'
  <2>1. PICK starts \in [1 .. Len(sent) + 1 -> Nat] : Starts(starts) /\ UnreadBytes(starts)
    BY <1>0
  <2> QED
    BY <1>0, <1>4, <1>5, <2>1, StreamGrows
<1> QED
  BY <1>4, <1>6, <1>7, <1>8 DEF StoresInv

\* At the end of the ring: the rest of the part fits in front of the reader,
\* for the room that was found did not end there.
LEMMA WrapStoredPlace ==
  ASSUME WriterKinds, WriterPlace, RoomLeft, StoresLaps,
         head \in Index, rbase \in Nat, UNCHANGED <<head, rbase>>,
         w.pc = "store", ~w.wrapped, FifoSize - tail < PartSize,
         buf' = Stored(buf, tail, Len(sent) + 1, PartFrom, FifoSize - tail),
         tail' = 0, wbase' = wbase + FifoSize, sent' = sent,
         w' = [w EXCEPT !.pc = "store_rest", !.done = FifoSize - tail]
  PROVE  /\ wbase = rbase /\ StoresLaps' /\ WriterKinds' /\ WriterPlace' /\ RoomLeft'
         /\ \E gap \in Nat : /\ gap = FifoSize - tail /\ w'.done = gap /\ w'.part = w.part
                           /\ StoredSoFar = PartFrom /\ StoredSoFar' = StoredSoFar + gap
                           /\ WritePos' = WritePos + gap /\ WritePos + gap <= ReadPos + FifoSize
                           /\ tail + gap = FifoSize /\ (wbase + FifoSize) + 0 = WritePos + gap
<1>0. WriterKinds /\ StoresLaps /\ WriterPlace /\ RoomLeft
  OBVIOUS
<1>1. /\ FifoSize \in Nat \ {0} /\ HeaderSize \in Nat \ {0} /\ w.len \in Nat
      /\ StoredSoFar \in Nat /\ tail \in 0 .. FifoSize /\ head \in 0 .. FifoSize
      /\ WritePos \in Nat /\ ReadPos \in Nat /\ wbase \in Nat /\ rbase \in Nat
      /\ PartFrom + PartSize <= HeaderSize + w.len /\ PartFrom \in Nat /\ PartSize \in Nat
      /\ w.part = "header" \/ w.part = "payload"
  <2>1. /\ w.len \in Nat /\ StoredSoFar \in Nat /\ PartFrom \in Nat /\ PartSize \in Nat
        /\ PartFrom + PartSize <= HeaderSize + w.len /\ (w.part = "header" \/ w.part = "payload")
    BY <1>0, PlaceNumbers
  <2>2. tail \in 0 .. FifoSize /\ head \in 0 .. FifoSize /\ wbase \in Nat /\ rbase \in Nat
    BY <1>0 DEF WriterKinds, Index
  <2>3. WritePos \in Nat /\ ReadPos \in Nat
    BY ONLY <2>2 DEF WritePos, ReadPos
  <2> QED
    BY ONLY <2>1, <2>2, <2>3, SizesAreNumbers
<1>2. UNCHANGED <<head, rbase, ReadPos>>
  BY DEF ReadPos
<1> DEFINE rest == HeaderSize + w.len - StoredSoFar
           gap == FifoSize - tail
<1>3. rest \in Int /\ gap \in 0 .. FifoSize /\ gap \in Nat /\ gap < rest /\ StoredSoFar = PartFrom
  <2>1. StoredSoFar = PartFrom
    BY <1>0, PlaceNumbers
  <2> QED
    BY ONLY <1>1, <2>1, FifoSize - tail < PartSize
<1>4. wbase = rbase
  BY <1>0 DEF WriterPlace
<1>5. WritePos + rest < ReadPos + FifoSize
  <2>1. \/ WritePos + rest < ReadPos + FifoSize
        \/ wbase = rbase /\ head = 0 /\ tail + rest = FifoSize
    BY <1>0 DEF RoomLeft
  <2>2. ~(tail + rest = FifoSize)
    BY ONLY <1>1, <1>3
  <2> QED
    BY ONLY <2>1, <2>2
<1>6. tail + rest < head + FifoSize
  <2> HIDE DEF rest
  <2> QED
    BY ONLY <1>1, <1>3, <1>4, <1>5 DEF WritePos, ReadPos
<1>7. WritePos + gap <= ReadPos + FifoSize /\ tail + gap = FifoSize
      /\ (wbase + FifoSize) + 0 = WritePos + gap
  BY ONLY <1>1, <1>4 DEF WritePos, ReadPos
<1>8. WritePos' = WritePos + gap
  BY ONLY <1>7, tail' = 0, wbase' = wbase + FifoSize DEF WritePos
<1>9. StoresLaps'
  <2>1. 0 < head
    <3> HIDE DEF rest
    <3> QED
      BY ONLY <1>1, <1>3, <1>6
  <2> QED
    BY ONLY <1>2, <1>4, <2>1, tail' = 0, wbase' = wbase + FifoSize DEF StoresLaps
<1>10. w \in [pc: {"idle", "fits", "order", "store", "store_rest"},
               part: {"header", "payload"}, len: MsgSizes \union {0},
               free: 0 .. FifoSize, wrapped: BOOLEAN, done: 0 .. FifoSize]
       /\ w.len \in MsgSizes /\ sent \in Seq(MsgSizes)
  BY <1>0 DEF WriterKinds, WriterPlace
<1> HIDE DEF gap
<1>11. w' = [w EXCEPT !.pc = "store_rest", !.done = gap]
  BY DEF gap
<1>12. w'.pc = "store_rest" /\ w'.part = w.part /\ w'.len = w.len /\ w'.done = gap
  BY ONLY <1>3, <1>10, <1>11
<1>13. WriterKinds'
  <2>1. 0 \in Index /\ wbase + FifoSize \in Nat
    BY ONLY <1>1 DEF Index
  <2>2. buf' \in [0 .. FifoSize - 1 -> Nat \X Nat]
    BY <1>0, <1>3, StoredBytes DEF gap
  <2>3. w' \in [pc: {"idle", "fits", "order", "store", "store_rest"},
                part: {"header", "payload"}, len: MsgSizes \union {0},
                free: 0 .. FifoSize, wrapped: BOOLEAN, done: 0 .. FifoSize]
    BY ONLY <1>3, <1>10, <1>11
  <2> QED
    BY ONLY <1>10, <2>1, <2>2, <2>3, tail' = 0, wbase' = wbase + FifoSize, sent' = sent DEF
       WriterKinds
<1>14. UNCHANGED <<PartSize, PartFrom>>
  BY ONLY <1>12 DEF PartSize, PartFrom
<1>15. gap < PartSize /\ PartSize - gap <= FifoSize
  <2>1. gap < PartSize
    BY DEF gap
  <2>2. PartSize <= rest
    BY ONLY <1>1, <1>3
  <2>3. rest <= FifoSize + gap
    <3> HIDE DEF rest
    <3> QED
      BY ONLY <1>1, <1>3, <1>6 DEF gap
  <2> HIDE DEF rest
  <2> QED
    BY ONLY <1>1, <1>3, <2>1, <2>2, <2>3
<1>17. WriterPlace'
  BY ONLY <1>10, <1>12, <1>14, <1>15, tail' = 0 DEF WriterPlace
<1>18. StoredSoFar' = StoredSoFar + gap
  BY ONLY <1>3, <1>12, <1>14 DEF StoredSoFar
<1>19. RoomLeft'
  <2>1. (WritePos + gap) + (HeaderSize + w.len - (StoredSoFar + gap)) = WritePos + rest
    <3>1. WritePos \in Nat /\ HeaderSize \in Nat /\ w.len \in Nat /\ StoredSoFar \in Nat /\ gap \in Nat
      BY ONLY <1>1, <1>3
    <3> QED
      BY ONLY <3>1
  <2> QED
    BY ONLY <1>2, <1>5, <1>8, <1>12, <1>18, <2>1 DEF RoomLeft
<1> QED
  BY <1>3, <1>4, <1>7, <1>8, <1>9, <1>12, <1>13, <1>17, <1>18, <1>19 DEF gap

\* The store at the end of the ring keeps the invariant.
LEMMA WrapStoredKeeps ==
  ASSUME StoresInv, NeverTorn, ReaderUntouched,
         w.pc = "store", ~w.wrapped, FifoSize - tail < PartSize,
         buf' = Stored(buf, tail, Len(sent) + 1, PartFrom, FifoSize - tail),
         tail' = 0, wbase' = wbase + FifoSize, sent' = sent,
         w' = [w EXCEPT !.pc = "store_rest", !.done = FifoSize - tail]
  PROVE  StoresInv'
<1>0. /\ WriterKinds /\ ReaderKinds /\ StoresLaps /\ WriterStep /\ RoomLeft /\ ReaderStep /\ HandedOverWhole
      /\ \E starts \in [1 .. Len(sent) + 1 -> Nat] : Starts(starts) /\ UnreadBytes(starts)
  BY DEF StoresInv
<1>1. /\ head \in Index /\ rbase \in Nat /\ wbase \in Nat /\ sent \in Seq(MsgSizes)
      /\ tail \in 0 .. FifoSize /\ w.len \in Nat /\ FifoSize \in Nat
      /\ WritePos \in Nat /\ ReadPos \in Nat
  BY <1>0, StreamPositions, WriterNumbers, SizesAreNumbers DEF WriterKinds, ReaderKinds, Index
<1>2. UNCHANGED <<head, rbase>>
  BY DEF ReaderUntouched
<1>3. WriterPlace
  BY <1>0 DEF WriterStep
<1>4. wbase = rbase /\ StoresLaps' /\ WriterKinds' /\ WriterPlace' /\ RoomLeft'
  BY <1>0, <1>1, <1>2, <1>3, WrapStoredPlace
<1>5. PICK gap \in Nat : /\ gap = FifoSize - tail /\ w'.done = gap /\ w'.part = w.part
                        /\ StoredSoFar = PartFrom /\ StoredSoFar' = StoredSoFar + gap
                        /\ WritePos' = WritePos + gap /\ WritePos + gap <= ReadPos + FifoSize
                        /\ tail + gap = FifoSize /\ (wbase + FifoSize) + 0 = WritePos + gap
  BY <1>0, <1>1, <1>2, <1>3, WrapStoredPlace
<1>6. WriterStep'
  <2>1. w.part = "payload" => gap = 0
    <3> SUFFICES ASSUME w.part = "payload" PROVE gap = 0
      OBVIOUS
    <3>1. tail = FifoSize \/ w.len <= FifoSize - tail
      BY DEF NeverTorn
    <3>2. PartSize = w.len
      BY DEF PartSize
    <3>3. tail = FifoSize
      BY ONLY <1>1, <3>1, <3>2, FifoSize - tail < PartSize
    <3> QED
      BY ONLY <1>1, <1>5, <3>3
  <2> QED
    BY <1>4, <1>5, <2>1 DEF WriterStep
<1>7. ReaderKinds' /\ ReaderStep' /\ HandedOverWhole'
  <2>1. WritePos + gap \in Nat /\ WritePos <= WritePos + gap
    BY ONLY <1>1, gap \in Nat
  <2>2. /\ Len(sent') \in Nat /\ Len(sent) <= Len(sent')
        /\ \A n \in 1 .. Len(sent) : sent'[n] = sent[n]
    BY ONLY <1>1, sent' = sent
  <2> QED
    BY <1>0, <1>1, <1>4, <1>5, <2>1, <2>2, ReaderUnmoved
<1>8. (\E starts \in [1 .. Len(sent) + 1 -> Nat] : Starts(starts) /\ UnreadBytes(starts))'
  <2>1. PICK starts \in [1 .. Len(sent) + 1 -> Nat] : Starts(starts) /\ UnreadBytes(starts)
    BY <1>0
  <2>2. buf' = Stored(buf, tail, Len(sent) + 1, StoredSoFar, gap) /\ tail + gap <= FifoSize
    BY <1>1, <1>5
  <2> QED
    BY <1>0, <1>5, <2>1, <2>2, StreamGrows
<1> QED
  BY <1>4, <1>6, <1>7, <1>8 DEF StoresInv

\* The stores of the writer.
LEMMA StoringKeeps ==
  ASSUME Unpadded, NeverTorn, StoresInv, ReaderUntouched,
         Stores!StoreTail \/ Stores!StoreTailAgain \/ Stores!StoreTailZero
  PROVE  StoresInv'
<1>1. WriterKinds /\ WriterStep /\ RoomLeft /\ StoresLaps
  BY DEF StoresInv
<1>2. /\ w.part # "header" => w.len \in MsgSizes
      /\ w.pc # "pad" /\ tail \in 0 .. FifoSize
  BY <1>1 DEF WriterKinds, WriterStep, WriterPlace, Index
<1>3. /\ w.pc # "idle" /\ w.pc # "fits" => w.len \in Nat
      /\ PartSize \in Nat /\ PartFrom \in Nat
      /\ w.done \in Nat
      /\ w.pc # "store_rest" => StoredSoFar = PartFrom
      /\ w.pc = "store_rest" => StoredSoFar = PartFrom + w.done
  BY <1>1, WriterNumbers
<1>4. CASE /\ w.pc = "store" /\ (w.wrapped \/ PartSize <= FifoSize - tail)
           /\ buf' = Stored(buf, tail, Len(sent) + 1, PartFrom, PartSize)
           /\ tail' = tail + PartSize /\ wbase' = wbase /\ PartStored
  <2>1. tail + PartSize <= FifoSize
    <3>1. w.wrapped => tail + PartSize <= FifoSize
      BY <1>1, <1>4 DEF WriterStep, WriterPlace
    <3> QED
      BY ONLY <1>2, <1>3, <1>4, <3>1, SizesAreNumbers
  <2>2. StoredSoFar = PartFrom
    BY <1>3, <1>4
  <2> QED
    BY <1>3, <1>4, <2>1, <2>2, PartStoredKeeps
<1>5. CASE /\ w.pc = "store_rest"
           /\ buf' = Stored(buf, 0, Len(sent) + 1, PartFrom + w.done, PartSize - w.done)
           /\ tail' = tail + (PartSize - w.done) /\ wbase' = wbase /\ PartStored
  <2>1. tail = 0 /\ w.done < PartSize /\ PartSize - w.done <= FifoSize
    BY <1>1, <1>5 DEF WriterStep, WriterPlace
  <2> DEFINE k == PartSize - w.done
  <2>2. StoredSoFar = PartFrom + w.done
    BY <1>3, <1>5
  <2>3. k \in Nat /\ tail + k <= FifoSize /\ StoredSoFar + k = PartFrom + PartSize
    BY ONLY <1>3, <2>1, <2>2, SizesAreNumbers
  <2>4. buf' = Stored(buf, tail, Len(sent) + 1, StoredSoFar, k) /\ tail' = tail + k
    BY <1>5, <2>1, <2>2
  <2> HIDE DEF k
  <2> QED
    BY <1>5, <2>3, <2>4, PartStoredKeeps
<1>6. CASE /\ w.pc = "store" /\ ~w.wrapped /\ FifoSize - tail < PartSize
           /\ buf' = Stored(buf, tail, Len(sent) + 1, PartFrom, FifoSize - tail)
           /\ tail' = 0 /\ wbase' = wbase + FifoSize /\ sent' = sent
           /\ w' = [w EXCEPT !.pc = "store_rest", !.done = FifoSize - tail]
  BY <1>6, WrapStoredKeeps
<1> QED
  BY <1>2, <1>4, <1>5, <1>6, StoringSteps

\* What is left of the message the reader takes has been stored.
LEMMA MessageAhead ==
  ASSUME WriterKinds, WriterStep, ReaderKinds, StoresLaps,
         NEW starts \in [1 .. Len(sent) + 1 -> Nat], Starts(starts),
         Taking \in 1 .. Len(sent), LoadedSoFar \in Nat
  PROVE  ReadPos + (HeaderSize + sent[Taking] - LoadedSoFar) <= WritePos
<1>1. sent \in Seq(MsgSizes) /\ Len(sent) \in Nat
  BY DEF WriterKinds
<1>2. /\ Len(sent) + 1 \in 1 .. Len(sent) + 1 /\ Taking \in 1 .. Len(sent) + 1 /\ Taking < Len(sent) + 1
      /\ sent[Taking] \in Nat /\ HeaderSize \in Nat
  BY ONLY <1>1, SizesAreNumbers, Taking \in 1 .. Len(sent)
<1>3. /\ starts[Taking] + HeaderSize + sent[Taking] <= starts[Len(sent) + 1]
      /\ WritePos = starts[Len(sent) + 1] + StoredSoFar
      /\ ReadPos = starts[Taking] + LoadedSoFar
  BY <1>2 DEF Starts
<1>4. starts[Taking] \in Nat /\ starts[Len(sent) + 1] \in Nat
  BY <1>2
<1>5. StoredSoFar \in Nat
  BY WriterNumbers
<1>6. \A a, b, c, d, e, f \in Nat : a + c + d <= b => (a + e) + (c + d - e) <= b + f
  OBVIOUS
<1> QED
  BY ONLY <1>2, <1>3, <1>4, <1>5, <1>6, LoadedSoFar \in Nat

\* The steps of the reader that load the indexes: a message is taken only when
\* it is there to its end, so that there are never too few bytes.
LEMMA LocalReaderKeeps ==
  ASSUME StoresInv, WriterUntouched, UNCHANGED <<head, out, taken, rbase>>,
         \/ /\ r.pc = "idle" /\ PendingBytes(head, tail) > HeaderSize
            /\ r' = [AtRest EXCEPT !.pc = "pending"] /\ rret' = rret
         \/ /\ r.pc = "pending" /\ rret' = rret
            /\ r' = [r EXCEPT !.pc = "order", !.pending = PendingBytes(head, tail)]
         \/ r.pc = "order" /\ DueSize > r.pending
         \/ /\ r.pc = "order" /\ ~(DueSize > r.pending) /\ rret' = rret
            /\ r' = [r EXCEPT !.pc = "store", !.wrapped = (tail < head)]
  PROVE  StoresInv'
<1>0. /\ WriterKinds /\ ReaderKinds /\ StoresLaps /\ WriterStep /\ RoomLeft /\ ReaderStep /\ HandedOverWhole
  BY DEF StoresInv
<1>1. /\ FifoSize \in Nat \ {0} /\ HeaderSize \in Nat \ {0} /\ StoredSoFar \in Nat /\ StoredSoFar <= HeaderSize
      /\ tail \in 0 .. FifoSize /\ head \in 0 .. FifoSize /\ LoadedSoFar \in Nat
      /\ WritePos \in Nat /\ ReadPos \in Nat /\ wbase \in Nat /\ rbase \in Nat
      /\ Len(sent) \in Nat /\ taken \in Nat /\ DueSize \in Nat /\ DueFrom \in Nat /\ r.pending \in Nat
  <2>1. StoredSoFar \in Nat /\ StoredSoFar <= HeaderSize
    BY <1>0, WriterNumbers
  <2>2. /\ tail \in 0 .. FifoSize /\ head \in 0 .. FifoSize /\ wbase \in Nat /\ rbase \in Nat /\ taken \in Nat
    BY <1>0 DEF WriterKinds, ReaderKinds, Index
  <2>3. WritePos \in Nat /\ ReadPos \in Nat
    BY <1>0, StreamPositions
  <2>4. /\ Len(sent) \in Nat /\ LoadedSoFar \in Nat /\ DueSize \in Nat /\ DueFrom \in Nat /\ r.pending \in Nat
    BY <1>0, ReaderNumbers
  <2> QED
    BY ONLY <2>1, <2>2, <2>3, <2>4, SizesAreNumbers
<1>2. UNCHANGED <<head, tail, buf, w, sent, wbase, rbase, out, taken>>
  BY DEF WriterUntouched
<1>3. UNCHANGED <<WritePos, ReadPos, StoredSoFar>>
  BY ONLY <1>2 DEF WritePos, ReadPos, StoredSoFar, PartFrom
<1>4. r \in [pc: {"idle", "pending", "order", "store", "store_rest"},
             part: {"header", "payload"}, len: MsgSizes \union {0},
             pending: 0 .. FifoSize, wrapped: BOOLEAN, got: Seq(Nat \X Nat)]
      /\ (r.part = "payload" => r.pc # "idle" /\ taken \in 1 .. Len(sent) /\ r.len = sent[taken])
      /\ (r.part = "header" /\ r.pc # "idle" => taken < Len(sent))
      /\ rret \in {"none", "SUCCESS"} /\ out \in Seq(Nat \X Nat)
  BY <1>0 DEF ReaderKinds, ReaderStep
<1>5. PICK starts \in [1 .. Len(sent) + 1 -> Nat] : Starts(starts) /\ UnreadBytes(starts)
  BY DEF StoresInv
<1>6. /\ PendingBytes(head, tail) = WritePos - ReadPos /\ PendingBytes(head, tail) \in 0 .. FifoSize
  <2>1. /\ ReadPos <= WritePos /\ WritePos <= ReadPos + FifoSize
        /\ PendingBytes(head, tail) = WritePos - ReadPos
    BY <1>0, StreamPositions
  <2> QED
    BY ONLY <1>1, <2>1
<1>7. ASSUME r.pc # "idle", r.pc # "store_rest"
      PROVE  DueSize <= WritePos - ReadPos
  <2>1. /\ Taking \in 1 .. Len(sent) /\ DueFrom + DueSize <= HeaderSize + sent[Taking]
        /\ LoadedSoFar = DueFrom /\ sent[Taking] \in Nat
    BY <1>0, <1>7, ReaderNumbers
  <2>2. ReadPos + (HeaderSize + sent[Taking] - LoadedSoFar) <= WritePos
    BY <1>0, <1>1, <1>5, <2>1, MessageAhead
  <2> QED
    BY ONLY <1>1, <2>1, <2>2
<1>8. UNCHANGED <<Taking, LoadedSoFar, rret>> /\ ReaderKinds' /\ ReaderStep' /\ r'.pc # "idle"
  <2>1. CASE /\ r.pc = "idle" /\ PendingBytes(head, tail) > HeaderSize
             /\ r' = [AtRest EXCEPT !.pc = "pending"] /\ rret' = rret
    <3>1. r.part = "header" /\ r'.pc = "pending" /\ r'.part = "header"
      BY <1>4, <2>1 DEF AtRest
    <3>2. ReaderKinds'
      <4>1. r' = [pc |-> "pending", part |-> "header", len |-> 0, pending |-> 0, wrapped |-> FALSE, got |-> <<>>]
        BY ONLY <2>1 DEF AtRest
      <4>2. 0 \in 0 .. FifoSize /\ FALSE \in BOOLEAN /\ <<>> \in Seq(Nat \X Nat)
        BY ONLY <1>1
      <4>3. r' \in [pc: {"idle", "pending", "order", "store", "store_rest"},
                    part: {"header", "payload"}, len: MsgSizes \union {0},
                    pending: 0 .. FifoSize, wrapped: BOOLEAN, got: Seq(Nat \X Nat)]
        BY <4>1, <4>2
      <4> QED
        BY ONLY <1>0, <1>2, <2>1, <4>3 DEF ReaderKinds
    <3>3. UNCHANGED <<Taking, LoadedSoFar>> /\ Taking = taken + 1 /\ LoadedSoFar = 0
      BY ONLY <1>2, <2>1, <3>1 DEF Taking, LoadedSoFar, DueFrom
    <3>4. taken < Len(sent)
      <4> SUFFICES ASSUME ~(taken < Len(sent)) PROVE FALSE
        OBVIOUS
      <4>1. Taking \in 1 .. Len(sent) + 1 /\ WritePos = starts[Len(sent) + 1] + StoredSoFar
            /\ ReadPos = starts[Taking] + LoadedSoFar
        BY <1>5 DEF Starts
      <4>2. Taking = Len(sent) + 1
        <5>1. taken + 1 <= Len(sent) + 1
          BY ONLY <3>3, <4>1, <1>1
        <5> QED
          BY ONLY <1>1, <3>3, <5>1, ~(taken < Len(sent))
      <4>3. starts[Len(sent) + 1] \in Nat
        <5>1. Len(sent) + 1 \in 1 .. Len(sent) + 1
          BY ONLY <3>3, <4>1, <4>2
        <5> QED
          BY ONLY <1>5, <5>1
      <4>4. PendingBytes(head, tail) > HeaderSize /\ PendingBytes(head, tail) = WritePos - ReadPos
        BY <1>6, <2>1
      <4>5. \A a \in Nat : ~((a + StoredSoFar) - (a + 0) > HeaderSize)
        BY ONLY <1>1
      <4> QED
        BY ONLY <3>3, <4>1, <4>2, <4>3, <4>4, <4>5
    <3>5. ReaderStep'
      BY ONLY <1>2, <3>1, <3>4 DEF ReaderStep
    <3> QED
      BY <2>1, <3>1, <3>2, <3>3, <3>5
  <2>2. CASE /\ r.pc = "pending" /\ rret' = rret
             /\ r' = [r EXCEPT !.pc = "order", !.pending = PendingBytes(head, tail)]
    <3>1. /\ r'.pc = "order" /\ r'.part = r.part /\ r'.len = r.len /\ r'.pending = WritePos - ReadPos
      BY ONLY <1>4, <1>6, <2>2
    <3>2. ReaderKinds'
      BY ONLY <1>0, <1>2, <1>4, <1>6, <2>2 DEF ReaderKinds
    <3>3. UNCHANGED <<Taking, DueSize, DueFrom>>
      BY ONLY <1>2, <3>1 DEF Taking, DueSize, DueFrom
    <3>4. LoadedSoFar' = LoadedSoFar
      BY ONLY <2>2, <3>1, <3>3 DEF LoadedSoFar
    <3>5. DueSize <= WritePos - ReadPos
      BY <1>7, <2>2
    <3>6. WritePos - ReadPos <= WritePos - ReadPos
      BY ONLY <1>1
    <3>7. ReaderStep'
      BY ONLY <1>2, <1>3, <1>4, <2>2, <3>1, <3>3, <3>5, <3>6 DEF ReaderStep
    <3> QED
      BY <2>2, <3>1, <3>2, <3>3, <3>4, <3>7
  <2>3. ASSUME r.pc = "order" PROVE ~(DueSize > r.pending)
    <3>1. DueSize <= r.pending
      BY <1>0, <2>3 DEF ReaderStep
    <3> QED
      BY ONLY <1>1, <3>1
  <2>4. CASE /\ r.pc = "order" /\ ~(DueSize > r.pending) /\ rret' = rret
             /\ r' = [r EXCEPT !.pc = "store", !.wrapped = (tail < head)]
    <3>1. /\ r'.pc = "store" /\ r'.part = r.part /\ r'.len = r.len /\ (r'.wrapped <=> tail < head)
      BY <1>4, <2>4
    <3>2. ReaderKinds'
      <4> DEFINE b == tail < head
      <4>1. b \in BOOLEAN
        <5>1. b = TRUE \/ b = FALSE
          BY ONLY <1>1
        <5> QED
          BY ONLY <5>1
      <4>2. r' = [r EXCEPT !.pc = "store", !.wrapped = b]
        BY <2>4
      <4> HIDE DEF b
      <4>3. r' \in [pc: {"idle", "pending", "order", "store", "store_rest"},
                    part: {"header", "payload"}, len: MsgSizes \union {0},
                    pending: 0 .. FifoSize, wrapped: BOOLEAN, got: Seq(Nat \X Nat)]
        BY ONLY <1>4, <4>1, <4>2
      <4> QED
        BY ONLY <1>0, <1>2, <2>4, <4>3 DEF ReaderKinds
    <3>3. UNCHANGED <<Taking, DueSize, DueFrom>>
      BY ONLY <1>2, <3>1 DEF Taking, DueSize, DueFrom
    <3>4. LoadedSoFar' = LoadedSoFar
      BY ONLY <2>4, <3>1, <3>3 DEF LoadedSoFar
    <3>5. DueSize <= WritePos - ReadPos
      BY <1>7, <2>4
    <3>6. ASSUME tail < head PROVE wbase = rbase + FifoSize
      BY ONLY <1>0, <1>1, <3>6 DEF StoresLaps
    <3>7. ASSUME ~(tail < head) PROVE head + DueSize <= FifoSize
      <4>1. wbase = rbase
        BY ONLY <1>0, <1>1, <3>7 DEF StoresLaps
      <4> QED
        BY ONLY <1>1, <3>5, <4>1 DEF WritePos, ReadPos
    <3>8. ReaderStep'
      BY ONLY <1>2, <1>4, <2>4, <3>1, <3>3, <3>6, <3>7 DEF ReaderStep
    <3> QED
      BY <2>4, <3>1, <3>2, <3>3, <3>4, <3>8
  <2> QED
    BY <2>1, <2>2, <2>3, <2>4
<1>9. WriterKinds' /\ WriterStep' /\ RoomLeft'
  BY ONLY <1>0, <1>2, <1>3 DEF WriterKinds, WriterStep, WriterPlace, RoomLeft, PartSize
<1>10. StoresLaps'
  BY ONLY <1>0, <1>2 DEF StoresLaps
<1>11. HandedOverWhole'
  BY ONLY <1>8 DEF HandedOverWhole
<1>12. (\E x \in [1 .. Len(sent) + 1 -> Nat] : Starts(x) /\ UnreadBytes(x))'
  <2>1. Starts(starts)' /\ UnreadBytes(starts)'
    BY ONLY <1>2, <1>3, <1>5, <1>8 DEF Starts, UnreadBytes, Place
  <2> QED
    BY ONLY <1>2, <1>5, <2>1
<1> QED
  BY <1>8, <1>9, <1>10, <1>11, <1>12 DEF StoresInv

\* Behind the last load of a part: the reader has not passed the writer, it
\* knows the length its header gave, and it has the payload as it was stored.
LEMMA PartLoadedKeeps ==
  ASSUME StoresInv, WriterUntouched, r.pc \in {"store", "store_rest"},
         NEW k \in Nat \ {0}, LoadedSoFar + k = DueFrom + DueSize, head + k <= FifoSize,
         head' = head + k, rbase' = rbase,
         PartLoaded([i \in 1 .. DueSize |-> Byte(Taking, DueFrom + i - 1)])
  PROVE  StoresInv'
<1>0. /\ WriterKinds /\ ReaderKinds /\ StoresLaps /\ WriterStep /\ RoomLeft /\ ReaderStep /\ HandedOverWhole
  BY DEF StoresInv
<1>1. /\ FifoSize \in Nat \ {0} /\ HeaderSize \in Nat \ {0}
      /\ tail \in 0 .. FifoSize /\ head \in 0 .. FifoSize /\ LoadedSoFar \in Nat
      /\ WritePos \in Nat /\ ReadPos \in Nat /\ wbase \in Nat /\ rbase \in Nat
      /\ Len(sent) \in Nat /\ taken \in Nat /\ DueSize \in Nat \ {0} /\ DueFrom \in Nat
      /\ Taking \in 1 .. Len(sent) /\ sent[Taking] \in Nat /\ DueFrom + DueSize <= HeaderSize + sent[Taking]
      /\ sent \in Seq(MsgSizes) /\ (r.part = "header" \/ r.part = "payload")
  <2>1. /\ tail \in 0 .. FifoSize /\ head \in 0 .. FifoSize /\ wbase \in Nat /\ rbase \in Nat
        /\ taken \in Nat /\ sent \in Seq(MsgSizes)
    BY <1>0 DEF WriterKinds, ReaderKinds, Index
  <2>2. WritePos \in Nat /\ ReadPos \in Nat
    BY <1>0, StreamPositions
  <2>3. r.pc # "idle"
    OBVIOUS
  <2>4. /\ Len(sent) \in Nat /\ LoadedSoFar \in Nat /\ DueSize \in Nat \ {0} /\ DueFrom \in Nat
        /\ Taking \in 1 .. Len(sent) /\ sent[Taking] \in Nat /\ DueFrom + DueSize <= HeaderSize + sent[Taking]
        /\ (r.part = "header" \/ r.part = "payload")
    BY <1>0, <2>3, ReaderNumbers
  <2> QED
    BY ONLY <2>1, <2>2, <2>4, SizesAreNumbers
<1>2. UNCHANGED <<tail, buf, w, sent, wbase, WritePos>>
  BY DEF WriterUntouched, WritePos
<1>3. PICK starts \in [1 .. Len(sent) + 1 -> Nat] : Starts(starts) /\ UnreadBytes(starts)
  BY DEF StoresInv
<1>4. ReadPos + (HeaderSize + sent[Taking] - LoadedSoFar) <= WritePos
  BY <1>0, <1>1, <1>3, MessageAhead
<1>5. ReadPos + k <= WritePos
  BY ONLY <1>1, <1>4, k \in Nat \ {0}, LoadedSoFar + k = DueFrom + DueSize
<1>6. ReadPos' = ReadPos + k /\ ReadPos + k \in Nat /\ ReadPos < ReadPos + k
  <2>1. rbase + (head + k) = (rbase + head) + k
    BY ONLY <1>1, k \in Nat \ {0}
  <2>2. ReadPos' = ReadPos + k
    BY ONLY <2>1, head' = head + k, rbase' = rbase DEF ReadPos
  <2> QED
    BY ONLY <1>1, <2>2, k \in Nat \ {0}
<1>7. StoresLaps'
  <2>1. CASE wbase = rbase /\ head <= tail
    <3>1. head + k <= tail
      BY ONLY <1>1, <1>5, <2>1, k \in Nat \ {0} DEF WritePos, ReadPos
    <3> QED
      BY ONLY <1>2, <2>1, <3>1, head' = head + k, rbase' = rbase DEF StoresLaps
  <2>2. CASE wbase = rbase + FifoSize /\ tail < head
    <3>1. tail < head + k
      BY ONLY <1>1, <2>2, k \in Nat \ {0}
    <3> QED
      BY ONLY <1>2, <2>2, <3>1, head' = head + k, rbase' = rbase DEF StoresLaps
  <2> QED
    BY <1>0, <2>1, <2>2 DEF StoresLaps
<1>8. WriterKinds' /\ WriterStep' /\ RoomLeft'
  <2>1. ReadPos' \in Nat /\ ReadPos <= ReadPos' /\ ReadPos < ReadPos'
    BY ONLY <1>1, <1>6
  <2> QED
    BY <1>0, <1>1, <2>1, WriterUnmoved
<1>9. /\ ReaderKinds' /\ ReaderStep' /\ HandedOverWhole'
      /\ \/ Taking' = Taking /\ LoadedSoFar' = LoadedSoFar + k
         \/ /\ Taking' = Taking + 1 /\ LoadedSoFar' = 0 /\ Taking \in 1 .. Len(sent)
            /\ LoadedSoFar + k = HeaderSize + sent[Taking]
  <2>1. head' \in Index /\ rbase' \in Nat
    <3>1. head + k \in 0 .. FifoSize
      BY ONLY <1>1, k \in Nat \ {0}, head + k <= FifoSize
    <3> QED
      BY ONLY <1>1, <3>1, head' = head + k, rbase' = rbase DEF Index
  <2>2. 0 \in 0 .. FifoSize /\ FALSE \in BOOLEAN /\ <<>> \in Seq(Nat \X Nat)
    BY ONLY <1>1
  <2>3. taken \in Nat /\ rret \in {"none", "SUCCESS"} /\ out \in Seq(Nat \X Nat)
    BY <1>0 DEF ReaderKinds
  <2>4. CASE r.part = "header"
    <3>1. DueSize = HeaderSize /\ DueFrom = 0 /\ Taking = taken + 1
      BY <2>4 DEF DueSize, DueFrom, Taking
    <3> DEFINE bytes == [i \in 1 .. DueSize |-> Byte(Taking, DueFrom + i - 1)]
    <3>2. Stores!HeaderValues(bytes) = {sent[Taking]}
      <4>1. ASSUME NEW i \in 1 .. HeaderSize PROVE bytes[i] = Byte(Taking, i - 1)
        <5>1. bytes[i] = Byte(Taking, DueFrom + i - 1)
          BY <3>1
        <5>2. DueFrom + i - 1 = i - 1
          BY ONLY <3>1, <1>1, i \in 1 .. HeaderSize
        <5> QED
          BY ONLY <5>1, <5>2
      <4> HIDE DEF bytes
      <4> QED
        BY <1>1, <4>1, HeaderRead
    <3>3. /\ \E len \in Stores!HeaderValues(bytes) :
                r' = [AtRest EXCEPT !.pc = "pending", !.part = "payload", !.len = len]
          /\ taken' = taken + 1 /\ rret' = rret /\ out' = out
      BY <2>4 DEF PartLoaded
    <3> HIDE DEF bytes
    <3>4. r' = [pc |-> "pending", part |-> "payload", len |-> sent[Taking], pending |-> 0,
                wrapped |-> FALSE, got |-> <<>>]
      BY ONLY <3>2, <3>3 DEF AtRest
    <3>5. r'.pc = "pending" /\ r'.part = "payload" /\ r'.len = sent[Taking]
      BY ONLY <3>4
    <3>6. taken' = Taking /\ taken' \in Nat
      BY ONLY <1>1, <3>1, <3>3
    <3>7. ReaderKinds'
      <4>1. sent[Taking] \in MsgSizes
        BY ONLY <1>1
      <4>2. r' \in [pc: {"idle", "pending", "order", "store", "store_rest"},
                    part: {"header", "payload"}, len: MsgSizes \union {0},
                    pending: 0 .. FifoSize, wrapped: BOOLEAN, got: Seq(Nat \X Nat)]
        BY ONLY <2>2, <3>4, <4>1
      <4> QED
        BY ONLY <2>1, <2>3, <3>3, <3>6, <4>2 DEF ReaderKinds
    <3>8. ReaderStep' /\ HandedOverWhole'
      BY ONLY <1>1, <1>2, <3>5, <3>6 DEF ReaderStep, HandedOverWhole
    <3>9. Taking' = Taking /\ LoadedSoFar' = HeaderSize
      BY ONLY <1>1, <3>5, <3>6 DEF Taking, LoadedSoFar, DueFrom
    <3>10. LoadedSoFar + k = HeaderSize
      BY ONLY <1>1, <3>1, LoadedSoFar + k = DueFrom + DueSize
    <3> QED
      BY <3>7, <3>8, <3>9, <3>10
  <2>5. CASE r.part = "payload"
    <3>1. DueSize = r.len /\ DueFrom = HeaderSize /\ Taking = taken
      BY <2>5 DEF DueSize, DueFrom, Taking
    <3>2. r.len = sent[taken]
      BY <1>0, <2>5 DEF ReaderStep
    <3>3. r' = AtRest /\ rret' = "SUCCESS" /\ taken' = taken
          /\ out' = [i \in 1 .. DueSize |-> Byte(Taking, DueFrom + i - 1)]
      BY <2>5 DEF PartLoaded
    <3>4. out' = [i \in 1 .. sent[taken] |-> Byte(taken, HeaderSize + i - 1)]
      BY ONLY <3>1, <3>2, <3>3
    <3>5. r' = [pc |-> "idle", part |-> "header", len |-> 0, pending |-> 0, wrapped |-> FALSE,
    got |-> <<>>]
          /\ r'.pc = "idle" /\ r'.part = "header"
      BY ONLY <3>3 DEF AtRest
    <3>6. out' \in Seq(Nat \X Nat)
      <4>1. \A i \in 1 .. sent[taken] : HeaderSize + i - 1 \in Nat
        BY ONLY <1>1
      <4>2. \A i \in 1 .. sent[taken] : Byte(taken, HeaderSize + i - 1) \in Nat \X Nat
        BY ONLY <1>1, <4>1 DEF Byte
      <4>3. sent[taken] \in Nat
        BY ONLY <1>1, <3>1
      <4>4. out' \in [1 .. sent[taken] -> Nat \X Nat]
        BY ONLY <3>4, <4>2
      <4> QED
        BY ONLY <4>3, <4>4, SeqDef
    <3>7. ReaderKinds'
      <4>1. r' \in [pc: {"idle", "pending", "order", "store", "store_rest"},
                    part: {"header", "payload"}, len: MsgSizes \union {0},
                    pending: 0 .. FifoSize, wrapped: BOOLEAN, got: Seq(Nat \X Nat)]
        BY ONLY <2>2, <3>5
      <4> QED
        BY ONLY <2>1, <2>3, <3>3, <3>6, <4>1 DEF ReaderKinds
    <3>8. ReaderStep' /\ HandedOverWhole'
      BY ONLY <1>1, <1>2, <3>1, <3>3, <3>4, <3>5 DEF ReaderStep, HandedOverWhole
    <3>9. Taking' = Taking + 1 /\ LoadedSoFar' = 0
      BY ONLY <3>1, <3>3, <3>5 DEF Taking, LoadedSoFar, DueFrom
    <3>10. LoadedSoFar + k = HeaderSize + sent[Taking]
      BY ONLY <3>1, <3>2, LoadedSoFar + k = DueFrom + DueSize
    <3> QED
      BY <1>1, <3>7, <3>8, <3>9, <3>10
  <2> QED
    BY <1>1, <2>4, <2>5
<1>10. (\E x \in [1 .. Len(sent) + 1 -> Nat] : Starts(x) /\ UnreadBytes(x))'
  BY <1>0, <1>1, <1>3, <1>6, <1>9, StreamShrinks
<1> QED
  BY <1>7, <1>8, <1>9, <1>10 DEF StoresInv

\* At the end of the ring: the reader goes on at its start, in the lap the
\* writer is in already.
LEMMA WrapLoadedKeeps ==
  ASSUME StoresInv, WriterUntouched, r.pc = "store", r.wrapped, FifoSize - head < DueSize,
         head' = 0, rbase' = rbase + FifoSize, UNCHANGED <<rret, out, taken>>,
         r' = [r EXCEPT !.pc = "store_rest", !.got = Stores!Read(head, FifoSize - head)]
  PROVE  StoresInv'
<1>0. /\ WriterKinds /\ ReaderKinds /\ StoresLaps /\ WriterStep /\ RoomLeft /\ ReaderStep /\ HandedOverWhole
  BY DEF StoresInv
<1>1. /\ FifoSize \in Nat \ {0} /\ HeaderSize \in Nat \ {0}
      /\ tail \in 0 .. FifoSize /\ head \in 0 .. FifoSize /\ LoadedSoFar \in Nat
      /\ WritePos \in Nat /\ ReadPos \in Nat /\ wbase \in Nat /\ rbase \in Nat
      /\ Len(sent) \in Nat /\ taken \in Nat /\ DueSize \in Nat \ {0} /\ DueFrom \in Nat
      /\ Taking \in 1 .. Len(sent) /\ sent[Taking] \in Nat /\ DueFrom + DueSize <= HeaderSize + sent[Taking]
      /\ sent \in Seq(MsgSizes) /\ (r.part = "header" \/ r.part = "payload")
  <2>1. /\ tail \in 0 .. FifoSize /\ head \in 0 .. FifoSize /\ wbase \in Nat /\ rbase \in Nat
        /\ taken \in Nat /\ sent \in Seq(MsgSizes)
    BY <1>0 DEF WriterKinds, ReaderKinds, Index
  <2>2. WritePos \in Nat /\ ReadPos \in Nat
    BY <1>0, StreamPositions
  <2>3. r.pc # "idle"
    OBVIOUS
  <2>4. /\ Len(sent) \in Nat /\ LoadedSoFar \in Nat /\ DueSize \in Nat \ {0} /\ DueFrom \in Nat
        /\ Taking \in 1 .. Len(sent) /\ sent[Taking] \in Nat /\ DueFrom + DueSize <= HeaderSize + sent[Taking]
        /\ (r.part = "header" \/ r.part = "payload")
    BY <1>0, <2>3, ReaderNumbers
  <2> QED
    BY ONLY <2>1, <2>2, <2>4, SizesAreNumbers
<1>2. UNCHANGED <<tail, buf, w, sent, wbase, WritePos>>
  BY DEF WriterUntouched, WritePos
<1>3. PICK starts \in [1 .. Len(sent) + 1 -> Nat] : Starts(starts) /\ UnreadBytes(starts)
  BY DEF StoresInv
<1>4. ReadPos + (HeaderSize + sent[Taking] - LoadedSoFar) <= WritePos
  BY <1>0, <1>1, <1>3, MessageAhead
<1> DEFINE gap == FifoSize - head
<1>5. /\ gap \in Nat /\ gap < DueSize /\ head + gap = FifoSize
      /\ LoadedSoFar = DueFrom /\ wbase = rbase + FifoSize
  <2>1. LoadedSoFar = DueFrom
    BY <1>0, ReaderNumbers
  <2>2. wbase = rbase + FifoSize
    BY <1>0 DEF ReaderStep
  <2> QED
    BY ONLY <1>1, <2>1, <2>2, FifoSize - head < DueSize
<1>6. ReadPos + gap <= WritePos /\ LoadedSoFar + gap <= HeaderSize + sent[Taking]
  <2> HIDE DEF gap
  <2> QED
    BY ONLY <1>1, <1>4, <1>5
<1>7. Stores!Read(head, gap) = [i \in 1 .. gap |-> Byte(Taking, DueFrom + i - 1)]
  <2>1. head + gap <= FifoSize
    BY ONLY <1>1
  <2>2. Stores!Read(head, gap) = [i \in 1 .. gap |-> Byte(Taking, LoadedSoFar + i - 1)]
    <3>1. gap \in Nat
      BY <1>5
    <3> HIDE DEF gap
    <3> QED
      BY <1>0, <1>1, <1>3, <1>6, <2>1, <3>1, BytesRead
  <2> HIDE DEF gap
  <2> QED
    BY ONLY <1>5, <2>2
<1> DEFINE got == [i \in 1 .. gap |-> Byte(Taking, DueFrom + i - 1)]
<1>8. got \in Seq(Nat \X Nat) /\ Len(got) = gap /\ \A i \in 1 .. gap : got[i] = Byte(Taking, DueFrom + i - 1)
  <2>1. gap \in Nat
    BY <1>5
  <2> HIDE DEF gap
  <2>2. \A i \in 1 .. gap : DueFrom + i - 1 \in Nat
    BY ONLY <1>1, <2>1
  <2>3. \A i \in 1 .. gap : Byte(Taking, DueFrom + i - 1) \in Nat \X Nat
    BY ONLY <1>1, <2>2 DEF Byte
  <2>4. got \in [1 .. gap -> Nat \X Nat]
    BY ONLY <2>3
  <2>5. \A i \in 1 .. gap : got[i] = Byte(Taking, DueFrom + i - 1)
    OBVIOUS
  <2> HIDE DEF got
  <2>6. got \in Seq(Nat \X Nat)
    BY ONLY <2>1, <2>4, SeqDef
  <2>7. Len(got) \in Nat /\ 1 .. Len(got) = 1 .. gap
    BY ONLY <2>4, <2>6, LenProperties
  <2> QED
    BY ONLY <2>1, <2>5, <2>6, <2>7
<1>9. r' = [r EXCEPT !.pc = "store_rest", !.got = got]
  BY <1>7
<1>10. ReadPos' = ReadPos + gap /\ ReadPos' = rbase' /\ ReadPos' \in Nat /\ ReadPos <= ReadPos'
  <2>1. (rbase + FifoSize) + 0 = (rbase + head) + gap /\ (rbase + FifoSize) + 0 = rbase + FifoSize
    BY ONLY <1>1
  <2>2. ReadPos' = ReadPos + gap /\ ReadPos' = rbase'
    BY ONLY <2>1, head' = 0, rbase' = rbase + FifoSize DEF ReadPos
  <2>3. gap \in Nat
    BY <1>5
  <2> HIDE DEF gap
  <2> QED
    BY ONLY <1>1, <2>2, <2>3
<1> HIDE DEF gap, got
<1>11. r \in [pc: {"idle", "pending", "order", "store", "store_rest"},
              part: {"header", "payload"}, len: MsgSizes \union {0},
              pending: 0 .. FifoSize, wrapped: BOOLEAN, got: Seq(Nat \X Nat)]
       /\ rret \in {"none", "SUCCESS"} /\ out \in Seq(Nat \X Nat)
       /\ (r.part = "payload" => r.pc # "idle" /\ taken \in 1 .. Len(sent) /\ r.len = sent[taken])
       /\ (r.part = "header" /\ r.pc # "idle" => taken < Len(sent))
  BY <1>0 DEF ReaderKinds, ReaderStep
<1>12. r'.pc = "store_rest" /\ r'.part = r.part /\ r'.len = r.len /\ r'.got = got
  BY ONLY <1>9, <1>11
<1>13. ReaderKinds'
  <2>1. 0 \in Index /\ rbase + FifoSize \in Nat
    BY ONLY <1>1 DEF Index
  <2>2. r' \in [pc: {"idle", "pending", "order", "store", "store_rest"},
                part: {"header", "payload"}, len: MsgSizes \union {0},
                pending: 0 .. FifoSize, wrapped: BOOLEAN, got: Seq(Nat \X Nat)]
    BY ONLY <1>8, <1>9, <1>11
  <2> QED
    BY ONLY <1>1, <1>11, <2>1, <2>2, head' = 0, rbase' = rbase + FifoSize, UNCHANGED <<rret,
       out, taken>>
       DEF ReaderKinds
<1>14. UNCHANGED <<Taking, DueSize, DueFrom>>
  BY ONLY <1>12, UNCHANGED <<rret, out, taken>> DEF Taking, DueSize, DueFrom
<1>15. LoadedSoFar' = LoadedSoFar + gap
  BY ONLY <1>5, <1>8, <1>12, <1>14 DEF LoadedSoFar
<1>16. ReaderStep' /\ HandedOverWhole'
  <2>1. ReaderStep'
    BY ONLY <1>2, <1>5, <1>8, <1>11, <1>12, <1>14, r.pc = "store", head' = 0, UNCHANGED <<rret,
       out, taken>>
       DEF ReaderStep
  <2>2. HandedOverWhole'
    BY ONLY <1>12 DEF HandedOverWhole
  <2> QED
    BY <2>1, <2>2
<1>17. WriterKinds' /\ WriterStep' /\ RoomLeft'
  BY <1>0, <1>1, <1>5, <1>10, WriterUnmoved
<1>18. StoresLaps'
  <2>1. 0 <= tail
    BY ONLY <1>1
  <2> QED
    BY ONLY <1>2, <1>5, <2>1, head' = 0, rbase' = rbase + FifoSize DEF StoresLaps
<1>19. (\E x \in [1 .. Len(sent) + 1 -> Nat] : Starts(x) /\ UnreadBytes(x))'
  BY <1>0, <1>1, <1>3, <1>5, <1>10, <1>14, <1>15, StreamShrinks
<1> QED
  BY <1>13, <1>16, <1>17, <1>18, <1>19 DEF StoresInv

\* The stores of the reader.
LEMMA LoadingKeeps ==
  ASSUME Unpadded, StoresInv, WriterUntouched,
         Stores!StoreHead \/ Stores!StoreHeadAgain \/ Stores!StoreHeadZero
  PROVE  StoresInv'
<1>1. WriterKinds /\ WriterStep /\ ReaderKinds /\ ReaderStep /\ StoresLaps
  BY DEF StoresInv
<1>2. r.pc # "pad" /\ head \in 0 .. FifoSize /\ r.got \in Seq(Nat \X Nat)
  BY <1>1 DEF ReaderKinds, Index
<1>3. r.part # "header" => r.len \in MsgSizes
  <2>1. r.part = "header" \/ r.part = "payload"
    BY <1>1, ReaderNumbers
  <2>2. r.part = "payload" => taken \in 1 .. Len(sent) /\ r.len = sent[taken]
    BY <1>1 DEF ReaderStep
  <2>3. sent \in Seq(MsgSizes)
    BY <1>1 DEF WriterKinds
  <2> QED
    BY ONLY <2>1, <2>2, <2>3
<1>4. PICK starts \in [1 .. Len(sent) + 1 -> Nat] : Starts(starts) /\ UnreadBytes(starts)
  BY DEF StoresInv
<1>5. ASSUME r.pc \in {"store", "store_rest"}
      PROVE  /\ DueSize \in Nat \ {0} /\ DueFrom \in Nat /\ LoadedSoFar \in Nat /\ Len(r.got) \in Nat
             /\ Taking \in 1 .. Len(sent) /\ Taking \in Nat /\ sent[Taking] \in Nat
             /\ DueFrom + DueSize <= HeaderSize + sent[Taking]
             /\ ReadPos + (HeaderSize + sent[Taking] - LoadedSoFar) <= WritePos
             /\ ReadPos \in Nat /\ WritePos \in Nat /\ HeaderSize \in Nat
  <2>1. r.pc # "idle"
    BY <1>5
  <2>2. /\ DueSize \in Nat \ {0} /\ DueFrom \in Nat /\ LoadedSoFar \in Nat /\ Len(r.got) \in Nat
        /\ Taking \in 1 .. Len(sent) /\ sent[Taking] \in Nat /\ Len(sent) \in Nat
        /\ DueFrom + DueSize <= HeaderSize + sent[Taking]
    BY <1>1, <2>1, ReaderNumbers
  <2>3. ReadPos + (HeaderSize + sent[Taking] - LoadedSoFar) <= WritePos
    BY <1>1, <1>4, <2>2, MessageAhead
  <2>4. ReadPos \in Nat /\ WritePos \in Nat
    BY <1>1, StreamPositions
  <2>5. Taking \in Nat
    BY ONLY <2>2
  <2> QED
    BY ONLY <2>2, <2>3, <2>4, <2>5, SizesAreNumbers
<1>6. CASE /\ r.pc = "store" /\ (~r.wrapped \/ DueSize <= FifoSize - head)
           /\ head' = head + DueSize /\ rbase' = rbase /\ PartLoaded(Stores!Read(head, DueSize))
  <2>1. r.pc \in {"store", "store_rest"} /\ LoadedSoFar = DueFrom
    BY <1>1, <1>6, ReaderNumbers
  <2>2. head + DueSize <= FifoSize
    <3>1. ~r.wrapped => head + DueSize <= FifoSize
      BY <1>1, <1>6 DEF ReaderStep
    <3> QED
      BY ONLY <1>2, <1>5, <1>6, <2>1, <3>1, SizesAreNumbers
  <2>3. ReadPos + DueSize <= WritePos /\ LoadedSoFar + DueSize <= HeaderSize + sent[Taking]
    <3>1. \A x \in Nat : x <= HeaderSize + sent[Taking] - LoadedSoFar => ReadPos + x <= WritePos
      <4>1. \A y \in Int : ReadPos + y <= WritePos => \A x \in Nat : x <= y => ReadPos + x <= WritePos
        BY ONLY <1>5, <2>1
      <4>2. HeaderSize + sent[Taking] - LoadedSoFar \in Int
        BY ONLY <1>5, <2>1
      <4> QED
        BY ONLY <1>5, <2>1, <4>1, <4>2
    <3>2. DueSize <= HeaderSize + sent[Taking] - LoadedSoFar
      BY ONLY <1>5, <2>1
    <3> QED
      BY ONLY <1>5, <2>1, <3>1, <3>2
  <2>4. Stores!Read(head, DueSize) = [i \in 1 .. DueSize |-> Byte(Taking, DueFrom + i - 1)]
    <3>1. Stores!Read(head, DueSize) = [i \in 1 .. DueSize |-> Byte(Taking, LoadedSoFar + i - 1)]
      <4>1. DueSize \in Nat
        BY <1>5, <2>1
      <4> QED
        BY <1>1, <1>4, <1>5, <2>1, <2>2, <2>3, <4>1, BytesRead
    <3> QED
      BY ONLY <2>1, <3>1
  <2> QED
    BY <1>5, <1>6, <2>1, <2>2, <2>4, PartLoadedKeeps
<1>7. CASE /\ r.pc = "store_rest"
           /\ head' = head + (DueSize - Len(r.got)) /\ rbase' = rbase
           /\ PartLoaded(r.got \o Stores!Read(0, DueSize - Len(r.got)))
  <2>1. r.pc \in {"store", "store_rest"} /\ LoadedSoFar = DueFrom + Len(r.got)
    BY <1>1, <1>7, ReaderNumbers
  <2>2. /\ head = 0 /\ Len(r.got) < DueSize
        /\ \A i \in 1 .. Len(r.got) : r.got[i] = Byte(Taking, DueFrom + i - 1)
    BY <1>1, <1>7 DEF ReaderStep
  <2>3. PICK g \in Nat : g = Len(r.got)
    BY <1>5, <2>1
  <2>4. /\ DueSize \in Nat /\ DueFrom \in Nat /\ LoadedSoFar = DueFrom + g /\ g < DueSize
        /\ HeaderSize \in Nat /\ sent[Taking] \in Nat /\ ReadPos \in Nat /\ WritePos \in Nat
        /\ DueFrom + DueSize <= HeaderSize + sent[Taking]
        /\ ReadPos + (HeaderSize + sent[Taking] - LoadedSoFar) <= WritePos
    BY <1>5, <2>1, <2>2, <2>3
  <2> DEFINE k == DueSize - g
  <2>5. k \in Nat \ {0} /\ LoadedSoFar + k = DueFrom + DueSize /\ Len(r.got) + k = DueSize
    <3>1. k \in Nat \ {0} /\ (DueFrom + g) + k = DueFrom + DueSize /\ g + k = DueSize
      BY ONLY <2>4, g \in Nat
    <3> HIDE DEF k
    <3> QED
      BY ONLY <2>3, <2>4, <3>1
  <2>6. ReadPos + k <= WritePos /\ LoadedSoFar + k <= HeaderSize + sent[Taking]
    <3>1. \A len \in Nat : DueFrom + DueSize <= HeaderSize + len
                           /\ ReadPos + (HeaderSize + len - (DueFrom + g)) <= WritePos
                           => ReadPos + k <= WritePos /\ (DueFrom + g) + k <= HeaderSize + len
      <4>1. DueSize \in Nat /\ DueFrom \in Nat /\ HeaderSize \in Nat /\ ReadPos \in Nat /\ WritePos \in Nat
        BY ONLY <2>4
      <4> QED
        BY ONLY <4>1, g \in Nat
    <3> HIDE DEF k
    <3> QED
      BY ONLY <2>4, <3>1
  <2> HIDE DEF k
  <2>7. head + k <= FifoSize
    <3>1. tail \in 0 .. FifoSize /\ wbase \in Nat /\ rbase \in Nat
      BY <1>1 DEF WriterKinds, ReaderKinds, Index
    <3>2. wbase = rbase
      BY ONLY <1>1, <2>2, <3>1, SizesAreNumbers DEF StoresLaps
    <3> QED
      BY ONLY <2>2, <2>5, <2>6, <3>1, <3>2, SizesAreNumbers DEF ReadPos, WritePos
  <2>8. Stores!Read(head, k) = [i \in 1 .. k |-> Byte(Taking, LoadedSoFar + i - 1)]
    <3>1. k \in Nat
      BY <2>5
    <3> QED
      BY <1>1, <1>4, <1>5, <2>1, <2>6, <2>7, <3>1, BytesRead
  <2>9. r.got \o Stores!Read(0, k) = [i \in 1 .. DueSize |-> Byte(Taking, DueFrom + i - 1)]
    <3>1. Stores!Read(0, k) = [i \in 1 .. k |-> Byte(Taking, DueFrom + Len(r.got) + i - 1)]
      BY ONLY <2>1, <2>2, <2>8
    <3>2. r.got \o [i \in 1 .. k |-> Byte(Taking, DueFrom + Len(r.got) + i - 1)]
            = [i \in 1 .. Len(r.got) + k |-> Byte(Taking, DueFrom + i - 1)]
      <4>1. Taking \in Nat /\ DueFrom \in Nat /\ k \in Nat
        BY <1>5, <2>1, <2>5
      <4>2. r.got \in Seq(Nat \X Nat)
        BY ONLY <1>2
      <4>3. \A i \in 1 .. Len(r.got) : r.got[i] = Byte(Taking, DueFrom + i - 1)
        BY ONLY <2>2
      <4> QED
        BY ONLY <4>1, <4>2, <4>3, PartsJoined
    <3> QED
      BY ONLY <2>5, <3>1, <3>2
  <2>10. /\ head' = head + k
        /\ PartLoaded([i \in 1 .. DueSize |-> Byte(Taking, DueFrom + i - 1)])
    <3>1. PartLoaded(r.got \o Stores!Read(0, k)) /\ head' = head + k
      BY <1>7, <2>3 DEF k
    <3> QED
      BY ONLY <2>9, <3>1
  <2> QED
    BY <1>7, <2>1, <2>5, <2>7, <2>10, PartLoadedKeeps
<1>8. CASE /\ r.pc = "store" /\ r.wrapped /\ FifoSize - head < DueSize
           /\ head' = 0 /\ rbase' = rbase + FifoSize
           /\ r' = [r EXCEPT !.pc = "store_rest", !.got = Stores!Read(head, FifoSize - head)]
           /\ UNCHANGED <<rret, out, taken>>
  BY <1>8, WrapLoadedKeeps
<1> QED
  BY <1>2, <1>3, <1>6, <1>7, <1>8, LoadingSteps

\* Two calls at rest and an empty ring: the first message starts at 0.
LEMMA StoresStart == Stores!Init => StoresInv
<1> SUFFICES ASSUME Stores!Init
             PROVE  StoresInv
  OBVIOUS
<1>1. /\ FifoSize \in Nat \ {0} /\ HeaderSize \in Nat \ {0}
      /\ head = 0 /\ tail = 0 /\ w = Idle /\ r = AtRest /\ rret = "none" /\ out = <<>>
      /\ sent = <<>> /\ taken = 0 /\ wbase = 0 /\ rbase = 0
      /\ buf = [k \in 0 .. FifoSize - 1 |-> Stores!Junk]
  BY SizesAreNumbers DEF Stores!Init, Stores!WriterIdle, Stores!ReaderIdle, Idle, AtRest
<1>2. WriterKinds
  <2>1. buf \in [0 .. FifoSize - 1 -> Nat \X Nat]
    BY <1>1 DEF Stores!Junk
  <2>2. w.wrapped \in BOOLEAN /\ <<>> \in Seq(MsgSizes)
    BY <1>1 DEF Idle
  <2>3. w \in [pc: {"idle", "fits", "order", "store", "store_rest"},
               part: {"header", "payload"}, len: MsgSizes \union {0},
               free: 0 .. FifoSize, wrapped: BOOLEAN, done: 0 .. FifoSize]
    BY <1>1, <2>2 DEF Idle
  <2> QED
    BY <1>1, <2>1, <2>2, <2>3 DEF WriterKinds, Index
<1>3. ReaderKinds
  <2>1. <<>> \in Seq(Nat \X Nat) /\ r.wrapped \in BOOLEAN
    BY <1>1 DEF AtRest
  <2>2. r \in [pc: {"idle", "pending", "order", "store", "store_rest"},
               part: {"header", "payload"}, len: MsgSizes \union {0},
               pending: 0 .. FifoSize, wrapped: BOOLEAN, got: Seq(Nat \X Nat)]
    BY <1>1, <2>1 DEF AtRest
  <2> QED
    BY <1>1, <2>1, <2>2 DEF ReaderKinds, Index
<1>4. StoresLaps /\ WriterStep /\ RoomLeft /\ ReaderStep /\ HandedOverWhole
  BY <1>1 DEF StoresLaps, WriterStep, WriterPlace, RoomLeft, ReaderStep, HandedOverWhole, Idle,
     AtRest
<1> DEFINE starts == [n \in 1 .. 1 |-> 0]
<1>5. starts \in [1 .. Len(sent) + 1 -> Nat]
  BY <1>1
<1>6. Starts(starts) /\ UnreadBytes(starts)
  <2>1. Len(sent) = 0 /\ StoredSoFar = 0 /\ LoadedSoFar = 0 /\ Taking = 1 /\ starts[1] = 0
        /\ WritePos = 0 /\ ReadPos = 0
    BY <1>1 DEF StoredSoFar, LoadedSoFar, Taking, PartFrom, DueFrom, Idle, AtRest, WritePos,
       ReadPos
  <2> HIDE DEF starts
  <2>2. Starts(starts)
    BY ONLY <2>1 DEF Starts
  <2>3. UnreadBytes(starts)
    <3> SUFFICES ASSUME NEW n \in 1 .. Len(sent) + 1, NEW i \in Nat, starts[n] + i < WritePos
                 PROVE  FALSE
      BY DEF UnreadBytes
    <3>1. n = 1
      BY <2>1
    <3> QED
      BY <2>1, <3>1
  <2> QED
    BY <2>2, <2>3
<1> QED
  BY <1>2, <1>3, <1>4, <1>5, <1>6 DEF StoresInv

\* Every step keeps the invariant.
LEMMA StoresStep ==
  Unpadded /\ NeverTorn /\ StoresInv /\ [Stores!Next]_(Stores!vars) => StoresInv'
<1> SUFFICES ASSUME Unpadded, NeverTorn, StoresInv, [Stores!Next]_(Stores!vars)
             PROVE  StoresInv'
  OBVIOUS
<1>1. CASE Stores!Writer
  BY <1>1, LocalWriterSteps, LocalWriterKeeps, StoringKeeps
<1>2. CASE Stores!Reader
  BY <1>2, LocalReaderSteps, LocalReaderKeeps, LoadingKeeps
<1>3. CASE UNCHANGED Stores!vars
  <2>1. ReaderUntouched /\ WriterUntouched
    BY <1>3 DEF Stores!vars, ReaderUntouched, WriterUntouched
  <2> USE DEF ReaderUntouched, WriterUntouched
  <2>2. (WriterKinds => WriterKinds') /\ (ReaderKinds => ReaderKinds') /\ (StoresLaps => StoresLaps')
        /\ (HandedOverWhole => HandedOverWhole')
    BY ONLY <2>1 DEF WriterKinds, ReaderKinds, StoresLaps, HandedOverWhole
  <2>3. /\ PartSize' = PartSize /\ StoredSoFar' = StoredSoFar /\ DueSize' = DueSize /\ DueFrom' = DueFrom
        /\ LoadedSoFar' = LoadedSoFar /\ Taking' = Taking /\ WritePos' = WritePos /\ ReadPos' = ReadPos
    BY ONLY <2>1 DEF PartSize, PartFrom, StoredSoFar, DueSize, DueFrom, LoadedSoFar, Taking,
       WritePos, ReadPos
  <2>4. (WriterStep => WriterStep') /\ (RoomLeft => RoomLeft') /\ (ReaderStep => ReaderStep')
    BY ONLY <2>1, <2>3 DEF WriterStep, WriterPlace, RoomLeft, ReaderStep
  <2>5. \A p : Place(p)' = Place(p)
    BY ONLY <2>1 DEF Place
  <2>6. \A s \in [1 .. Len(sent) + 1 -> Nat] :
           (Starts(s) => Starts(s)') /\ (UnreadBytes(s) => UnreadBytes(s)')
    BY ONLY <2>1, <2>3, <2>5 DEF Starts, UnreadBytes
  <2>7. [1 .. Len(sent) + 1 -> Nat]' = [1 .. Len(sent) + 1 -> Nat]
    BY ONLY <2>1
  <2> QED
    BY <2>2, <2>4, <2>6, <2>7 DEF StoresInv
<1> QED
  BY <1>1, <1>2, <1>3 DEF Stores!Next

\* The invariant holds throughout where no payload is padded or torn.
THEOREM StoresInvariant == Unpadded /\ Stores!Spec /\ []NeverTorn => []StoresInv
<1>1. Unpadded => []Unpadded
  <2>1. Unpadded => Unpadded'
    BY DEF Unpadded
  <2> QED
    BY <2>1, PTL
<1> QED
  BY <1>1, StoresStart, StoresStep, PTL DEF Stores!Spec

\* A receive that interleaves with the writer at every load and store of an
\* index hands over the payload of the message it is due, stored to its end, and
\* never runs out of bytes half way (ICC_FIFO_Push, ICC_FIFO_Pop), as long as no
\* payload is padded or torn by the end of the ring.
THEOREM StoresHandOverWhole ==
  Unpadded /\ Stores!Spec /\ []NeverTorn => [](HandedOverWhole /\ Served)
<1>1. StoresInv => HandedOverWhole /\ Served
  BY DEF StoresInv, ReaderKinds, Served
<1> QED
  BY <1>1, StoresInvariant, PTL

\* Every value stored in an index, the ones in the middle of a call included, is
\* in the ring, and the calls' locals hold what the code can store in them.
THEOREM StoresTypes == Unpadded /\ Stores!Spec /\ []NeverTorn => []Stores!TypeOK
<1>1. ASSUME StoresInv
      PROVE  Stores!TypeOK
  <2>1. WriterKinds /\ ReaderKinds
    BY <1>1 DEF StoresInv
  <2> QED
    BY <2>1 DEF WriterKinds, ReaderKinds, Stores!TypeOK, Stores!Places, Stores!Index, Index
<1> QED
  BY <1>1, StoresInvariant, PTL

-----------------------------------------------------------------------------
(***************************************************************************)
(* What holds of the indexes alone, where payloads may be torn.            *)
(***************************************************************************)
\* The reader, whose header may be made of bytes of several messages.
RingReader ==
  /\ head \in Index /\ rbase \in Nat
  /\ r \in [pc: {"idle", "pending", "order", "store", "store_rest"},
            part: {"header", "payload"}, len: MsgSizes \union {0, FifoSize},
            pending: 0 .. FifoSize, wrapped: BOOLEAN, got: Seq(Nat \X Nat)]

\* What the reader loads is pending, and behind the end of the ring only while
\* the writer is one lap ahead; a length made up of other bytes is refused.
RingReaderPlace ==
  /\ r.part = "payload" => r.len \in MsgSizes \union {FifoSize}
  /\ r.part = "payload" /\ r.pc \in {"pending", "order"} => 0 < head
  /\ r.pc = "order" =>
       r.pending <= WritePos - ReadPos /\ (r.part = "payload" => r.pending < FifoSize)
  /\ r.pc \in {"store", "store_rest"} /\ r.part = "payload" => r.len \in MsgSizes
  /\ r.pc = "store" =>
       /\ DueSize <= WritePos - ReadPos
       /\ IF r.wrapped THEN wbase = rbase + FifoSize ELSE head + DueSize <= FifoSize
  /\ r.pc = "store_rest" =>
       /\ head = 0 /\ Len(r.got) < DueSize
       /\ DueSize - Len(r.got) <= WritePos - ReadPos

\* The bytes in the ring and those the reader has loaded are bytes of messages
\* sent, or of the one that is being stored.
Known(b) ==
  \/ b[1] <= Len(sent)
  \/ b[1] = Len(sent) + 1 /\ w.pc \in {"order", "store", "store_rest"}
BytesKnown ==
  /\ \A k \in 0 .. FifoSize - 1 : Known(buf[k])
  /\ \A i \in 1 .. Len(r.got) : Known(r.got[i])

\* What holds of the indexes even where payloads are torn by the end of the
\* ring and receives find too few bytes.
RingInv ==
  /\ WriterKinds /\ RingReader /\ StoresLaps
  /\ WriterPlace /\ RoomLeft /\ RingReaderPlace /\ BytesKnown

\* The numbers of both calls, and what the indexes say of the stream.
LEMMA RingNumbers ==
  ASSUME RingInv
  PROVE  /\ FifoSize \in Nat \ {0} /\ HeaderSize \in Nat \ {0}
         /\ head \in 0 .. FifoSize /\ tail \in 0 .. FifoSize /\ wbase \in Nat /\ rbase \in Nat
         /\ WritePos \in Nat /\ ReadPos \in Nat
         /\ ReadPos <= WritePos /\ WritePos <= ReadPos + FifoSize
         /\ PendingBytes(head, tail) = WritePos - ReadPos
         /\ FreeBytes(head, tail) = FifoSize - (WritePos - ReadPos)
         /\ StoredSoFar \in Nat /\ PartFrom \in Nat /\ PartSize \in Nat
         /\ w.len \in Nat /\ w.done \in Nat /\ w.free \in Nat
         /\ DueSize \in Nat /\ Len(r.got) \in Nat /\ r.pending \in Nat /\ r.pending <= FifoSize
<1>1. WriterKinds /\ RingReader /\ StoresLaps /\ WriterPlace
  BY DEF RingInv
<1>2. head \in Index /\ tail \in Index /\ wbase \in Nat /\ rbase \in Nat
  BY ONLY <1>1 DEF WriterKinds, RingReader
<1>3. r.len \in Nat /\ Len(r.got) \in Nat /\ r.pending \in Nat /\ r.pending <= FifoSize
  BY ONLY <1>1, SizesAreNumbers DEF RingReader
<1>4. DueSize \in Nat
  BY ONLY <1>3, SizesAreNumbers DEF DueSize
<1>5. /\ StoredSoFar \in Nat /\ PartFrom \in Nat /\ PartSize \in Nat
      /\ w.len \in Nat /\ w.done \in Nat /\ w.free \in Nat
  BY <1>1, PlaceNumbers
<1> QED
  BY <1>1, <1>2, <1>3, <1>4, <1>5, LapPositions, SizesAreNumbers DEF Index

\* The writer's moves leave what the reader loaded pending.
LEMMA ReaderLeftAlone ==
  ASSUME RingInv, ReaderUntouched, WritePos' \in Nat, WritePos <= WritePos',
         wbase' = wbase \/ wbase = rbase
  PROVE  RingReader' /\ RingReaderPlace'
<1>1. /\ WritePos \in Nat /\ ReadPos \in Nat /\ DueSize \in Nat /\ Len(r.got) \in Nat
      /\ r.pending \in Nat /\ rbase \in Nat /\ FifoSize \in Nat \ {0}
  BY RingNumbers
<1>2. UNCHANGED <<head, r, rbase>>
  BY DEF ReaderUntouched
<1>3. UNCHANGED <<ReadPos, DueSize>>
  BY ONLY <1>2 DEF ReadPos, DueSize
<1>4. RingReader'
  BY <1>2 DEF RingInv, RingReader
<1>5. \A n \in Int : n <= WritePos - ReadPos => n <= WritePos' - ReadPos
  <2>1. \A x \in Nat : WritePos <= x => \A n \in Int : n <= WritePos - ReadPos => n <= x - ReadPos
    BY ONLY <1>1
  <2> QED
    BY ONLY <2>1, WritePos' \in Nat, WritePos <= WritePos'
<1>6. RingReaderPlace
  BY DEF RingInv
<1>7. r.pc = "order" => r.pending <= WritePos' - ReadPos
  BY ONLY <1>1, <1>5, <1>6 DEF RingReaderPlace
<1>8. r.pc = "store" =>
        /\ DueSize <= WritePos' - ReadPos
        /\ IF r.wrapped THEN wbase' = rbase + FifoSize ELSE head + DueSize <= FifoSize
  <2>1. wbase = rbase + FifoSize => wbase' = rbase + FifoSize
    BY ONLY <1>1, wbase' = wbase \/ wbase = rbase
  <2> QED
    BY ONLY <1>1, <1>5, <1>6, <2>1 DEF RingReaderPlace
<1>9. r.pc = "store_rest" => DueSize - Len(r.got) <= WritePos' - ReadPos
  BY ONLY <1>1, <1>5, <1>6 DEF RingReaderPlace
<1>10. RingReaderPlace'
  BY ONLY <1>2, <1>3, <1>6, <1>7, <1>8, <1>9 DEF RingReaderPlace
<1> QED
  BY <1>4, <1>10

\* Bytes stay known: the message being stored is never given up.
LEMMA BytesStayKnown ==
  ASSUME WriterKinds, RingReader, BytesKnown, r' = r,
         \/ sent' = sent /\ (w.pc \in {"order", "store", "store_rest"}
                              => w'.pc \in {"order", "store", "store_rest"})
         \/ \E len \in MsgSizes : sent' = Append(sent, len),
         \A k \in 0 .. FifoSize - 1 :
           \/ buf'[k] = buf[k]
           \/ buf'[k][1] = Len(sent) + 1 /\ (sent' = sent => w'.pc \in {"order", "store", "store_rest"})
  PROVE  BytesKnown'
<1>1. Len(sent) \in Nat /\ sent \in Seq(MsgSizes) /\ buf \in [0 .. FifoSize - 1 -> Nat \X Nat]
      /\ r.got \in Seq(Nat \X Nat)
  BY DEF WriterKinds, RingReader
<1>2. \/ Len(sent') = Len(sent) /\ (w.pc \in {"order", "store", "store_rest"}
                                     => w'.pc \in {"order", "store", "store_rest"})
      \/ Len(sent') = Len(sent) + 1
  BY <1>1
<1>3. ASSUME NEW b \in Nat \X Nat, Known(b)
      PROVE  Known(b)'
  <2>1. b[1] \in Nat
    OBVIOUS
  <2>2. \A l \in Nat : (l = Len(sent) \/ l = Len(sent) + 1) /\ b[1] <= Len(sent) => b[1] <= l
    BY ONLY <1>1, <2>1
  <2>3. b[1] = Len(sent) + 1 => b[1] <= Len(sent) + 1
    BY ONLY <1>1
  <2> QED
    BY ONLY <1>1, <1>2, <1>3, <2>2, <2>3 DEF Known
<1>4. ASSUME NEW k \in 0 .. FifoSize - 1
      PROVE  Known(buf[k])'
  <2>1. CASE buf'[k] = buf[k]
    <3>1. buf[k] \in Nat \X Nat /\ Known(buf[k])
      BY <1>1 DEF BytesKnown
    <3>2. PICK b \in Nat \X Nat : b = buf[k]
      BY ONLY <3>1
    <3>3. Known(b)
      BY ONLY <3>1, <3>2
    <3>4. Known(b)'
      BY <1>3, <3>3
    <3> QED
      BY ONLY <2>1, <3>2, <3>4 DEF Known
  <2>2. CASE buf'[k][1] = Len(sent) + 1 /\ (sent' = sent => w'.pc \in {"order", "store",
  "store_rest"})
    <3>1. CASE sent' = sent
      BY ONLY <2>2, <3>1 DEF Known
    <3>2. CASE \E len \in MsgSizes : sent' = Append(sent, len)
      <4>1. Len(sent') = Len(sent) + 1
        BY ONLY <1>1, <3>2
      <4>2. Len(sent) + 1 <= Len(sent) + 1
        BY ONLY <1>1
      <4> QED
        BY ONLY <2>2, <4>1, <4>2 DEF Known
    <3> QED
      BY <3>1, <3>2
  <2> QED
    BY <2>1, <2>2
<1>5. ASSUME NEW i \in 1 .. Len(r.got)
      PROVE  Known(r.got[i])'
  <2>1. r.got[i] \in Nat \X Nat /\ Known(r.got[i])
    <3>1. r.got[i] \in Nat \X Nat
      BY ONLY <1>1, i \in 1 .. Len(r.got)
    <3>2. Known(r.got[i])
      BY DEF BytesKnown
    <3> QED
      BY ONLY <3>1, <3>2
  <2>2. PICK b \in Nat \X Nat : b = r.got[i]
    BY ONLY <2>1
  <2>3. Known(b)
    BY ONLY <2>1, <2>2
  <2>4. Known(b)'
    BY <1>3, <2>3
  <2> QED
    BY ONLY <2>2, <2>4, r' = r DEF Known
<1> QED
  BY <1>4, <1>5, r' = r DEF BytesKnown

\* The steps of the writer that store nothing.
LEMMA RingLocalWriter ==
  ASSUME Unpadded, RingInv, ReaderUntouched, UNCHANGED <<tail, buf, sent, wbase>>,
         \/ \E len \in MsgSizes :
              w.pc = "idle" /\ w' = [Idle EXCEPT !.pc = "fits", !.len = len, !.free = FreeBytes(head, tail)]
         \/ w.pc = "fits" /\ w' = Idle
         \/ /\ w.pc = "fits" /\ w' = [w EXCEPT !.pc = "order"]
            /\ RealSize(w.len) <= w.free
            /\ RealSize(w.len) # w.free \/ (~(tail < head) /\ HeaderSize + w.len <= FifoSize - tail)
         \/ w.pc = "order" /\ w' = [w EXCEPT !.pc = "store", !.wrapped = (tail < head)]
  PROVE  RingInv'
<1>1. WriterKinds /\ RingReader /\ StoresLaps /\ WriterPlace /\ RoomLeft /\ RingReaderPlace /\ BytesKnown
  BY DEF RingInv
<1>2. UNCHANGED <<head, rbase, tail, buf, sent, wbase>>
  BY DEF ReaderUntouched
<1>3. head \in Index /\ rbase \in Nat
  BY <1>1 DEF RingReader
<1>4. WriterKinds' /\ WriterPlace' /\ RoomLeft'
  BY <1>1, <1>2, <1>3, LocalWriterPlace
<1>5. WritePos \in Nat /\ WritePos' = WritePos
  BY <1>2, RingNumbers DEF WritePos
<1>6. RingReader' /\ RingReaderPlace'
  <2>1. WritePos' \in Nat /\ WritePos <= WritePos' /\ wbase' = wbase
    BY ONLY <1>2, <1>5
  <2> QED
    BY <2>1, ReaderLeftAlone
<1>7. StoresLaps'
  BY <1>1, <1>2 DEF StoresLaps
<1>8. BytesKnown'
  <2>1. r' = r
    BY DEF ReaderUntouched
  <2>2. w.pc \in {"order", "store", "store_rest"} => w'.pc \in {"order", "store", "store_rest"}
    BY <1>1 DEF WriterKinds
  <2> QED
    BY <1>1, <1>2, <2>1, <2>2, BytesStayKnown
<1> QED
  BY <1>4, <1>6, <1>7, <1>8 DEF RingInv

\* The stores of the writer.
LEMMA RingStoring ==
  ASSUME Unpadded, RingInv, ReaderUntouched,
         Stores!StoreTail \/ Stores!StoreTailAgain \/ Stores!StoreTailZero
  PROVE  RingInv'
<1>1. /\ WriterKinds /\ RingReader /\ StoresLaps
      /\ WriterPlace /\ RoomLeft /\ RingReaderPlace /\ BytesKnown
  BY DEF RingInv
<1>2. UNCHANGED <<head, rbase>> /\ r' = r
  BY DEF ReaderUntouched
<1>3. /\ FifoSize \in Nat \ {0} /\ head \in Index /\ rbase \in Nat /\ tail \in 0 .. FifoSize
      /\ PartSize \in Nat /\ PartFrom \in Nat /\ w.done \in Nat /\ WritePos \in Nat
      /\ sent \in Seq(MsgSizes)
  BY <1>1, RingNumbers DEF RingReader, WriterKinds
<1>4. /\ w.part # "header" => w.len \in MsgSizes
      /\ w.pc # "pad" /\ (w.pc # "idle" => w.len \in MsgSizes)
  BY <1>1 DEF WriterKinds, WriterPlace
<1>5. /\ w.pc # "store_rest" => StoredSoFar = PartFrom
      /\ w.pc = "store_rest" => StoredSoFar = PartFrom + w.done
  BY <1>1, PlaceNumbers
<1>6. ASSUME NEW k \in Nat, w.pc \in {"store", "store_rest"},
             StoredSoFar + k = PartFrom + PartSize, tail + k <= FifoSize,
             buf' = Stored(buf, tail, Len(sent) + 1, StoredSoFar, k),
             tail' = tail + k, wbase' = wbase, PartStored
      PROVE  RingInv'
  <2>1. /\ StoresLaps' /\ WritePos' = WritePos + k
        /\ WriterKinds' /\ WriterPlace' /\ RoomLeft'
    BY <1>1, <1>2, <1>3, <1>6, PartStoredPlace
  <2>2. RingReader' /\ RingReaderPlace'
    <3>1. WritePos + k \in Nat /\ WritePos <= WritePos + k
      BY ONLY <1>3, k \in Nat
    <3> QED
      BY <1>6, <2>1, <3>1, ReaderLeftAlone
  <2>3. BytesKnown'
    <3>1. \/ sent' = sent /\ w'.pc = "order"
          \/ sent' = Append(sent, w.len) /\ w.len \in MsgSizes /\ sent' # sent
      <4>1. Append(sent, w.len) # sent
        <5>1. Len(Append(sent, w.len)) = Len(sent) + 1
          BY ONLY <1>3, <1>4, <1>6
        <5>2. Len(sent) + 1 # Len(sent)
          BY ONLY <1>3
        <5> QED
          BY ONLY <5>1, <5>2
      <4>2. w \in [pc: {"idle", "fits", "order", "store", "store_rest"},
                   part: {"header", "payload"}, len: MsgSizes \union {0},
                   free: 0 .. FifoSize, wrapped: BOOLEAN, done: 0 .. FifoSize]
        BY <1>1 DEF WriterKinds
      <4> QED
        BY ONLY <1>4, <1>6, <4>1, <4>2 DEF PartStored
    <3>2. \A i \in 0 .. FifoSize - 1 : buf'[i] = buf[i] \/ buf'[i][1] = Len(sent) + 1
      BY ONLY <1>6 DEF Stored, Byte
    <3> QED
      BY <1>1, <1>2, <3>1, <3>2, BytesStayKnown
  <2> QED
    BY <2>1, <2>2, <2>3 DEF RingInv
<1>7. CASE /\ w.pc = "store" /\ (w.wrapped \/ PartSize <= FifoSize - tail)
           /\ buf' = Stored(buf, tail, Len(sent) + 1, PartFrom, PartSize)
           /\ tail' = tail + PartSize /\ wbase' = wbase /\ PartStored
  <2>1. tail + PartSize <= FifoSize
    <3>1. w.wrapped => tail + PartSize <= FifoSize
      BY <1>1, <1>7 DEF WriterPlace
    <3> QED
      BY ONLY <1>3, <1>7, <3>1
  <2>2. StoredSoFar = PartFrom
    BY <1>5, <1>7
  <2> QED
    BY <1>3, <1>6, <1>7, <2>1, <2>2
<1>8. CASE /\ w.pc = "store_rest"
           /\ buf' = Stored(buf, 0, Len(sent) + 1, PartFrom + w.done, PartSize - w.done)
           /\ tail' = tail + (PartSize - w.done) /\ wbase' = wbase /\ PartStored
  <2>1. tail = 0 /\ w.done < PartSize /\ PartSize - w.done <= FifoSize
    BY <1>1, <1>8 DEF WriterPlace
  <2> DEFINE k == PartSize - w.done
  <2>2. StoredSoFar = PartFrom + w.done
    BY <1>5, <1>8
  <2>3. k \in Nat /\ tail + k <= FifoSize /\ StoredSoFar + k = PartFrom + PartSize
    BY ONLY <1>3, <2>1, <2>2
  <2>4. buf' = Stored(buf, tail, Len(sent) + 1, StoredSoFar, k) /\ tail' = tail + k
    BY <1>8, <2>1, <2>2
  <2> HIDE DEF k
  <2> QED
    BY <1>6, <1>8, <2>3, <2>4
<1>9. CASE /\ w.pc = "store" /\ ~w.wrapped /\ FifoSize - tail < PartSize
           /\ buf' = Stored(buf, tail, Len(sent) + 1, PartFrom, FifoSize - tail)
           /\ tail' = 0 /\ wbase' = wbase + FifoSize /\ sent' = sent
           /\ w' = [w EXCEPT !.pc = "store_rest", !.done = FifoSize - tail]
  <2>1. wbase = rbase /\ StoresLaps' /\ WriterKinds' /\ WriterPlace' /\ RoomLeft'
    BY <1>1, <1>2, <1>3, <1>9, WrapStoredPlace
  <2>2. PICK gap \in Nat : WritePos' = WritePos + gap
    BY <1>1, <1>2, <1>3, <1>9, WrapStoredPlace
  <2>3. RingReader' /\ RingReaderPlace'
    <3>1. WritePos + gap \in Nat /\ WritePos <= WritePos + gap
      BY ONLY <1>3, gap \in Nat
    <3> QED
      BY <2>1, <2>2, <3>1, ReaderLeftAlone
  <2>4. BytesKnown'
    <3>1. w'.pc = "store_rest"
      BY <1>1, <1>9 DEF WriterKinds
    <3>2. \A i \in 0 .. FifoSize - 1 : buf'[i] = buf[i] \/ buf'[i][1] = Len(sent) + 1
      BY ONLY <1>9 DEF Stored, Byte
    <3> QED
      BY <1>1, <1>2, <1>9, <3>1, <3>2, BytesStayKnown
  <2> QED
    BY <2>1, <2>3, <2>4 DEF RingInv
<1> QED
  BY <1>4, <1>7, <1>8, <1>9, StoringSteps

\* What the reader copies out of the ring, past its end included.
LEMMA ReadBytes ==
  ASSUME WriterKinds, BytesKnown, NEW k \in Nat, NEW n \in Nat
  PROVE  /\ Stores!Read(k, n) \in Seq(Nat \X Nat) /\ Len(Stores!Read(k, n)) = n
         /\ \A i \in 1 .. n : Known(Stores!Read(k, n)[i])
<1>1. /\ FifoSize \in Nat /\ Len(sent) \in Nat /\ buf \in [0 .. FifoSize - 1 -> Nat \X Nat]
      /\ Stores!Junk = <<0, 0>>
  BY SizesAreNumbers DEF WriterKinds, Stores!Junk
<1>2. ASSUME NEW i \in 1 .. n
      PROVE  /\ Stores!Read(k, n)[i] \in Nat \X Nat /\ Known(Stores!Read(k, n)[i])
  <2>1. Stores!Read(k, n)[i] = IF k + i - 1 < FifoSize THEN buf[k + i - 1] ELSE Stores!Junk
    BY DEF Stores!Read
  <2>2. CASE k + i - 1 < FifoSize
    <3>1. k + i - 1 \in 0 .. FifoSize - 1
      BY ONLY <1>1, <2>2, k \in Nat, i \in 1 .. n, n \in Nat
    <3> QED
      BY <1>1, <2>1, <2>2, <3>1 DEF BytesKnown
  <2>3. CASE ~(k + i - 1 < FifoSize)
    <3>1. Stores!Read(k, n)[i] = <<0, 0>>
      BY ONLY <1>1, <2>1, <2>3
    <3>2. <<0, 0>>[1] <= Len(sent)
      BY ONLY <1>1
    <3> QED
      BY ONLY <3>1, <3>2 DEF Known
  <2> QED
    BY <2>2, <2>3
<1>3. Stores!Read(k, n) \in [1 .. n -> Nat \X Nat]
  <2>1. Stores!Read(k, n) = [i \in 1 .. n |-> Stores!Read(k, n)[i]]
    BY DEF Stores!Read
  <2> QED
    BY ONLY <1>2, <2>1
<1>4. Stores!Read(k, n) \in Seq(Nat \X Nat) /\ Len(Stores!Read(k, n)) = n
  <2>1. Stores!Read(k, n) \in Seq(Nat \X Nat)
    BY ONLY <1>3, n \in Nat, SeqDef
  <2>2. Len(Stores!Read(k, n)) \in Nat /\ DOMAIN Stores!Read(k, n) = 1 .. Len(Stores!Read(k, n))
    BY ONLY <2>1, LenProperties
  <2>3. \A l \in Nat : 1 .. n = 1 .. l => l = n
    BY ONLY n \in Nat
  <2> QED
    BY ONLY <1>3, <2>1, <2>2, <2>3
<1> QED
  BY ONLY <1>2, <1>4

\* The length a receive takes from its header: that of a message sent or being
\* stored, or what bytes of several messages may add up to.
LEMMA HeaderLengths ==
  ASSUME WriterKinds, WriterPlace, NEW bytes, Known(bytes[1]), NEW len \in Stores!HeaderValues(bytes)
  PROVE  len \in MsgSizes \union {FifoSize}
<1>1. sent \in Seq(MsgSizes) /\ Len(sent) \in Nat /\ (w.pc # "idle" => w.len \in MsgSizes)
  BY DEF WriterKinds, WriterPlace
<1> DEFINE n == bytes[1][1]
<1>2. CASE n \in 1 .. Len(sent) + 1
  <2>1. n \in Nat
    BY ONLY <1>1, <1>2
  <2>2. ASSUME ~(n \in 1 .. Len(sent)) PROVE w.len \in MsgSizes
    <3>1. ~(n <= Len(sent))
      BY ONLY <1>1, <1>2, <2>1, <2>2
    <3> QED
      BY <1>1, <3>1 DEF Known
  <2>3. Stores!LenOf(n) \in MsgSizes
    <3>1. n \in 1 .. Len(sent) => sent[n] \in MsgSizes
      BY ONLY <1>1
    <3> QED
      BY ONLY <2>2, <3>1 DEF Stores!LenOf
  <2> QED
    BY <2>3 DEF Stores!HeaderValues
<1>3. CASE n \notin 1 .. Len(sent) + 1
  BY <1>3 DEF Stores!HeaderValues, Stores!Writing
<1> QED
  BY <1>2, <1>3

\* The steps of the reader that store nothing.
LEMMA RingLocalReader ==
  ASSUME RingInv, WriterUntouched, UNCHANGED <<head, out, taken, rbase>>,
         \/ r.pc = "idle" /\ r' = [AtRest EXCEPT !.pc = "pending"]
         \/ r.pc = "pending" /\ r' = [r EXCEPT !.pc = "order", !.pending = PendingBytes(head, tail)]
         \/ r.pc = "order" /\ r' = AtRest
         \/ /\ r.pc = "order" /\ ~(DueSize > r.pending)
            /\ r' = [r EXCEPT !.pc = "store", !.wrapped = (tail < head)]
  PROVE  RingInv'
<1>1. /\ WriterKinds /\ RingReader /\ StoresLaps
      /\ WriterPlace /\ RoomLeft /\ RingReaderPlace /\ BytesKnown
  BY DEF RingInv
<1>2. UNCHANGED <<tail, buf, w, sent, wbase, head, rbase>>
  BY DEF WriterUntouched
<1>3. UNCHANGED <<WritePos, ReadPos>>
  BY ONLY <1>2 DEF WritePos, ReadPos
<1>4. /\ FifoSize \in Nat \ {0} /\ HeaderSize \in Nat \ {0}
      /\ head \in 0 .. FifoSize /\ tail \in 0 .. FifoSize /\ wbase \in Nat /\ rbase \in Nat
      /\ WritePos \in Nat /\ ReadPos \in Nat
      /\ ReadPos <= WritePos /\ WritePos <= ReadPos + FifoSize
      /\ PendingBytes(head, tail) = WritePos - ReadPos
      /\ DueSize \in Nat /\ r.pending \in Nat
  BY RingNumbers
<1>5. r \in [pc: {"idle", "pending", "order", "store", "store_rest"},
            part: {"header", "payload"}, len: MsgSizes \union {0, FifoSize},
            pending: 0 .. FifoSize, wrapped: BOOLEAN, got: Seq(Nat \X Nat)]
      /\ head \in Index
  BY <1>1 DEF RingReader
<1>6. /\ WriterKinds' /\ StoresLaps' /\ WriterPlace' /\ RoomLeft'
  <2>1. WriterKinds'
    BY ONLY <1>1, <1>2 DEF WriterKinds
  <2>2. StoresLaps'
    BY ONLY <1>1, <1>2 DEF StoresLaps
  <2>3. UNCHANGED <<PartSize, StoredSoFar>>
    BY ONLY <1>2 DEF PartSize, StoredSoFar, PartFrom
  <2>4. WriterPlace'
    BY ONLY <1>1, <1>2, <2>3 DEF WriterPlace
  <2>5. RoomLeft'
    BY ONLY <1>1, <1>2, <1>3, <2>3 DEF RoomLeft
  <2> QED
    BY <2>1, <2>2, <2>4, <2>5
<1>7. RingReader' /\ RingReaderPlace' /\ (r'.got = r.got \/ r'.got = <<>>)
  <2>1. CASE r' = AtRest \/ r' = [AtRest EXCEPT !.pc = "pending"]
    <3>1. /\ r'.pc \in {"idle", "pending"} /\ r'.part = "header" /\ r'.got = <<>>
      BY ONLY <2>1 DEF AtRest
    <3>2. RingReader'
      <4>1. <<>> \in Seq(Nat \X Nat) /\ 0 \in 0 .. FifoSize
        BY ONLY <1>4
      <4>2. FALSE \in BOOLEAN
        OBVIOUS
      <4>3. PICK pc \in {"idle", "pending"} :
              r' = [pc |-> pc, part |-> "header", len |-> 0, pending |-> 0,
                    wrapped |-> FALSE, got |-> <<>>]
        BY ONLY <2>1 DEF AtRest
      <4>4. r' \in [pc: {"idle", "pending", "order", "store", "store_rest"},
                    part: {"header", "payload"}, len: MsgSizes \union {0, FifoSize},
                    pending: 0 .. FifoSize, wrapped: BOOLEAN, got: Seq(Nat \X Nat)]
        BY ONLY <4>1, <4>2, <4>3
      <4> QED
        BY ONLY <1>2, <1>4, <1>5, <4>4 DEF RingReader
    <3>3. RingReaderPlace'
      BY ONLY <3>1 DEF RingReaderPlace
    <3> QED
      BY <3>1, <3>2, <3>3
  <2>2. CASE r.pc = "pending" /\ r' = [r EXCEPT !.pc = "order", !.pending = PendingBytes(head,
  tail)]
    <3>1. PICK p \in Nat : p = WritePos - ReadPos
      BY ONLY <1>4
    <3>2. p \in 0 .. FifoSize /\ r' = [r EXCEPT !.pc = "order", !.pending = p]
      BY ONLY <1>4, <2>2, <3>1
    <3>3. r'.pc = "order" /\ r'.part = r.part /\ r'.len = r.len /\ r'.pending = p /\ r'.got = r.got
      BY ONLY <1>5, <3>2
    <3>4. RingReader'
      <4>1. r' \in [pc: {"idle", "pending", "order", "store", "store_rest"},
                    part: {"header", "payload"}, len: MsgSizes \union {0, FifoSize},
                    pending: 0 .. FifoSize, wrapped: BOOLEAN, got: Seq(Nat \X Nat)]
        BY ONLY <1>5, <3>2
      <4> QED
        BY ONLY <1>2, <1>4, <1>5, <4>1 DEF RingReader
    <3>5. r.part = "payload" => r.len \in MsgSizes \union {FifoSize} /\ 0 < head
      BY <1>1, <2>2 DEF RingReaderPlace
    <3>6. 0 < head => p < FifoSize
      BY ONLY <1>1, <1>4, <3>1 DEF StoresLaps, WritePos, ReadPos
    <3>7. p <= WritePos - ReadPos
      BY ONLY <1>4, <3>1
    <3>8. RingReaderPlace'
      BY ONLY <1>2, <1>3, <3>3, <3>5, <3>6, <3>7 DEF RingReaderPlace
    <3> QED
      BY <3>3, <3>4, <3>8
  <2>3. CASE /\ r.pc = "order" /\ ~(DueSize > r.pending)
             /\ r' = [r EXCEPT !.pc = "store", !.wrapped = (tail < head)]
    <3>1. /\ r'.pc = "store" /\ r'.part = r.part /\ r'.len = r.len /\ r'.got = r.got
          /\ (r'.wrapped <=> tail < head)
      BY ONLY <1>5, <2>3
    <3>2. RingReader'
      <4> DEFINE b == tail < head
      <4>1. b \in BOOLEAN
        <5>1. b = TRUE \/ b = FALSE
          BY ONLY <1>4
        <5> QED
          BY ONLY <5>1
      <4>2. r' = [r EXCEPT !.pc = "store", !.wrapped = b]
        BY <2>3
      <4> HIDE DEF b
      <4>3. r' \in [pc: {"idle", "pending", "order", "store", "store_rest"},
                    part: {"header", "payload"}, len: MsgSizes \union {0, FifoSize},
                    pending: 0 .. FifoSize, wrapped: BOOLEAN, got: Seq(Nat \X Nat)]
        BY ONLY <1>5, <4>1, <4>2
      <4> QED
        BY ONLY <1>2, <1>4, <1>5, <4>3 DEF RingReader
    <3>3. DueSize' = DueSize
      BY ONLY <3>1 DEF DueSize
    <3>4. /\ r.pending <= WritePos - ReadPos
          /\ r.part = "payload" => r.len \in MsgSizes \union {FifoSize} /\ r.pending < FifoSize
      BY <1>1, <2>3 DEF RingReaderPlace
    <3>5. DueSize <= WritePos - ReadPos
      BY ONLY <1>4, <2>3, <3>4
    <3>6. r.part = "payload" => r.len \in MsgSizes
      <4>1. r.part = "payload" => DueSize = r.len
        BY ONLY DEF DueSize
      <4> QED
        BY ONLY <1>4, <2>3, <3>4, <4>1
    <3>7. IF tail < head THEN wbase = rbase + FifoSize ELSE head + DueSize <= FifoSize
      BY ONLY <1>1, <1>4, <3>5 DEF StoresLaps, WritePos, ReadPos
    <3>8. RingReaderPlace'
      BY ONLY <1>2, <1>3, <3>1, <3>3, <3>5, <3>6, <3>7 DEF RingReaderPlace
    <3> QED
      BY <3>1, <3>2, <3>8
  <2> QED
    BY <2>1, <2>2, <2>3
<1>8. BytesKnown'
  <2>1. \A i \in 1 .. Len(<<>>) : FALSE
    OBVIOUS
  <2>2. \A b : Known(b) => Known(b)'
    BY ONLY <1>2 DEF Known
  <2> QED
    BY ONLY <1>1, <1>2, <1>7, <2>1 DEF BytesKnown, Known
<1> QED
  BY <1>6, <1>7, <1>8 DEF RingInv

\* Behind the last load of a part: the reader does not pass the writer.
LEMMA RingPartLoaded ==
  ASSUME RingInv, WriterUntouched, NEW k \in Nat, k <= WritePos - ReadPos, head + k <= FifoSize,
         r.part = "header" => 0 < k, NEW bytes, r.part = "header" => Known(bytes[1]),
         head' = head + k, rbase' = rbase, PartLoaded(bytes)
  PROVE  RingInv'
<1>1. /\ WriterKinds /\ RingReader /\ StoresLaps
      /\ WriterPlace /\ RoomLeft /\ RingReaderPlace /\ BytesKnown
  BY DEF RingInv
<1>2. UNCHANGED <<tail, buf, w, sent, wbase>>
  BY DEF WriterUntouched
<1>3. /\ FifoSize \in Nat \ {0}
      /\ head \in 0 .. FifoSize /\ tail \in 0 .. FifoSize /\ wbase \in Nat /\ rbase \in Nat
      /\ WritePos \in Nat /\ ReadPos \in Nat
      /\ ReadPos <= WritePos /\ WritePos <= ReadPos + FifoSize
  BY RingNumbers
<1>4. head + k \in 0 .. FifoSize
  BY ONLY <1>3, k \in Nat, head + k <= FifoSize
<1>5. ReadPos' = ReadPos + k /\ ReadPos + k \in Nat /\ ReadPos <= ReadPos + k
  <2>1. rbase + (head + k) = ReadPos + k
    BY ONLY <1>3, k \in Nat DEF ReadPos
  <2>2. ReadPos' = rbase + (head + k)
    BY ONLY head' = head + k, rbase' = rbase DEF ReadPos
  <2> QED
    BY ONLY <1>3, <2>1, <2>2, k \in Nat
<1>6. StoresLaps'
  <2>1. \/ wbase = rbase /\ head + k <= tail
        \/ wbase = rbase + FifoSize /\ tail < head + k
    BY ONLY <1>1, <1>3, k \in Nat, k <= WritePos - ReadPos DEF StoresLaps, WritePos, ReadPos
  <2> QED
    BY ONLY <1>2, <2>1, head' = head + k, rbase' = rbase DEF StoresLaps
<1>7. WriterKinds' /\ WriterPlace' /\ RoomLeft'
  <2>1. UNCHANGED <<head, rbase>> \/ ReadPos < ReadPos'
    <3>1. CASE k = 0
      BY ONLY <1>3, <3>1, head' = head + k, rbase' = rbase
    <3>2. CASE k # 0
      <4>1. ReadPos < ReadPos + k
        BY ONLY <1>3, <3>2, k \in Nat
      <4> QED
        BY ONLY <1>5, <4>1
    <3> QED
      BY <3>1, <3>2
  <2> QED
    BY <1>1, <1>3, <1>5, <2>1, PlaceUnmoved
<1>8. \/ r' = AtRest
      \/ /\ r.part = "header"
         /\ \E len \in MsgSizes \union {FifoSize} :
               r' = [AtRest EXCEPT !.pc = "pending", !.part = "payload", !.len = len]
  BY <1>1, HeaderLengths DEF PartLoaded
<1>9. RingReader' /\ RingReaderPlace' /\ r'.got = <<>>
  <2>1. <<>> \in Seq(Nat \X Nat) /\ 0 \in 0 .. FifoSize
    BY ONLY <1>3
  <2>2. FALSE \in BOOLEAN
    OBVIOUS
  <2>3. CASE r' = AtRest
    <3>1. r' \in [pc: {"idle", "pending", "order", "store", "store_rest"},
                  part: {"header", "payload"}, len: MsgSizes \union {0, FifoSize},
                  pending: 0 .. FifoSize, wrapped: BOOLEAN, got: Seq(Nat \X Nat)]
          /\ r'.pc = "idle" /\ r'.part = "header" /\ r'.got = <<>>
      BY ONLY <2>1, <2>2, <2>3 DEF AtRest
    <3>2. RingReader'
      BY ONLY <1>3, <1>4, <3>1, head' = head + k, rbase' = rbase DEF RingReader, Index
    <3>3. RingReaderPlace'
      BY ONLY <3>1 DEF RingReaderPlace
    <3> QED
      BY <3>1, <3>2, <3>3
  <2>4. CASE /\ r.part = "header"
             /\ \E len \in MsgSizes \union {FifoSize} :
                   r' = [AtRest EXCEPT !.pc = "pending", !.part = "payload", !.len = len]
    <3>1. PICK len \in MsgSizes \union {FifoSize} :
            r' = [AtRest EXCEPT !.pc = "pending", !.part = "payload", !.len = len]
      BY <2>4
    <3>2. r' = [pc |-> "pending", part |-> "payload", len |-> len, pending |-> 0,
                wrapped |-> FALSE, got |-> <<>>]
      BY ONLY <3>1 DEF AtRest
    <3>3. r' \in [pc: {"idle", "pending", "order", "store", "store_rest"},
                  part: {"header", "payload"}, len: MsgSizes \union {0, FifoSize},
                  pending: 0 .. FifoSize, wrapped: BOOLEAN, got: Seq(Nat \X Nat)]
          /\ r'.pc = "pending" /\ r'.part = "payload" /\ r'.len = len /\ r'.got = <<>>
      BY ONLY <2>1, <2>2, <3>2
    <3>4. RingReader'
      BY ONLY <1>3, <1>4, <3>3, head' = head + k, rbase' = rbase DEF RingReader, Index
    <3>5. 0 < head + k
      BY ONLY <1>3, <2>4, k \in Nat, r.part = "header" => 0 < k
    <3>6. RingReaderPlace'
      BY ONLY <3>3, <3>5, head' = head + k DEF RingReaderPlace
    <3> QED
      BY <3>3, <3>4, <3>6
  <2> QED
    BY <1>8, <2>3, <2>4
<1>10. BytesKnown'
  <2>1. \A i \in 1 .. Len(<<>>) : FALSE
    OBVIOUS
  <2> QED
    BY ONLY <1>1, <1>2, <1>9, <2>1 DEF BytesKnown, Known
<1> QED
  BY <1>6, <1>7, <1>9, <1>10 DEF RingInv

\* At the end of the ring: the reader enters the writer's lap.
LEMMA RingWrapLoaded ==
  ASSUME RingInv, WriterUntouched,
         r.pc = "store", r.wrapped, FifoSize - head < DueSize,
         head' = 0, rbase' = rbase + FifoSize,
         r' = [r EXCEPT !.pc = "store_rest", !.got = Stores!Read(head, FifoSize - head)]
  PROVE  RingInv'
<1>1. /\ WriterKinds /\ RingReader /\ StoresLaps
      /\ WriterPlace /\ RoomLeft /\ RingReaderPlace /\ BytesKnown
  BY DEF RingInv
<1>2. UNCHANGED <<tail, buf, w, sent, wbase>>
  BY DEF WriterUntouched
<1>3. /\ FifoSize \in Nat \ {0}
      /\ head \in 0 .. FifoSize /\ tail \in 0 .. FifoSize /\ wbase \in Nat /\ rbase \in Nat
      /\ WritePos \in Nat /\ ReadPos \in Nat /\ DueSize \in Nat
  BY RingNumbers
<1>4. PICK gap \in Nat : gap = FifoSize - head /\ gap < DueSize
  BY ONLY <1>3, FifoSize - head < DueSize
<1>5. wbase = rbase + FifoSize /\ DueSize <= WritePos - ReadPos
      /\ (r.part = "payload" => r.len \in MsgSizes)
  BY <1>1 DEF RingReaderPlace
<1>6. ReadPos' = rbase + FifoSize /\ WritePos' = WritePos /\ rbase + FifoSize \in Nat
      /\ ReadPos <= rbase + FifoSize
  <2>1. (rbase + FifoSize) + 0 = rbase + FifoSize /\ ReadPos <= rbase + FifoSize /\ rbase + FifoSize \in Nat
    BY ONLY <1>3 DEF ReadPos
  <2> QED
    BY ONLY <1>2, <2>1, head' = 0, rbase' = rbase + FifoSize DEF ReadPos, WritePos
<1>7. StoresLaps'
  BY ONLY <1>2, <1>3, <1>5, head' = 0, rbase' = rbase + FifoSize DEF StoresLaps
<1>8. WriterKinds' /\ WriterPlace' /\ RoomLeft'
  BY <1>1, <1>3, <1>5, <1>6, PlaceUnmoved
<1>9. PICK bytes \in Seq(Nat \X Nat) :
        /\ bytes = Stores!Read(head, gap) /\ Len(bytes) = gap
        /\ \A i \in 1 .. gap : Known(bytes[i])
  <2>1. head \in Nat
    BY ONLY <1>3
  <2>2. /\ Stores!Read(head, gap) \in Seq(Nat \X Nat) /\ Len(Stores!Read(head, gap)) = gap
        /\ \A i \in 1 .. gap : Known(Stores!Read(head, gap)[i])
    BY <1>1, <2>1, ReadBytes
  <2> QED
    BY ONLY <2>2
<1>10. r \in [pc: {"idle", "pending", "order", "store", "store_rest"},
             part: {"header", "payload"}, len: MsgSizes \union {0, FifoSize},
             pending: 0 .. FifoSize, wrapped: BOOLEAN, got: Seq(Nat \X Nat)]
  BY <1>1 DEF RingReader
<1>11. r' = [r EXCEPT !.pc = "store_rest", !.got = bytes]
  BY <1>4, <1>9
<1>12. r'.pc = "store_rest" /\ r'.part = r.part /\ r'.len = r.len /\ r'.got = bytes
  BY ONLY <1>10, <1>11
<1>13. RingReader'
  <2>1. r' \in [pc: {"idle", "pending", "order", "store", "store_rest"},
                part: {"header", "payload"}, len: MsgSizes \union {0, FifoSize},
                pending: 0 .. FifoSize, wrapped: BOOLEAN, got: Seq(Nat \X Nat)]
    BY ONLY <1>10, <1>11, bytes \in Seq(Nat \X Nat)
  <2>2. 0 \in Index
    BY ONLY <1>3 DEF Index
  <2> QED
    BY ONLY <1>6, <2>1, <2>2, head' = 0, rbase' = rbase + FifoSize DEF RingReader
<1>14. RingReaderPlace'
  <2>1. DueSize' = DueSize
    BY ONLY <1>12 DEF DueSize
  <2>2. DueSize - gap <= WritePos - (rbase + FifoSize)
    BY ONLY <1>3, <1>4, <1>5 DEF ReadPos
  <2>3. r'.part = "payload" => r'.len \in MsgSizes
    BY ONLY <1>5, <1>12
  <2> QED
    BY ONLY <1>4, <1>6, <1>9, <1>12, <2>1, <2>2, <2>3, head' = 0 DEF RingReaderPlace
<1>15. BytesKnown'
  BY ONLY <1>1, <1>2, <1>9, <1>12 DEF BytesKnown, Known
<1> QED
  BY <1>7, <1>8, <1>13, <1>14, <1>15 DEF RingInv

\* The loads of the reader.
LEMMA RingLoading ==
  ASSUME Unpadded, RingInv, WriterUntouched,
         Stores!StoreHead \/ Stores!StoreHeadAgain \/ Stores!StoreHeadZero
  PROVE  RingInv'
<1>1. WriterKinds /\ RingReader /\ StoresLaps /\ RingReaderPlace /\ BytesKnown
  BY DEF RingInv
<1>2. /\ FifoSize \in Nat \ {0} /\ HeaderSize \in Nat \ {0}
      /\ head \in 0 .. FifoSize /\ tail \in 0 .. FifoSize /\ wbase \in Nat /\ rbase \in Nat
      /\ WritePos \in Nat /\ ReadPos \in Nat /\ DueSize \in Nat /\ Len(r.got) \in Nat
  BY RingNumbers
<1>3. /\ r.pc # "pad" /\ r.got \in Seq(Nat \X Nat)
      /\ r.part = "header" \/ r.part = "payload"
      /\ r.part = "header" => DueSize = HeaderSize
  BY <1>1 DEF RingReader, DueSize
<1>4. r.pc \in {"store", "store_rest"} /\ r.part # "header" => r.len \in MsgSizes
  BY <1>1, <1>3 DEF RingReaderPlace
<1>5. CASE /\ r.pc = "store" /\ (~r.wrapped \/ DueSize <= FifoSize - head)
           /\ head' = head + DueSize /\ rbase' = rbase /\ PartLoaded(Stores!Read(head, DueSize))
  <2>1. DueSize <= WritePos - ReadPos /\ (~r.wrapped => head + DueSize <= FifoSize)
    BY <1>1, <1>5 DEF RingReaderPlace
  <2>2. head + DueSize <= FifoSize
    BY ONLY <1>2, <1>5, <2>1
  <2>3. r.part = "header" => 0 < DueSize
    BY ONLY <1>2, <1>3
  <2>4. r.part = "header" => Known(Stores!Read(head, DueSize)[1])
    <3>1. \A i \in 1 .. DueSize : Known(Stores!Read(head, DueSize)[i])
      BY <1>1, <1>2, ReadBytes
    <3>2. 0 < DueSize => 1 \in 1 .. DueSize
      BY ONLY <1>2
    <3> QED
      BY ONLY <2>3, <3>1, <3>2
  <2> QED
    BY <1>2, <1>5, <2>1, <2>2, <2>3, <2>4, RingPartLoaded
<1>6. CASE /\ r.pc = "store_rest"
           /\ head' = head + (DueSize - Len(r.got)) /\ rbase' = rbase
           /\ PartLoaded(r.got \o Stores!Read(0, DueSize - Len(r.got)))
  <2>1. head = 0 /\ Len(r.got) < DueSize /\ DueSize - Len(r.got) <= WritePos - ReadPos
    BY <1>1, <1>6 DEF RingReaderPlace
  <2>2. PICK k \in Nat : k = DueSize - Len(r.got) /\ 0 < k
    <3>1. PICK g \in Nat : g = Len(r.got)
      BY ONLY <1>2
    <3>2. DueSize - g \in Nat /\ 0 < DueSize - g
      BY ONLY <1>2, <2>1, <3>1
    <3> QED
      BY ONLY <3>1, <3>2
  <2>3. head + k <= FifoSize
    <3>1. k <= WritePos - ReadPos /\ head = 0
      BY ONLY <2>1, <2>2
    <3>2. wbase = rbase
      BY ONLY <1>1, <1>2, <3>1 DEF StoresLaps
    <3> QED
      BY ONLY <1>2, <3>1, <3>2, k \in Nat DEF WritePos, ReadPos
  <2>4. PICK more \in Seq(Nat \X Nat) :
          more = Stores!Read(0, k) /\ Len(more) = k /\ \A i \in 1 .. k : Known(more[i])
    BY <1>1, ReadBytes
  <2>5. Known((r.got \o more)[1])
    <3>1. (r.got \o more)[1] = IF 1 <= Len(r.got) THEN r.got[1] ELSE more[1]
      <4>1. PICK g \in Nat : g = Len(r.got)
        BY ONLY <1>2
      <4>2. PICK got \in Seq(Nat \X Nat) : got = r.got /\ Len(got) = g
        BY ONLY <1>3, <4>1
      <4>3. 1 \in 1 .. g + k
        BY ONLY <2>2, g \in Nat, k \in Nat
      <4>4. (got \o more)[1] = IF 1 <= g THEN got[1] ELSE more[1 - g]
        BY ONLY <2>4, <4>2, <4>3, got \in Seq(Nat \X Nat), more \in Seq(Nat \X Nat), g \in Nat,
           k \in Nat
      <4>5. ~(1 <= g) => 1 - g = 1
        BY ONLY g \in Nat
      <4> QED
        BY ONLY <4>2, <4>4, <4>5
    <3>2. 1 <= Len(r.got) => Known(r.got[1])
      <4>1. 1 <= Len(r.got) => 1 \in 1 .. Len(r.got)
        BY ONLY <1>2
      <4> QED
        BY ONLY <1>1, <4>1 DEF BytesKnown
    <3>3. Known(more[1])
      BY ONLY <2>2, <2>4
    <3> QED
      BY ONLY <3>1, <3>2, <3>3 DEF Known
  <2>6. head' = head + k /\ PartLoaded(r.got \o more) /\ k <= WritePos - ReadPos
    BY ONLY <1>6, <2>1, <2>2, <2>4
  <2> QED
    BY <1>6, <2>2, <2>3, <2>5, <2>6, RingPartLoaded
<1>7. CASE /\ r.pc = "store" /\ r.wrapped /\ FifoSize - head < DueSize
           /\ head' = 0 /\ rbase' = rbase + FifoSize
           /\ r' = [r EXCEPT !.pc = "store_rest", !.got = Stores!Read(head, FifoSize - head)]
           /\ UNCHANGED <<rret, out, taken>>
  BY <1>7, RingWrapLoaded
<1> QED
  BY <1>3, <1>4, <1>5, <1>6, <1>7, LoadingSteps

\* The ring is empty, and what lies in it is known for junk.
LEMMA RingStart == Stores!Init => RingInv
<1> SUFFICES ASSUME Stores!Init
             PROVE  RingInv
  OBVIOUS
<1>1. StoresInv /\ r = AtRest
  BY StoresStart DEF Stores!Init, Stores!ReaderIdle, AtRest
<1>2. RingReader /\ RingReaderPlace
  BY <1>1 DEF StoresInv, ReaderKinds, RingReader, RingReaderPlace, AtRest
<1>3. BytesKnown
  <2>1. Len(sent) = 0 /\ Len(r.got) = 0 /\ \A k \in 0 .. FifoSize - 1 : buf[k] = <<0, 0>>
    BY <1>1 DEF Stores!Init, Stores!Junk, AtRest
  <2> QED
    BY ONLY <2>1 DEF BytesKnown, Known
<1> QED
  BY <1>1, <1>2, <1>3 DEF StoresInv, WriterStep, RingInv

\* Every step keeps the invariant of the indexes.
LEMMA RingStep == Unpadded /\ RingInv /\ [Stores!Next]_(Stores!vars) => RingInv'
<1> SUFFICES ASSUME Unpadded, RingInv, [Stores!Next]_(Stores!vars)
             PROVE  RingInv'
  OBVIOUS
<1>1. CASE Stores!Writer
  BY <1>1, LocalWriterSteps, RingLocalWriter, RingStoring
<1>2. CASE Stores!Reader
  BY <1>2, LocalReaderSteps, RingLocalReader, RingLoading
<1>3. CASE UNCHANGED Stores!vars
  <2>1. ReaderUntouched /\ WriterUntouched
    BY <1>3 DEF Stores!vars, ReaderUntouched, WriterUntouched
  <2>2. /\ PartSize' = PartSize /\ StoredSoFar' = StoredSoFar /\ DueSize' = DueSize
        /\ WritePos' = WritePos /\ ReadPos' = ReadPos
    BY ONLY <2>1 DEF ReaderUntouched, WriterUntouched, PartSize, PartFrom, StoredSoFar, DueSize,
       WritePos, ReadPos
  <2>3. (WriterKinds => WriterKinds') /\ (RingReader => RingReader') /\ (StoresLaps => StoresLaps')
        /\ (BytesKnown => BytesKnown')
    BY ONLY <2>1 DEF ReaderUntouched, WriterUntouched, WriterKinds, RingReader, StoresLaps,
       BytesKnown, Known
  <2>4. (WriterPlace => WriterPlace') /\ (RoomLeft => RoomLeft') /\ (RingReaderPlace => RingReaderPlace')
    BY ONLY <2>1, <2>2 DEF ReaderUntouched, WriterUntouched, WriterPlace, RoomLeft,
       RingReaderPlace
  <2> QED
    BY <2>3, <2>4 DEF RingInv
<1> QED
  BY <1>1, <1>2, <1>3 DEF Stores!Next

\* It holds throughout where no payload is padded, torn or not.
THEOREM RingInvariant == Unpadded /\ Stores!Spec => []RingInv
<1>1. Unpadded => []Unpadded
  <2>1. Unpadded => Unpadded'
    BY DEF Unpadded
  <2> QED
    BY <2>1, PTL
<1> QED
  BY <1>1, RingStart, RingStep, PTL DEF Stores!Spec

\* Between any two stores of an index, a full ring is not taken for an empty one
\* and the reader does not pass the writer (ICC_FIFO_Pending, ICC_FIFO_Free),
\* where no payload is padded.
THEOREM StoresOccupancy == Unpadded /\ Stores!Spec => []Occupancy
<1>1. RingInv => Occupancy
  BY RingNumbers DEF Occupancy
<1> QED
  BY <1>1, RingInvariant, PTL

\* The free bytes ICC_FIFO_Free computed are still free when ICC_Fifo_Msg_Fits
\* compares them, and the pending bytes ICC_FIFO_Pop computed still pending when
\* it compares those, where no payload is padded.
THEOREM StoresLoads == Unpadded /\ Stores!Spec => []LoadsStayTrue
<1>1. ASSUME RingInv
      PROVE  LoadsStayTrue
  <2>1. /\ WritePos \in Nat /\ ReadPos \in Nat /\ FifoSize \in Nat /\ w.free \in Nat
        /\ PendingBytes(head, tail) = WritePos - ReadPos
        /\ FreeBytes(head, tail) = FifoSize - (WritePos - ReadPos)
    BY <1>1, RingNumbers
  <2>2. w.pc = "fits" => WritePos + w.free <= ReadPos + FifoSize
    BY <1>1 DEF RingInv, RoomLeft
  <2>3. r.pc = "order" => r.pending <= WritePos - ReadPos
    BY <1>1 DEF RingInv, RingReaderPlace
  <2>4. w.pc = "fits" => w.free <= FifoSize - (WritePos - ReadPos)
    BY ONLY <2>1, <2>2
  <2> QED
    BY ONLY <2>1, <2>3, <2>4 DEF LoadsStayTrue
<1> QED
  BY <1>1, RingInvariant, PTL
=============================================================================
