--------------------------- MODULE FifoOps_proofs ---------------------------
(***************************************************************************)
(* Facts about the index arithmetic of FifoOps, for every ring size,       *)
(* alignment and header size that satisfy FifoAssumption.                  *)
(***************************************************************************)
EXTENDS FifoOps, TLAPS

-----------------------------------------------------------------------------
(***************************************************************************)
(* Arithmetic of aligned positions.                                        *)
(***************************************************************************)
Aligned(x) == x % Alignment = 0

LEMMA Division ==
  ASSUME NEW x \in Int
  PROVE  /\ x \div Alignment \in Int
         /\ x = Alignment * (x \div Alignment) + (x % Alignment)
         /\ x % Alignment \in 0 .. Alignment - 1
BY FifoAssumption

LEMMA MultipleAligned ==
  ASSUME NEW k \in Int
  PROVE  Aligned(Alignment * k)
BY FifoAssumption DEF Aligned

LEMMA AlignedSum ==
  ASSUME NEW x \in Int, NEW y \in Int, Aligned(x), Aligned(y)
  PROVE  Aligned(x + y) /\ Aligned(x - y)
<1> DEFINE k == x \div Alignment
           l == y \div Alignment
<1>1. x = Alignment * k /\ y = Alignment * l /\ k \in Int /\ l \in Int
  BY Division, FifoAssumption DEF Aligned
<1> HIDE DEF k, l
<1>2. x + y = Alignment * (k + l) /\ x - y = Alignment * (k - l)
  BY <1>1, FifoAssumption
<1>. QED  BY <1>1, <1>2, MultipleAligned

LEMMA AlignedFifoSize == Aligned(FifoSize)
BY FifoAssumption DEF Aligned

\* Padding stays below one unit of alignment and completes the message.
LEMMA PaddingProperties ==
  ASSUME NEW n \in Nat
  PROVE  /\ Padding(n) \in 0 .. Alignment - 1
         /\ RealSize(n) = HeaderSize + n + Padding(n)
         /\ RealSize(n) \in Nat
         /\ Aligned(RealSize(n))
<1> DEFINE x == HeaderSize + n
           k == x \div Alignment
<1>1. x \in Int /\ x = HeaderSize + n
  BY FifoAssumption
<1>2. ExcessAlign(n) = x % Alignment
  BY DEF ExcessAlign
<1>3. RealSize(n) = x + Padding(n)
  BY DEF RealSize
<1> HIDE DEF x
<1>4. /\ k \in Int
      /\ x = Alignment * k + ExcessAlign(n)
      /\ ExcessAlign(n) \in 0 .. Alignment - 1
  BY <1>1, <1>2, Division
<1> HIDE DEF k
<1>5. Padding(n) \in 0 .. Alignment - 1
  BY <1>4, FifoAssumption DEF Padding
<1>6. RealSize(n) = Alignment * k \/ RealSize(n) = Alignment * (k + 1)
  BY <1>3, <1>4, FifoAssumption DEF Padding
<1>7. Aligned(RealSize(n))
  BY <1>4, <1>6, MultipleAligned
<1>. QED  BY <1>1, <1>3, <1>5, <1>7, FifoAssumption

\* What starts below an aligned limit ends below it, padding included.
LEMMA PaddingStaysInside ==
  ASSUME NEW x \in Int, NEW limit \in Int, NEW pad \in 0 .. Alignment - 1,
         Aligned(x), Aligned(limit), x - pad <= limit
  PROVE  x <= limit
<1>1. Aligned(x - limit)
  BY AlignedSum
<1>2. x - limit < Alignment
  BY FifoAssumption
<1>. QED  BY <1>1, <1>2, FifoAssumption DEF Aligned
-----------------------------------------------------------------------------
(***************************************************************************)
(* Moving one index.                                                       *)
(***************************************************************************)

\* k more bytes leave tail short of head, or end at the end of the ring.
Room(h, t, k) ==
  \/ k < FreeBytes(h, t)
  \/ ~WrappedAround(h, t) /\ t + k <= FifoSize

\* Pending and free bytes together are the ring.
LEMMA Occupied ==
  ASSUME NEW h \in Index, NEW t \in Index
  PROVE  /\ PendingBytes(h, t) \in 0 .. FifoSize
         /\ FreeBytes(h, t) \in 0 .. FifoSize
         /\ PendingBytes(h, t) + FreeBytes(h, t) = FifoSize
BY FifoAssumption DEF Index, PendingBytes, FreeBytes, WrappedAround

\* A write into free room: tail stays in the ring and the bytes are pending.
LEMMA TailAdvances ==
  ASSUME NEW h \in Index, NEW t \in Index, NEW len \in Nat, NEW pad \in Nat,
         Room(h, t, len + pad),
         ~WrappedAround(h, t) /\ t + len <= FifoSize => t + len + pad <= FifoSize
  PROVE  LET t2 == TailAfter(h, t, len, pad) IN
         /\ t2 \in Index
         /\ PendingBytes(h, t2) = PendingBytes(h, t) + len + pad
         /\ FreeBytes(h, t2) = FreeBytes(h, t) - len - pad
         /\ t2 = t + len + pad \/ t2 = t + len + pad - FifoSize
         /\ ~WrappedAround(h, t) /\ t + (len + pad) <= FifoSize =>
              ~WrappedAround(h, t2) /\ t2 = t + len + pad
<1>n. FifoSize \in Nat /\ h \in 0 .. FifoSize /\ t \in 0 .. FifoSize
  BY FifoAssumption DEF Index
<1>1. CASE PushSplits(h, t, len)
  <2>1. ~(t < h) /\ len > FifoSize - t /\ len + pad < h + (FifoSize - t)
    BY <1>1, <1>n DEF PushSplits, WrappedAround, Room, FreeBytes
  <2>2. TailAfter(h, t, len, pad) = (len - (FifoSize - t)) + pad
    BY <1>1 DEF TailAfter
  <2>. QED  BY <2>1, <2>2, <1>n DEF Index, PendingBytes, FreeBytes, WrappedAround
<1>2. CASE ~PushSplits(h, t, len)
  <2>1. TailAfter(h, t, len, pad) = t + len + pad
    BY <1>2 DEF TailAfter
  <2>2. CASE t < h
    <3>1. len + pad < h - t
      BY <2>2, <1>n DEF Room, FreeBytes, WrappedAround
    <3>. QED  BY <2>1, <2>2, <3>1, <1>n
              DEF Index, PendingBytes, FreeBytes, WrappedAround
  <2>3. CASE ~(t < h)
    <3>1. t + len + pad <= FifoSize
      BY <1>2, <2>3, <1>n DEF PushSplits, WrappedAround
    <3>. QED  BY <2>1, <2>3, <3>1, <1>n
              DEF Index, PendingBytes, FreeBytes, WrappedAround
  <2>. QED  BY <2>2, <2>3
<1>. QED  BY <1>1, <1>2

\* A read of pending bytes: head stays in the ring and the bytes are free.
LEMMA HeadAdvances ==
  ASSUME NEW h \in Index, NEW t \in Index, NEW len \in Nat, NEW pad \in Nat,
         len + pad <= PendingBytes(h, t),
         h + len <= FifoSize => h + len + pad <= FifoSize
  PROVE  LET h2 == HeadAfter(h, t, len, pad) IN
         /\ h2 \in Index
         /\ PendingBytes(h2, t) = PendingBytes(h, t) - len - pad
         /\ FreeBytes(h2, t) = FreeBytes(h, t) + len + pad
         /\ h2 = h + len + pad \/ h2 = h + len + pad - FifoSize
         /\ ~WrappedAround(h, t) => ~WrappedAround(h2, t)
<1>n. FifoSize \in Nat /\ h \in 0 .. FifoSize /\ t \in 0 .. FifoSize
  BY FifoAssumption DEF Index
<1>1. CASE PopSplits(h, t, len)
  <2>1. t < h /\ len > FifoSize - h /\ len + pad <= t + (FifoSize - h)
    BY <1>1, <1>n DEF PopSplits, WrappedAround, PendingBytes
  <2>2. HeadAfter(h, t, len, pad) = (len - (FifoSize - h)) + pad
    BY <1>1 DEF HeadAfter
  <2>. QED  BY <2>1, <2>2, <1>n DEF Index, PendingBytes, FreeBytes, WrappedAround
<1>2. CASE ~PopSplits(h, t, len)
  <2>1. HeadAfter(h, t, len, pad) = h + len + pad
    BY <1>2 DEF HeadAfter
  <2>2. CASE t < h
    <3>1. h + len + pad <= FifoSize
      BY <1>2, <2>2, <1>n DEF PopSplits, WrappedAround
    <3>. QED  BY <2>1, <2>2, <3>1, <1>n
              DEF Index, PendingBytes, FreeBytes, WrappedAround
  <2>3. CASE ~(t < h)
    <3>1. len + pad <= t - h
      BY <2>3, <1>n DEF PendingBytes, WrappedAround
    <3>. QED  BY <2>1, <2>3, <3>1, <1>n
              DEF Index, PendingBytes, FreeBytes, WrappedAround
  <2>. QED  BY <2>2, <2>3
<1>. QED  BY <1>1, <1>2

\* What was found to fit has room, and its payload has room behind its header.
LEMMA FitsHasRoom ==
  ASSUME NEW h \in Index, NEW t \in Index, NEW len \in Nat,
         Aligned(t), MsgFits(h, t, len)
  PROVE  Room(h, t, RealSize(len))
<1>1. /\ RealSize(len) = HeaderSize + len + Padding(len)
      /\ Padding(len) \in 0 .. Alignment - 1
      /\ RealSize(len) \in Nat /\ Aligned(RealSize(len))
  BY PaddingProperties
<1>n. FifoSize \in Nat /\ HeaderSize \in Nat /\ t \in 0 .. FifoSize
      /\ FreeBytes(h, t) \in 0 .. FifoSize
  BY FifoAssumption, Occupied DEF Index
<1>2. CASE RealSize(len) # FreeBytes(h, t)
  BY <1>1, <1>2, <1>n DEF MsgFits, Room
<1>3. CASE ~WrappedAround(h, t) /\ HeaderSize + len <= FifoSize - t
  <2>1. Aligned(t + RealSize(len)) /\ t + RealSize(len) \in Int
    <3>1. t \in Int /\ RealSize(len) \in Int
      BY <1>1, <1>n
    <3>2. Aligned(t + RealSize(len))
      BY ONLY <3>1, <1>1, Aligned(t), AlignedSum, Zenon
    <3>. QED  BY <3>1, <3>2
  <2>2. t + RealSize(len) - Padding(len) <= FifoSize
    BY <1>1, <1>3, <1>n
  <2>3. t + RealSize(len) <= FifoSize
    <3> DEFINE x == t + RealSize(len)
               pad == Padding(len)
    <3>1. /\ x \in Int /\ FifoSize \in Int /\ pad \in 0 .. Alignment - 1
          /\ Aligned(x) /\ Aligned(FifoSize) /\ x - pad <= FifoSize
      BY <1>1, <1>n, <2>1, <2>2, AlignedFifoSize
    <3> HIDE DEF x, pad
    <3>2. x <= FifoSize
      BY ONLY <3>1, PaddingStaysInside
    <3>. QED  BY <3>2 DEF x
  <2>. QED  BY <1>3, <2>3 DEF Room
<1>. QED  BY <1>2, <1>3 DEF MsgFits

\* Behind a first part of the write there is room for the second.
LEMMA RoomForTheRest ==
  ASSUME NEW h \in Index, NEW t \in Index, NEW a \in Nat, NEW b \in Nat,
         Room(h, t, a + b)
  PROVE  /\ Room(h, t, a + 0)
         /\ Room(h, TailAfter(h, t, a, 0), b)
<1>n. FifoSize \in Nat /\ t \in 0 .. FifoSize /\ FreeBytes(h, t) \in 0 .. FifoSize
  BY FifoAssumption, Occupied DEF Index
<1>1. Room(h, t, a + 0)
  BY <1>n DEF Room
<1> DEFINE t2 == TailAfter(h, t, a, 0)
<1>2. /\ FreeBytes(h, t2) = FreeBytes(h, t) - a - 0
      /\ ~WrappedAround(h, t) /\ t + (a + 0) <= FifoSize =>
           ~WrappedAround(h, t2) /\ t2 = t + a + 0
  <2>1. ~WrappedAround(h, t) /\ t + a <= FifoSize => t + a + 0 <= FifoSize
    BY <1>n
  <2>. QED  BY <1>1, <2>1, TailAdvances
<1> HIDE DEF t2
<1>3. Room(h, t2, b)
  BY <1>n, <1>2 DEF Room
<1>. QED  BY <1>1, <1>3 DEF t2

\* The reader's progress takes no room away and refuses nothing that fitted.
LEMMA ReadingMakesRoom ==
  ASSUME NEW h \in Index, NEW t \in Index, NEW h2 \in Index,
         FreeBytes(h2, t) > FreeBytes(h, t),
         ~WrappedAround(h, t) => ~WrappedAround(h2, t)
  PROVE  /\ \A k \in Nat : Room(h, t, k) => Room(h2, t, k)
         /\ \A len \in Nat : MsgFits(h, t, len) => MsgFits(h2, t, len)
<1>n. FreeBytes(h, t) \in Int /\ FreeBytes(h2, t) \in Int
  BY Occupied, FifoAssumption
<1>1. ASSUME NEW k \in Nat, Room(h, t, k)
      PROVE  Room(h2, t, k)
  BY <1>1, <1>n DEF Room
<1>2. ASSUME NEW len \in Nat, MsgFits(h, t, len)
      PROVE  MsgFits(h2, t, len)
  <2>1. RealSize(len) \in Nat
    BY PaddingProperties
  <2>. QED  BY <1>2, <1>n, <2>1 DEF MsgFits
<1>. QED  BY <1>1, <1>2
-----------------------------------------------------------------------------
(***************************************************************************)
(* Messages that are pushed and popped whole.                              *)
(***************************************************************************)

\* The index behind size bytes from an index on.
Onward(h, size) == IF h + size <= FifoSize THEN h + size ELSE h + size - FifoSize

\* What their arithmetic rests on.
LEMMA MessageNumbers ==
  ASSUME NEW m \in Nat \ {0}, NEW size \in Nat, size = RealSize(m), size < FifoSize
  PROVE  /\ FifoSize \in Nat \ {0} /\ HeaderSize \in Nat \ {0}
         /\ Padding(m) \in 0 .. Alignment - 1 /\ Padding(m) \in Nat
         /\ size = HeaderSize + m + Padding(m) /\ HeaderSize < size
         /\ Aligned(size) /\ Aligned(FifoSize) /\ Aligned(0)
<1>1. FifoSize \in Nat \ {0} /\ HeaderSize \in Nat \ {0} /\ Alignment \in Nat \ {0}
  BY FifoAssumption
<1>2. Aligned(FifoSize) /\ Aligned(0)
  BY AlignedFifoSize, <1>1 DEF Aligned
<1>. QED  BY <1>1, <1>2, PaddingProperties

\* The starts of messages.
LEMMA AlignedOnward ==
  ASSUME NEW size \in Int, Aligned(size), NEW x \in Int, Aligned(x)
  PROVE  /\ Aligned(x + size) /\ Aligned(x + size - FifoSize)
         /\ Aligned(x + size - FifoSize - FifoSize)
<1> DEFINE y == x + size
           z == y - FifoSize
<1>1. FifoSize \in Int /\ y \in Int /\ z \in Int
  BY FifoAssumption
<1>2. Aligned(y)
  BY AlignedSum, Zenon
<1>3. y = x + size
  OBVIOUS
<1> HIDE DEF y
<1>4. Aligned(z) /\ z = y - FifoSize
  BY <1>1, <1>2, AlignedSum, AlignedFifoSize, Zenon
<1> HIDE DEF z
<1>5. Aligned(z - FifoSize)
  BY <1>1, <1>4, AlignedSum, AlignedFifoSize, Zenon
<1>. QED  BY <1>1, <1>2, <1>4, <1>5, <1>3

\* A pop of a message that is there takes head to the next one.
LEMMA MessagePopped ==
  ASSUME NEW m \in Nat \ {0}, NEW size \in Nat, size = RealSize(m), size < FifoSize,
         NEW h \in Index, NEW t \in Index, Aligned(h), size <= PendingBytes(h, t)
  PROVE  LET header == HeadAfter(h, t, HeaderSize, 0)
         IN  HeadAfter(header, t, m, Padding(m)) = Onward(h, size)
<1> DEFINE pad == Padding(m)
           header == HeadAfter(h, t, HeaderSize, 0)
<1>1. /\ FifoSize \in Nat /\ HeaderSize \in Nat /\ m \in Nat /\ pad \in Nat
      /\ size = HeaderSize + m + pad /\ size \in Nat /\ size < FifoSize
      /\ h \in 0 .. FifoSize /\ t \in 0 .. FifoSize
  BY MessageNumbers DEF Index
<1>2. h + HeaderSize + m <= FifoSize => h + size <= FifoSize
  <2>1. Aligned(size) /\ Aligned(FifoSize) /\ pad \in 0 .. Alignment - 1
    BY MessageNumbers
  <2>2. h \in Int /\ size \in Int
    BY <1>1
  <2>3. Aligned(h + size)
    BY <2>1, <2>2, AlignedOnward, Zenon
  <2> DEFINE x == h + size
  <2>4. x \in Int /\ FifoSize \in Int /\ x - pad = h + HeaderSize + m
    BY <1>1
  <2> HIDE DEF x, pad
  <2>5. x - pad <= FifoSize => x <= FifoSize
    BY <2>1, <2>3, <2>4, PaddingStaysInside DEF x
  <2>. QED  BY <2>4, <2>5 DEF x
<1> HIDE DEF pad
<1>3. CASE t >= h
  <2>1. h + size <= t
    BY <1>1, <1>3 DEF PendingBytes, WrappedAround
  <2>2. header = h + HeaderSize
    BY <1>1, <1>3 DEF HeadAfter, PopSplits, WrappedAround
  <2>3. HeadAfter(header, t, m, pad) = h + size
    BY <1>1, <2>1, <2>2 DEF HeadAfter, PopSplits, WrappedAround
  <2>. QED  BY <1>1, <2>1, <2>3 DEF Onward, pad
<1>4. CASE t < h
  <2>1. t + FifoSize >= h + size
    BY <1>1, <1>4 DEF PendingBytes, WrappedAround
  <2>2. CASE HeaderSize > FifoSize - h
    <3>1. header = h + HeaderSize - FifoSize
      BY <1>1, <1>4, <2>2 DEF HeadAfter, PopSplits, WrappedAround
    <3>2. HeadAfter(header, t, m, pad) = h + size - FifoSize
      BY <1>1, <2>1, <3>1 DEF HeadAfter, PopSplits, WrappedAround
    <3>. QED  BY <1>1, <2>2, <3>2 DEF Onward, pad
  <2>3. CASE HeaderSize <= FifoSize - h
    <3>1. header = h + HeaderSize
      BY <1>1, <1>4, <2>3 DEF HeadAfter, PopSplits, WrappedAround
    <3>2. HeadAfter(header, t, m, pad) = Onward(h, size)
      BY <1>1, <1>2, <1>4, <3>1 DEF HeadAfter, PopSplits, WrappedAround, Onward
    <3>. QED  BY <3>2 DEF pad
  <2>. QED  BY <1>1, <2>2, <2>3
<1>. QED  BY <1>1, <1>3, <1>4

\* Storing it gives back the room of one message.
LEMMA MessageRead ==
  ASSUME NEW m \in Nat \ {0}, NEW size \in Nat, size = RealSize(m), size < FifoSize,
         NEW h \in Index, NEW t \in Index, Aligned(h), size <= PendingBytes(h, t)
  PROVE  /\ Onward(h, size) \in Index /\ Aligned(Onward(h, size))
         /\ Onward(h, size) = h + size \/ Onward(h, size) = h + size - FifoSize
         /\ PendingBytes(Onward(h, size), t) = PendingBytes(h, t) - size
         /\ Room(h, t, size) => Room(Onward(h, size), t, size)
         /\ MsgFits(h, t, m) => MsgFits(Onward(h, size), t, m)
<1>1. /\ FifoSize \in Nat /\ size \in Nat /\ 0 < size /\ size < FifoSize
      /\ h \in 0 .. FifoSize /\ t \in 0 .. FifoSize /\ m \in Nat
  BY MessageNumbers DEF Index
<1>2. /\ Onward(h, size) \in 0 .. FifoSize
      /\ Onward(h, size) = h + size \/ Onward(h, size) = h + size - FifoSize
  BY <1>1 DEF Onward
<1>3. Aligned(Onward(h, size))
  <2>1. h \in Int /\ size \in Int
    BY <1>1
  <2>0. Aligned(size)
    BY MessageNumbers
  <2>2. Aligned(h + size) /\ Aligned(h + size - FifoSize)
    BY <2>1, <2>0, AlignedOnward, Zenon
  <2>. QED  BY <1>2, <2>2
<1>4. /\ PendingBytes(Onward(h, size), t) = PendingBytes(h, t) - size
      /\ FreeBytes(Onward(h, size), t) = FreeBytes(h, t) + size
      /\ ~WrappedAround(h, t) => ~WrappedAround(Onward(h, size), t)
  BY <1>1 DEF PendingBytes, FreeBytes, WrappedAround, Onward
<1>5. FreeBytes(Onward(h, size), t) > FreeBytes(h, t)
  BY <1>1, <1>4, Occupied
<1>. QED  BY <1>1, <1>2, <1>3, <1>4, <1>5, ReadingMakesRoom DEF Index

\* A push into its room takes tail to where the next message starts.
LEMMA MessagePushed ==
  ASSUME NEW m \in Nat \ {0}, NEW size \in Nat, size = RealSize(m), size < FifoSize,
         NEW h \in Index, NEW t \in Index, Aligned(t), Room(h, t, size)
  PROVE  LET body  == TailAfter(h, t, HeaderSize, 0)
             after == TailAfter(h, body, m, Padding(m))
         IN  /\ body = t + HeaderSize \/ body = t + HeaderSize - FifoSize
             /\ after \in Index /\ Aligned(after)
             /\ PendingBytes(h, after) = PendingBytes(h, t) + size
<1> DEFINE pad == Padding(m)
           body == TailAfter(h, t, HeaderSize, 0)
           after == TailAfter(h, body, m, pad)
<1>1. /\ FifoSize \in Nat /\ HeaderSize \in Nat /\ m \in Nat /\ pad \in Nat
      /\ size = HeaderSize + (m + pad) /\ size \in Nat /\ size < FifoSize
      /\ h \in 0 .. FifoSize /\ t \in 0 .. FifoSize /\ m + pad \in Nat
      /\ 0 \in Nat
  BY MessageNumbers DEF Index
<1> HIDE DEF pad
<1>2. Room(h, t, HeaderSize + 0) /\ Room(h, body, m + pad)
  BY <1>1, RoomForTheRest
<1>3. /\ body \in Index
      /\ body = t + HeaderSize \/ body = t + HeaderSize - FifoSize
      /\ PendingBytes(h, body) = PendingBytes(h, t) + HeaderSize
  BY <1>1, <1>2, Occupied, TailAdvances
<1> HIDE DEF body
<1>9. /\ Aligned(t + size) /\ Aligned(t + size - FifoSize)
      /\ Aligned(t + size - FifoSize - FifoSize)
  <2>1. t \in Int /\ size \in Int
    BY <1>1
  <2>2. Aligned(size)
    BY MessageNumbers
  <2>. QED  BY <2>1, <2>2, AlignedOnward, Zenon
<1>4. body + m <= FifoSize => body + m + pad <= FifoSize
  <2>1. Aligned(t + size) /\ t + size \in Int /\ FifoSize \in Int
    BY <1>1, <1>9
  <2>2. Aligned(t + size - FifoSize) /\ t + size - FifoSize \in Int
    BY <1>1, <1>9
  <2>3. /\ \/ body + m + pad = t + size
           \/ body + m + pad = t + size - FifoSize
        /\ body \in Int
    BY <1>1, <1>3 DEF Index
  <2>4. pad \in 0 .. Alignment - 1 /\ Aligned(FifoSize)
    BY MessageNumbers DEF pad
  <2> DEFINE x == body + m + pad
  <2>5. x \in Int /\ Aligned(x) /\ x - pad = body + m /\ FifoSize \in Int
    BY <1>1, <2>1, <2>2, <2>3
  <2> HIDE DEF x
  <2>6. x - pad <= FifoSize => x <= FifoSize
    BY <2>4, <2>5, PaddingStaysInside
  <2>. QED  BY <2>5, <2>6 DEF x
<1>5. /\ after \in Index
      /\ PendingBytes(h, after) = PendingBytes(h, body) + m + pad
      /\ after = body + m + pad \/ after = body + m + pad - FifoSize
  BY <1>1, <1>2, <1>3, <1>4, TailAdvances
<1> HIDE DEF after
<1>6. PendingBytes(h, after) = PendingBytes(h, t) + size
  BY <1>1, <1>3, <1>5, Occupied
<1>7. Aligned(after)
  <2>1. \/ after = t + size \/ after = t + size - FifoSize
        \/ after = t + size - FifoSize - FifoSize
    BY <1>1, <1>3, <1>5 DEF Index
  <2>. QED  BY <1>9, <2>1
<1>. QED  BY <1>3, <1>5, <1>6, <1>7 DEF after, body, pad
=============================================================================
