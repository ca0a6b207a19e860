----------------------- MODULE Sac58rTransfer_proofs -----------------------
(***************************************************************************)
(* Proofs about Sac58rTransfer for any number of restarts, calls and       *)
(* messages, every size of ring and message, and every range of the        *)
(* counters that exceeds the number of messages in a full ring.            *)
(***************************************************************************)
EXTENDS Sac58rTransfer, FifoOps_proofs

Size == RealSize(MsgSize)

\* The messages that a full ring holds.
Slots == FifoSize \div Size

LEMMA SideFacts ==
  /\ "tx" \in Sides /\ "rx" \in Sides
  /\ \A s \in Sides : Peer(s) \in Sides /\ Peer(s) # s /\ Peer(Peer(s)) = s
  /\ \A s, u \in Sides : u # s => u = Peer(s)
  /\ Peer("tx") = "rx" /\ Peer("rx") = "tx"
BY DEF Sides, Peer

\* What the arithmetic rests on.
LEMMA Numbers ==
  /\ FifoSize \in Nat \ {0} /\ HeaderSize \in Nat \ {0} /\ MsgSize \in Nat \ {0}
  /\ Size = RealSize(MsgSize) /\ Size \in Nat /\ Size < FifoSize
  /\ HeaderSize < Size /\ Aligned(0)
  /\ Slots \in Nat \ {0} /\ CounterRange \in Nat /\ Slots + 1 < CounterRange
<1>1. /\ MsgSize \in Nat \ {0} /\ Size = RealSize(MsgSize) /\ Size < FifoSize
      /\ CounterRange \in Nat /\ CounterRange > Slots + 1
  BY Sac58rAssumption DEF Size, Slots
<1>2. Size \in Nat
  BY <1>1, PaddingProperties
<1>3. /\ FifoSize \in Nat \ {0} /\ HeaderSize \in Nat \ {0}
      /\ HeaderSize < Size /\ Aligned(0)
  BY <1>1, <1>2, MessageNumbers
<1>4. Slots \in Nat \ {0}
  BY <1>1, <1>2, <1>3 DEF Slots
<1>. QED  BY <1>1, <1>2, <1>3, <1>4

\* The ring holds no more messages than that.
LEMMA SlotsBound ==
  ASSUME NEW n \in Nat, Size * n <= FifoSize
  PROVE  n <= Slots
<1>1. /\ FifoSize \in Nat /\ Size \in Nat /\ 0 < Size /\ Slots \in Nat
  BY Numbers
<1>2. FifoSize < Size * (Slots + 1)
  BY <1>1 DEF Slots
<1>3. n < Slots + 1
  BY <1>1, <1>2
<1>. QED  BY <1>1, <1>3
-----------------------------------------------------------------------------
(***************************************************************************)
(* Arithmetic of the counters: they differ by a multiple of CounterRange.  *)
(***************************************************************************)
Multiple(x) == x % CounterRange = 0

LEMMA MultipleOf ==
  ASSUME NEW x \in Int
  PROVE  /\ x \div CounterRange \in Int
         /\ x = CounterRange * (x \div CounterRange) + (x % CounterRange)
         /\ x % CounterRange \in 0 .. CounterRange - 1
BY Numbers

LEMMA ProductMultiple ==
  ASSUME NEW k \in Int
  PROVE  Multiple(CounterRange * k)
BY Numbers DEF Multiple

LEMMA MultipleSum ==
  ASSUME NEW x \in Int, NEW y \in Int, Multiple(x), Multiple(y)
  PROVE  Multiple(x + y) /\ Multiple(x - y)
<1> DEFINE k == x \div CounterRange
           l == y \div CounterRange
<1>1. /\ x = CounterRange * k /\ y = CounterRange * l /\ k \in Int /\ l \in Int
      /\ CounterRange \in Int
  BY MultipleOf, Numbers DEF Multiple
<1> HIDE DEF k, l
<1>2. x + y = CounterRange * (k + l) /\ x - y = CounterRange * (k - l)
  BY <1>1
<1>3. k + l \in Int /\ k - l \in Int
  BY <1>1
<1>4. Multiple(CounterRange * (k + l)) /\ Multiple(CounterRange * (k - l))
  BY <1>3, ProductMultiple
<1>. QED  BY <1>2, <1>4

LEMMA SmallMultiple ==
  ASSUME NEW x \in Int, Multiple(x), 0 - CounterRange < x, x < CounterRange
  PROVE  x = 0
<1> DEFINE k == x \div CounterRange
<1>1. x = CounterRange * k /\ k \in Int /\ CounterRange \in Nat
  BY MultipleOf, Numbers DEF Multiple
<1> HIDE DEF k
<1>2. k < 1 /\ k > 0 - 1
  BY <1>1
<1>. QED  BY <1>1, <1>2

\* Counting adds one, up to a multiple of the range.
LEMMA Counted ==
  /\ \A n \in Counter : Plus1(n) \in Counter /\ Multiple(Plus1(n) - (n + 1))
  /\ Multiple(0) /\ 0 \in Counter
<1>1. Multiple(0) /\ 0 \in Counter
  BY Numbers DEF Multiple, Counter
<1>2. ASSUME NEW n \in Counter
      PROVE  Plus1(n) \in Counter /\ Multiple(Plus1(n) - (n + 1))
  <2> DEFINE k == (n + 1) \div CounterRange
  <2>1. n + 1 \in Int /\ CounterRange \in Int
    BY Numbers DEF Counter
  <2>2. /\ k \in Int /\ n + 1 = CounterRange * k + Plus1(n)
        /\ Plus1(n) \in 0 .. CounterRange - 1
    BY <2>1, MultipleOf DEF Plus1
  <2> HIDE DEF k
  <2>3. Plus1(n) - (n + 1) = CounterRange * (0 - k) /\ 0 - k \in Int
    BY <2>1, <2>2
  <2>. QED  BY <2>2, <2>3, ProductMultiple DEF Counter
<1>. QED  BY <1>1, <1>2

\* The same, where a counter is part of a difference.
LEMMA CountedIn ==
  ASSUME NEW n \in Counter, NEW x \in Int, Multiple(x)
  PROVE  /\ Multiple(x + (Plus1(n) - (n + 1)))
         /\ Multiple(x - (Plus1(n) - (n + 1)))
<1>1. Plus1(n) - (n + 1) \in Int /\ Multiple(Plus1(n) - (n + 1))
  BY Counted, Numbers DEF Counter
<1>. QED  BY <1>1, MultipleSum
-----------------------------------------------------------------------------
(***************************************************************************)
(* The parts of the inductive invariant.                                   *)
(***************************************************************************)
Places ==
  {"idle", "wait", "evaluate", "asleep", "oops", "again", "push", "pop", "signal"}
Alarms == {"off", "set", "running", "expired"}
Calls == [pc : Places, snap : Counter, alarm : Alarms]

\* The types; each side's task stays in its own call; only the callback of the
\* reader takes a handler further than its scan, and then no task receives.
Kinds ==
  /\ pendingSize \in {0, MsgSize}
  /\ sig \in [Sides -> Counter] /\ ack \in [Sides -> Counter]
  /\ notify \in [Sides -> BOOLEAN] /\ config \in [Sides -> BOOLEAN]
  /\ node \in [Sides -> {"BLANK", "UNINIT", "INIT"}]
  /\ setup \in [Sides -> Setups]
  /\ endpoint \in [Sides -> {"CLOSED", "OPEN"}]
  /\ life \in [Sides -> {"idle", "os", "mark", "wake", "oops", "end"}]
  /\ handler \in [Sides -> {"idle", "scan", "callback", "callback_signal",
                            "stuck", "wake"}]
  /\ call \in [Sides -> Calls] /\ waiting \subseteq Sides
  /\ late \in [Sides -> BOOLEAN] /\ erased \in BOOLEAN
  /\ masked \in [Sides -> BOOLEAN]
  /\ ~At("tx", "pop") /\ ~At("rx", "push")
  /\ handler["tx"] \in {"idle", "scan"}
  /\ IF callback THEN At("rx", "idle") ELSE handler["rx"] \in {"idle", "scan"}

\* What the configuration and a place in a life-cycle call say about the node.
LifeOK ==
  \A s \in Sides :
    /\ ~config[s] => /\ LifeAt(s, "idle") /\ endpoint[s] = "CLOSED"
                     /\ HandlerAt(s, "idle")
    /\ ~config[s] \/ ~LifeAt(s, "idle") => node[s] # "INIT"
    /\ life[s] \in {"wake", "oops", "end"} => node[s] = "UNINIT"
    /\ ~config[s] /\ node[s] = "BLANK" => At(s, "idle")
    /\ life[s] \in {"os", "mark", "end"} => endpoint[s] = "CLOSED"
    /\ ~erased /\ life[s] \in {"os", "mark"} => At(s, "idle")

\* A call on a closed end point is abandoned.
AbandonedOK ==
  \A s \in Sides :
    /\ config[s] /\ endpoint[s] = "CLOSED" /\ ~LifeAt(s, "end") /\ ~At(s, "idle")
    => s \in abandoned

\* A call that waits has its queue, until ICC_OS_Finalize frees it under a call
\* that was left behind.
Waits(s) == call[s].pc \in {"evaluate", "asleep"}
QueueOK ==
  \A s \in Sides : Waits(s) /\ config[s] => HasQueue(s) \/ s \in abandoned

\* The ring holds whole messages, and a push has its room.
RingOK ==
  /\ head \in Index /\ tail \in Index /\ Aligned(head) /\ Aligned(tail)
  /\ count \in Nat /\ PendingBytes(head, tail) = Size * count
  /\ At("tx", "push") => Room(head, tail, Size)

\* No more messages are in the ring than sends were called.
Unpushed ==
  IF call["tx"].pc \in {"wait", "evaluate", "asleep", "again", "push"} THEN 1
                                                                      ELSE 0
SendsOK == sends \in 0 .. MaxSends /\ count + Unpushed <= sends

\* A side's peer has moved its index and not signalled it yet.
Announces(s) ==
  IF At(Peer(s), "signal") \/ HandlerAt(Peer(s), "callback_signal") THEN 1 ELSE 0

\* As long as no node erased what the other one had begun: the pushes that were
\* signalled or are about to be are the pops and the messages in the ring.
Balance == sig["rx"] + Announces("rx") - (sig["tx"] + Announces("tx") + count)
CountOK == ~erased => Multiple(Balance)

\* u signals are unacknowledged by a reader that receives in its callback, and
\* for each there is a message, or the one just received.
Taken == IF handler["rx"] \in {"callback_signal", "wake"} THEN 1 ELSE 0
Unacknowledged(u) ==
  /\ Multiple(sig["rx"] - ack["rx"] - u)
  /\ u + Announces("rx") <= count + Taken
  /\ handler["rx"] \in {"callback", "callback_signal", "wake"} => u >= 1
UnackedOK == ~erased /\ callback => \E u \in Nat : Unacknowledged(u)

\* d signals came since the snapshot of a task that could not be served then:
\* no more than messages, or free places; and one at least, or one to come, if
\* it can be served now.
Limit(s) == IF s = "rx" THEN count + 1 ELSE Slots + 1 - count
Moved(s, d) ==
  /\ Multiple(sig[s] - call[s].snap - d)
  /\ Served(s) => d + Announces(s) >= 1
  /\ d + Announces(s) <= Limit(s)
MovesOK ==
  \A s \in Sides :
    Waits(s) /\ ~late[s] /\ ~erased => \E d \in Nat : Moved(s, d)

\* A sender that waits published its size.
PendingOK ==
  ~erased /\ call["tx"].pc \in {"wait", "evaluate", "asleep", "again"}
    => pendingSize = MsgSize

TransferInv ==
  /\ Kinds /\ LifeOK /\ AbandonedOK /\ QueueOK /\ RingOK /\ SendsOK
  /\ CountOK /\ UnackedOK /\ MovesOK /\ PendingOK
  /\ CallbackNeverWaits /\ WakeupUnlessLate /\ FinalizeReaches
-----------------------------------------------------------------------------
(***************************************************************************)
(* What a step does to a task's record.                                    *)
(***************************************************************************)
Reaches(s, place) ==
  /\ call'[s].pc = place /\ call'[s].snap = call[s].snap
  /\ call'[Peer(s)] = call[Peer(s)] /\ call' \in [Sides -> Calls]

\* The same, with another snapshot.
Restarts(s, place) ==
  /\ call'[s].pc = place
  /\ call'[Peer(s)] = call[Peer(s)] /\ call' \in [Sides -> Calls]

LEMMA Setting ==
  ASSUME call \in [Sides -> Calls], NEW s \in Sides, NEW place \in Places,
         NEW snap \in Counter, NEW alarm \in Alarms,
         call' = [call EXCEPT ![s].pc = place, ![s].snap = snap, ![s].alarm = alarm]
  PROVE  Restarts(s, place) /\ call'[s].snap = snap
<1>1. Peer(s) \in Sides /\ Peer(s) # s
  BY SideFacts
<1>2. call[s] \in Calls
  OBVIOUS
<1>3. call'[Peer(s)] = call[Peer(s)]
  BY <1>1
<1>4. call'[s] = [pc |-> place, snap |-> snap, alarm |-> alarm]
  BY <1>2 DEF Calls
<1>5. call'[s] \in Calls
  BY <1>4 DEF Calls
<1>6. call' \in [Sides -> Calls]
  BY <1>5
<1>. QED  BY <1>3, <1>4, <1>6 DEF Restarts

LEMMA Going ==
  ASSUME Kinds, NEW s \in Sides, NEW place \in Places, Goto(s, place)
  PROVE  Reaches(s, place)
<1>1. call \in [Sides -> Calls] /\ Peer(s) \in Sides /\ Peer(s) # s
  BY SideFacts DEF Kinds
<1>. QED  BY <1>1 DEF Goto, Reaches, Calls

LEMMA Returning ==
  ASSUME Kinds, NEW s \in Sides, Return(s)
  PROVE  Restarts(s, "idle")
<1>1. call \in [Sides -> Calls] /\ Peer(s) \in Sides /\ Peer(s) # s /\ 0 \in Counter
  BY SideFacts, Counted DEF Kinds
<1>2. Idle \in Calls
  BY <1>1 DEF Idle, Calls, Places, Alarms
<1>. QED  BY <1>1, <1>2 DEF Return, Restarts, Idle

LEMMA Entering ==
  ASSUME Kinds, NEW s \in Sides, Enter(s)
  PROVE  Reaches(s, IF Served(s) THEN Transfer(s) ELSE "wait")
<1>1. call \in [Sides -> Calls] /\ Peer(s) \in Sides /\ Peer(s) # s
  BY SideFacts DEF Kinds
<1> DEFINE place == IF Served(s) THEN Transfer(s) ELSE "wait"
           alarm == IF Served(s) THEN "off" ELSE "set"
<1>2. place \in Places /\ alarm \in {"off", "set"}
  BY DEF Transfer, Places
<1>3. call' = [call EXCEPT ![s].pc = place, ![s].alarm = alarm]
  BY DEF Enter
<1> HIDE DEF place, alarm
<1>4. Reaches(s, place)
  BY <1>1, <1>2, <1>3 DEF Reaches, Calls, Alarms
<1>. QED  BY <1>4 DEF place

LEMMA Snapshot ==
  ASSUME Kinds, NEW s \in Sides, WaitEvent(s)
  PROVE  Restarts(s, "evaluate") /\ call'[s].snap = sig[s]
<1>1. /\ call \in [Sides -> Calls] /\ Peer(s) \in Sides /\ Peer(s) # s
      /\ sig[s] \in Counter
  BY SideFacts DEF Kinds
<1> DEFINE alarm == IF call[s].alarm = "set" THEN "running" ELSE "off"
<1>2. call' = [call EXCEPT ![s].pc = "evaluate", ![s].snap = sig[s], ![s].alarm = alarm]
  BY <1>1 DEF WaitEvent, Calls
<1>3. alarm \in {"off", "running"}
  OBVIOUS
<1> HIDE DEF alarm
<1>. QED  BY <1>1, <1>2, <1>3, Setting DEF Places, Alarms

LEMMA Evaluated ==
  ASSUME Kinds, NEW s \in Sides, Evaluate(s)
  PROVE  \/ Restarts(s, "again") /\ waiting' = waiting \ {s}
         \/ Reaches(s, "asleep") /\ ~WaitCondition(s) /\ UNCHANGED <<waiting, late>>
<1>1. /\ call \in [Sides -> Calls] /\ Peer(s) \in Sides /\ Peer(s) # s
      /\ 0 \in Counter
  BY SideFacts, Counted DEF Kinds
<1> DEFINE alarm == IF WaitCondition(s) THEN "off" ELSE "expired"
           none == 0
<1>2. CASE /\ waiting' = waiting \ {s}
           /\ call' = [call EXCEPT ![s].pc = "again", ![s].snap = none,
                                   ![s].alarm = alarm]
  <2>1. alarm \in {"off", "expired"} /\ none \in Counter
    BY <1>1
  <2> HIDE DEF alarm, none
  <2>2. Restarts(s, "again")
    BY <1>1, <1>2, <2>1, Setting DEF Places, Alarms
  <2>. QED  BY <1>2, <2>2
<1>3. CASE ~WaitCondition(s) /\ Goto(s, "asleep") /\ UNCHANGED <<waiting, late>>
  BY <1>3, Going DEF Places
<1>. QED  BY <1>2, <1>3 DEF Evaluate

LEMMA Running ==
  ASSUME Kinds, NEW s \in Sides, Run(s)
  PROVE  Reaches(s, "evaluate")
<1>1. call \in [Sides -> Calls] /\ Peer(s) \in Sides /\ Peer(s) # s
  BY SideFacts DEF Kinds
<1>2. CASE Goto(s, "evaluate")
  BY <1>2, Going DEF Places
<1>3. CASE call' = [call EXCEPT ![s].pc = "evaluate", ![s].alarm = "expired"]
  <2>1. call[s] \in Calls
    BY <1>1
  <2>2. /\ call'[s] = [pc |-> "evaluate", snap |-> call[s].snap, alarm |-> "expired"]
        /\ call'[Peer(s)] = call[Peer(s)]
    BY <1>1, <1>3, <2>1 DEF Calls
  <2>3. call'[s] \in Calls
    BY <2>1, <2>2 DEF Calls, Places, Alarms
  <2>4. call' \in [Sides -> Calls]
    BY <1>1, <1>3, <2>3
  <2>. QED  BY <2>2, <2>4 DEF Reaches
<1>. QED  BY <1>2, <1>3 DEF Run

LEMMA GoesAgain ==
  ASSUME Kinds, NEW s \in Sides, Again(s)
  PROVE  \/ Restarts(s, "idle") /\ UNCHANGED pendingSize
         \/ /\ Reaches(s, Transfer(s)) /\ Served(s)
            /\ pendingSize' = IF s = "tx" THEN 0 ELSE pendingSize
         \/ Reaches(s, "wait") /\ UNCHANGED pendingSize
<1>1. Transfer(s) \in Places /\ "wait" \in Places
  BY DEF Transfer, Places
<1>2. CASE Return(s) /\ UNCHANGED pendingSize
  BY <1>2, Returning
<1>3. CASE /\ Served(s) /\ Goto(s, Transfer(s))
           /\ pendingSize' = IF s = "tx" THEN 0 ELSE pendingSize
  BY <1>1, <1>3, Going
<1>4. CASE Goto(s, "wait") /\ UNCHANGED pendingSize
  BY <1>1, <1>4, Going
<1>. QED  BY <1>2, <1>3, <1>4 DEF Again

LEMMA GoesWithoutQueue ==
  ASSUME Kinds, NEW s \in Sides, WaitWithoutQueue(s)
  PROVE  Reaches(s, "again") \/ Reaches(s, "oops")
BY Going DEF WaitWithoutQueue, Places

LEMMA Pushing ==
  ASSUME Kinds, Push
  PROVE  /\ At("tx", "push") /\ call' \in [Sides -> Calls] /\ call'["rx"] = call["rx"]
         /\ \/ call'["tx"].pc = "signal" /\ PushAll /\ count' = count + 1
            \/ call'["tx"].pc = "idle" /\ UNCHANGED <<tail, count>>
<1>1. CASE PushAll /\ count' = count + 1 /\ Goto("tx", "signal")
  BY <1>1, Going, SideFacts DEF Push, Places, Reaches
<1>2. CASE Return("tx") /\ UNCHANGED <<tail, count>>
  BY <1>2, Returning, SideFacts DEF Push, Restarts
<1>. QED  BY <1>1, <1>2 DEF Push

LEMMA Popping ==
  ASSUME Kinds, Pop
  PROVE  /\ At("rx", "pop") /\ call' \in [Sides -> Calls] /\ call'["tx"] = call["tx"]
         /\ \/ call'["rx"].pc = "signal" /\ MoreThanHeader /\ PopAll
            \/ call'["rx"].pc = "idle" /\ UNCHANGED <<head, count>>
<1>1. CASE MoreThanHeader /\ PopAll /\ Goto("rx", "signal")
  BY <1>1, Going, SideFacts DEF Pop, Places, Reaches
<1>2. CASE Return("rx") /\ UNCHANGED <<head, count>>
  BY <1>2, Returning, SideFacts DEF Pop, Restarts
<1>. QED  BY <1>1, <1>2 DEF Pop
-----------------------------------------------------------------------------
(***************************************************************************)
(* What a step leaves alone.                                               *)
(***************************************************************************)

\* The life-cycle calls behind ICC_Initialize.
LaterLife(s) ==
  \/ OsInitialize(s) \/ MarkInitialized(s) \/ OpenChannel(s) \/ CloseChannel(s)
  \/ Finalize(s) \/ FinalizeChannel(s) \/ FinalizeOops(s) \/ FinalizeEnd(s)

\* A task inside a call, but for the transfer and its signal.
InCall(s) ==
  \/ SendCall \/ RecvCall \/ WaitEvent(s) \/ WaitWithoutQueue(s)
  \/ Evaluate(s) \/ Run(s) \/ Again(s)

LEMMA LifeLeavesAlone ==
  ASSUME NEW s \in Sides, LaterLife(s)
  PROVE  UNCHANGED <<head, tail, count, pendingSize, sig, ack, handler, callback,
                     call, sends, late, erased, masked>>
BY DEF LaterLife, OsInitialize, MarkInitialized, OpenChannel, CloseChannel,
       Finalize, FinalizeChannel, FinalizeOops, FinalizeEnd, fifo, counters, nodes, tasks, history

LEMMA CallsLeaveAlone ==
  ASSUME NEW s \in Sides, InCall(s)
  PROVE  UNCHANGED <<head, tail, count, sig, ack, notify, handler, callback, node,
                     config, setup, endpoint, life, erased, abandoned, masked>>
BY DEF InCall, SendCall, RecvCall, WaitEvent, WaitWithoutQueue, Evaluate, Run, Again,
       fifo, counters, nodes, history

LEMMA TransfersLeaveAlone ==
  ASSUME Push \/ Pop
  PROVE  UNCHANGED <<pendingSize, sig, ack, notify, handler, callback, node, config,
                     setup, endpoint, life, waiting, sends, late, erased, abandoned,
                     masked>>
BY DEF Push, Pop, fifo, counters, nodes, history

LEMMA SignalsLeaveAlone ==
  ASSUME NEW s \in Sides, Signal(s) \/ SignalInCallback
  PROVE  UNCHANGED <<head, tail, count, pendingSize, ack, callback, node, config,
                     setup, endpoint, life, waiting, sends, late, erased, abandoned>>
BY DEF Signal, SignalInCallback, fifo, nodes, tasks

LEMMA HandlersLeaveAlone ==
  ASSUME NEW s \in Sides, Handler(s) \/ CallbackReturns
  PROVE  UNCHANGED <<head, tail, count, pendingSize, sig, callback, node, config,
                     setup, endpoint, life, call, sends, late, erased, abandoned,
                     masked>>
BY DEF Handler, HandlerStart, HandlerScan, CallbackReturns, fifo, counters, nodes,
       tasks, history

LEMMA ReceiveLeavesAlone ==
  ASSUME ReceiveInCallback
  PROVE  UNCHANGED <<tail, pendingSize, sig, ack, notify, callback, node, config,
                     setup, endpoint, life, call, waiting, sends, late, erased, abandoned,
                     masked>>
BY DEF ReceiveInCallback, counters, nodes, tasks, history

\* The steps, one by one.
LEMMA Steps ==
  ASSUME [Next]_vars
  PROVE  \/ \E s \in Sides : Initialize(s)
         \/ \E s \in Sides : LaterLife(s)
         \/ \E s \in Sides : InCall(s)
         \/ Push \/ Pop
         \/ \E s \in Sides : Signal(s)
         \/ SignalInCallback
         \/ \E s \in Sides : Handler(s)
         \/ CallbackReturns \/ ReceiveInCallback
         \/ UNCHANGED vars
BY SideFacts DEF Next, Life, TaskStep, LaterLife, InCall
-----------------------------------------------------------------------------
(***************************************************************************)
(* The types.                                                              *)
(***************************************************************************)
LEMMA SignalCounts ==
  ASSUME Kinds, NEW s \in Sides, SignalPeer(s)
  PROVE  /\ sig' \in [Sides -> Counter] /\ notify' \in [Sides -> BOOLEAN]
         /\ masked' \in [Sides -> BOOLEAN]
         /\ sig'[Peer(s)] = Plus1(sig[Peer(s)]) /\ sig'[s] = sig[s]
         /\ notify'[Peer(s)] = TRUE /\ notify'[s] = notify[s]
<1>1. /\ Peer(s) \in Sides /\ Peer(s) # s
      /\ sig \in [Sides -> Counter] /\ notify \in [Sides -> BOOLEAN]
  BY SideFacts DEF Kinds
<1>2. /\ sig' = [sig EXCEPT ![Peer(s)] = Plus1(sig[Peer(s)])]
      /\ notify' = [notify EXCEPT ![Peer(s)] = TRUE]
  BY DEF SignalPeer, Raise
<1>3. Plus1(sig[Peer(s)]) \in Counter
  BY <1>1, Counted
<1>4. masked' \in [Sides -> BOOLEAN]
  <2>1. masked \in [Sides -> BOOLEAN]
    BY DEF Kinds
  <2>2. (Plus1(sig[Peer(s)]) = ack[Peer(s)]) \in BOOLEAN
    OBVIOUS
  <2>. QED  BY <2>1, <2>2 DEF SignalPeer
<1>. QED  BY <1>1, <1>2, <1>3, <1>4

LEMMA Acknowledged ==
  ASSUME Kinds, NEW s \in Sides, WakeAndAck(s)
  PROVE  /\ ack' \in [Sides -> Counter] /\ waiting' \subseteq Sides
         /\ ack'[s] = Plus1(ack[s]) /\ ack'[Peer(s)] = ack[Peer(s)]
<1>1. Peer(s) \in Sides /\ Peer(s) # s /\ ack \in [Sides -> Counter]
  BY SideFacts DEF Kinds
<1>2. Plus1(ack[s]) \in Counter
  BY <1>1, Counted
<1>3. waiting' \subseteq Sides
  BY DEF WakeAndAck, Kinds
<1>. QED  BY <1>1, <1>2, <1>3 DEF WakeAndAck

LEMMA KindsLife ==
  ASSUME Kinds, NEW s \in Sides, Initialize(s) \/ LaterLife(s)
  PROVE  Kinds'
<1>0. /\ notify \in [Sides -> BOOLEAN] /\ config \in [Sides -> BOOLEAN]
      /\ node \in [Sides -> {"BLANK", "UNINIT", "INIT"}]
      /\ endpoint \in [Sides -> {"CLOSED", "OPEN"}]
      /\ life \in [Sides -> {"idle", "os", "mark", "wake", "oops", "end"}]
      /\ sig \in [Sides -> Counter] /\ ack \in [Sides -> Counter] /\ 0 \in Counter
      /\ waiting \subseteq Sides /\ Peer(s) \in Sides /\ erased \in BOOLEAN
      /\ setup \in [Sides -> Setups]
  BY SideFacts, Counted DEF Kinds
<1>1. CASE Initialize(s)
  <2>1. /\ config' = [config EXCEPT ![s] = TRUE]
        /\ life' = [life EXCEPT ![s] = "os"]
        /\ pendingSize' = 0 /\ sig' = [sig EXCEPT ![Peer(s)] = 0]
        /\ ack' = [ack EXCEPT ![s] = 0] /\ erased' \in BOOLEAN
        /\ UNCHANGED <<notify, handler, callback, node, setup, endpoint, call,
                       waiting, late, masked>>
    BY <1>1, <1>0 DEF Initialize, FifoInit, LifeGoto, tasks
  <2>2. /\ config' \in [Sides -> BOOLEAN]
        /\ life' \in [Sides -> {"idle", "os", "mark", "wake", "oops", "end"}]
        /\ sig' \in [Sides -> Counter] /\ ack' \in [Sides -> Counter]
    BY <1>0, <2>1
  <2>. QED  BY <2>1, <2>2 DEF Kinds, At
<1>2. CASE LaterLife(s)
  <2>1. /\ notify' \in [Sides -> BOOLEAN] /\ waiting' \subseteq Sides
    <3>1. notify' \in [Sides -> BOOLEAN]
      BY <1>0, <1>2 DEF LaterLife, OsInitialize, MarkInitialized, OpenChannel,
         CloseChannel, Finalize, FinalizeChannel, FinalizeOops, FinalizeEnd, Raise
    <3>2. waiting' \subseteq Sides
      BY <1>0, <1>2 DEF LaterLife, OsInitialize, MarkInitialized, OpenChannel,
         CloseChannel, Finalize, FinalizeChannel, FinalizeOops, FinalizeEnd, tasks
    <3>. QED  BY <3>1, <3>2
  <2>2. /\ config' \in [Sides -> BOOLEAN]
        /\ node' \in [Sides -> {"BLANK", "UNINIT", "INIT"}]
        /\ endpoint' \in [Sides -> {"CLOSED", "OPEN"}]
    BY <1>0, <1>2 DEF LaterLife, OsInitialize, MarkInitialized, OpenChannel,
       CloseChannel, Finalize, FinalizeChannel, FinalizeOops, FinalizeEnd, nodes
  <2>3. life' \in [Sides -> {"idle", "os", "mark", "wake", "oops", "end"}]
    BY <1>0, <1>2 DEF LaterLife, OsInitialize, MarkInitialized, OpenChannel,
       CloseChannel, Finalize, FinalizeChannel, FinalizeOops, FinalizeEnd, LifeGoto
  <2>4. setup' \in [Sides -> Setups]
    BY <1>0, <1>2 DEF LaterLife, OsInitialize, MarkInitialized, OpenChannel,
       CloseChannel, Finalize, FinalizeChannel, FinalizeOops, FinalizeEnd, nodes,
       SetUp, Setups
  <2>. QED  BY <1>2, <2>1, <2>2, <2>3, <2>4, LifeLeavesAlone DEF Kinds, At
<1>. QED  BY <1>1, <1>2

\* A side's task reaches no place of the other side's.
LEMMA KindsTask ==
  ASSUME Kinds, NEW s \in Sides, InCall(s) \/ Push \/ Pop \/ Signal(s)
  PROVE  Kinds'
<1> DEFINE calls == /\ call' \in [Sides -> Calls]
                    /\ call'["tx"].pc # "pop" /\ call'["rx"].pc # "push"
                    /\ callback => call'["rx"].pc = "idle"
<1>0. /\ call["tx"].pc # "pop" /\ call["rx"].pc # "push"
      /\ callback => call["rx"].pc = "idle"
      /\ waiting \subseteq Sides /\ late \in [Sides -> BOOLEAN]
      /\ pendingSize \in {0, MsgSize}
  BY DEF Kinds, At
<1>1. ASSUME NEW u \in Sides, NEW place \in Places,
             Reaches(u, place) \/ Restarts(u, place),
             u = "tx" => place # "pop",
             u = "rx" => /\ place # "push"
                         /\ callback => place = "idle"
      PROVE  calls
  BY <1>0, <1>1, SideFacts DEF Reaches, Restarts
<1>2. CASE SendCall
  <2>1. Reaches("tx", IF Served("tx") THEN "push" ELSE "wait")
    BY <1>2, SideFacts, Entering DEF SendCall, Transfer
  <2>2. calls
    BY <1>1, <2>1, SideFacts DEF Places
  <2>3. UNCHANGED <<waiting, late>> /\ pendingSize' \in {0, MsgSize}
    BY <1>0, <1>2 DEF SendCall
  <2>. QED  BY <1>2, <2>2, <2>3, CallsLeaveAlone DEF Kinds, At, InCall
<1>3. CASE RecvCall
  <2>1. Reaches("rx", IF Served("rx") THEN "pop" ELSE "wait") /\ ~callback
    BY <1>3, SideFacts, Entering DEF RecvCall, Transfer
  <2>2. calls
    BY <1>1, <2>1, SideFacts DEF Places
  <2>3. UNCHANGED <<waiting, late, pendingSize>>
    BY <1>3 DEF RecvCall, fifo
  <2>. QED  BY <1>3, <2>2, <2>3, CallsLeaveAlone DEF Kinds, At, InCall
<1>4. CASE WaitEvent(s) \/ WaitWithoutQueue(s) \/ Evaluate(s) \/ Run(s)
  <2>1. /\ ~At(s, "idle")
        /\ \/ Restarts(s, "evaluate") \/ Restarts(s, "again")
           \/ Reaches(s, "asleep") \/ Reaches(s, "evaluate")
           \/ Reaches(s, "again") \/ Reaches(s, "oops")
    BY <1>4, Snapshot, GoesWithoutQueue, Evaluated, Running
       DEF WaitEvent, WaitWithoutQueue, Evaluate, Run, At
  <2>2. calls
    <3>1. s = "rx" => ~callback
      BY <1>0, <2>1 DEF At
    <3>. QED  BY <1>1, <2>1, <3>1 DEF Places
  <2>3. UNCHANGED pendingSize
    BY <1>4 DEF WaitEvent, WaitWithoutQueue, Evaluate, Run, fifo
  <2>4. waiting' \subseteq Sides
    BY <1>0, <1>4 DEF WaitEvent, WaitWithoutQueue, Evaluate, Run
  <2>5. late' \in [Sides -> BOOLEAN]
    <3>1. Served(s) \in BOOLEAN
      <4>1. Fits(MsgSize) \in BOOLEAN
        BY DEF Fits, MsgFits
      <4>2. MoreThanHeader \in BOOLEAN
        BY DEF MoreThanHeader
      <4>. QED  BY <4>1, <4>2, Zenon DEF Served
    <3>. QED  BY <1>0, <1>4, <3>1 DEF WaitEvent, WaitWithoutQueue, Evaluate, Run
  <2>. QED  BY <1>4, <2>2, <2>3, <2>4, <2>5, CallsLeaveAlone DEF Kinds, At, InCall
<1>5. CASE Again(s)
  <2>1. /\ ~At(s, "idle")
        /\ \/ Restarts(s, "idle") \/ Reaches(s, Transfer(s)) \/ Reaches(s, "wait")
    BY <1>5, GoesAgain DEF Again, At
  <2>2. calls
    <3>1. s = "rx" => ~callback
      BY <1>0, <2>1 DEF At
    <3>. QED  BY <1>1, <2>1, <3>1, SideFacts DEF Places, Transfer
  <2>3. UNCHANGED <<waiting, late>>
    BY <1>5 DEF Again
  <2>4. pendingSize' \in {0, MsgSize}
    BY <1>0, <1>5, GoesAgain
  <2>. QED  BY <1>5, <2>2, <2>3, <2>4, CallsLeaveAlone DEF Kinds, At, InCall
<1>6. CASE Push \/ Pop
  <2>1. ASSUME Push
        PROVE  calls
    BY <1>0, <2>1, Pushing
  <2>2. ASSUME Pop
        PROVE  calls
    <3>1. ~At("rx", "idle") /\ (Reaches("rx", "signal") \/ Restarts("rx", "idle"))
      BY <2>2, Going, Returning, SideFacts DEF Pop, Places, At
    <3>2. ~callback
      BY <1>0, <3>1 DEF At
    <3>3. {"signal", "idle"} \subseteq Places /\ "rx" \in Sides
      BY SideFacts DEF Places
    <3>. QED  BY <1>1, <3>1, <3>2, <3>3
  <2>3. calls
    BY <1>6, <2>1, <2>2
  <2>. QED  BY <1>6, <2>3, TransfersLeaveAlone DEF Kinds, At
<1>7. CASE Signal(s)
  <2>1. Restarts(s, "idle")
    BY <1>7, Returning DEF Signal
  <2>2. calls
    BY <1>1, <2>1 DEF Places
  <2>3. /\ sig' \in [Sides -> Counter] /\ notify' \in [Sides -> BOOLEAN]
        /\ masked' \in [Sides -> BOOLEAN]
    BY <1>7, SignalCounts DEF Signal
  <2>4. UNCHANGED handler
    BY <1>7 DEF Signal
  <2>. QED  BY <1>7, <2>2, <2>3, <2>4, SignalsLeaveAlone DEF Kinds, At
<1>. QED  BY <1>2, <1>3, <1>4, <1>5, <1>6, <1>7 DEF InCall

LEMMA KindsHandler ==
  ASSUME Kinds, NEW s \in Sides,
         \/ Handler(s) \/ CallbackReturns \/ ReceiveInCallback \/ SignalInCallback
  PROVE  Kinds'
<1> DEFINE Positions == {"idle", "scan", "callback", "callback_signal", "stuck",
                         "wake"}
           handlers == /\ handler' \in [Sides -> Positions]
                       /\ handler'["tx"] \in {"idle", "scan"}
                       /\ ~callback => handler'["rx"] \in {"idle", "scan"}
<1>0. /\ handler \in [Sides -> Positions] /\ handler["tx"] \in {"idle", "scan"}
      /\ ~callback => handler["rx"] \in {"idle", "scan"}
      /\ notify \in [Sides -> BOOLEAN] /\ ack \in [Sides -> Counter]
      /\ waiting \subseteq Sides
  BY DEF Kinds
<1>1. ASSUME NEW u \in Sides, NEW place \in Positions, HandlerGoto(u, place),
             place \notin {"idle", "scan"} => u = "rx" /\ callback
      PROVE  handlers
  BY <1>0, <1>1, SideFacts DEF HandlerGoto
<1>2. CASE HandlerStart(s)
  <2>1. HandlerGoto(s, "scan") \/ HandlerGoto(s, "idle")
    BY <1>2 DEF HandlerStart
  <2>2. handlers
    BY <1>1, <2>1
  <2>3. UNCHANGED <<ack, waiting>> /\ notify' \in [Sides -> BOOLEAN]
    BY <1>0, <1>2 DEF HandlerStart, counters, tasks
  <2>. QED  BY <1>2, <2>2, <2>3, HandlersLeaveAlone DEF Kinds, At, Handler
<1>3. CASE HandlerScan(s)
  <2>1. \/ HandlerGoto(s, "idle") /\ UNCHANGED <<ack, waiting>>
        \/ /\ s = "rx" /\ callback /\ HandlerGoto(s, "callback")
           /\ UNCHANGED <<ack, waiting>>
        \/ WakeAndAck(s) /\ UNCHANGED handler
    BY <1>3 DEF HandlerScan
  <2>2. handlers
    BY <1>0, <1>1, <2>1
  <2>3. ack' \in [Sides -> Counter] /\ waiting' \subseteq Sides
    BY <1>0, <2>1, Acknowledged
  <2>4. UNCHANGED notify
    BY <1>3 DEF HandlerScan
  <2>. QED  BY <1>3, <2>2, <2>3, <2>4, HandlersLeaveAlone DEF Kinds, At, Handler
<1>4. CASE CallbackReturns
  <2>1. HandlerGoto("rx", "scan") /\ WakeAndAck("rx") /\ UNCHANGED notify
    BY <1>4 DEF CallbackReturns
  <2>2. handlers
    BY <1>1, <2>1, SideFacts
  <2>3. ack' \in [Sides -> Counter] /\ waiting' \subseteq Sides
    BY <2>1, Acknowledged, SideFacts
  <2>. QED  BY <1>4, <2>1, <2>2, <2>3, HandlersLeaveAlone DEF Kinds, At
<1>5. CASE ReceiveInCallback
  <2>1. /\ handler["rx"] = "callback"
        /\ \/ HandlerGoto("rx", "callback_signal") \/ HandlerGoto("rx", "stuck")
           \/ HandlerGoto("rx", "wake")
    BY <1>5 DEF ReceiveInCallback, HandlerAt
  <2>2. callback
    BY <1>0, <2>1
  <2>3. handlers
    BY <1>1, <2>1, <2>2, SideFacts
  <2>. QED  BY <1>5, <2>3, ReceiveLeavesAlone DEF Kinds, At
<1>6. CASE SignalInCallback
  <2>1. /\ handler["rx"] = "callback_signal" /\ HandlerGoto("rx", "wake")
        /\ SignalPeer("rx") /\ UNCHANGED call
    BY <1>6 DEF SignalInCallback, HandlerAt, tasks
  <2>2. callback
    BY <1>0, <2>1
  <2>3. handlers
    BY <1>1, <2>1, <2>2, SideFacts
  <2>4. /\ sig' \in [Sides -> Counter] /\ notify' \in [Sides -> BOOLEAN]
        /\ masked' \in [Sides -> BOOLEAN]
    BY <2>1, SignalCounts, SideFacts
  <2>. QED  BY <1>6, <2>1, <2>3, <2>4, SignalsLeaveAlone DEF Kinds, At
<1>. QED  BY <1>2, <1>3, <1>4, <1>5, <1>6 DEF Handler

LEMMA KindsNext ==
  ASSUME Kinds, [Next]_vars
  PROVE  Kinds'
<1>1. CASE UNCHANGED vars
  BY <1>1 DEF Kinds, At, vars, fifo, counters, nodes, tasks, history
<1>. QED  BY <1>1, Steps, SideFacts, KindsLife, KindsTask, KindsHandler
-----------------------------------------------------------------------------
(***************************************************************************)
(* The life cycle and the calls that are left behind.                      *)
(***************************************************************************)

\* A node's configuration, end point and state change in its life-cycle calls
\* alone; a peer's are left alone by them.
LEMMA OneNode ==
  ASSUME Kinds, NEW s \in Sides, LaterLife(s) \/ Initialize(s),
         NEW u \in Sides, u # s
  PROVE  /\ config'[u] = config[u] /\ node'[u] = node[u] /\ setup'[u] = setup[u]
         /\ endpoint'[u] = endpoint[u] /\ life'[u] = life[u]
         /\ u \in abandoned => u \in abandoned'
         /\ u \in waiting' => u \in waiting
<1>0. /\ config \in [Sides -> BOOLEAN] /\ setup \in [Sides -> Setups]
      /\ node \in [Sides -> {"BLANK", "UNINIT", "INIT"}]
      /\ endpoint \in [Sides -> {"CLOSED", "OPEN"}]
      /\ life \in [Sides -> {"idle", "os", "mark", "wake", "oops", "end"}]
  BY DEF Kinds
<1>1. /\ config'[u] = config[u] /\ node'[u] = node[u] /\ endpoint'[u] = endpoint[u]
      /\ setup'[u] = setup[u]
  BY <1>0 DEF Initialize, LaterLife, OsInitialize, MarkInitialized, OpenChannel,
     CloseChannel, Finalize, FinalizeChannel, FinalizeOops, FinalizeEnd, nodes, SetUp
<1>2. life'[u] = life[u]
  BY <1>0 DEF Initialize, LaterLife, OsInitialize, MarkInitialized, OpenChannel,
     CloseChannel, Finalize, FinalizeChannel, FinalizeOops, FinalizeEnd, LifeGoto
<1>3. u \in abandoned => u \in abandoned'
  BY DEF Initialize, LaterLife, OsInitialize, MarkInitialized, OpenChannel,
     CloseChannel, Finalize, FinalizeChannel, FinalizeOops, FinalizeEnd, Abandon, history
<1>4. u \in waiting' => u \in waiting
  BY DEF Initialize, LaterLife, OsInitialize, MarkInitialized, OpenChannel,
     CloseChannel, Finalize, FinalizeChannel, FinalizeOops, FinalizeEnd, tasks
<1>. QED  BY <1>1, <1>2, <1>3, <1>4

\* What a life-cycle call makes of its own node.
LEMMA OwnNode ==
  ASSUME Kinds, NEW s \in Sides
  PROVE
  /\ Initialize(s) =>
       /\ ~config[s] /\ LifeAt(s, "idle") /\ config'[s] = TRUE /\ life'[s] = "os"
       /\ node'[s] = node[s] /\ endpoint'[s] = endpoint[s] /\ setup' = setup
       /\ ~At(s, "idle") => s \in abandoned'
  /\ OsInitialize(s) =>
       /\ LifeAt(s, "os") /\ life'[s] \in {"mark", "idle"}
       /\ UNCHANGED <<node, config, endpoint, abandoned, waiting>>
  /\ MarkInitialized(s) =>
       /\ LifeAt(s, "mark") /\ node'[s] = "INIT" /\ life'[s] = "idle"
       /\ UNCHANGED <<config, setup, endpoint, abandoned, waiting>>
  /\ OpenChannel(s) =>
       /\ LifeAt(s, "idle") /\ config[s]
       /\ endpoint[s] = "CLOSED" /\ endpoint'[s] = "OPEN"
       /\ UNCHANGED <<node, config, setup, life, abandoned, waiting>>
  /\ CloseChannel(s) =>
       /\ LifeAt(s, "idle") /\ config[s] /\ endpoint'[s] = "CLOSED"
       /\ ~At(s, "idle") => s \in abandoned'
       /\ s \in abandoned => s \in abandoned'
       /\ UNCHANGED <<node, config, setup, life, waiting>>
  /\ Finalize(s) =>
       /\ LifeAt(s, "idle") /\ config[s] /\ node'[s] = "UNINIT" /\ life'[s] = "wake"
       /\ UNCHANGED <<config, setup, endpoint, abandoned, waiting>>
  /\ FinalizeChannel(s) =>
       /\ LifeAt(s, "wake") /\ endpoint'[s] = "CLOSED" /\ life'[s] = "end"
       /\ s \in waiting' => s \in waiting /\ endpoint[s] # "OPEN"
       /\ UNCHANGED <<node, config, setup, abandoned>>
  /\ FinalizeOops(s) =>
       /\ LifeAt(s, "wake") /\ endpoint[s] = "OPEN" /\ ~HasQueue(s)
       /\ life'[s] = "oops"
       /\ UNCHANGED <<node, config, setup, endpoint, abandoned, waiting>>
  /\ FinalizeEnd(s) =>
       /\ LifeAt(s, "end") /\ HandlerAt(s, "idle") /\ config'[s] = FALSE
       /\ life'[s] = "idle" /\ UNCHANGED <<node, endpoint, abandoned, waiting>>
<1>0. /\ config \in [Sides -> BOOLEAN] /\ setup \in [Sides -> Setups]
      /\ node \in [Sides -> {"BLANK", "UNINIT", "INIT"}]
      /\ endpoint \in [Sides -> {"CLOSED", "OPEN"}]
      /\ life \in [Sides -> {"idle", "os", "mark", "wake", "oops", "end"}]
  BY DEF Kinds
<1>1. ASSUME Initialize(s)
      PROVE  /\ ~config[s] /\ LifeAt(s, "idle") /\ config'[s] = TRUE
             /\ life'[s] = "os" /\ node'[s] = node[s] /\ endpoint'[s] = endpoint[s]
             /\ setup' = setup
             /\ ~At(s, "idle") => s \in abandoned'
  BY <1>0, <1>1 DEF Initialize, LifeGoto, Abandon
<1>2. ASSUME OsInitialize(s)
      PROVE  /\ LifeAt(s, "os") /\ life'[s] \in {"mark", "idle"}
             /\ UNCHANGED <<node, config, endpoint, abandoned, waiting>>
  BY <1>0, <1>2 DEF OsInitialize, LifeGoto, nodes, history, tasks
<1>3. ASSUME MarkInitialized(s)
      PROVE  /\ LifeAt(s, "mark") /\ node'[s] = "INIT" /\ life'[s] = "idle"
             /\ UNCHANGED <<config, setup, endpoint, abandoned, waiting>>
  BY <1>0, <1>3 DEF MarkInitialized, LifeGoto, history, tasks
<1>4. ASSUME OpenChannel(s)
      PROVE  /\ LifeAt(s, "idle") /\ config[s]
             /\ endpoint[s] = "CLOSED" /\ endpoint'[s] = "OPEN"
             /\ UNCHANGED <<node, config, setup, life, abandoned, waiting>>
  BY <1>0, <1>4 DEF OpenChannel, history, tasks
<1>5. ASSUME CloseChannel(s)
      PROVE  /\ LifeAt(s, "idle") /\ config[s] /\ endpoint'[s] = "CLOSED"
             /\ ~At(s, "idle") => s \in abandoned'
             /\ s \in abandoned => s \in abandoned'
             /\ UNCHANGED <<node, config, setup, life, waiting>>
  BY <1>0, <1>5 DEF CloseChannel, Abandon, tasks
<1>6. ASSUME Finalize(s)
      PROVE  /\ LifeAt(s, "idle") /\ config[s] /\ node'[s] = "UNINIT"
             /\ life'[s] = "wake"
             /\ UNCHANGED <<config, setup, endpoint, abandoned, waiting>>
  BY <1>0, <1>6 DEF Finalize, LifeGoto, history, tasks
<1>7. ASSUME FinalizeChannel(s)
      PROVE  /\ LifeAt(s, "wake") /\ endpoint'[s] = "CLOSED" /\ life'[s] = "end"
             /\ s \in waiting' => s \in waiting /\ endpoint[s] # "OPEN"
             /\ UNCHANGED <<node, config, setup, abandoned>>
  BY <1>0, <1>7 DEF FinalizeChannel, LifeGoto, history
<1>8. ASSUME FinalizeEnd(s)
      PROVE  /\ LifeAt(s, "end") /\ HandlerAt(s, "idle") /\ config'[s] = FALSE
             /\ life'[s] = "idle"
             /\ UNCHANGED <<node, endpoint, abandoned, waiting>>
  BY <1>0, <1>8 DEF FinalizeEnd, LifeGoto, history, tasks
<1>9. ASSUME FinalizeOops(s)
      PROVE  /\ LifeAt(s, "wake") /\ endpoint[s] = "OPEN" /\ ~HasQueue(s)
             /\ life'[s] = "oops"
             /\ UNCHANGED <<node, config, setup, endpoint, abandoned, waiting>>
  BY <1>0, <1>9 DEF FinalizeOops, LifeGoto, nodes, history, tasks
<1>. QED  BY <1>1, <1>2, <1>3, <1>4, <1>5, <1>6, <1>7, <1>8, <1>9

\* A task that gets inside a call found its end point open.
LEMMA EntersOpen ==
  ASSUME Kinds, NEW s \in Sides, InCall(s) \/ Push \/ Pop \/ Signal(s),
         NEW u \in Sides, At(u, "idle"), call'[u].pc # "idle"
  PROVE  config[u] /\ endpoint[u] = "OPEN"
<1>1. CASE SendCall
  <2>1. Accepted("tx") /\ call'["rx"] = call["rx"]
    BY <1>1, Entering, SideFacts DEF SendCall, Reaches
  <2>. QED  BY <2>1 DEF Accepted, At, Sides
<1>2. CASE RecvCall
  <2>1. Accepted("rx") /\ call'["tx"] = call["tx"]
    BY <1>2, Entering, SideFacts DEF RecvCall, Reaches
  <2>. QED  BY <2>1 DEF Accepted, At, Sides
<1>3. ASSUME NEW v \in Sides, ~At(v, "idle"), call'[Peer(v)] = call[Peer(v)]
      PROVE  FALSE
  BY <1>3, SideFacts DEF At
<1>4. CASE WaitEvent(s) \/ WaitWithoutQueue(s) \/ Evaluate(s) \/ Run(s)
  <2>1. ~At(s, "idle") /\ call'[Peer(s)] = call[Peer(s)]
    BY <1>4, Snapshot, GoesWithoutQueue, Evaluated, Running
       DEF WaitEvent, WaitWithoutQueue, Evaluate, Run, At, Reaches, Restarts
  <2>. QED  BY <1>3, <2>1
<1>5. CASE Again(s)
  <2>1. ~At(s, "idle") /\ call'[Peer(s)] = call[Peer(s)]
    BY <1>5, GoesAgain DEF Again, At, Reaches, Restarts
  <2>. QED  BY <1>3, <2>1
<1>6. CASE Push
  <2>1. ~At("tx", "idle") /\ call'["rx"] = call["rx"]
    BY <1>6, Pushing DEF At
  <2>. QED  BY <1>3, <2>1, SideFacts
<1>7. CASE Pop
  <2>1. ~At("rx", "idle") /\ call'["tx"] = call["tx"]
    BY <1>7, Popping DEF At
  <2>. QED  BY <1>3, <2>1, SideFacts
<1>8. CASE Signal(s)
  <2>1. ~At(s, "idle") /\ call'[Peer(s)] = call[Peer(s)]
    BY <1>8, Returning DEF Signal, At, Restarts
  <2>. QED  BY <1>3, <2>1
<1>. QED  BY <1>1, <1>2, <1>4, <1>5, <1>6, <1>7, <1>8 DEF InCall

\* A handler runs with a configuration only.
LEMMA HandlerConfigured ==
  ASSUME Kinds, NEW s \in Sides,
         Handler(s) \/ CallbackReturns \/ ReceiveInCallback \/ SignalInCallback,
         NEW u \in Sides, HandlerAt(u, "idle"), handler'[u] # "idle"
  PROVE  config[u]
<1>0. /\ handler \in [Sides -> {"idle", "scan", "callback", "callback_signal",
                                "stuck", "wake"}]
  BY DEF Kinds
<1>1. CASE HandlerStart(s)
  BY <1>0, <1>1 DEF HandlerStart, HandlerGoto, HandlerAt
<1>2. CASE HandlerScan(s)
  BY <1>0, <1>2 DEF HandlerScan, HandlerGoto, HandlerAt
<1>3. CASE CallbackReturns \/ ReceiveInCallback \/ SignalInCallback
  BY <1>0, <1>3
     DEF CallbackReturns, ReceiveInCallback, SignalInCallback, HandlerGoto, HandlerAt
<1>. QED  BY <1>1, <1>2, <1>3 DEF Handler

\* An ICC_Initialize that erases nothing finds both tasks outside their calls.
LEMMA ErasedNothing ==
  ASSUME NEW s \in Sides, Initialize(s), ~erased'
  PROVE  /\ ~erased /\ ~(count > 0) /\ sig = ack /\ sig[s] = 0
         /\ \A u \in Sides : At(u, "idle")
BY Zenon DEF Initialize, FifoInit

LEMMA LifeNext ==
  ASSUME Kinds, LifeOK, [Next]_vars
  PROVE  LifeOK'
<1> USE DEF LifeOK
<1>1. ASSUME NEW s \in Sides, Initialize(s)
      PROVE  LifeOK'
  <2>1. UNCHANGED <<call, handler>>
    BY <1>1 DEF Initialize, tasks
  <2>2. ASSUME NEW u \in Sides, u # s
        PROVE  /\ config'[u] = config[u] /\ node'[u] = node[u]
               /\ endpoint'[u] = endpoint[u] /\ life'[u] = life[u]
    BY <1>1, <2>2, OneNode
  <2>3. ~erased' => ~erased /\ \A u \in Sides : At(u, "idle")
    BY <1>1, ErasedNothing
  <2>4. /\ config'[s] /\ life'[s] = "os" /\ node'[s] # "INIT"
        /\ endpoint'[s] = "CLOSED"
    BY <1>1, OwnNode
  <2>. QED  BY <2>1, <2>2, <2>3, <2>4 DEF LifeAt, HandlerAt, At
<1>2. ASSUME NEW s \in Sides, LaterLife(s)
      PROVE  LifeOK'
  <2>1. UNCHANGED <<call, handler, erased>>
    BY <1>2, LifeLeavesAlone
  <2>2. ASSUME NEW u \in Sides, u # s
        PROVE  /\ config'[u] = config[u] /\ node'[u] = node[u]
               /\ endpoint'[u] = endpoint[u] /\ life'[u] = life[u]
    BY <1>2, <2>2, OneNode
  <2>3. /\ ~config'[s] => /\ life'[s] = "idle" /\ endpoint'[s] = "CLOSED"
                          /\ HandlerAt(s, "idle")
        /\ ~config'[s] \/ life'[s] # "idle" => node'[s] # "INIT"
        /\ life'[s] \in {"wake", "oops", "end"} => node'[s] = "UNINIT"
        /\ ~config'[s] /\ node'[s] = "BLANK" => At(s, "idle")
        /\ life'[s] \in {"os", "mark", "end"} => endpoint'[s] = "CLOSED"
        /\ life'[s] \in {"os", "mark"} => life[s] \in {"os", "mark"}
    BY <1>2, OwnNode DEF LaterLife, LifeAt, HandlerAt
  <2>. QED  BY <2>1, <2>2, <2>3 DEF LifeAt, HandlerAt, At
<1>3. ASSUME NEW s \in Sides, InCall(s) \/ Push \/ Pop \/ Signal(s)
      PROVE  LifeOK'
  <2>1. UNCHANGED <<handler, node, config, endpoint, life, erased>>
    BY <1>3, CallsLeaveAlone, TransfersLeaveAlone, SignalsLeaveAlone DEF Signal
  <2>2. \A u \in Sides : endpoint[u] = "CLOSED" /\ At(u, "idle")
                           => call'[u].pc = "idle"
    BY <1>3, EntersOpen
  <2>. QED  BY <2>1, <2>2 DEF LifeAt, HandlerAt, At
<1>4. ASSUME NEW s \in Sides,
             Handler(s) \/ CallbackReturns \/ ReceiveInCallback \/ SignalInCallback
      PROVE  LifeOK'
  <2>1. UNCHANGED <<call, node, config, endpoint, life, erased>>
    BY <1>4, HandlersLeaveAlone, ReceiveLeavesAlone, SignalsLeaveAlone
       DEF SignalInCallback, tasks
  <2>2. \A u \in Sides : HandlerAt(u, "idle") /\ ~config[u] => handler'[u] = "idle"
    BY <1>4, HandlerConfigured
  <2>. QED  BY <2>1, <2>2 DEF LifeAt, HandlerAt, At
<1>5. CASE UNCHANGED vars
  BY <1>5 DEF LifeAt, HandlerAt, At, vars, nodes, tasks, history
<1>. QED  BY <1>1, <1>2, <1>3, <1>4, <1>5, Steps, SideFacts

LEMMA AbandonedNext ==
  ASSUME Kinds, LifeOK, AbandonedOK, [Next]_vars
  PROVE  AbandonedOK'
<1> USE DEF AbandonedOK
<1>1. ASSUME NEW s \in Sides, Initialize(s) \/ LaterLife(s)
      PROVE  AbandonedOK'
  <2>1. UNCHANGED call
    BY <1>1, LifeLeavesAlone DEF Initialize, tasks
  <2>2. ASSUME NEW u \in Sides, u # s
        PROVE  /\ config'[u] = config[u] /\ endpoint'[u] = endpoint[u]
               /\ life'[u] = life[u]
               /\ u \in abandoned => u \in abandoned'
    BY <1>1, <2>2, OneNode
  <2>3. /\ config'[s] /\ endpoint'[s] = "CLOSED" /\ life'[s] # "end" /\ ~At(s, "idle")
        => s \in abandoned'
    <3>1. CASE Initialize(s)
      BY <3>1, OwnNode
    <3>2. CASE OsInitialize(s) \/ MarkInitialized(s) \/ Finalize(s)
      BY <3>2, OwnNode DEF LifeAt
    <3>3. CASE OpenChannel(s) \/ FinalizeChannel(s) \/ FinalizeOops(s) \/ FinalizeEnd(s)
      BY <3>3, OwnNode
    <3>4. CASE CloseChannel(s)
      BY <3>4, OwnNode
    <3>. QED  BY <1>1, <3>1, <3>2, <3>3, <3>4 DEF LaterLife
  <2>. QED  BY <2>1, <2>2, <2>3 DEF LifeAt, At
<1>2. ASSUME NEW s \in Sides, InCall(s) \/ Push \/ Pop \/ Signal(s)
      PROVE  AbandonedOK'
  <2>1. UNCHANGED <<config, endpoint, life, abandoned>>
    BY <1>2, CallsLeaveAlone, TransfersLeaveAlone, SignalsLeaveAlone
  <2>2. \A u \in Sides : endpoint[u] = "CLOSED" /\ At(u, "idle")
                           => call'[u].pc = "idle"
    BY <1>2, EntersOpen
  <2>. QED  BY <2>1, <2>2 DEF LifeAt, At
<1>3. ASSUME NEW s \in Sides,
             Handler(s) \/ CallbackReturns \/ ReceiveInCallback \/ SignalInCallback
      PROVE  AbandonedOK'
  <2>1. UNCHANGED <<call, config, endpoint, life, abandoned>>
    BY <1>3, HandlersLeaveAlone, ReceiveLeavesAlone, SignalsLeaveAlone
       DEF SignalInCallback, tasks
  <2>. QED  BY <2>1 DEF LifeAt, At
<1>4. CASE UNCHANGED vars
  BY <1>4 DEF LifeAt, At, vars, nodes, tasks, history
<1>. QED  BY <1>1, <1>2, <1>3, <1>4, Steps, SideFacts

LEMMA QueueNext ==
  ASSUME Kinds, LifeOK, AbandonedOK, QueueOK, [Next]_vars
  PROVE  QueueOK'
<1> SUFFICES ASSUME NEW u \in Sides, call'[u].pc \in {"evaluate", "asleep"}, config'[u]
             PROVE  setup'[u] \in {"queue", "all"} \/ u \in abandoned'
  BY DEF QueueOK, Waits, HasQueue
<1> USE DEF QueueOK, Waits, HasQueue
<1>1. ASSUME NEW s \in Sides, Initialize(s) \/ LaterLife(s)
      PROVE  setup'[u] \in {"queue", "all"} \/ u \in abandoned'
  <2>1. UNCHANGED call /\ ~At(u, "idle")
    BY <1>1, LifeLeavesAlone DEF Initialize, tasks, At
  <2>2. CASE u # s
    BY <1>1, <2>1, <2>2, OneNode
  <2>3. CASE Initialize(u)
    BY <2>1, <2>3, OwnNode
  <2>4. CASE OsInitialize(u)
    <3>1. LifeAt(u, "os") /\ config[u] /\ abandoned' = abandoned
      BY <2>4, OwnNode
    <3>2. endpoint[u] = "CLOSED" /\ ~LifeAt(u, "end")
      BY <3>1 DEF LifeOK, LifeAt
    <3>. QED  BY <2>1, <3>1, <3>2 DEF AbandonedOK
  <2>5. CASE \/ MarkInitialized(u) \/ OpenChannel(u) \/ Finalize(u)
             \/ FinalizeChannel(u) \/ FinalizeOops(u)
    BY <2>1, <2>5, OwnNode
  <2>6. CASE CloseChannel(u)
    BY <2>1, <2>6, OwnNode
  <2>7. ~FinalizeEnd(u)
    BY OwnNode
  <2>. QED  BY <1>1, <2>2, <2>3, <2>4, <2>5, <2>6, <2>7 DEF LaterLife
<1>2. ASSUME UNCHANGED <<config, setup, abandoned>>,
             call[u].pc \in {"evaluate", "asleep"} \/ HasQueue(u)
      PROVE  setup'[u] \in {"queue", "all"} \/ u \in abandoned'
  BY <1>2
<1>3. ASSUME NEW s \in Sides, call'[Peer(s)] = call[Peer(s)],
             \/ call'[s].pc \notin {"evaluate", "asleep"}
             \/ call[s].pc \in {"evaluate", "asleep"} \/ HasQueue(s)
      PROVE  call[u].pc \in {"evaluate", "asleep"} \/ HasQueue(u)
  BY <1>3, SideFacts
<1>4. ASSUME NEW s \in Sides, InCall(s)
      PROVE  setup'[u] \in {"queue", "all"} \/ u \in abandoned'
  <2>1. UNCHANGED <<config, setup, abandoned>>
    BY <1>4, CallsLeaveAlone
  <2>2. CASE SendCall
    BY <1>2, <1>3, <2>1, <2>2, Entering, SideFacts DEF SendCall, Reaches, Transfer
  <2>3. CASE RecvCall
    BY <1>2, <1>3, <2>1, <2>3, Entering, SideFacts DEF RecvCall, Reaches, Transfer
  <2>4. CASE WaitEvent(s) \/ WaitWithoutQueue(s)
    BY <1>2, <1>3, <2>1, <2>4, Snapshot, GoesWithoutQueue
       DEF WaitEvent, Reaches, Restarts
  <2>5. CASE Evaluate(s) \/ Run(s)
    BY <1>2, <1>3, <2>1, <2>5, Evaluated, Running
       DEF Evaluate, Run, At, Reaches, Restarts
  <2>6. CASE Again(s)
    BY <1>2, <1>3, <2>1, <2>6, GoesAgain DEF Reaches, Restarts, Transfer
  <2>. QED  BY <1>4, <2>2, <2>3, <2>4, <2>5, <2>6 DEF InCall
<1>5. CASE Push \/ Pop
  <2>1. UNCHANGED <<config, setup, abandoned>>
    BY <1>5, TransfersLeaveAlone
  <2>. QED  BY <1>2, <1>3, <1>5, <2>1, Pushing, Popping, SideFacts
<1>6. ASSUME NEW s \in Sides, Signal(s)
      PROVE  setup'[u] \in {"queue", "all"} \/ u \in abandoned'
  <2>1. UNCHANGED <<config, setup, abandoned>>
    BY <1>6, SignalsLeaveAlone
  <2>. QED  BY <1>2, <1>3, <1>6, <2>1, Returning DEF Signal, Restarts
<1>7. ASSUME NEW s \in Sides,
             Handler(s) \/ CallbackReturns \/ ReceiveInCallback \/ SignalInCallback
      PROVE  setup'[u] \in {"queue", "all"} \/ u \in abandoned'
  <2>1. UNCHANGED <<call, config, setup, abandoned>>
    BY <1>7, HandlersLeaveAlone, ReceiveLeavesAlone, SignalsLeaveAlone
       DEF SignalInCallback, tasks
  <2>. QED  BY <1>2, <2>1
<1>8. CASE UNCHANGED vars
  BY <1>2, <1>8 DEF vars, nodes, tasks, history
<1>. QED  BY <1>1, <1>4, <1>5, <1>6, <1>7, <1>8, Steps, SideFacts
-----------------------------------------------------------------------------
(***************************************************************************)
(* The ring.                                                               *)
(***************************************************************************)

\* More than a header is pending when there is a message; a ring holds Slots.
LEMMA Occupancy ==
  ASSUME RingOK
  PROVE  /\ MoreThanHeader <=> count > 0
         /\ count \in Nat /\ count <= Slots
<1>1. /\ HeaderSize \in Nat /\ Size \in Nat /\ HeaderSize < Size /\ count \in Nat
      /\ FifoSize \in Nat
  BY Numbers DEF RingOK
<1>2. Size * count <= FifoSize
  BY <1>1, Occupied DEF RingOK
<1>3. Size * count > HeaderSize <=> count > 0
  <2>1. CASE count = 0
    BY <1>1, <2>1
  <2>2. CASE count > 0
    <3>1. Size * count >= Size
      BY <1>1, <2>2
    <3>. QED  BY <1>1, <2>2, <3>1
  <2>. QED  BY <1>1, <2>1, <2>2
<1>. QED  BY <1>1, <1>2, <1>3, SlotsBound DEF MoreThanHeader, RingOK

\* ICC_FIFO_Pop takes one message and makes room for one.
LEMMA Popped ==
  ASSUME RingOK, MoreThanHeader, PopAll, tail' = tail
  PROVE  /\ head' \in Index /\ Aligned(head')
         /\ count > 0 /\ count' = count - 1
         /\ PendingBytes(head', tail') = Size * count'
         /\ Room(head, tail, Size) => Room(head', tail', Size)
<1>1. /\ count > 0 /\ count \in Nat /\ Size \in Nat
  BY Occupancy, Numbers
<1>2. count' = count - 1
  BY <1>1 DEF PopAll
<1>3. /\ head \in Index /\ tail \in Index /\ Aligned(head)
      /\ PendingBytes(head, tail) = Size * count /\ Size <= Size * count
  BY <1>1 DEF RingOK
<1>4. Size <= PendingBytes(head, tail)
  BY <1>3
<1>5. head' = Onward(head, Size)
  BY <1>3, <1>4, Numbers, MessagePopped DEF PopAll, HeaderPopped
<1>6. /\ Onward(head, Size) \in Index /\ Aligned(Onward(head, Size))
      /\ PendingBytes(Onward(head, Size), tail) = PendingBytes(head, tail) - Size
      /\ Room(head, tail, Size) => Room(Onward(head, Size), tail, Size)
  BY <1>3, <1>4, Numbers, MessageRead
<1>7. Size * count - Size = Size * count'
  BY <1>1, <1>2
<1>. QED  BY <1>1, <1>2, <1>3, <1>5, <1>6, <1>7

\* ICC_FIFO_Push adds one message.
LEMMA Pushed ==
  ASSUME RingOK, At("tx", "push"), PushAll, count' = count + 1, head' = head
  PROVE  /\ tail' \in Index /\ Aligned(tail') /\ head' = head
         /\ count' = count + 1 /\ PendingBytes(head', tail') = Size * count'
<1>1. /\ count' = count + 1 /\ head' = head
      /\ tail' = TailAfter(head, HeaderPushed, MsgSize, Padding(MsgSize))
  BY DEF PushAll
<1>2. /\ head \in Index /\ tail \in Index /\ Aligned(tail)
      /\ Room(head, tail, Size) /\ PendingBytes(head, tail) = Size * count
      /\ count \in Nat /\ Size \in Nat
  BY Numbers DEF RingOK
<1>3. /\ tail' \in Index /\ Aligned(tail')
      /\ PendingBytes(head, tail') = PendingBytes(head, tail) + Size
  BY <1>1, <1>2, Numbers, MessagePushed DEF HeaderPushed
<1>4. Size * count + Size = Size * count'
  BY <1>1, <1>2
<1>. QED  BY <1>1, <1>2, <1>3, <1>4

\* A task that goes on to its push has found that the message fits.
LEMMA GoesToPush ==
  ASSUME Kinds, NEW s \in Sides, InCall(s), call'["tx"].pc = "push"
  PROVE  At("tx", "push") \/ Served("tx")
<1>1. CASE SendCall
  BY <1>1, Entering, SideFacts DEF SendCall, Reaches
<1>2. CASE RecvCall
  BY <1>2, Entering, SideFacts DEF RecvCall, Reaches, At
<1>3. CASE WaitEvent(s) \/ WaitWithoutQueue(s) \/ Evaluate(s) \/ Run(s)
  BY <1>3, Snapshot, GoesWithoutQueue, Evaluated, Running, SideFacts
     DEF Reaches, Restarts, At
<1>4. CASE Again(s)
  BY <1>4, GoesAgain, SideFacts DEF Reaches, Restarts, At
<1>. QED  BY <1>1, <1>2, <1>3, <1>4 DEF InCall

LEMMA RingNext ==
  ASSUME Kinds, RingOK, [Next]_vars
  PROVE  RingOK'
<1>0. /\ head \in Index /\ tail \in Index /\ Aligned(head) /\ Aligned(tail)
      /\ count \in Nat /\ PendingBytes(head, tail) = Size * count
      /\ At("tx", "push") => Room(head, tail, Size)
  BY DEF RingOK
<1>1. ASSUME NEW s \in Sides, Initialize(s)
      PROVE  RingOK'
  <2>1. head' = 0 /\ tail' = 0 /\ count' = 0
    BY <1>1 DEF Initialize, FifoInit
  <2>2. 0 \in Index /\ PendingBytes(0, 0) = Size * 0 /\ Room(0, 0, Size)
    BY Numbers DEF Index, PendingBytes, WrappedAround, Room
  <2>3. Aligned(0) /\ 0 \in Nat
    BY Numbers
  <2>. QED  BY <2>1, <2>2, <2>3 DEF RingOK
<1>2. ASSUME UNCHANGED <<head, tail, count>>,
             call'["tx"].pc = "push" => At("tx", "push") \/ Served("tx")
      PROVE  RingOK'
  <2>1. Served("tx") => Room(head, tail, Size)
    BY <1>0, FitsHasRoom, Numbers DEF Served, Fits
  <2>. QED  BY <1>0, <1>2, <2>1 DEF RingOK, At
<1>3. ASSUME NEW s \in Sides,
             LaterLife(s) \/ Handler(s) \/ CallbackReturns \/ SignalInCallback
      PROVE  RingOK'
  <2>1. UNCHANGED <<head, tail, count, call>>
    BY <1>3, LifeLeavesAlone, HandlersLeaveAlone DEF SignalInCallback, fifo, tasks
  <2>. QED  BY <1>2, <2>1 DEF At
<1>4. ASSUME NEW s \in Sides, InCall(s)
      PROVE  RingOK'
  BY <1>2, <1>4, CallsLeaveAlone, GoesToPush
<1>5. ASSUME NEW s \in Sides, Signal(s)
      PROVE  RingOK'
  <2>1. call'["tx"].pc = "push" => At("tx", "push")
    BY <1>5, Returning, SideFacts DEF Signal, Restarts, At
  <2>. QED  BY <1>2, <1>5, <2>1, SignalsLeaveAlone
<1>6. CASE Push
  <2>1. head' = head
    BY <1>6 DEF Push
  <2>2. CASE call'["tx"].pc = "signal" /\ PushAll /\ count' = count + 1
    BY <1>0, <1>6, <2>1, <2>2, Pushed, Pushing DEF RingOK, At
  <2>3. CASE call'["tx"].pc = "idle" /\ UNCHANGED <<tail, count>>
    BY <1>2, <2>1, <2>3
  <2>. QED  BY <1>6, <2>2, <2>3, Pushing
<1>7. CASE Pop
  <2>1. call'["tx"].pc = call["tx"].pc /\ tail' = tail
    BY <1>7, Popping DEF Pop
  <2>2. CASE MoreThanHeader /\ PopAll
    BY <1>0, <2>1, <2>2, Popped DEF RingOK, At
  <2>3. CASE UNCHANGED <<head, count>>
    BY <1>2, <2>1, <2>3 DEF At
  <2>. QED  BY <1>7, <2>2, <2>3 DEF Pop
<1>8. CASE ReceiveInCallback
  <2>1. UNCHANGED <<call, tail>>
    BY <1>8, ReceiveLeavesAlone
  <2>2. CASE MoreThanHeader /\ PopAll
    BY <1>0, <2>1, <2>2, Popped DEF RingOK, At
  <2>3. CASE UNCHANGED <<head, count>>
    BY <1>2, <2>1, <2>3 DEF At
  <2>. QED  BY <1>8, <2>2, <2>3 DEF ReceiveInCallback
<1>9. CASE UNCHANGED vars
  BY <1>0, <1>9 DEF RingOK, At, vars, fifo, tasks
<1>. QED  BY <1>1, <1>3, <1>4, <1>5, <1>6, <1>7, <1>8, <1>9, Steps, SideFacts

\* No more messages than sends.
LEMMA SendsNext ==
  ASSUME Kinds, RingOK, SendsOK, [Next]_vars
  PROVE  SendsOK'
<1> DEFINE before == {"wait", "evaluate", "asleep", "again", "push"}
<1>0. /\ sends \in 0 .. MaxSends /\ MaxSends \in Nat /\ count \in Nat
      /\ count + (IF call["tx"].pc \in before THEN 1 ELSE 0) <= sends
  BY Sac58rAssumption DEF SendsOK, RingOK, Unpushed
<1>1. ASSUME sends' = sends, count' \in Nat, count' <= count,
             call'["tx"].pc \in before => call["tx"].pc \in before
      PROVE  SendsOK'
  <2>1. PICK a \in Nat, b \in Nat, c \in Nat :
           /\ a = IF call["tx"].pc \in before THEN 1 ELSE 0
           /\ b = IF call'["tx"].pc \in before THEN 1 ELSE 0
           /\ c = count'
    BY <1>1
  <2>2. c <= count /\ b <= a /\ count + a <= sends /\ count \in Nat
    BY <1>0, <1>1, <2>1
  <2>3. c + b <= sends' /\ sends' \in 0 .. MaxSends
    <3>1. sends \in Int /\ sends' = sends
      BY <1>0, <1>1
    <3>2. c + b <= sends
      BY <2>2, <3>1
    <3>. QED  BY <1>0, <3>1, <3>2
  <2>. QED  BY <2>1, <2>3 DEF SendsOK, Unpushed
<1>2. ASSUME NEW s \in Sides,
             \/ Initialize(s) \/ LaterLife(s) \/ Handler(s) \/ CallbackReturns
             \/ SignalInCallback
      PROVE  SendsOK'
  <2>1. UNCHANGED <<sends, call>> /\ (count' = count \/ count' = 0)
    BY <1>2, LifeLeavesAlone, HandlersLeaveAlone
       DEF SignalInCallback, Initialize, FifoInit, fifo, tasks
  <2>. QED  BY <1>0, <1>1, <2>1
<1>3. CASE SendCall
  <2>1. sends' = sends + 1 /\ sends < MaxSends /\ call["tx"].pc = "idle"
    BY <1>3 DEF SendCall, Accepted, At
  <2>2. count' = count
    BY <1>3, CallsLeaveAlone, SideFacts DEF InCall
  <2>. QED  BY <1>0, <2>1, <2>2 DEF SendsOK, Unpushed
<1>4. CASE RecvCall
  <2>1. UNCHANGED <<sends, count>> /\ call'["tx"] = call["tx"]
    BY <1>4, Entering, SideFacts DEF RecvCall, Reaches, fifo
  <2>. QED  BY <1>0, <1>1, <2>1
<1>5. ASSUME NEW s \in Sides,
             WaitEvent(s) \/ WaitWithoutQueue(s) \/ Evaluate(s) \/ Run(s) \/ Again(s)
      PROVE  SendsOK'
  <2>1. UNCHANGED <<sends, count>>
    BY <1>5, CallsLeaveAlone
       DEF InCall, WaitEvent, WaitWithoutQueue, Evaluate, Run, Again
  <2>2. call[s].pc \in before /\ call'[Peer(s)] = call[Peer(s)]
    BY <1>5, Snapshot, GoesWithoutQueue, Evaluated, Running, GoesAgain
       DEF WaitEvent, WaitWithoutQueue, Evaluate, Run, Again, At, Reaches, Restarts
  <2>3. call'["tx"].pc \in before => call["tx"].pc \in before
    BY <2>2, SideFacts
  <2>. QED  BY <1>0, <1>1, <2>1, <2>3
<1>6. CASE Push
  <2>1. UNCHANGED sends /\ call["tx"].pc = "push"
    BY <1>6, TransfersLeaveAlone DEF Push, At
  <2>2. CASE call'["tx"].pc = "signal" /\ count' = count + 1
    BY <1>0, <2>1, <2>2 DEF SendsOK, Unpushed
  <2>3. CASE call'["tx"].pc = "idle" /\ count' = count
    BY <1>0, <1>1, <2>1, <2>3
  <2>. QED  BY <1>6, <2>2, <2>3, Pushing
<1>7. CASE Pop
  <2>1. UNCHANGED sends /\ call'["tx"] = call["tx"]
    BY <1>7, TransfersLeaveAlone, Popping
  <2>2. count' \in Nat /\ count' <= count
    BY <1>0, <1>7 DEF Pop, PopAll
  <2>. QED  BY <1>1, <2>1, <2>2
<1>8. ASSUME NEW s \in Sides, Signal(s)
      PROVE  SendsOK'
  <2>1. UNCHANGED <<sends, count>>
    BY <1>8, SignalsLeaveAlone
  <2>2. call'["tx"].pc \in before => call["tx"].pc \in before
    BY <1>8, Returning, SideFacts DEF Signal, Restarts
  <2>. QED  BY <1>0, <1>1, <2>1, <2>2
<1>9. CASE ReceiveInCallback
  <2>1. UNCHANGED <<sends, call>>
    BY <1>9, ReceiveLeavesAlone
  <2>2. count' \in Nat /\ count' <= count
    BY <1>0, <1>9 DEF ReceiveInCallback, PopAll
  <2>. QED  BY <1>1, <2>1, <2>2
<1>10. CASE UNCHANGED vars
  BY <1>0, <1>1, <1>10 DEF vars, fifo, tasks
<1>. QED  BY <1>2, <1>3, <1>4, <1>5, <1>6, <1>7, <1>8, <1>9, <1>10, Steps,
             SideFacts DEF InCall
-----------------------------------------------------------------------------
(***************************************************************************)
(* Messages and signals: what a step adds and takes away.                  *)
(***************************************************************************)

\* Nothing is pushed, popped or signalled.
Quietly ==
  /\ UNCHANGED <<sig, head, tail, count, erased, callback>>
  /\ Announces("tx")' = Announces("tx") /\ Announces("rx")' = Announces("rx")

\* A push, and a pop; the signal follows.
Arrives ==
  /\ UNCHANGED <<sig, erased, callback>> /\ count' = count + 1
  /\ Announces("tx")' = Announces("tx")
  /\ Announces("rx") = 0 /\ Announces("rx")' = 1

Leaves ==
  /\ UNCHANGED <<sig, erased, callback>> /\ count > 0 /\ count' = count - 1
  /\ Announces("rx")' = Announces("rx")
  /\ Announces("tx") = 0 /\ Announces("tx")' = 1

\* Side s is signalled.
Told(s) ==
  /\ UNCHANGED <<head, tail, count, erased, callback>>
  /\ sig'[s] = Plus1(sig[s]) /\ sig'[Peer(s)] = sig[Peer(s)]
  /\ Announces(s) = 1 /\ Announces(s)' = 0
  /\ Announces(Peer(s))' = Announces(Peer(s))

\* The writer signals in its task alone.
LEMMA Announcing ==
  ASSUME Kinds, Kinds'
  PROVE  /\ Announces("rx") = IF At("tx", "signal") THEN 1 ELSE 0
         /\ Announces("rx")' = IF call'["tx"].pc = "signal" THEN 1 ELSE 0
         /\ Announces("tx") = IF At("rx", "signal") \/ HandlerAt("rx", "callback_signal")
                                THEN 1 ELSE 0
         /\ Announces("tx")' = IF \/ call'["rx"].pc = "signal"
                                  \/ handler'["rx"] = "callback_signal" THEN 1 ELSE 0
<1>1. handler["tx"] # "callback_signal" /\ handler'["tx"] # "callback_signal"
  BY DEF Kinds
<1>. QED  BY <1>1, SideFacts DEF Announces, At, HandlerAt

\* The same places with respect to the signals, the same announcements.
LEMMA StillAnnouncing ==
  ASSUME Kinds, Kinds',
         \A s \in Sides : call'[s].pc = "signal" <=> At(s, "signal"),
         handler'["rx"] = "callback_signal" <=> HandlerAt("rx", "callback_signal")
  PROVE  Announces("tx")' = Announces("tx") /\ Announces("rx")' = Announces("rx")
BY Announcing, SideFacts

LEMMA QuietCalls ==
  ASSUME Kinds, Kinds', NEW s \in Sides, InCall(s)
  PROVE  Quietly
<1>1. UNCHANGED <<sig, head, tail, count, erased, callback, handler>>
  BY CallsLeaveAlone
<1>2. ASSUME NEW u \in Sides, ~At(u, "signal"), call'[u].pc # "signal",
             call'[Peer(u)] = call[Peer(u)]
      PROVE  Quietly
  <2>1. \A v \in Sides : call'[v].pc = "signal" <=> At(v, "signal")
    BY <1>2, SideFacts DEF At
  <2>2. Announces("tx")' = Announces("tx") /\ Announces("rx")' = Announces("rx")
    BY <1>1, <2>1, StillAnnouncing DEF HandlerAt
  <2>. QED  BY <1>1, <2>2 DEF Quietly
<1>3. CASE SendCall
  <2>1. /\ ~At("tx", "signal") /\ call'["tx"].pc # "signal"
        /\ call'[Peer("tx")] = call[Peer("tx")]
    BY <1>3, Entering, SideFacts DEF SendCall, Accepted, At, Reaches, Transfer
  <2>. QED  BY <1>2, <2>1, SideFacts
<1>4. CASE RecvCall
  <2>1. /\ ~At("rx", "signal") /\ call'["rx"].pc # "signal"
        /\ call'[Peer("rx")] = call[Peer("rx")]
    BY <1>4, Entering, SideFacts DEF RecvCall, Accepted, At, Reaches, Transfer
  <2>. QED  BY <1>2, <2>1, SideFacts
<1>5. CASE WaitEvent(s) \/ WaitWithoutQueue(s) \/ Evaluate(s) \/ Run(s) \/ Again(s)
  <2>1. ~At(s, "signal") /\ call'[s].pc # "signal" /\ call'[Peer(s)] = call[Peer(s)]
    BY <1>5, Snapshot, GoesWithoutQueue, Evaluated, Running, GoesAgain
       DEF WaitEvent, WaitWithoutQueue, Evaluate, Run, Again, At, Reaches, Restarts, Transfer
  <2>. QED  BY <1>2, <2>1
<1>. QED  BY <1>3, <1>4, <1>5 DEF InCall

LEMMA QuietHandlers ==
  ASSUME Kinds, Kinds', NEW s \in Sides, LaterLife(s) \/ Handler(s) \/ CallbackReturns
  PROVE  Quietly
<1>1. UNCHANGED <<sig, head, tail, count, erased, callback, call>>
  BY LifeLeavesAlone, HandlersLeaveAlone
<1>0. /\ handler \in [Sides -> {"idle", "scan", "callback", "callback_signal",
                                "stuck", "wake"}]
  BY DEF Kinds
<1>2. handler'["rx"] = "callback_signal" <=> HandlerAt("rx", "callback_signal")
  <2>1. CASE LaterLife(s)
    BY <2>1, LifeLeavesAlone DEF HandlerAt
  <2>2. CASE HandlerStart(s)
    BY <1>0, <2>2, SideFacts DEF HandlerStart, HandlerAt, HandlerGoto
  <2>3. CASE HandlerScan(s)
    BY <1>0, <2>3, SideFacts DEF HandlerScan, HandlerAt, HandlerGoto
  <2>4. CASE CallbackReturns
    BY <1>0, <2>4, SideFacts DEF CallbackReturns, HandlerAt, HandlerGoto
  <2>. QED  BY <2>1, <2>2, <2>3, <2>4 DEF Handler
<1>3. Announces("tx")' = Announces("tx") /\ Announces("rx")' = Announces("rx")
  BY <1>1, <1>2, StillAnnouncing DEF At
<1>. QED  BY <1>1, <1>3 DEF Quietly

\* A push without its semaphore returns.
LEMMA PushArrives ==
  ASSUME Kinds, Kinds', RingOK, Push
  PROVE  Arrives \/ Quietly
<1>1. /\ At("tx", "push") /\ call'["rx"] = call["rx"]
      /\ \/ call'["tx"].pc = "signal" /\ count' = count + 1
         \/ call'["tx"].pc = "idle" /\ UNCHANGED <<tail, count>>
  BY Pushing
<1>2. UNCHANGED <<sig, erased, callback, handler, head>>
  BY TransfersLeaveAlone DEF Push
<1>3. CASE call'["tx"].pc = "signal" /\ count' = count + 1
  BY <1>1, <1>2, <1>3, Announcing DEF Arrives, At, HandlerAt
<1>4. CASE call'["tx"].pc = "idle" /\ UNCHANGED <<tail, count>>
  <2>1. Announces("tx")' = Announces("tx") /\ Announces("rx")' = Announces("rx")
    BY <1>1, <1>2, <1>4, Announcing DEF At, HandlerAt
  <2>. QED  BY <1>2, <1>4, <2>1 DEF Quietly
<1>. QED  BY <1>1, <1>3, <1>4

\* A receive by the task, or by the callback, finds a message or moves nothing.
LEMMA PopLeaves ==
  ASSUME Kinds, Kinds', RingOK, Pop \/ ReceiveInCallback
  PROVE  /\ tail' = tail
         /\ \/ Quietly
            \/ Leaves /\ MoreThanHeader /\ PopAll
<1>1. UNCHANGED <<sig, erased, callback, tail>>
  BY TransfersLeaveAlone, ReceiveLeavesAlone DEF Pop
<1>2. CASE Pop
  <2>1. At("rx", "pop") /\ call'["tx"] = call["tx"] /\ UNCHANGED handler
    BY <1>2, TransfersLeaveAlone, Popping
  <2>2. ~HandlerAt("rx", "callback_signal")
    BY <2>1 DEF Kinds, At, HandlerAt
  <2>3. CASE MoreThanHeader /\ PopAll /\ Goto("rx", "signal")
    <3>1. call'["rx"].pc = "signal"
      BY <2>3, Going, SideFacts DEF Reaches, Places
    <3>2. count > 0 /\ count' = count - 1
      BY <1>1, <2>3, Popped
    <3>. QED  BY <1>1, <2>1, <2>2, <2>3, <3>1, <3>2, Announcing
              DEF Leaves, At, HandlerAt
  <2>4. CASE Return("rx") /\ UNCHANGED <<head, count>>
    <3>1. call'["rx"].pc = "idle"
      BY <2>4, Returning, SideFacts DEF Restarts
    <3>. QED  BY <1>1, <2>1, <2>2, <2>4, <3>1, Announcing DEF Quietly, At, HandlerAt
  <2>. QED  BY <1>2, <2>3, <2>4 DEF Pop
<1>3. CASE ReceiveInCallback
  <2>1. /\ HandlerAt("rx", "callback") /\ UNCHANGED call
    BY <1>3, ReceiveLeavesAlone DEF ReceiveInCallback
  <2>2. ~At("rx", "signal") /\ handler \in [Sides -> {"idle", "scan", "callback",
                                             "callback_signal", "stuck", "wake"}]
    BY <2>1 DEF Kinds, At, HandlerAt
  <2>3. CASE MoreThanHeader /\ PopAll /\ HandlerGoto("rx", "callback_signal")
    <3>1. handler'["rx"] = "callback_signal"
      BY <2>2, <2>3, SideFacts DEF HandlerGoto
    <3>2. count > 0 /\ count' = count - 1
      BY <1>1, <2>3, Popped
    <3>. QED  BY <1>1, <2>1, <2>2, <2>3, <3>1, <3>2, Announcing
              DEF Leaves, At, HandlerAt
  <2>4. CASE /\ HandlerGoto("rx", "stuck") \/ HandlerGoto("rx", "wake")
             /\ UNCHANGED <<head, count>>
    <3>1. handler'["rx"] \in {"stuck", "wake"}
      BY <2>2, <2>4, SideFacts DEF HandlerGoto
    <3>. QED  BY <1>1, <2>1, <2>2, <2>4, <3>1, Announcing DEF Quietly, At, HandlerAt
  <2>. QED  BY <1>3, <2>3, <2>4 DEF ReceiveInCallback
<1>. QED  BY <1>2, <1>3

LEMMA SignalTells ==
  ASSUME Kinds, Kinds', NEW s \in Sides, Signal(s)
  PROVE  Told(Peer(s))
<1>1. /\ At(s, "signal") /\ call'[s].pc = "idle" /\ call'[Peer(s)] = call[Peer(s)]
      /\ UNCHANGED <<head, tail, count, erased, callback, handler>>
  BY Returning, SignalsLeaveAlone DEF Signal, Restarts
<1>2. sig'[Peer(s)] = Plus1(sig[Peer(s)]) /\ sig'[s] = sig[s] /\ Peer(Peer(s)) = s
  BY SignalCounts, SideFacts DEF Signal
<1>3. s = "rx" => ~HandlerAt("rx", "callback_signal")
  BY <1>1 DEF Kinds, At, HandlerAt
<1>4. /\ Announces(Peer(s)) = 1 /\ Announces(Peer(s))' = 0
      /\ Announces(s)' = Announces(s)
  <2>1. CASE s = "tx"
    BY <1>1, <2>1, Announcing, SideFacts DEF At, HandlerAt
  <2>2. CASE s = "rx"
    BY <1>1, <1>3, <2>2, Announcing, SideFacts DEF At, HandlerAt
  <2>. QED  BY <2>1, <2>2 DEF Sides
<1>. QED  BY <1>1, <1>2, <1>4 DEF Told

LEMMA CallbackTells ==
  ASSUME Kinds, Kinds', SignalInCallback
  PROVE  Told("tx")
<1>1. /\ HandlerAt("rx", "callback_signal") /\ HandlerGoto("rx", "wake")
      /\ UNCHANGED <<head, tail, count, erased, callback, call>>
  BY DEF SignalInCallback, fifo, tasks
<1>2. sig'["tx"] = Plus1(sig["tx"]) /\ sig'["rx"] = sig["rx"]
  <2>1. SignalPeer("rx")
    BY DEF SignalInCallback
  <2>2. /\ sig'[Peer("rx")] = Plus1(sig[Peer("rx")])
        /\ sig'["rx"] = sig["rx"]
    BY <2>1, SignalCounts, SideFacts
  <2>. QED  BY <2>2, SideFacts
<1>3. ~At("rx", "signal") /\ handler'["rx"] = "wake"
  BY <1>1, SideFacts DEF Kinds, At, HandlerAt, HandlerGoto
<1>. QED  BY <1>1, <1>2, <1>3, Announcing, SideFacts DEF Told, At, HandlerAt

LEMMA Traffic ==
  ASSUME Kinds, Kinds', RingOK, [Next]_vars
  PROVE  \/ \E s \in Sides : Initialize(s)
         \/ Quietly \/ Arrives \/ Leaves \/ Told("tx") \/ Told("rx")
<1>1. CASE UNCHANGED vars
  <2>1. UNCHANGED <<sig, head, tail, count, erased, callback, call, handler>>
    BY <1>1 DEF vars, fifo, counters, tasks, history
  <2>2. Announces("tx")' = Announces("tx") /\ Announces("rx")' = Announces("rx")
    BY <2>1, StillAnnouncing DEF At, HandlerAt
  <2>. QED  BY <2>1, <2>2 DEF Quietly
<1>. QED  BY <1>1, Steps, SideFacts, QuietCalls, QuietHandlers, PushArrives,
             PopLeaves, SignalTells, CallbackTells

\* The numbers are numbers.
LEMMA TrafficKinds ==
  ASSUME Kinds, RingOK
  PROVE  /\ sig["tx"] \in Counter /\ sig["rx"] \in Counter
         /\ ack["tx"] \in Counter /\ ack["rx"] \in Counter
         /\ sig["tx"] \in Int /\ sig["rx"] \in Int
         /\ ack["tx"] \in Int /\ ack["rx"] \in Int
         /\ Announces("tx") \in 0 .. 1 /\ Announces("rx") \in 0 .. 1
         /\ count \in Nat /\ count <= Slots /\ Balance \in Int
<1>1. /\ sig["tx"] \in Counter /\ sig["rx"] \in Counter
      /\ ack["tx"] \in Counter /\ ack["rx"] \in Counter
  BY SideFacts DEF Kinds
<1>2. /\ sig["tx"] \in Int /\ sig["rx"] \in Int
      /\ ack["tx"] \in Int /\ ack["rx"] \in Int
  BY <1>1, Numbers DEF Counter
<1>3. Announces("tx") \in 0 .. 1 /\ Announces("rx") \in 0 .. 1
  BY DEF Announces
<1>4. count \in Nat /\ count <= Slots
  BY Occupancy
<1>. QED  BY <1>1, <1>2, <1>3, <1>4 DEF Balance

\* When everything is acknowledged and read, no callback is under way.
LEMMA NoCallback ==
  ASSUME Kinds, RingOK, UnackedOK, ~erased, sig = ack, count = 0
  PROVE  handler["rx"] \notin {"callback", "callback_signal", "wake"}
<1>1. CASE callback
  <2>1. PICK u \in Nat : Unacknowledged(u)
    BY <1>1 DEF UnackedOK
  <2>2. /\ sig["rx"] \in Int /\ Announces("rx") \in 0 .. 1
        /\ CounterRange \in Nat /\ 2 < CounterRange /\ u \in Int
    BY TrafficKinds, Numbers
  <2>3. u <= 1
    BY <2>1, <2>2 DEF Unacknowledged, Taken
  <2>4. Multiple(0 - u)
    <3>1. sig["rx"] - ack["rx"] - u = 0 - u
      BY <2>2
    <3>. QED  BY <2>1, <3>1 DEF Unacknowledged
  <2>5. 0 - u = 0
    BY <2>2, <2>3, <2>4, SmallMultiple
  <2>6. ~(u >= 1)
    BY <2>2, <2>5
  <2>. QED  BY <2>1, <2>6 DEF Unacknowledged
<1>2. CASE ~callback
  BY <1>2 DEF Kinds
<1>. QED  BY <1>1, <1>2

\* An ICC_Initialize that erases nothing starts where the counters agree.
LEMMA FreshStart ==
  ASSUME Kinds, Kinds', RingOK, CountOK, UnackedOK, NEW s \in Sides, Initialize(s),
         ~erased'
  PROVE  /\ sig'["tx"] = 0 /\ sig'["rx"] = 0 /\ ack'["rx"] = 0 /\ count' = 0
         /\ UNCHANGED <<handler, call, callback>>
         /\ \A u \in Sides : At(u, "idle")
         /\ handler["rx"] \notin {"callback", "callback_signal", "wake"}
         /\ Announces("tx")' = 0 /\ Announces("rx")' = 0
<1>1. /\ ~erased /\ sig = ack /\ sig[s] = 0 /\ \A u \in Sides : At(u, "idle")
      /\ count = 0
  BY ErasedNothing DEF RingOK
<1>2. handler["rx"] \notin {"callback", "callback_signal", "wake"}
  BY <1>1, NoCallback
<1>3. /\ sig' = [sig EXCEPT ![Peer(s)] = 0] /\ ack' = [ack EXCEPT ![s] = 0]
      /\ count' = 0 /\ UNCHANGED <<handler, call, callback>>
  BY DEF Initialize, FifoInit, tasks
<1>4. sig'["tx"] = 0 /\ sig'["rx"] = 0
  BY <1>1, <1>3, SideFacts DEF Kinds
<1>5. Announces("tx") = 0 /\ Announces("rx") = 0
  BY <1>1, <1>2, Announcing, SideFacts DEF At, HandlerAt
<1>6. Announces("tx")' = 0 /\ Announces("rx")' = 0
  BY <1>3, <1>5, StillAnnouncing DEF At, HandlerAt
<1>7. ack'["rx"] = 0
  <2>1. CASE s = "rx"
    BY <1>3, <2>1, SideFacts DEF Kinds
  <2>2. CASE s = "tx"
    <3>1. /\ sig["rx"] \in Counter /\ sig["rx"] \in Int
          /\ sig["tx"] = 0 /\ CounterRange \in Nat
      BY <1>1, <2>2, TrafficKinds, Numbers
    <3>2. Balance = sig["rx"]
      BY <1>1, <1>5, <3>1 DEF Balance
    <3>3. Multiple(sig["rx"])
      BY <1>1, <3>2 DEF CountOK
    <3>4. sig["rx"] = 0
      BY <3>1, <3>3, SmallMultiple DEF Counter
    <3>. QED  BY <1>1, <1>3, <2>2, <3>4, SideFacts DEF Kinds
  <2>. QED  BY <2>1, <2>2 DEF Sides
<1>. QED  BY <1>1, <1>2, <1>3, <1>4, <1>6, <1>7

LEMMA CountNext ==
  ASSUME Kinds, Kinds', RingOK, CountOK, UnackedOK, [Next]_vars
  PROVE  CountOK'
<1> SUFFICES ASSUME ~erased'
             PROVE  Multiple(Balance')
  BY DEF CountOK
<1> DEFINE r == sig["rx"]
           t == sig["tx"]
           a == Announces("rx")
           b == Announces("tx")
           n == count
<1>0. /\ r \in Counter /\ t \in Counter /\ r \in Int /\ t \in Int
      /\ a \in Int /\ b \in Int /\ n \in Int
      /\ Balance = r + a - (t + b + n) /\ Balance \in Int
  BY TrafficKinds DEF Balance
<1>1. ASSUME NEW s \in Sides, Initialize(s)
      PROVE  Multiple(Balance')
  <2>1. /\ sig'["tx"] = 0 /\ sig'["rx"] = 0 /\ count' = 0
        /\ Announces("tx")' = 0 /\ Announces("rx")' = 0
    BY <1>1, FreshStart
  <2>2. Balance' = 0
    BY <2>1 DEF Balance
  <2>. QED  BY <2>2, Counted
<1>2. ASSUME erased' = erased
      PROVE  Multiple(Balance)
  BY <1>2 DEF CountOK
<1>3. CASE Quietly
  <2>1. Balance' = Balance /\ erased' = erased
    BY <1>3 DEF Balance, Quietly
  <2>. QED  BY <1>2, <2>1
<1>4. CASE Arrives
  <2>1. /\ Balance' = r + 1 - (t + b + (n + 1)) /\ a = 0 /\ erased' = erased
    BY <1>4 DEF Balance, Arrives
  <2> HIDE DEF r, t, a, b, n
  <2>2. Balance' = Balance
    BY <1>0, <2>1
  <2>. QED  BY <1>2, <2>1, <2>2
<1>5. CASE Leaves
  <2>1. /\ Balance' = r + a - (t + 1 + (n - 1)) /\ b = 0 /\ erased' = erased
    BY <1>5 DEF Balance, Leaves
  <2> HIDE DEF r, t, a, b, n
  <2>2. Balance' = Balance
    BY <1>0, <2>1
  <2>. QED  BY <1>2, <2>1, <2>2
<1>6. CASE Told("rx")
  <2>1. /\ Balance' = Plus1(r) + 0 - (t + b + n) /\ a = 1 /\ erased' = erased
    BY <1>6, SideFacts DEF Balance, Told
  <2>2. Plus1(r) \in Int
    BY <1>0, Counted, Numbers DEF Counter
  <2>3. Multiple(Balance + (Plus1(r) - (r + 1)))
    BY <1>0, <1>2, <2>1, CountedIn
  <2> HIDE DEF r, t, a, b, n
  <2>4. Balance' = Balance + (Plus1(r) - (r + 1))
    BY <1>0, <2>1, <2>2
  <2>. QED  BY <2>3, <2>4
<1>7. CASE Told("tx")
  <2>1. /\ Balance' = r + a - (Plus1(t) + 0 + n) /\ b = 1 /\ erased' = erased
    BY <1>7, SideFacts DEF Balance, Told
  <2>2. Plus1(t) \in Int
    BY <1>0, Counted, Numbers DEF Counter
  <2>3. Multiple(Balance - (Plus1(t) - (t + 1)))
    BY <1>0, <1>2, <2>1, CountedIn
  <2> HIDE DEF r, t, a, b, n
  <2>4. Balance' = Balance - (Plus1(t) - (t + 1))
    BY <1>0, <2>1, <2>2
  <2>. QED  BY <2>3, <2>4
<1>. QED  BY <1>1, <1>3, <1>4, <1>5, <1>6, <1>7, Traffic
-----------------------------------------------------------------------------
(***************************************************************************)
(* The signals and messages of a reader that receives in its callback.     *)
(***************************************************************************)

\* How many are unacknowledged behind a step.
LEMMA UnackedBy ==
  ASSUME NEW u \in Nat, NEW r \in Int, NEW k \in Int, NEW a \in Int, NEW n \in Int,
         NEW t \in Int,
         r = sig'["rx"], k = ack'["rx"], a = Announces("rx")', n = count', t = Taken',
         Multiple(r - k - u), u + a <= n + t,
         handler'["rx"] \in {"callback", "callback_signal", "wake"} => u >= 1
  PROVE  UnackedOK'
<1>1. Unacknowledged(u)'
  BY DEF Unacknowledged
<1>. QED  BY <1>1 DEF UnackedOK

\* The steps that leave them, and the handler, as they are.
LEMMA UnackedKept ==
  ASSUME Kinds, Kinds', RingOK, UnackedOK, ~erased, callback,
         Quietly \/ Arrives \/ Told("tx"),
         ack'["rx"] = ack["rx"],
         Taken' = Taken,
         handler'["rx"] \in {"callback", "callback_signal", "wake"}
           => handler["rx"] \in {"callback", "callback_signal", "wake"}
  PROVE  UnackedOK'
<1> DEFINE r == sig["rx"]
           k == ack["rx"]
           a == Announces("rx")
           n == count
           t == Taken
<1>1. /\ r \in Int /\ k \in Int /\ a \in Int /\ n \in Int /\ t \in Int
  BY TrafficKinds DEF Taken
<1>2. PICK u \in Nat : Unacknowledged(u)
  BY DEF UnackedOK
<1>3. /\ Multiple(r - k - u) /\ u + a <= n + t
      /\ handler["rx"] \in {"callback", "callback_signal", "wake"} => u >= 1
  BY <1>2 DEF Unacknowledged
<1>4. sig'["rx"] = r /\ ack'["rx"] = k /\ Taken' = t
  BY SideFacts DEF Quietly, Arrives, Told
<1>5. CASE Quietly \/ Told("tx")
  <2>1. Announces("rx")' = a /\ count' = n
    BY <1>5, SideFacts DEF Quietly, Told
  <2> HIDE DEF r, k, a, n, t
  <2>. QED  BY <1>1, <1>3, <1>4, <2>1, UnackedBy
<1>6. CASE Arrives
  <2>1. a = 0 /\ Announces("rx")' = a + 1 /\ count' = n + 1
    BY <1>6 DEF Arrives
  <2> HIDE DEF r, k, a, n, t
  <2>2. a + 1 \in Int /\ n + 1 \in Int /\ u + (a + 1) <= (n + 1) + t
    BY <1>1, <1>3
  <2>. QED  BY <1>1, <1>3, <1>4, <2>1, <2>2, UnackedBy
<1>. QED  BY <1>5, <1>6

\* The handler's progress.
LEMMA UnackedHandler ==
  ASSUME Kinds, Kinds', RingOK, UnackedOK, ~erased, callback, NEW s \in Sides,
         Handler(s)
  PROVE  UnackedOK'
<1>0. /\ handler \in [Sides -> {"idle", "scan", "callback", "callback_signal",
                                "stuck", "wake"}]
      /\ ack["rx"] \in Counter /\ sig["rx"] \in Counter
      /\ ack["rx"] \in Int /\ sig["rx"] \in Int /\ CounterRange \in Nat
  BY TrafficKinds, Numbers DEF Kinds
<1>1. Quietly
  BY QuietHandlers
<1>2. CASE ack'["rx"] = ack["rx"] /\ handler'["rx"] = handler["rx"]
  BY <1>1, <1>2, UnackedKept DEF Taken
<1>3. CASE s = "tx"
  <2>1. ack'["rx"] = ack["rx"] /\ handler'["rx"] = handler["rx"]
    <3>1. CASE HandlerStart("tx")
      BY <1>0, <3>1 DEF HandlerStart, HandlerGoto, counters, Sides
    <3>2. CASE HandlerScan("tx")
      <4>1. ack'["rx"] = ack["rx"]
        BY <3>2, Acknowledged, SideFacts DEF HandlerScan
      <4>2. handler'["rx"] = handler["rx"]
        BY <1>0, <3>2 DEF HandlerScan, HandlerGoto, Sides
      <4>. QED  BY <4>1, <4>2
    <3>. QED  BY <1>3, <3>1, <3>2 DEF Handler
  <2>. QED  BY <1>2, <2>1
<1>4. CASE s = "rx" /\ HandlerStart("rx")
  <2>1. /\ handler["rx"] = "idle" /\ handler'["rx"] \in {"idle", "scan"}
        /\ ack' = ack
    BY <1>0, <1>4, SideFacts DEF HandlerStart, HandlerGoto, HandlerAt, counters
  <2>. QED  BY <1>1, <2>1, UnackedKept DEF Taken
<1>5. CASE s = "rx" /\ HandlerScan("rx")
  <2>1. CASE sig["rx"] = ack["rx"]
    <3>1. /\ handler["rx"] = "scan" /\ handler'["rx"] = "idle" /\ ack' = ack
      BY <1>0, <1>5, <2>1, SideFacts DEF HandlerScan, HandlerGoto, HandlerAt
    <3>. QED  BY <1>1, <3>1, UnackedKept DEF Taken
  <2>2. CASE sig["rx"] # ack["rx"]
    <3>1. /\ handler["rx"] = "scan" /\ handler'["rx"] = "callback" /\ ack' = ack
      BY <1>0, <1>5, <2>2, SideFacts DEF HandlerScan, HandlerGoto, HandlerAt
    <3> DEFINE r == sig["rx"]
               k == ack["rx"]
               a == Announces("rx")
               n == count
    <3>2. PICK u \in Nat : Unacknowledged(u)
      BY DEF UnackedOK
    <3>3. Multiple(r - k - u) /\ u + a <= n + 0
      BY <3>1, <3>2 DEF Unacknowledged, Taken
    <3>4. /\ r \in Int /\ k \in Int /\ a \in Int /\ n \in Int
          /\ r - k < CounterRange /\ 0 - CounterRange < r - k
      BY <1>0, TrafficKinds DEF Counter
    <3>5. u # 0
      <4>1. SUFFICES ASSUME u = 0
                     PROVE  FALSE
        OBVIOUS
      <4>2. r - k \in Int /\ r - k - u = r - k
        BY <3>4, <4>1
      <4>3. r - k = 0
        BY <1>0, <3>3, <3>4, <4>2, SmallMultiple
      <4>. QED  BY <2>2, <3>4, <4>3
    <3>6. /\ sig'["rx"] = r /\ ack'["rx"] = k /\ Announces("rx")' = a /\ count' = n
          /\ Taken' = 0
      BY <1>1, <3>1 DEF Quietly, Taken
    <3> HIDE DEF r, k, a, n
    <3>7. u >= 1 /\ 0 \in Int
      BY <3>5
    <3>. QED  BY <3>3, <3>4, <3>6, <3>7, UnackedBy
  <2>. QED  BY <2>1, <2>2
<1>. QED  BY <1>3, <1>4, <1>5 DEF Handler, Sides

\* Its acknowledgement behind the callback.
LEMMA UnackedReturn ==
  ASSUME Kinds, Kinds', RingOK, UnackedOK, ~erased, callback, CallbackReturns
  PROVE  UnackedOK'
<1> DEFINE r == sig["rx"]
           k == ack["rx"]
           a == Announces("rx")
           n == count
<1>1. Quietly
  BY QuietHandlers, SideFacts
<1>2. /\ handler["rx"] = "wake" /\ handler'["rx"] = "scan"
      /\ ack'["rx"] = Plus1(k)
  BY Acknowledged, SideFacts
     DEF CallbackReturns, HandlerAt, HandlerGoto, Kinds
<1>3. PICK u \in Nat : Unacknowledged(u)
  BY DEF UnackedOK
<1>4. Multiple(r - k - u) /\ u + a <= n + 1 /\ u >= 1
  BY <1>2, <1>3 DEF Unacknowledged, Taken
<1>5. /\ r \in Int /\ k \in Int /\ a \in Int /\ n \in Int
      /\ Plus1(k) \in Int /\ k \in Counter
  BY TrafficKinds, Counted, Numbers DEF Counter
<1>6. /\ sig'["rx"] = r /\ Announces("rx")' = a /\ count' = n /\ Taken' = 0
  BY <1>1, <1>2 DEF Quietly, Taken
<1>7. Multiple(r - Plus1(k) - (u - 1))
  <2>1. r - k - u \in Int
    BY <1>5
  <2>2. Multiple((r - k - u) - (Plus1(k) - (k + 1)))
    BY <1>4, <1>5, <2>1, CountedIn
  <2> HIDE DEF r, k
  <2>3. (r - k - u) - (Plus1(k) - (k + 1)) = r - Plus1(k) - (u - 1)
    BY <1>5
  <2>. QED  BY <2>2, <2>3
<1> HIDE DEF r, k, a, n
<1>8. u - 1 \in Nat /\ (u - 1) + a <= n + 0 /\ 0 \in Int
  BY <1>4, <1>5
<1>. QED  BY <1>2, <1>5, <1>6, <1>7, <1>8, UnackedBy

\* The callback itself: what it takes from the ring is one message.
LEMMA UnackedReceive ==
  ASSUME Kinds, Kinds', RingOK, UnackedOK, ~erased, callback, ReceiveInCallback
  PROVE  UnackedOK' /\ handler'["rx"] # "stuck"
<1> DEFINE r == sig["rx"]
           k == ack["rx"]
           a == Announces("rx")
           n == count
<1>0. /\ r \in Int /\ k \in Int /\ a \in Nat /\ n \in Nat
  BY TrafficKinds
<1>1. /\ handler["rx"] = "callback" /\ UNCHANGED <<sig, ack, call>>
      /\ handler \in [Sides -> {"idle", "scan", "callback", "callback_signal",
                                "stuck", "wake"}]
  BY ReceiveLeavesAlone DEF ReceiveInCallback, HandlerAt, Kinds
<1>2. PICK u \in Nat : Unacknowledged(u)
  BY DEF UnackedOK
<1>3. Multiple(r - k - u) /\ u + a <= n + 0 /\ u >= 1
  BY <1>1, <1>2 DEF Unacknowledged, Taken
<1>4. n > 0
  BY <1>0, <1>3
<1>5. Announces("rx")' = a
  BY <1>1, Announcing DEF At
<1>6. sig'["rx"] = r /\ ack'["rx"] = k
  BY <1>1
<1>7. CASE MoreThanHeader /\ PopAll /\ HandlerGoto("rx", "callback_signal")
  <2>1. tail' = tail
    BY ReceiveLeavesAlone
  <2>2. count' = n - 1
    BY <1>7, <2>1, Popped
  <2>3. handler'["rx"] = "callback_signal" /\ Taken' = 1
    BY <1>1, <1>7, SideFacts DEF HandlerGoto, Taken
  <2> HIDE DEF r, k, a, n
  <2>4. u + a <= (n - 1) + 1 /\ n - 1 \in Int /\ 1 \in Int /\ a \in Int
    BY <1>0, <1>3
  <2>5. UnackedOK'
    BY <1>0, <1>3, <1>5, <1>6, <2>2, <2>3, <2>4, UnackedBy
  <2>. QED  BY <2>3, <2>5
<1>8. CASE HandlerGoto("rx", "wake") /\ UNCHANGED <<head, count>>
  <2>1. handler'["rx"] = "wake" /\ Taken' = 1 /\ count' = n
    BY <1>1, <1>8, SideFacts DEF HandlerGoto, Taken
  <2> HIDE DEF r, k, a, n
  <2>2. u + a <= n + 1 /\ n \in Int /\ 1 \in Int /\ a \in Int
    BY <1>0, <1>3
  <2>3. UnackedOK'
    BY <1>0, <1>3, <1>5, <1>6, <2>1, <2>2, UnackedBy
  <2>. QED  BY <2>1, <2>3
<1>9. MoreThanHeader
  BY <1>4, Occupancy
<1>. QED  BY <1>7, <1>8, <1>9 DEF ReceiveInCallback

LEMMA UnackedNext ==
  ASSUME Kinds, Kinds', RingOK, CountOK, UnackedOK, [Next]_vars
  PROVE  UnackedOK'
<1> SUFFICES ASSUME ~erased', callback'
             PROVE  UnackedOK'
  BY DEF UnackedOK
<1>1. ASSUME NEW s \in Sides, Initialize(s)
      PROVE  UnackedOK'
  <2>1. /\ sig'["rx"] = 0 /\ ack'["rx"] = 0 /\ count' = 0 /\ Announces("rx")' = 0
        /\ handler'["rx"] \notin {"callback", "callback_signal", "wake"}
    BY <1>1, FreshStart
  <2>2. Taken' = 0
    BY <2>1 DEF Taken
  <2>3. Multiple(0 - 0 - 0) /\ 0 + 0 <= 0 + 0 /\ 0 \in Nat /\ 0 \in Int
    BY Counted
  <2>. QED  BY <2>1, <2>2, <2>3, UnackedBy
<1>2. ASSUME NEW s \in Sides, LaterLife(s) \/ InCall(s)
      PROVE  UnackedOK'
  <2>1. Quietly /\ UNCHANGED <<ack, handler>>
    BY <1>2, QuietHandlers, QuietCalls, LifeLeavesAlone, CallsLeaveAlone
  <2>. QED  BY <2>1, UnackedKept DEF Quietly, Taken
<1>3. CASE Push
  <2>1. (Arrives \/ Quietly) /\ UNCHANGED <<ack, handler>>
    BY <1>3, PushArrives, TransfersLeaveAlone
  <2>2. Taken' = Taken
    BY <2>1 DEF Taken
  <2>3. CASE Arrives
    BY <2>1, <2>2, <2>3, UnackedKept DEF Arrives
  <2>4. CASE Quietly
    BY <2>1, <2>2, <2>4, UnackedKept DEF Quietly
  <2>. QED  BY <2>1, <2>3, <2>4
<1>4. CASE Pop
  <2>1. callback
    BY <1>4, TransfersLeaveAlone DEF Pop
  <2>. QED  BY <1>4, <2>1 DEF Pop, Kinds, At
<1>5. CASE Signal("rx")
  <2>1. callback
    BY <1>5, SignalsLeaveAlone, SideFacts
  <2>. QED  BY <1>5, <2>1 DEF Signal, Kinds, At
<1>6. CASE Signal("tx")
  <2> DEFINE r == sig["rx"]
             k == ack["rx"]
             a == Announces("rx")
             n == count
             t == Taken
  <2>1. Told("rx") /\ UNCHANGED <<ack, handler>>
    <3>1. Told("rx")
      BY <1>6, SignalTells, SideFacts
    <3>2. UNCHANGED handler
      BY <1>6 DEF Signal
    <3>. QED  BY <1>6, <3>1, <3>2, SignalsLeaveAlone, SideFacts
  <2>2. ~erased /\ callback
    BY <2>1 DEF Told
  <2>3. PICK u \in Nat : Unacknowledged(u)
    BY <2>2 DEF UnackedOK
  <2>4. /\ Multiple(r - k - u) /\ u + a <= n + t
        /\ handler["rx"] \in {"callback", "callback_signal", "wake"} => u >= 1
    BY <2>3 DEF Unacknowledged
  <2>5. /\ r \in Int /\ k \in Int /\ n \in Int /\ t \in Int /\ r \in Counter
        /\ Plus1(r) \in Int
    BY TrafficKinds, Counted, Numbers DEF Counter, Taken
  <2>6. /\ sig'["rx"] = Plus1(r) /\ ack'["rx"] = k /\ count' = n
        /\ a = 1 /\ Announces("rx")' = 0 /\ Taken' = t
    BY <2>1 DEF Told, Taken
  <2>7. Multiple((r - k - u) + (Plus1(r) - (r + 1)))
    <3>1. r - k - u \in Int
      BY <2>5
    <3>. QED  BY <2>4, <2>5, <3>1, CountedIn
  <2>8. handler'["rx"] = handler["rx"]
    BY <2>1
  <2> HIDE DEF r, k, a, n, t
  <2>9. /\ Multiple(Plus1(r) - k - (u + 1)) /\ u + 1 \in Nat
        /\ (u + 1) + 0 <= n + t /\ u + 1 >= 1 /\ 0 \in Int
    <3>1. (r - k - u) + (Plus1(r) - (r + 1)) = Plus1(r) - k - (u + 1)
      BY <2>5
    <3>. QED  BY <2>4, <2>5, <2>6, <2>7, <3>1
  <2>. QED  BY <2>5, <2>6, <2>9, UnackedBy
<1>7. CASE SignalInCallback
  <2>1. Told("tx") /\ UNCHANGED ack
    BY <1>7, CallbackTells DEF SignalInCallback
  <2>2. handler["rx"] = "callback_signal" /\ handler'["rx"] = "wake"
    BY <1>7, SideFacts DEF SignalInCallback, HandlerAt, HandlerGoto, Kinds
  <2>. QED  BY <2>1, <2>2, UnackedKept DEF Told, Taken
<1>8. ASSUME NEW s \in Sides, Handler(s)
      PROVE  UnackedOK'
  BY <1>8, UnackedHandler, HandlersLeaveAlone
<1>9. CASE CallbackReturns
  BY <1>9, UnackedReturn, HandlersLeaveAlone, SideFacts
<1>10. CASE ReceiveInCallback
  BY <1>10, UnackedReceive, ReceiveLeavesAlone
<1>11. CASE UNCHANGED vars
  BY <1>11 DEF UnackedOK, Unacknowledged, Announces, Taken, At, HandlerAt, vars, fifo,
     counters, tasks, history
<1>. QED  BY <1>1, <1>2, <1>3, <1>4, <1>5, <1>6, <1>7, <1>8, <1>9, <1>10, <1>11,
             Steps DEF Sides
-----------------------------------------------------------------------------
(***************************************************************************)
(* What a waiting task can tell from its snapshot.                         *)
(***************************************************************************)

\* A task waits because it took its snapshot or because it waited before.
LEMMA WaitsOn ==
  ASSUME Kinds, NEW s \in Sides, InCall(s) \/ Push \/ Pop \/ Signal(s),
         NEW u \in Sides, call'[u].pc \in {"evaluate", "asleep"}, ~late'[u]
  PROVE  \/ u = s /\ WaitEvent(u)
         \/ Waits(u) /\ call'[u].snap = call[u].snap /\ ~late[u]
<1>0. late \in [Sides -> BOOLEAN]
  BY DEF Kinds
<1>1. ASSUME call'[Peer(s)] = call[Peer(s)], u # s, late'[u] = late[u]
      PROVE  Waits(u) /\ call'[u].snap = call[u].snap /\ ~late[u]
  BY <1>1, SideFacts DEF Waits
<1>2. CASE SendCall
  BY <1>2, Entering, SideFacts DEF SendCall, Reaches, Transfer, Waits
<1>3. CASE RecvCall
  BY <1>3, Entering, SideFacts DEF RecvCall, Reaches, Transfer, Waits
<1>4. CASE WaitEvent(s)
  <2>1. late' = [late EXCEPT ![s] = Served(s)] /\ call'[Peer(s)] = call[Peer(s)]
    BY <1>4, Snapshot DEF WaitEvent, Restarts
  <2>. QED  BY <1>0, <1>1, <1>4, <2>1
<1>11. CASE WaitWithoutQueue(s)
  <2>1. /\ late' = late /\ call'[s].pc \notin {"evaluate", "asleep"}
        /\ call'[Peer(s)] = call[Peer(s)]
    BY <1>11, GoesWithoutQueue DEF WaitWithoutQueue, Reaches
  <2>. QED  BY <1>1, <2>1
<1>5. CASE Evaluate(s)
  <2>1. At(s, "evaluate") /\ (late' = [late EXCEPT ![s] = FALSE] \/ late' = late)
    BY <1>5 DEF Evaluate
  <2>2. \/ Restarts(s, "again")
        \/ Reaches(s, "asleep") /\ late' = late
    BY <1>5, Evaluated
  <2>3. CASE u = s
    BY <2>1, <2>2, <2>3 DEF Restarts, Reaches, Waits, At
  <2>4. CASE u # s
    <3>1. late'[u] = late[u] /\ call'[Peer(s)] = call[Peer(s)]
      BY <1>0, <2>1, <2>2, <2>4 DEF Restarts, Reaches
    <3>. QED  BY <1>1, <2>4, <3>1
  <2>. QED  BY <2>3, <2>4
<1>6. CASE Run(s)
  <2>1. At(s, "asleep") /\ late' = late /\ Reaches(s, "evaluate")
    BY <1>6, Running DEF Run
  <2>2. CASE u = s
    BY <2>1, <2>2 DEF Reaches, Waits, At
  <2>. QED  BY <1>1, <2>1, <2>2 DEF Reaches
<1>7. CASE Again(s)
  <2>1. /\ late' = late /\ call'[s].pc \notin {"evaluate", "asleep"}
        /\ call'[Peer(s)] = call[Peer(s)]
    BY <1>7, GoesAgain DEF Again, Restarts, Reaches, Transfer
  <2>. QED  BY <1>1, <2>1
<1>8. CASE Push
  BY <1>8, Pushing, TransfersLeaveAlone, SideFacts DEF Waits
<1>9. CASE Pop
  BY <1>9, Popping, TransfersLeaveAlone, SideFacts DEF Waits
<1>10. CASE Signal(s)
  <2>1. /\ late' = late /\ call'[s].pc = "idle" /\ call'[Peer(s)] = call[Peer(s)]
    BY <1>10, Returning, SignalsLeaveAlone DEF Signal, Restarts
  <2>. QED  BY <1>1, <2>1
<1>. QED  BY <1>2, <1>3, <1>4, <1>5, <1>6, <1>7, <1>8, <1>9, <1>10, <1>11 DEF InCall

\* How many signals came behind a step.
LEMMA MovedBy ==
  ASSUME NEW s \in Sides, NEW d \in Nat, NEW p \in Int, NEW q \in Int, NEW a \in Int,
         NEW l \in Int,
         p = sig'[s], q = call'[s].snap, a = Announces(s)', l = Limit(s)',
         Multiple(p - q - d), Served(s)' => d + a >= 1, d + a <= l
  PROVE  \E e \in Nat : Moved(s, e)'
<1>1. Moved(s, d)'
  BY DEF Moved
<1>. QED  BY <1>1

LEMMA LimitKinds ==
  ASSUME Kinds, RingOK, NEW s \in Sides
  PROVE  /\ Limit(s) \in Int /\ 1 <= Limit(s) /\ Limit(s) < CounterRange
         /\ Announces(s) \in Int /\ Announces(s) >= 0 /\ Announces(s) <= 1
         /\ sig[s] \in Counter /\ sig[s] \in Int
         /\ call[s].snap \in Counter /\ call[s].snap \in Int
<1>1. /\ count \in Nat /\ count <= Slots /\ Slots \in Nat
      /\ CounterRange \in Nat /\ Slots + 1 < CounterRange
  BY Occupancy, Numbers
<1>2. sig[s] \in Counter /\ call[s].snap \in Counter
  BY DEF Kinds, Calls
<1>. QED  BY <1>1, <1>2 DEF Limit, Announces, Counter

\* The steps of others while a task waits.
LEMMA MovesKept ==
  ASSUME Kinds, Kinds', RingOK, NEW s \in Sides, Waits(s),
         NEW d \in Nat, Moved(s, d), call'[s].snap = call[s].snap,
         \/ Quietly
         \/ Arrives /\ s = "rx"
         \/ Leaves /\ s = "tx"
         \/ Told(s) \/ Told(Peer(s))
  PROVE  \E e \in Nat : Moved(s, e)'
<1> DEFINE p == sig[s]
           q == call[s].snap
           a == Announces(s)
           l == Limit(s)
<1>1. /\ p \in Int /\ q \in Int /\ a \in Int /\ a >= 0 /\ l \in Int /\ p \in Counter
      /\ call'[s].snap = q
  BY LimitKinds
<1>2. Multiple(p - q - d) /\ (Served(s) => d + a >= 1) /\ d + a <= l
  BY DEF Moved
<1>3. CASE Quietly \/ Told(Peer(s))
  <2>1. sig'[s] = p /\ Announces(s)' = a /\ UNCHANGED <<head, tail, count>>
    BY <1>3, SideFacts DEF Quietly, Told, Sides
  <2>2. Limit(s)' = l /\ (Served(s)' <=> Served(s))
    BY <2>1 DEF Limit, Served, Fits, MoreThanHeader
  <2> HIDE DEF p, q, a, l
  <2>. QED  BY <1>1, <1>2, <2>1, <2>2, MovedBy
<1>4. CASE (Arrives /\ s = "rx") \/ (Leaves /\ s = "tx")
  <2>1. /\ sig'[s] = p /\ a = 0 /\ Announces(s)' = 1
    BY <1>4 DEF Arrives, Leaves
  <2>2. Limit(s)' = l + 1
    <3>1. count \in Nat /\ Slots \in Nat
      BY Occupancy, Numbers
    <3>2. CASE Arrives /\ s = "rx"
      BY <3>1, <3>2 DEF Arrives, Limit
    <3>3. CASE Leaves /\ s = "tx"
      BY <3>1, <3>3 DEF Leaves, Limit
    <3>. QED  BY <1>4, <3>2, <3>3
  <2> HIDE DEF p, q, a, l
  <2>3. d + 1 >= 1 /\ d + 1 <= l + 1 /\ l + 1 \in Int /\ 1 \in Int
    BY <1>1, <1>2, <2>1
  <2>. QED  BY <1>1, <1>2, <2>1, <2>2, <2>3, MovedBy
<1>5. CASE Told(s)
  <2>1. /\ sig'[s] = Plus1(p) /\ a = 1 /\ Announces(s)' = 0
        /\ UNCHANGED <<head, tail, count>>
    BY <1>5 DEF Told
  <2>2. Limit(s)' = l
    BY <2>1 DEF Limit
  <2>3. Plus1(p) \in Int /\ p - q - d \in Int
    BY <1>1, Counted, Numbers DEF Counter
  <2>4. Multiple((p - q - d) + (Plus1(p) - (p + 1)))
    BY <1>1, <1>2, <2>3, CountedIn
  <2> HIDE DEF p, q, a, l
  <2>5. (p - q - d) + (Plus1(p) - (p + 1)) = Plus1(p) - q - (d + 1)
    BY <1>1, <2>3
  <2>6. /\ Multiple(Plus1(p) - q - (d + 1)) /\ d + 1 \in Nat /\ 0 \in Int
        /\ (d + 1) + 0 >= 1 /\ (d + 1) + 0 <= l
    BY <1>1, <1>2, <2>1, <2>4, <2>5
  <2>. QED  BY <1>1, <2>1, <2>2, <2>3, <2>6, MovedBy
<1>. QED  BY <1>3, <1>4, <1>5

LEMMA MovesNext ==
  ASSUME Kinds, Kinds', RingOK, MovesOK, [Next]_vars
  PROVE  MovesOK'
<1> SUFFICES ASSUME NEW u \in Sides, call'[u].pc \in {"evaluate", "asleep"},
                    ~late'[u], ~erased'
             PROVE  \E e \in Nat : Moved(u, e)'
  BY DEF MovesOK, Waits
<1>1. ASSUME Waits(u), ~late[u], ~erased, call'[u].snap = call[u].snap,
             \/ Quietly
             \/ Arrives /\ u = "rx"
             \/ Leaves /\ u = "tx"
             \/ Told(u) \/ Told(Peer(u))
      PROVE  \E e \in Nat : Moved(u, e)'
  <2>1. PICK d \in Nat : Moved(u, d)
    BY <1>1 DEF MovesOK
  <2>. QED  BY <1>1, <2>1, MovesKept
<1>2. ASSUME NEW s \in Sides, Initialize(s)
      PROVE  FALSE
  <2>1. At(u, "idle") /\ UNCHANGED call
    BY <1>2, ErasedNothing DEF Initialize, tasks
  <2>. QED  BY <2>1 DEF At
<1>3. ASSUME NEW s \in Sides, LaterLife(s) \/ Handler(s) \/ CallbackReturns
      PROVE  \E e \in Nat : Moved(u, e)'
  <2>1. Quietly /\ UNCHANGED <<call, late, erased>>
    BY <1>3, QuietHandlers, LifeLeavesAlone, HandlersLeaveAlone
  <2>. QED  BY <1>1, <2>1 DEF Waits
<1>4. ASSUME NEW s \in Sides, InCall(s)
      PROVE  \E e \in Nat : Moved(u, e)'
  <2>1. Quietly /\ ~erased
    BY <1>4, QuietCalls, CallsLeaveAlone
  <2>2. CASE Waits(u) /\ call'[u].snap = call[u].snap /\ ~late[u]
    BY <1>1, <2>1, <2>2
  <2>3. CASE WaitEvent(u)
    <3>1. call'[u].snap = sig[u]
      BY <2>3, Snapshot
    <3>2. /\ Announces(u)' = Announces(u) /\ UNCHANGED <<sig, head, tail, count>>
      BY <2>1 DEF Quietly, Sides
    <3>3. Limit(u)' = Limit(u) /\ (Served(u)' <=> Served(u))
      BY <3>2 DEF Limit, Served, Fits, MoreThanHeader
    <3>4. ~Served(u)
      BY <2>3 DEF WaitEvent, Kinds
    <3> DEFINE p == sig[u]
               a == Announces(u)
               l == Limit(u)
    <3>5. p \in Int /\ a \in Int /\ l \in Int /\ a <= 1 /\ 1 <= l
      BY LimitKinds
    <3>6. sig'[u] = p /\ call'[u].snap = p /\ Announces(u)' = a /\ Limit(u)' = l
      BY <3>1, <3>2, <3>3
    <3> HIDE DEF p, a, l
    <3>7. p - p - 0 = 0 /\ 0 + a <= l /\ 0 \in Nat
      BY <3>5
    <3>8. Multiple(p - p - 0)
      BY <3>7, Counted
    <3>. QED  BY <3>3, <3>4, <3>5, <3>6, <3>7, <3>8, MovedBy
  <2>. QED  BY <1>4, <2>2, <2>3, WaitsOn
<1>5. ASSUME Push \/ Pop
      PROVE  \E e \in Nat : Moved(u, e)'
  <2>1. Waits(u) /\ call'[u].snap = call[u].snap /\ ~late[u]
    BY <1>5, WaitsOn, SideFacts DEF WaitEvent, Push, Pop, At, Waits
  <2>2. ~erased
    BY <1>5, TransfersLeaveAlone
  <2>3. CASE Push
    <3>1. (Arrives \/ Quietly) /\ u = "rx"
      BY <2>1, <2>3, PushArrives DEF Push, At, Waits, Sides
    <3>. QED  BY <1>1, <2>1, <2>2, <3>1
  <2>4. CASE Pop
    <3>1. (Quietly \/ Leaves) /\ u = "tx"
      BY <2>1, <2>4, PopLeaves DEF Pop, At, Waits, Sides
    <3>. QED  BY <1>1, <2>1, <2>2, <3>1
  <2>. QED  BY <1>5, <2>3, <2>4
<1>6. ASSUME NEW s \in Sides, Signal(s)
      PROVE  \E e \in Nat : Moved(u, e)'
  <2>1. Told(Peer(s)) /\ ~erased
    BY <1>6, SignalTells, SignalsLeaveAlone
  <2>2. Waits(u) /\ call'[u].snap = call[u].snap /\ ~late[u]
    <3>1. call'[s].pc = "idle" /\ At(s, "signal")
      BY <1>6, Returning DEF Signal, Restarts
    <3>2. u # s
      BY <3>1
    <3>. QED  BY <1>6, <3>2, WaitsOn
  <2>3. Told(u) \/ Told(Peer(u))
    BY <2>1, SideFacts
  <2>. QED  BY <1>1, <2>1, <2>2, <2>3
<1>7. CASE SignalInCallback
  <2>1. Told("tx") /\ UNCHANGED <<call, late, erased>>
    BY <1>7, CallbackTells DEF SignalInCallback, tasks
  <2>2. Told(u) \/ Told(Peer(u))
    BY <2>1, SideFacts DEF Sides
  <2>. QED  BY <1>1, <2>1, <2>2 DEF Waits
<1>8. CASE ReceiveInCallback
  <2>1. UNCHANGED <<call, late, erased>>
    BY <1>8, ReceiveLeavesAlone
  <2>2. At("rx", "idle")
    BY <1>8 DEF ReceiveInCallback, HandlerAt, Kinds
  <2>3. u = "tx"
    BY <2>1, <2>2 DEF At, Sides
  <2>4. Quietly \/ Leaves
    BY <1>8, PopLeaves
  <2>. QED  BY <1>1, <2>1, <2>3, <2>4 DEF Waits
<1>9. CASE UNCHANGED vars
  <2>1. UNCHANGED <<sig, head, tail, count, erased, callback, call, handler, late>>
    BY <1>9 DEF vars, fifo, counters, tasks, history
  <2>2. Announces("tx")' = Announces("tx") /\ Announces("rx")' = Announces("rx")
    BY <2>1, StillAnnouncing DEF At, HandlerAt
  <2>. QED  BY <1>1, <2>1, <2>2 DEF Quietly, Waits
<1>. QED  BY <1>2, <1>3, <1>4, <1>5, <1>6, <1>7, <1>8, <1>9, Steps, SideFacts

\* A task that evaluates its condition and cannot go on is told when it could.
LEMMA AnnouncedAsleep ==
  ASSUME Kinds, RingOK, MovesOK, NEW s \in Sides, At(s, "evaluate"), ~late[s], ~erased,
         ~WaitCondition(s), Served(s)
  PROVE  Announces(s) = 1
<1> DEFINE p == sig[s]
           q == call[s].snap
           a == Announces(s)
           l == Limit(s)
<1>1. PICK d \in Nat : Moved(s, d)
  BY DEF MovesOK, Waits, At
<1>2. /\ Multiple(p - q - d) /\ d + a >= 1 /\ d + a <= l /\ p = q
  BY <1>1 DEF Moved, WaitCondition
<1>3. /\ p \in Int /\ q \in Int /\ l \in Int /\ l < CounterRange /\ a \in Int
      /\ a >= 0 /\ a <= 1 /\ CounterRange \in Nat
  BY LimitKinds, Numbers
<1> HIDE DEF p, q, a, l
<1>4. p - q - d = 0 - d /\ 0 - d \in Int /\ d < CounterRange
  BY <1>2, <1>3
<1>5. 0 - d = 0
  BY <1>2, <1>3, <1>4, SmallMultiple
<1>6. a = 1
  BY <1>2, <1>3, <1>5
<1>. QED  BY <1>6 DEF a

\* A sender that waits has published its size.
LEMMA PendingNext ==
  ASSUME Kinds, PendingOK, [Next]_vars
  PROVE  PendingOK'
<1> DEFINE asks == {"wait", "evaluate", "asleep", "again"}
<1>1. ASSUME call["tx"].pc \in asks => pendingSize = MsgSize \/ erased,
             call'["tx"].pc \in asks => call["tx"].pc \in asks,
             UNCHANGED <<pendingSize, erased>>
      PROVE  PendingOK'
  BY <1>1 DEF PendingOK
<1>2. call["tx"].pc \in asks => pendingSize = MsgSize \/ erased
  BY DEF PendingOK
<1>3. ASSUME NEW s \in Sides, Initialize(s)
      PROVE  PendingOK'
  <2>1. UNCHANGED call
    BY <1>3 DEF Initialize, tasks
  <2>2. ~erased' => At("tx", "idle")
    BY <1>3, ErasedNothing, SideFacts
  <2>. QED  BY <2>1, <2>2 DEF PendingOK, At
<1>4. ASSUME NEW s \in Sides,
             LaterLife(s) \/ Handler(s) \/ CallbackReturns \/ ReceiveInCallback
      PROVE  PendingOK'
  <2>1. UNCHANGED <<call, pendingSize, erased>>
    BY <1>4, LifeLeavesAlone, HandlersLeaveAlone, ReceiveLeavesAlone
  <2>. QED  BY <1>1, <1>2, <2>1
<1>5. CASE SendCall
  <2>1. /\ Reaches("tx", IF Served("tx") THEN "push" ELSE "wait")
        /\ pendingSize' = IF Served("tx") THEN pendingSize ELSE MsgSize
    BY <1>5, Entering, SideFacts DEF SendCall, Transfer, Served
  <2>. QED  BY <2>1 DEF PendingOK, Reaches
<1>6. CASE RecvCall
  <2>1. call'["tx"] = call["tx"] /\ UNCHANGED <<pendingSize, erased>>
    BY <1>6, Entering, SideFacts DEF RecvCall, Reaches, fifo, history
  <2>. QED  BY <1>1, <1>2, <2>1
<1>7. ASSUME NEW s \in Sides,
             WaitEvent(s) \/ WaitWithoutQueue(s) \/ Evaluate(s) \/ Run(s)
      PROVE  PendingOK'
  <2>1. UNCHANGED <<pendingSize, erased>>
    BY <1>7 DEF WaitEvent, WaitWithoutQueue, Evaluate, Run, fifo, history
  <2>2. call[s].pc \in asks /\ call'[Peer(s)] = call[Peer(s)]
    BY <1>7, Snapshot, GoesWithoutQueue, Evaluated, Running
       DEF WaitEvent, WaitWithoutQueue, Evaluate, Run, At, Reaches, Restarts
  <2>. QED  BY <1>1, <1>2, <2>1, <2>2, SideFacts
<1>8. ASSUME NEW s \in Sides, Again(s)
      PROVE  PendingOK'
  <2>1. UNCHANGED erased /\ At(s, "again")
    BY <1>8 DEF Again, history
  <2>2. CASE /\ Restarts(s, "idle") \/ Reaches(s, "wait")
             /\ UNCHANGED pendingSize
    <3>1. call'["tx"].pc \in asks => call["tx"].pc \in asks
      BY <2>1, <2>2, SideFacts DEF Restarts, Reaches, At
    <3>. QED  BY <1>1, <1>2, <2>1, <2>2, <3>1
  <2>3. CASE /\ Reaches(s, Transfer(s))
             /\ pendingSize' = IF s = "tx" THEN 0 ELSE pendingSize
    <3>1. CASE s = "tx"
      BY <2>3, <3>1 DEF Reaches, Transfer, PendingOK
    <3>2. CASE s = "rx"
      BY <1>1, <1>2, <2>1, <2>3, <3>2, SideFacts DEF Reaches
    <3>. QED  BY <3>1, <3>2 DEF Sides
  <2>. QED  BY <1>8, <2>2, <2>3, GoesAgain
<1>9. CASE Push \/ Pop
  <2>1. UNCHANGED <<pendingSize, erased>>
    BY <1>9, TransfersLeaveAlone
  <2>2. call'["tx"].pc \in asks => call["tx"].pc \in asks
    BY <1>9, Pushing, Popping DEF At
  <2>. QED  BY <1>1, <1>2, <2>1, <2>2
<1>10. ASSUME NEW s \in Sides, Signal(s) \/ SignalInCallback
       PROVE  PendingOK'
  <2>1. UNCHANGED <<pendingSize, erased>>
    BY <1>10, SignalsLeaveAlone
  <2>2. call'["tx"].pc \in asks => call["tx"].pc \in asks
    BY <1>10, Returning, SideFacts DEF Signal, SignalInCallback, Restarts, tasks
  <2>. QED  BY <1>1, <1>2, <2>1, <2>2
<1>11. CASE UNCHANGED vars
  BY <1>1, <1>2, <1>11 DEF vars, fifo, tasks, history
<1>. QED  BY <1>3, <1>4, <1>5, <1>6, <1>7, <1>8, <1>9, <1>10, <1>11, Steps,
             SideFacts DEF InCall
-----------------------------------------------------------------------------
(***************************************************************************)
(* Tasks that are asleep.                                                  *)
(***************************************************************************)

\* A task that sleeps behind a step fell asleep in it, or slept before.
FallsAsleep(u) ==
  /\ Evaluate(u) /\ At(u, "evaluate") /\ ~WaitCondition(u) /\ late'[u] = late[u]

SleepsOn(u) ==
  /\ At(u, "asleep") /\ late'[u] = late[u]
  /\ u \in waiting' => u \in waiting

LEMMA Sleepers ==
  ASSUME Kinds, NEW u \in Sides, call'[u].pc = "asleep", [Next]_vars
  PROVE  FallsAsleep(u) \/ SleepsOn(u)
<1>0. late \in [Sides -> BOOLEAN]
  BY DEF Kinds
<1>1. ASSUME NEW s \in Sides,
             Initialize(s) \/ LaterLife(s) \/ Handler(s) \/ CallbackReturns
             \/ ReceiveInCallback \/ SignalInCallback
      PROVE  SleepsOn(u)
  <2>1. UNCHANGED <<call, late>>
    BY <1>1, LifeLeavesAlone, HandlersLeaveAlone, ReceiveLeavesAlone
       DEF Initialize, SignalInCallback, tasks
  <2>2. waiting' \subseteq waiting
    <3>1. CASE Initialize(s) \/ SignalInCallback \/ ReceiveInCallback
      BY <3>1 DEF Initialize, SignalInCallback, ReceiveInCallback, tasks
    <3>2. CASE LaterLife(s)
      BY <3>2 DEF LaterLife, OsInitialize, MarkInitialized, OpenChannel,
         CloseChannel, Finalize, FinalizeChannel, FinalizeOops, FinalizeEnd, tasks
    <3>3. CASE Handler(s) \/ CallbackReturns
      BY <3>3 DEF Handler, HandlerStart, HandlerScan, CallbackReturns, WakeAndAck,
         tasks
    <3>. QED  BY <1>1, <3>1, <3>2, <3>3
  <2>. QED  BY <2>1, <2>2 DEF SleepsOn, At
<1>2. ASSUME NEW s \in Sides, call'[Peer(s)] = call[Peer(s)], u # s,
             late'[u] = late[u], u \in waiting' => u \in waiting
      PROVE  SleepsOn(u)
  BY <1>2, SideFacts DEF SleepsOn, At
<1>3. CASE SendCall
  <2>1. /\ call'["rx"] = call["rx"] /\ call'["tx"].pc # "asleep"
        /\ UNCHANGED <<waiting, late>> /\ "tx" \in Sides
    BY <1>3, Entering, SideFacts DEF SendCall, Reaches, Transfer
  <2>. QED  BY <1>2, <2>1, SideFacts
<1>4. CASE RecvCall
  <2>1. /\ call'["tx"] = call["tx"] /\ call'["rx"].pc # "asleep"
        /\ UNCHANGED <<waiting, late>> /\ "rx" \in Sides
    BY <1>4, Entering, SideFacts DEF RecvCall, Reaches, Transfer
  <2>. QED  BY <1>2, <2>1, SideFacts
<1>5. ASSUME NEW s \in Sides, WaitEvent(s)
      PROVE  SleepsOn(u)
  <2>1. /\ call'[s].pc = "evaluate" /\ call'[Peer(s)] = call[Peer(s)]
        /\ waiting' = waiting \union {s}
        /\ late' = [late EXCEPT ![s] = Served(s)]
    BY <1>5, Snapshot DEF WaitEvent, Restarts
  <2>2. u # s /\ late'[u] = late[u] /\ (u \in waiting' => u \in waiting)
    BY <1>0, <2>1
  <2>. QED  BY <1>2, <2>1, <2>2
<1>13. ASSUME NEW s \in Sides, WaitWithoutQueue(s)
       PROVE  SleepsOn(u)
  <2>1. /\ UNCHANGED <<late, waiting>> /\ call'[s].pc # "asleep"
        /\ call'[Peer(s)] = call[Peer(s)]
    BY <1>13, GoesWithoutQueue DEF WaitWithoutQueue, Reaches
  <2>. QED  BY <1>2, <2>1
<1>6. ASSUME NEW s \in Sides, Evaluate(s)
      PROVE  FallsAsleep(u) \/ SleepsOn(u)
  <2>1. /\ At(s, "evaluate")
        /\ late' = [late EXCEPT ![s] = FALSE] \/ late' = late
        /\ waiting' = waiting \ {s} \/ waiting' = waiting
    BY <1>6 DEF Evaluate
  <2>2. \/ Restarts(s, "again")
        \/ Reaches(s, "asleep") /\ ~WaitCondition(s) /\ late' = late
    BY <1>6, Evaluated
  <2>3. CASE u = s
    BY <1>6, <2>1, <2>2, <2>3 DEF FallsAsleep, Restarts
  <2>4. CASE u # s
    <3>1. /\ late'[u] = late[u] /\ call'[Peer(s)] = call[Peer(s)]
          /\ u \in waiting' => u \in waiting
      BY <1>0, <2>1, <2>2, <2>4 DEF Restarts, Reaches
    <3>. QED  BY <1>2, <2>4, <3>1
  <2>. QED  BY <2>3, <2>4
<1>7. ASSUME NEW s \in Sides, Run(s)
      PROVE  SleepsOn(u)
  <2>1. /\ late' = late /\ Reaches(s, "evaluate") /\ waiting' = waiting \union {s}
    BY <1>7, Running DEF Run
  <2>2. u # s /\ (u \in waiting' => u \in waiting)
    BY <2>1 DEF Reaches
  <2>. QED  BY <1>2, <2>1, <2>2 DEF Reaches
<1>8. ASSUME NEW s \in Sides, Again(s)
      PROVE  SleepsOn(u)
  <2>1. /\ UNCHANGED <<late, waiting>> /\ call'[s].pc # "asleep"
        /\ call'[Peer(s)] = call[Peer(s)]
    BY <1>8, GoesAgain DEF Again, Restarts, Reaches, Transfer
  <2>. QED  BY <1>2, <2>1
<1>9. CASE Push
  <2>1. /\ call'["rx"] = call["rx"] /\ call'["tx"].pc # "asleep"
        /\ UNCHANGED <<waiting, late>> /\ "tx" \in Sides
    BY <1>9, Pushing, TransfersLeaveAlone, SideFacts
  <2>. QED  BY <1>2, <2>1, SideFacts
<1>10. CASE Pop
  <2>1. /\ call'["tx"] = call["tx"] /\ call'["rx"].pc # "asleep"
        /\ UNCHANGED <<waiting, late>> /\ "rx" \in Sides
    BY <1>10, Popping, TransfersLeaveAlone, SideFacts
  <2>. QED  BY <1>2, <2>1, SideFacts
<1>11. ASSUME NEW s \in Sides, Signal(s)
       PROVE  SleepsOn(u)
  <2>1. /\ UNCHANGED <<late, waiting>> /\ call'[s].pc # "asleep"
        /\ call'[Peer(s)] = call[Peer(s)]
    BY <1>11, Returning, SignalsLeaveAlone DEF Signal, Restarts
  <2>. QED  BY <1>2, <2>1
<1>12. CASE UNCHANGED vars
  BY <1>12 DEF SleepsOn, At, vars, tasks
<1>. QED  BY <1>1, <1>3, <1>4, <1>5, <1>6, <1>7, <1>8, <1>9, <1>10, <1>11, <1>12,
             <1>13, Steps, SideFacts DEF InCall

\* FinalizeReaches.
Reachable(u) ==
  /\ config[u] /\ endpoint[u] = "OPEN" /\ HasQueue(u)
  /\ node[u] = "UNINIT" => LifeAt(u, "wake")

LEMMA ReachesNext ==
  ASSUME Kinds, LifeOK, AbandonedOK, QueueOK, FinalizeReaches, [Next]_vars
  PROVE  FinalizeReaches'
<1> SUFFICES ASSUME NEW u \in Sides, call'[u].pc = "asleep", u \in waiting'
             PROVE  u \in abandoned' \/ Reachable(u)'
  BY DEF FinalizeReaches, At, Reachable
<1>0. node \in [Sides -> {"BLANK", "UNINIT", "INIT"}]
      /\ life \in [Sides -> {"idle", "os", "mark", "wake", "oops", "end"}]
      /\ endpoint \in [Sides -> {"CLOSED", "OPEN"}] /\ config \in [Sides -> BOOLEAN]
  BY DEF Kinds
<1>1. ASSUME UNCHANGED <<node, config, setup, endpoint, life, abandoned>>,
             u \in abandoned \/ Reachable(u)
      PROVE  u \in abandoned' \/ Reachable(u)'
  BY <1>1 DEF Reachable, LifeAt, HasQueue
<1>2. CASE FallsAsleep(u)
  <2>1. /\ ~At(u, "idle") /\ Waits(u) /\ node[u] # "UNINIT"
        /\ UNCHANGED <<node, config, setup, endpoint, life, abandoned>>
    BY <1>2, CallsLeaveAlone DEF FallsAsleep, InCall, WaitCondition, At, Waits
  <2>2. config[u] /\ life[u] \notin {"wake", "oops", "end"}
    BY <1>0, <2>1 DEF LifeOK
  <2>3. u \in abandoned \/ (endpoint[u] = "OPEN" /\ HasQueue(u))
    BY <1>0, <2>1, <2>2 DEF AbandonedOK, QueueOK, LifeAt
  <2>. QED  BY <1>1, <2>1, <2>2, <2>3 DEF Reachable
<1>3. CASE SleepsOn(u)
  <2>1. At(u, "asleep") /\ ~At(u, "idle") /\ u \in waiting
    BY <1>3 DEF SleepsOn, At
  <2>2. u \in abandoned \/ Reachable(u)
    BY <2>1 DEF FinalizeReaches, Reachable
  <2>3. config[u] /\ endpoint[u] = "CLOSED" /\ life[u] # "end" => u \in abandoned
    BY <2>1 DEF AbandonedOK, LifeAt
  <2>4. ASSUME NEW s \in Sides, Initialize(s) \/ LaterLife(s), u # s
        PROVE  u \in abandoned' \/ Reachable(u)'
    BY <2>2, <2>4, OneNode DEF Reachable, LifeAt, HasQueue
  <2>5. CASE Initialize(u)
    BY <2>1, <2>5, OwnNode
  <2>6. CASE LaterLife(u)
    <3>1. CASE OsInitialize(u) \/ MarkInitialized(u)
      <4>1. life[u] \in {"os", "mark"} /\ abandoned' = abandoned
        BY <3>1, OwnNode DEF LifeAt
      <4>. QED  BY <2>2, <4>1 DEF LifeOK, Reachable
    <3>2. CASE OpenChannel(u)
      BY <2>2, <3>2, OwnNode DEF Reachable
    <3>3. CASE CloseChannel(u)
      BY <2>1, <3>3, OwnNode
    <3>4. CASE Finalize(u)
      BY <2>2, <3>4, OwnNode DEF Reachable, LifeAt, HasQueue
    <3>5. CASE FinalizeChannel(u) \/ FinalizeOops(u)
      BY <2>2, <3>5, OwnNode DEF Reachable
    <3>6. CASE FinalizeEnd(u)
      <4>1. life[u] = "end" /\ abandoned' = abandoned
        BY <3>6, OwnNode DEF LifeAt
      <4>. QED  BY <2>2, <4>1 DEF LifeOK, Reachable
    <3>. QED  BY <2>6, <3>1, <3>2, <3>3, <3>4, <3>5, <3>6 DEF LaterLife
  <2>7. ASSUME NEW s \in Sides,
               InCall(s) \/ Push \/ Pop \/ Signal(s) \/ SignalInCallback \/ Handler(s)
               \/ CallbackReturns \/ ReceiveInCallback
        PROVE  u \in abandoned' \/ Reachable(u)'
    BY <1>1, <2>2, <2>7, CallsLeaveAlone, TransfersLeaveAlone, SignalsLeaveAlone,
       HandlersLeaveAlone, ReceiveLeavesAlone
  <2>8. CASE UNCHANGED vars
    BY <1>1, <2>2, <2>8 DEF vars, nodes, history
  <2>. QED  BY <2>4, <2>5, <2>6, <2>7, <2>8, Steps, SideFacts
<1>. QED  BY <1>2, <1>3, Sleepers
-----------------------------------------------------------------------------
(***************************************************************************)
(* The wake-up to come.                                                    *)
(***************************************************************************)
Oversleeps(s) ==
  At(s, "asleep") /\ s \in waiting /\ Served(s) /\ node[s] = "INIT"

Notified(s) == sig[s] # ack[s] /\ (notify[s] \/ handler[s] # "idle")

Excused(s) == late[s] \/ erased \/ masked[s]

LEMMA WakeupForms ==
  /\ WakeupUnlessLate <=>
       \A s \in Sides : Oversleeps(s) => Announces(s) = 1 \/ Notified(s) \/ Excused(s)
  /\ WakeupUnlessLate' <=>
       \A s \in Sides : Oversleeps(s)' => \/ Announces(s)' = 1
                                          \/ Notified(s)' \/ Excused(s)'
BY DEF WakeupUnlessLate, Oversleeps, Announces, Notified, Excused, At, HandlerAt

\* What a task that sleeps on was owed, it is still owed.
LEMMA StillOwed ==
  ASSUME Kinds, RingOK, WakeupUnlessLate, NEW u \in Sides, SleepsOn(u), Oversleeps(u)',
         node[u] = "INIT", Quietly,
         Excused(u) => Excused(u)',
         Notified(u) => Notified(u)'
  PROVE  Announces(u)' = 1 \/ Notified(u)' \/ Excused(u)'
<1>1. UNCHANGED <<head, tail>> /\ Announces(u)' = Announces(u)
  BY DEF Quietly, Sides
<1>2. Served(u)
  BY <1>1 DEF Oversleeps, Served, Fits, MoreThanHeader
<1>3. Oversleeps(u)
  BY <1>2 DEF Oversleeps, SleepsOn
<1>. QED  BY <1>1, <1>3, WakeupForms

\* A signal to it raises its interrupt, and leaves its counters apart or marks
\* that they met.
LEMMA SignalOwed ==
  ASSUME Kinds, NEW u \in Sides, SignalPeer(Peer(u)), ack' = ack
  PROVE  Notified(u)' \/ Excused(u)'
<1>1. Peer(u) \in Sides /\ Peer(Peer(u)) = u
  BY SideFacts
<1>2. sig'[u] = Plus1(sig[u]) /\ notify'[u] = TRUE
  BY <1>1, SignalCounts
<1>3. CASE Plus1(sig[u]) # ack[u]
  BY <1>2, <1>3 DEF Notified
<1>4. CASE Plus1(sig[u]) = ack[u]
  <2>1. /\ masked' = [masked EXCEPT ![u] = Plus1(sig[u]) = ack[u]]
        /\ masked \in [Sides -> BOOLEAN]
    BY <1>1 DEF SignalPeer, Kinds
  <2>. QED  BY <1>4, <2>1 DEF Excused
<1>. QED  BY <1>3, <1>4

\* Its handler wakes it up before it acknowledges.
LEMMA HandlerOwed ==
  ASSUME Kinds, RingOK, LifeOK, PendingOK, NEW s \in Sides, Handler(s),
         NEW u \in Sides, SleepsOn(u), Oversleeps(u)', node[u] = "INIT", ~erased
  PROVE  Notified(u) => Notified(u)'
<1>0. /\ handler \in [Sides -> {"idle", "scan", "callback", "callback_signal",
                                "stuck", "wake"}]
      /\ notify \in [Sides -> BOOLEAN]
  BY DEF Kinds
<1>1. UNCHANGED <<sig, node, head, tail>>
  BY HandlersLeaveAlone
<1>2. CASE HandlerStart(s)
  <2>1. /\ handler' = [handler EXCEPT ![s] = IF config[s] /\ node[s] # "UNINIT"
                                               THEN "scan" ELSE "idle"]
        /\ notify' = [notify EXCEPT ![s] = FALSE] /\ ack' = ack
    BY <1>2 DEF HandlerStart, HandlerGoto, counters
  <2>2. CASE u = s
    <3>1. config[u]
      BY DEF LifeOK
    <3>2. handler'[u] = "scan"
      BY <1>0, <2>1, <2>2, <3>1
    <3>. QED  BY <1>1, <2>1, <3>2 DEF Notified
  <2>3. CASE u # s
    BY <1>0, <1>1, <2>1, <2>3 DEF Notified
  <2>. QED  BY <2>2, <2>3
<1>3. CASE HandlerScan(s)
  <2>1. CASE sig[s] = ack[s]
    <3>1. /\ handler' = [handler EXCEPT ![s] = "idle"] /\ ack' = ack /\ notify' = notify
      BY <1>3, <2>1 DEF HandlerScan, HandlerGoto
    <3>. QED  BY <1>0, <1>1, <2>1, <3>1 DEF Notified
  <2>2. CASE HandlerGoto(s, "callback") /\ UNCHANGED ack
    <3>1. handler' = [handler EXCEPT ![s] = "callback"] /\ notify' = notify
      BY <1>3, <2>2 DEF HandlerScan, HandlerGoto
    <3>. QED  BY <1>0, <1>1, <2>2, <3>1 DEF Notified
  <2>3. CASE WakeAndAck(s) /\ UNCHANGED handler
    <3>1. CASE u # s
      <4>1. ack'[u] = ack[u] /\ notify' = notify
        BY <1>3, <2>3, <3>1, Acknowledged, SideFacts DEF HandlerScan
      <4>. QED  BY <1>1, <2>3, <4>1 DEF Notified
    <3>2. CASE u = s
      <4>1. WakesUp(u)
        <5>1. CASE u = "tx"
          <6>1. pendingSize = MsgSize /\ MsgSize # 0
            BY <5>1, Numbers DEF SleepsOn, At, PendingOK
          <6>2. Fits(MsgSize)
            BY <1>1, <5>1 DEF Oversleeps, Served, Fits
          <6>. QED  BY <6>1, <6>2 DEF WakesUp
        <5>2. CASE u = "rx"
          BY <5>2 DEF WakesUp
        <5>. QED  BY <5>1, <5>2 DEF Sides
      <4>2. u \notin waiting'
        BY <2>3, <3>2, <4>1 DEF WakeAndAck
      <4>. QED  BY <4>2 DEF Oversleeps
    <3>. QED  BY <3>1, <3>2
  <2>. QED  BY <1>3, <2>1, <2>2, <2>3 DEF HandlerScan
<1>. QED  BY <1>2, <1>3 DEF Handler

LEMMA WakeNext ==
  ASSUME Kinds, Kinds', LifeOK, RingOK, MovesOK, PendingOK, WakeupUnlessLate,
         [Next]_vars
  PROVE  WakeupUnlessLate'
<1> SUFFICES ASSUME NEW u \in Sides, Oversleeps(u)', ~erased'
             PROVE  Announces(u)' = 1 \/ Notified(u)' \/ Excused(u)'
  BY WakeupForms DEF Excused
<1>1. CASE FallsAsleep(u)
  <2>1. Quietly /\ ~erased /\ InCall(u)
    BY <1>1, QuietCalls, CallsLeaveAlone DEF FallsAsleep, InCall
  <2>2. Announces(u)' = Announces(u) /\ Served(u)
    BY <2>1 DEF Quietly, Sides, Oversleeps, Served, Fits, MoreThanHeader
  <2>3. CASE late[u]
    BY <1>1, <2>3 DEF FallsAsleep, Excused
  <2>4. CASE ~late[u]
    <3>1. Announces(u) = 1
      BY <1>1, <2>1, <2>2, <2>4, AnnouncedAsleep DEF FallsAsleep
    <3>. QED  BY <2>2, <3>1
  <2>. QED  BY <2>3, <2>4
<1>2. CASE SleepsOn(u)
  <2>0. At(u, "asleep") /\ ~At(u, "idle") /\ late'[u] = late[u] /\ node'[u] = "INIT"
    BY <1>2 DEF SleepsOn, At, Oversleeps
  <2>1. ASSUME NEW s \in Sides, Initialize(s)
        PROVE  FALSE
    BY <2>0, <2>1, ErasedNothing
  <2>2. ASSUME NEW s \in Sides, LaterLife(s)
        PROVE  Announces(u)' = 1 \/ Notified(u)' \/ Excused(u)'
    <3>1. UNCHANGED <<sig, ack, handler, erased, masked>> /\ Quietly
      BY <2>2, LifeLeavesAlone, QuietHandlers
    <3>2. ~(u = s /\ (OsInitialize(s) \/ MarkInitialized(s)))
      BY <2>0, <3>1 DEF LifeOK, OsInitialize, MarkInitialized, LifeAt
    <3>3. node[u] = "INIT"
      <4>1. CASE u # s
        BY <2>0, <2>2, <4>1, OneNode
      <4>2. CASE u = s
        BY <2>0, <2>2, <3>2, <4>2, OwnNode DEF LaterLife
      <4>. QED  BY <4>1, <4>2
    <3>4. notify[u] => notify'[u]
      BY <2>2, <3>2 DEF LaterLife, OsInitialize, MarkInitialized, OpenChannel,
         CloseChannel, Finalize, FinalizeChannel, FinalizeOops, FinalizeEnd, Raise, Kinds
    <3>. QED  BY <1>2, <2>0, <3>1, <3>3, <3>4, StillOwed DEF Notified, Excused
  <2>3. ASSUME NEW s \in Sides, InCall(s)
        PROVE  Announces(u)' = 1 \/ Notified(u)' \/ Excused(u)'
    <3>1. /\ UNCHANGED <<sig, ack, notify, handler, node, erased, masked>> /\ Quietly
      BY <2>3, CallsLeaveAlone, QuietCalls
    <3>. QED  BY <1>2, <2>0, <3>1, StillOwed DEF Notified, Excused
  <2>4. CASE Push
    <3>1. (Arrives \/ Quietly) /\ u = "rx"
      BY <2>0, <2>4, PushArrives DEF Push, At, Sides
    <3>2. UNCHANGED <<sig, ack, notify, handler, node, erased, masked>>
      BY <2>4, TransfersLeaveAlone
    <3>3. CASE Quietly
      BY <1>2, <2>0, <3>2, <3>3, StillOwed DEF Notified, Excused
    <3>4. CASE Arrives
      BY <3>1, <3>4 DEF Arrives
    <3>. QED  BY <3>1, <3>3, <3>4
  <2>5. CASE Pop
    <3>1. UNCHANGED <<sig, ack, notify, handler, node, erased, masked>>
      BY <2>5, TransfersLeaveAlone
    <3>2. (Quietly \/ Leaves) /\ u = "tx"
      BY <2>0, <2>5, PopLeaves DEF Pop, At, Sides
    <3>3. CASE Quietly
      BY <1>2, <2>0, <3>1, <3>3, StillOwed DEF Notified, Excused
    <3>4. CASE Leaves
      BY <3>2, <3>4 DEF Leaves
    <3>. QED  BY <3>2, <3>3, <3>4
  <2>6. ASSUME NEW s \in Sides, Signal(s)
        PROVE  Announces(u)' = 1 \/ Notified(u)' \/ Excused(u)'
    <3>1. u # s
      BY <2>0, <2>6 DEF Signal, At
    <3>2. SignalPeer(Peer(u)) /\ ack' = ack
      BY <2>6, <3>1, SideFacts DEF Signal
    <3>. QED  BY <3>2, SignalOwed
  <2>7. CASE SignalInCallback
    <3>1. u # "rx"
      BY <2>0, <2>7 DEF SignalInCallback, HandlerAt, Kinds
    <3>2. SignalPeer(Peer(u)) /\ ack' = ack
      BY <2>7, <3>1, SideFacts DEF SignalInCallback, Sides
    <3>. QED  BY <3>2, SignalOwed
  <2>8. ASSUME NEW s \in Sides, Handler(s)
        PROVE  Announces(u)' = 1 \/ Notified(u)' \/ Excused(u)'
    <3>1. UNCHANGED <<node, erased, masked>> /\ Quietly
      BY <2>8, HandlersLeaveAlone, QuietHandlers
    <3>2. Notified(u) => Notified(u)'
      BY <1>2, <2>0, <2>8, <3>1, HandlerOwed
    <3>. QED  BY <1>2, <2>0, <3>1, <3>2, StillOwed DEF Excused
  <2>9. CASE CallbackReturns
    <3>1. UNCHANGED <<sig, node, erased, masked>> /\ Quietly
      BY <2>9, HandlersLeaveAlone, QuietHandlers, SideFacts
    <3>2. u = "tx"
      BY <2>0, <2>9 DEF CallbackReturns, HandlerAt, Kinds, Sides
    <3>3. ack'["tx"] = ack["tx"] /\ handler'["tx"] = handler["tx"] /\ notify' = notify
      BY <2>9, Acknowledged, SideFacts DEF CallbackReturns, HandlerGoto, Kinds
    <3>. QED  BY <1>2, <2>0, <3>1, <3>2, <3>3, StillOwed DEF Notified, Excused
  <2>10. CASE ReceiveInCallback
    <3>1. UNCHANGED <<sig, ack, notify, node, erased, masked>>
      BY <2>10, ReceiveLeavesAlone
    <3>2. u = "tx"
      BY <2>0, <2>10 DEF ReceiveInCallback, HandlerAt, Kinds, Sides
    <3>3. handler'["tx"] = handler["tx"]
      BY <2>10, SideFacts DEF ReceiveInCallback, HandlerGoto, Kinds
    <3>4. CASE Quietly
      BY <1>2, <2>0, <3>1, <3>2, <3>3, <3>4, StillOwed DEF Notified, Excused
    <3>5. CASE Leaves
      BY <3>2, <3>5 DEF Leaves
    <3>. QED  BY <2>10, <3>4, <3>5, PopLeaves
  <2>11. CASE UNCHANGED vars
    <3>1. UNCHANGED <<sig, ack, notify, handler, node, erased, masked, head, tail,
                      count, callback, call>>
      BY <2>11 DEF vars, fifo, counters, nodes, tasks, history
    <3>2. Announces("tx")' = Announces("tx") /\ Announces("rx")' = Announces("rx")
      BY <3>1, StillAnnouncing DEF At, HandlerAt
    <3>. QED  BY <1>2, <2>0, <3>1, <3>2, StillOwed DEF Notified, Excused, Quietly
  <2>. QED  BY <2>1, <2>2, <2>3, <2>4, <2>5, <2>6, <2>7, <2>8, <2>9, <2>10, <2>11,
               Steps
<1>. QED  BY <1>1, <1>2, Sleepers DEF Oversleeps, At

\* CallbackNeverWaits: nothing gets stuck but behind an erasure.
LEMMA CallbackNext ==
  ASSUME Kinds, Kinds', RingOK, UnackedOK, CallbackNeverWaits, [Next]_vars
  PROVE  CallbackNeverWaits'
<1>0. /\ handler \in [Sides -> {"idle", "scan", "callback", "callback_signal",
                                "stuck", "wake"}]
  BY DEF Kinds
<1>1. ASSUME handler'["rx"] = "stuck" => handler["rx"] = "stuck",
             erased => erased'
      PROVE  CallbackNeverWaits'
  BY <1>1 DEF CallbackNeverWaits, HandlerAt
<1>2. ASSUME NEW s \in Sides,
             \/ Initialize(s) \/ LaterLife(s) \/ InCall(s) \/ Push \/ Pop \/ Signal(s)
      PROVE  CallbackNeverWaits'
  <2>1. handler' = handler
    BY <1>2, LifeLeavesAlone, CallsLeaveAlone, TransfersLeaveAlone
       DEF Initialize, Signal
  <2>2. erased => erased'
    <3>1. CASE Initialize(s)
      BY <3>1, ErasedNothing
    <3>. QED  BY <1>2, <3>1, LifeLeavesAlone, CallsLeaveAlone, TransfersLeaveAlone,
                 SignalsLeaveAlone
  <2>. QED  BY <1>1, <2>1, <2>2
<1>3. ASSUME NEW s \in Sides, Handler(s) \/ CallbackReturns \/ SignalInCallback
      PROVE  CallbackNeverWaits'
  <2>1. erased' = erased
    BY <1>3, HandlersLeaveAlone, SignalsLeaveAlone
  <2>2. handler'["rx"] = "stuck" => handler["rx"] = "stuck"
    BY <1>0, <1>3, SideFacts DEF Handler, HandlerStart, HandlerScan, CallbackReturns,
       SignalInCallback, HandlerGoto
  <2>. QED  BY <1>1, <2>1, <2>2
<1>4. CASE ReceiveInCallback
  <2>1. erased' = erased /\ callback
    BY <1>4, ReceiveLeavesAlone DEF ReceiveInCallback, HandlerAt, Kinds
  <2>2. ~erased => handler'["rx"] # "stuck"
    BY <1>4, <2>1, UnackedReceive
  <2>. QED  BY <2>1, <2>2 DEF CallbackNeverWaits, HandlerAt
<1>5. CASE UNCHANGED vars
  BY <1>1, <1>5 DEF vars, history
<1>. QED  BY <1>2, <1>3, <1>4, <1>5, Steps, SideFacts
-----------------------------------------------------------------------------
(***************************************************************************)
(* The theorems.                                                           *)
(***************************************************************************)
LEMMA InitInv ==
  ASSUME Init
  PROVE  TransferInv
<1>1. Multiple(0) /\ 0 \in Counter /\ MsgSize \in Nat \ {0}
  BY Counted, Numbers
<1>2. Kinds
  <2>1. Idle \in Calls
    BY <1>1 DEF Idle, Calls, Places, Alarms
  <2>2. call \in [Sides -> Calls] /\ call["tx"].pc = "idle" /\ call["rx"].pc = "idle"
    BY <2>1, SideFacts DEF Init, Idle
  <2>3. /\ node \in [Sides -> {"BLANK", "UNINIT", "INIT"}]
        /\ setup \in [Sides -> Setups]
    BY DEF Init, Setups
  <2>. QED  BY <1>1, <2>2, <2>3, SideFacts DEF Init, Kinds, At
<1>3. \A s \in Sides : At(s, "idle") /\ HandlerAt(s, "idle") /\ Announces(s) = 0
  BY SideFacts DEF Init, Idle, At, HandlerAt, Announces
<1>4. LifeOK /\ AbandonedOK /\ QueueOK
  BY <1>3 DEF Init, LifeOK, AbandonedOK, QueueOK, Waits, At, LifeAt
<1>5. RingOK
  <2>1. 0 \in Index /\ PendingBytes(0, 0) = Size * 0
    BY Numbers DEF Index, PendingBytes, WrappedAround
  <2>. QED  BY <1>3, <2>1, Numbers, SideFacts DEF Init, RingOK, At
<1>6. SendsOK
  BY <1>3, SideFacts, Sac58rAssumption DEF Init, SendsOK, Unpushed, At
<1>7. CountOK
  <2>1. Balance = 0
    BY <1>3, SideFacts DEF Init, Balance
  <2>. QED  BY <1>1, <2>1 DEF CountOK
<1>8. UnackedOK
  <2>1. Unacknowledged(0)
    <3>1. Taken = 0 /\ sig["rx"] = 0 /\ ack["rx"] = 0 /\ count = 0
      BY SideFacts DEF Init, Taken
    <3>2. handler["rx"] = "idle" /\ Announces("rx") = 0
      BY <1>3, SideFacts DEF HandlerAt
    <3>. QED  BY <1>1, <3>1, <3>2 DEF Unacknowledged
  <2>. QED  BY <2>1 DEF UnackedOK
<1>9. MovesOK /\ PendingOK
  BY <1>3, SideFacts DEF MovesOK, PendingOK, Waits, At
<1>10. CallbackNeverWaits /\ WakeupUnlessLate /\ FinalizeReaches
  BY <1>3, SideFacts
     DEF CallbackNeverWaits, WakeupUnlessLate, FinalizeReaches, At, HandlerAt
<1>. QED  BY <1>2, <1>4, <1>5, <1>6, <1>7, <1>8, <1>9, <1>10 DEF TransferInv

LEMMA NextInv ==
  ASSUME TransferInv, [Next]_vars
  PROVE  TransferInv'
<1> USE DEF TransferInv
<1>1. Kinds'
  BY KindsNext
<1>2. LifeOK' /\ AbandonedOK' /\ QueueOK' /\ FinalizeReaches'
  BY LifeNext, AbandonedNext, QueueNext, ReachesNext
<1>3. RingOK' /\ SendsOK'
  BY RingNext, SendsNext
<1>4. CountOK' /\ UnackedOK' /\ CallbackNeverWaits'
  BY <1>1, CountNext, UnackedNext, CallbackNext
<1>5. MovesOK' /\ PendingOK' /\ WakeupUnlessLate'
  BY <1>1, MovesNext, PendingNext, WakeNext
<1>. QED  BY <1>1, <1>2, <1>3, <1>4, <1>5

\* Everything else follows from the invariant.
LEMMA Invariant == Spec => []TransferInv
<1>1. Init => TransferInv
  BY InitInv
<1>2. TransferInv /\ [Next]_vars => TransferInv'
  BY NextInv
<1>. QED  BY <1>1, <1>2, PTL DEF Spec

\* The variables hold what the code can store in them; no more messages are in
\* the ring than sends were called; a handler runs only with a configuration.
THEOREM TypeCorrect == Spec => []TypeOK
<1>1. TransferInv => TypeOK
  <2> SUFFICES ASSUME TransferInv
               PROVE  TypeOK
    OBVIOUS
  <2> USE DEF TransferInv
  <2>1. /\ head \in Index /\ tail \in Index /\ count \in 0 .. MaxSends
    <3>1. Unpushed >= 0 /\ Unpushed \in Int
      BY DEF Unpushed
    <3>. QED  BY <3>1, Sac58rAssumption DEF RingOK, SendsOK
  <2>2. \A s \in Sides : /\ ~HandlerAt(s, "idle") => config[s]
                         /\ node[s] = "INIT" => config[s]
    BY DEF LifeOK
  <2>3. \A s \in Sides : call[s].pc \in Places
    BY DEF Kinds, Calls
  <2>. QED  BY <2>1, <2>2, <2>3 DEF TypeOK, Kinds, Places
<1>. QED  BY <1>1, Invariant, PTL

\* ICC_Finalize will find every call that sleeps, also on a node that is half
\* initialized, but one whose channel was closed or whose node started again
\* under it; where the node's word is UNINIT none sleeps.
THEOREM FinalizeFindsSleepers == Spec => []FinalizeReaches
<1>1. TransferInv => FinalizeReaches
  BY DEF TransferInv
<1>. QED  BY <1>1, Invariant, PTL

\* The receive that the sample makes inside the interrupt finds a message, as
\* long as no node erased what the other one had begun.
THEOREM NoWaitInCallback == Spec => []CallbackNeverWaits
<1>1. TransferInv => CallbackNeverWaits
  BY DEF TransferInv
<1>. QED  BY <1>1, Invariant, PTL

\* The three cases in which a wake-up can be missed are all there are.
THEOREM WakeupComes == Spec => []WakeupUnlessLate
<1>1. TransferInv => WakeupUnlessLate
  BY DEF TransferInv
<1>. QED  BY <1>1, Invariant, PTL
=============================================================================
