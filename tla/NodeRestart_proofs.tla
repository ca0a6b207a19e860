------------------------- MODULE NodeRestart_proofs -------------------------
(***************************************************************************)
(* Proofs about NodeRestart for any number of restarts, calls and messages, *)
(* any range of the counters, and every size of ring and message.          *)
(***************************************************************************)
EXTENDS NodeRestart, FifoOps_proofs, SequenceTheorems

Size == RealSize(MsgSize)

LEMMA SideFacts ==
  /\ "tx" \in Sides /\ "rx" \in Sides
  /\ \A s \in Sides : Peer(s) \in Sides /\ Peer(s) # s /\ Peer(Peer(s)) = s
  /\ \A s, u \in Sides : u # s => u = Peer(s)
  /\ Peer("tx") = "rx" /\ Peer("rx") = "tx"
BY DEF Sides, Peer

\* What the arithmetic rests on.
LEMMA Numbers ==
  /\ FifoSize \in Nat \ {0} /\ HeaderSize \in Nat \ {0} /\ MsgSize \in Nat \ {0}
  /\ Padding(MsgSize) \in 0 .. Alignment - 1 /\ Padding(MsgSize) \in Nat
  /\ Size = HeaderSize + MsgSize + Padding(MsgSize) /\ Size \in Nat
  /\ HeaderSize < Size /\ Size < FifoSize /\ Size = RealSize(MsgSize)
  /\ Aligned(Size) /\ Aligned(FifoSize) /\ Aligned(0)
<1>1. /\ FifoSize \in Nat \ {0} /\ HeaderSize \in Nat \ {0}
      /\ MsgSize \in Nat \ {0} /\ RealSize(MsgSize) < FifoSize
      /\ Alignment \in Nat \ {0}
  BY FifoAssumption, RestartAssumption
<1>2. Aligned(FifoSize) /\ Aligned(0)
  BY AlignedFifoSize, <1>1 DEF Aligned
<1>. QED  BY <1>1, <1>2, PaddingProperties DEF Size
-----------------------------------------------------------------------------
(***************************************************************************)
(* The parts of the inductive invariant.                                   *)
(***************************************************************************)

\* Every variable but the indexes in a run that was overrun keeps its type.
FifoKinds ==
  /\ head \in Int /\ tail \in Int /\ pendingSize \in {0, MsgSize}
  /\ ring \in [0 .. FifoSize - 1 -> Message]
  /\ pushed \in Nat /\ got \in Seq(Message) /\ epoch \in Nat
  /\ overrun \in BOOLEAN

SignalKinds ==
  /\ sig \in [Sides -> Counter] /\ ack \in [Sides -> Counter]
  /\ notify \in [Sides -> BOOLEAN] /\ handler \in [Sides -> {"idle", "scan"}]
  /\ masked \in [Sides -> BOOLEAN] /\ cleared \in [Sides -> BOOLEAN]

NodeKinds ==
  /\ node \in [Sides -> {"UNINIT", "INIT"}] /\ config \in [Sides -> BOOLEAN]
  /\ endpoint \in [Sides -> {"CLOSED", "OPEN"}]
  /\ life \in [Sides -> {"idle", "head", "tail", "mark", "interrupts", "wake",
                         "close", "end"}]
  /\ queue \in [Sides -> Nat] /\ lives \in [Sides -> Nat]
  /\ ends \in 0 .. MaxEnds /\ switches \in 0 .. MaxSwitches

TaskKinds ==
  call \in [Sides -> Calls] /\ waiting \subseteq Sides /\ sends \in 0 .. MaxSends

Kinds == FifoKinds /\ SignalKinds /\ NodeKinds /\ TaskKinds

\* What a place in a life-cycle call says about the node.
LifeOK ==
  \A s \in Sides :
    /\ LifeAt(s, "idle") => /\ node[s] = "INIT" <=> config[s]
                            /\ endpoint[s] = "OPEN" => config[s]
    /\ ~LifeAt(s, "idle") => /\ config[s]
                             /\ node[s] = "INIT" <=> LifeAt(s, "interrupts")
    /\ life[s] \in {"head", "tail", "mark", "interrupts", "end"}
         => endpoint[s] = "CLOSED"
    /\ life[s] \in {"head", "tail"} => s = "tx"
    /\ LifeAt(s, "wake") => endpoint[s] = "OPEN"
    /\ lives[s] > 0
    /\ queue[s] = IF life[s] \in {"head", "tail", "mark"} THEN lives[s] - 1
                                                        ELSE lives[s]

\* A call on a closed end point, or on the wait queue of an earlier life, is
\* abandoned; each side's task stays in its own call.
Sleeps(s) == call[s].pc \in {"enqueue", "evaluate", "asleep"}

CallsOK ==
  \A s \in Sides :
    /\ call[s].queue <= queue[s]
    /\ InCall(s) /\ endpoint[s] = "CLOSED" /\ config[s]
       /\ life[s] \notin {"close", "end"} => call[s].abandoned
    /\ Sleeps(s) /\ call[s].queue # queue[s] => call[s].abandoned
    /\ At(s, "push") => s = "tx"
    /\ call[s].pc \in {"pop", "taken"} => s = "rx"

\* ICC_FIFO_Init has stored head, and tail not yet.
Emptying == LifeAt("tx", "tail")

\* Unless the writer's ICC_FIFO_Init met a receive, and but for the time between
\* its two stores, the indexes are in the ring, at starts of messages, a push
\* has its room, and the index that is about to be stored in head is that of
\* the next message.
IndexesOK ==
  ~overrun =>
    /\ head \in Index /\ Aligned(head)
    /\ Emptying => head = 0 /\ ~At("rx", "taken")
    /\ ~Emptying =>
         /\ tail \in Index /\ Aligned(tail)
         /\ At("tx", "push") => Room(head, tail, Size)
         /\ At("rx", "taken") => /\ Size <= PendingBytes(head, tail)
                                 /\ call["rx"].head = Onward(head, Size)

\* The last message received; <<1, 0>> before the first.
Latest == IF got = <<>> THEN <<1, 0>> ELSE got[Len(got)]

\* n unread messages are in the ring, the last of them the one last pushed, and
\* the one before them is the one last received or of an earlier epoch.
Unread(n) ==
  /\ PendingBytes(head, tail) = Size * n
  /\ \A i \in 0 .. n - 1 :
       ring[(head + Size * i) % FifoSize] = <<epoch, pushed - n + 1 + i>>
  /\ Latest[1] <= epoch /\ Latest[2] <= pushed - n
  /\ Latest[1] = epoch => Latest[2] = pushed - n
  /\ At("rx", "taken") => call["rx"].msg = <<epoch, pushed - n + 1>>

ContentOK ==
  ~overrun => /\ InOrder /\ Latest[1] <= epoch /\ Latest[2] <= pushed
              /\ ~Emptying => \E n \in Nat : Unread(n)

\* A sender that waits published its size, or its node emptied the FIFO since.
Waits(s) == call[s].pc \in {"wait", "enqueue", "evaluate", "asleep", "again"}

PendingOK ==
  ~overrun =>
    /\ Waits("tx") => \/ pendingSize = MsgSize
                      \/ pendingSize = 0 /\ head = 0 /\ tail = 0
    /\ At("tx", "asleep") /\ node["tx"] = "INIT"
       /\ call["tx"].queue = queue["tx"] => pendingSize = MsgSize

\* ICC_Initialize is at work, and will notify the peer.
Starting(s) == life[s] \in {"head", "tail", "mark", "interrupts"}

\* LostOnlyByRestart, with the counters apart for as long as the notification
\* that was cleared may still be made up for.
Expected(side) ==
  \/ call[Peer(side)].pc \in {"push", "taken", "signal"}
  \/ masked[side]
  \/ /\ sig[side] # ack[side]
     /\ \/ notify[side] \/ handler[side] = "scan" \/ cleared[side]
        \/ Starting(Peer(side))

Oversleeps(side) ==
  /\ At(side, "asleep") /\ side \in waiting /\ Served(side)
  /\ node[side] = "INIT" /\ call[side].queue = queue[side]
  /\ ~overrun /\ ~Emptying

WakeOK == \A side \in Sides : Oversleeps(side) => Expected(side)

RestartInv ==
  /\ Kinds /\ LifeOK /\ CallsOK /\ IndexesOK /\ ContentOK /\ PendingOK
  /\ WakeOK /\ WaitersReleased
-----------------------------------------------------------------------------
(***************************************************************************)
(* What a step does to a task's record.                                    *)
(***************************************************************************)

\* Side s goes to place p; the queue it waits on is q now.
Moves(s, p, q) ==
  /\ call' \in [Sides -> Calls]
  /\ call'[s].pc = p /\ call'[s].queue = q
  /\ call'[s].abandoned = call[s].abandoned
  /\ \A u \in Sides : u # s => call'[u] = call[u]

Returns(s) ==
  /\ call' \in [Sides -> Calls] /\ call'[s] = Idle
  /\ \A u \in Sides : u # s => call'[u] = call[u]

LEMMA IdleCall ==
  /\ Idle \in Calls /\ Idle.pc = "idle" /\ Idle.queue = 0 /\ ~Idle.abandoned
<1>1. 0 \in Counter /\ 0 \in Int /\ NoMsg \in Message
  BY RestartAssumption DEF Counter, NoMsg, Message
<1>. QED  BY <1>1 DEF Idle, Calls, Places

LEMMA CallChanged ==
  ASSUME call \in [Sides -> Calls], NEW s \in Sides, NEW r \in Calls,
         call' = [call EXCEPT ![s] = r]
  PROVE  /\ call' \in [Sides -> Calls] /\ call'[s] = r
         /\ \A u \in Sides : u # s => call'[u] = call[u]
OBVIOUS

LEMMA CallGoes ==
  ASSUME call \in [Sides -> Calls], NEW s \in Sides, NEW p \in Places,
         Goto(s, p)
  PROVE  /\ Moves(s, p, call[s].queue)
         /\ call'[s].msg = call[s].msg /\ call'[s].head = call[s].head
<1> DEFINE r == [call[s] EXCEPT !.pc = p]
<1>1. call' = [call EXCEPT ![s] = r]
  BY DEF Goto
<1>2. call[s] \in Calls
  OBVIOUS
<1>3. /\ r \in Calls /\ r.pc = p /\ r.queue = call[s].queue
      /\ r.abandoned = call[s].abandoned
      /\ r.msg = call[s].msg /\ r.head = call[s].head
  BY <1>2 DEF Calls
<1> HIDE DEF r
<1>. QED  BY <1>1, <1>3, CallChanged DEF Moves

LEMMA CallReturns ==
  ASSUME call \in [Sides -> Calls], NEW s \in Sides, Return(s)
  PROVE  Returns(s)
BY IdleCall DEF Return, Returns

\* Of ICC_Initialize and ICC_Close_Channel.
Abandons(s) ==
  /\ call' \in [Sides -> Calls]
  /\ call'[s].pc = call[s].pc /\ call'[s].queue = call[s].queue
  /\ call'[s].abandoned = InCall(s)
  /\ call'[s].msg = call[s].msg /\ call'[s].head = call[s].head
  /\ \A u \in Sides : u # s => call'[u] = call[u]

LEMMA CallAbandoned ==
  ASSUME call \in [Sides -> Calls], NEW s \in Sides, Abandon(s)
  PROVE  Abandons(s)
<1> DEFINE r == [call[s] EXCEPT !.abandoned = InCall(s)]
<1>1. call' = [call EXCEPT ![s] = r]
  BY DEF Abandon
<1>2. call[s] \in Calls /\ InCall(s) \in BOOLEAN
  BY DEF InCall, At
<1>3. /\ r \in Calls /\ r.pc = call[s].pc /\ r.queue = call[s].queue
      /\ r.abandoned = InCall(s)
      /\ r.msg = call[s].msg /\ r.head = call[s].head
  BY <1>2 DEF Calls
<1> HIDE DEF r
<1>. QED  BY <1>1, <1>3, CallChanged DEF Abandons

\* Of the wait.
LEMMA CallWaits ==
  ASSUME call \in [Sides -> Calls], queue \in [Sides -> Nat], NEW s \in Sides
  PROVE  /\ \A snap \in Counter : WaitOn(s, snap) => Moves(s, "evaluate", queue[s])
         /\ call' = [call EXCEPT ![s].pc = "again", ![s].snap = 0, ![s].queue = 0]
            => Moves(s, "again", 0)
<1>1. call[s] \in Calls /\ queue[s] \in Nat
  OBVIOUS
<1>2. ASSUME NEW snap \in Counter, WaitOn(s, snap)
      PROVE  Moves(s, "evaluate", queue[s])
  <2> DEFINE r == [call[s] EXCEPT !.pc = "evaluate", !.snap = snap,
                                  !.queue = queue[s]]
  <2>1. call' = [call EXCEPT ![s] = r]
    BY <1>2 DEF WaitOn
  <2>2. /\ r \in Calls /\ r.pc = "evaluate" /\ r.queue = queue[s]
        /\ r.abandoned = call[s].abandoned
    BY <1>1 DEF Calls, Places
  <2> HIDE DEF r
  <2>. QED  BY <2>1, <2>2, CallChanged DEF Moves
<1>3. ASSUME call' = [call EXCEPT ![s].pc = "again", ![s].snap = 0, ![s].queue = 0]
      PROVE  Moves(s, "again", 0)
  <2> DEFINE r == [call[s] EXCEPT !.pc = "again", !.snap = 0, !.queue = 0]
  <2>1. call' = [call EXCEPT ![s] = r]
    BY <1>3
  <2>2. 0 \in Counter
    BY RestartAssumption DEF Counter
  <2>3. /\ r \in Calls /\ r.pc = "again" /\ r.queue = 0
        /\ r.abandoned = call[s].abandoned
    BY <1>1, <2>2 DEF Calls, Places
  <2> HIDE DEF r
  <2>. QED  BY <2>1, <2>3, CallChanged DEF Moves
<1>. QED  BY <1>2, <1>3

\* A pop: it took what is in the ring and the index behind it.
LEMMA CallPops ==
  ASSUME call \in [Sides -> Calls], NEW m \in Message, NEW index \in Int,
         call' = [call EXCEPT !["rx"].pc = "taken", !["rx"].msg = m,
                              !["rx"].head = index]
  PROVE  /\ Moves("rx", "taken", call["rx"].queue)
         /\ call'["rx"].msg = m /\ call'["rx"].head = index
<1> DEFINE r == [call["rx"] EXCEPT !.pc = "taken", !.msg = m, !.head = index]
<1>1. call' = [call EXCEPT !["rx"] = r]
  OBVIOUS
<1>2. call["rx"] \in Calls
  BY SideFacts
<1>3. /\ r \in Calls /\ r.pc = "taken" /\ r.queue = call["rx"].queue
      /\ r.abandoned = call["rx"].abandoned /\ r.msg = m /\ r.head = index
  BY <1>2 DEF Calls, Places
<1> HIDE DEF r
<1>. QED  BY <1>1, <1>3, SideFacts, CallChanged DEF Moves
-----------------------------------------------------------------------------
(***************************************************************************)
(* Where each step takes its task.                                         *)
(***************************************************************************)
LEMMA TaskMoves ==
  ASSUME Kinds, NEW s \in Sides
  PROVE  /\ SendCall => \E p \in {"push", "wait"} :
                         Moves("tx", p, call["tx"].queue)
         /\ RecvCall => \E p \in {"pop", "wait"} :
                         Moves("rx", p, call["rx"].queue)
         /\ WaitEvent(s) \/ Enqueue(s) => Moves(s, "evaluate", queue[s])
         /\ Evaluate(s) => \/ Moves(s, "again", 0)
                           \/ Moves(s, "asleep", call[s].queue)
         /\ WakeUp(s) => Moves(s, "enqueue", call[s].queue)
         /\ Again(s) => \/ Returns(s)
                        \/ Moves(s, Transfer(s), call[s].queue)
                        \/ Moves(s, "wait", call[s].queue)
         /\ Push => Moves("tx", "signal", call["tx"].queue)
         /\ Taken => Moves("rx", "signal", call["rx"].queue)
         /\ Signal(s) => Returns(s)
         /\ Initialize(s) \/ CloseChannel(s) => Abandons(s)
<1>1. /\ call \in [Sides -> Calls] /\ queue \in [Sides -> Nat]
      /\ "tx" \in Sides /\ "rx" \in Sides
  BY SideFacts DEF Kinds, NodeKinds, TaskKinds
<1>2. /\ call[s] \in Calls /\ call[s].snap \in Counter /\ ack[s] \in Counter
  BY DEF Kinds, SignalKinds, TaskKinds, Calls
<1>3. Places = {"idle", "wait", "enqueue", "evaluate", "asleep", "again", "push",
                "pop", "taken", "signal"}
  BY DEF Places
<1>4. SendCall => \E p \in {"push", "wait"} : Moves("tx", p, call["tx"].queue)
  <2>1. SendCall => Goto("tx", "push") \/ Goto("tx", "wait")
    BY DEF SendCall
  <2>. QED  BY <1>1, <1>3, <2>1, CallGoes
<1>5. RecvCall => \E p \in {"pop", "wait"} : Moves("rx", p, call["rx"].queue)
  <2>1. RecvCall => Goto("rx", "pop") \/ Goto("rx", "wait")
    BY DEF RecvCall
  <2>. QED  BY <1>1, <1>3, <2>1, CallGoes
<1>6. WaitEvent(s) \/ Enqueue(s) => Moves(s, "evaluate", queue[s])
  BY <1>1, <1>2, CallWaits DEF WaitEvent, Enqueue
<1>7. Evaluate(s) => Moves(s, "again", 0) \/ Moves(s, "asleep", call[s].queue)
  BY <1>1, <1>3, CallWaits, CallGoes DEF Evaluate
<1>8. WakeUp(s) => Moves(s, "enqueue", call[s].queue)
  BY <1>1, <1>3, CallGoes DEF WakeUp
<1>9. Again(s) => \/ Returns(s)
                 \/ Moves(s, Transfer(s), call[s].queue)
                 \/ Moves(s, "wait", call[s].queue)
  <2>1. Transfer(s) \in Places
    BY <1>3 DEF Transfer
  <2>2. Again(s) => Return(s) \/ Goto(s, Transfer(s)) \/ Goto(s, "wait")
    BY DEF Again
  <2>. QED  BY <1>1, <1>3, <2>1, <2>2, CallGoes, CallReturns
<1>10. /\ Push => Moves("tx", "signal", call["tx"].queue)
       /\ Taken => Moves("rx", "signal", call["rx"].queue)
  BY <1>1, <1>3, CallGoes DEF Push, Taken
<1>11. Signal(s) => Returns(s)
  BY <1>1, CallReturns DEF Signal
<1>12. Initialize(s) \/ CloseChannel(s) => Abandons(s)
  BY <1>1, CallAbandoned DEF Initialize, CloseChannel
<1>. QED  BY <1>4, <1>5, <1>6, <1>7, <1>8, <1>9, <1>10, <1>11, <1>12

LEMMA PopMoves ==
  ASSUME Kinds, Pop
  PROVE  \/ /\ Size <= PendingBytes(head, tail)
            /\ Moves("rx", "taken", call["rx"].queue)
            /\ call'["rx"].msg = ring[head % FifoSize]
            /\ call'["rx"].head =
                 Behind(Behind(head, HeaderSize, 0), MsgSize, Padding(MsgSize))
         \/ Returns("rx")
<1> DEFINE index == Behind(Behind(head, HeaderSize, 0), MsgSize, Padding(MsgSize))
<1>1. call \in [Sides -> Calls] /\ "rx" \in Sides
  BY SideFacts DEF Kinds, NodeKinds, TaskKinds
<1>2. ring[head % FifoSize] \in Message
  <2>1. head % FifoSize \in 0 .. FifoSize - 1
    BY Numbers DEF Kinds, FifoKinds
  <2>. QED  BY <2>1 DEF Kinds, FifoKinds
<1>3. index \in Int
  <2>1. \A i, len, pad \in Int : Behind(i, len, pad) \in Int
    BY Numbers DEF Kinds, FifoKinds, Behind, HeadAfter
  <2>2. head \in Int /\ HeaderSize \in Int /\ MsgSize \in Int
        /\ Padding(MsgSize) \in Int /\ 0 \in Int
    BY Numbers DEF Kinds, FifoKinds
  <2> DEFINE first == Behind(head, HeaderSize, 0)
  <2>3. first \in Int
    BY <2>1, <2>2
  <2> HIDE DEF first
  <2>4. Behind(first, MsgSize, Padding(MsgSize)) \in Int
    BY <2>1, <2>2, <2>3
  <2>. QED  BY <2>4 DEF first
<1>4. \/ /\ Size <= PendingBytes(head, tail)
         /\ call' = [call EXCEPT !["rx"].pc = "taken",
                                 !["rx"].msg = ring[head % FifoSize],
                                 !["rx"].head = index]
      \/ Return("rx")
  BY DEF Pop, Size
<1> HIDE DEF index
<1>5. CASE Return("rx")
  BY <1>1, <1>5, CallReturns
<1>6. CASE /\ Size <= PendingBytes(head, tail)
           /\ call' = [call EXCEPT !["rx"].pc = "taken",
                                   !["rx"].msg = ring[head % FifoSize],
                                   !["rx"].head = index]
  BY <1>1, <1>2, <1>3, <1>6, CallPops DEF index
<1>. QED  BY <1>4, <1>5, <1>6
-----------------------------------------------------------------------------
(***************************************************************************)
(* Every step keeps the kinds of the variables.                            *)
(***************************************************************************)

\* The steps by what they do.
LEMMA Steps ==
  ASSUME Next
  PROVE  \/ SendCall \/ RecvCall
         \/ \E s \in Sides :
              \/ Initialize(s) \/ OpenChannel(s) \/ CloseChannel(s) \/ Finalize(s)
              \/ EmptyHead(s) \/ EmptyTail(s)
              \/ MarkInitialized(s) \/ InitInterrupts(s) \/ FinalizeWake(s)
              \/ FinalizeClose(s) \/ FinalizeEnd(s)
              \/ WaitEvent(s) \/ Enqueue(s) \/ Evaluate(s) \/ WakeUp(s) \/ Again(s)
              \/ Signal(s) \/ HandlerStart(s) \/ HandlerScan(s)
         \/ Push \/ Pop \/ Taken
BY DEF Next, LifeStep, TaskStep, Handler

LEMMA FifoKindsKept ==
  ASSUME Kinds, Next
  PROVE  FifoKinds'
<1> USE DEF Kinds, FifoKinds
<1>1. CASE SendCall
  BY <1>1, Numbers DEF SendCall, flags
<1>2. CASE Push
  <2> DEFINE body == TailAfter(head, tail, HeaderSize, 0)
             after == TailAfter(head, body, MsgSize, Padding(MsgSize))
  <2>1. body \in Int /\ after \in Int
    <3>1. \A i, len, pad \in Int : TailAfter(head, i, len, pad) \in Int
      BY Numbers DEF TailAfter
    <3>2. tail \in Int /\ HeaderSize \in Int /\ MsgSize \in Int
          /\ Padding(MsgSize) \in Int
      BY Numbers
    <3>3. body \in Int
      BY <3>1, <3>2
    <3> HIDE DEF body
    <3>. QED  BY <3>1, <3>2, <3>3
  <2>2. /\ tail' = after /\ pushed' = pushed + 1
        /\ ring' = [i \in 0 .. FifoSize - 1 |->
             IF i = tail % FifoSize \/ i = body % FifoSize
             THEN <<epoch, pushed + 1>> ELSE ring[i]]
        /\ UNCHANGED <<head, pendingSize, got, epoch, overrun>>
    BY <1>2 DEF Push, flags
  <2>3. <<epoch, pushed + 1>> \in Message
    BY DEF Message
  <2> HIDE DEF body, after
  <2>. QED  BY <2>1, <2>2, <2>3
<1>3. CASE Taken
  <2>1. /\ call["rx"] \in Calls
    BY SideFacts DEF TaskKinds
  <2>2. call["rx"].head \in Int /\ call["rx"].msg \in Message
    BY <2>1 DEF Calls
  <2>3. /\ head' = call["rx"].head /\ got' = Append(got, call["rx"].msg)
        /\ UNCHANGED <<tail, ring, pendingSize, pushed, epoch, overrun>>
    BY <1>3 DEF Taken, flags
  <2>. QED  BY <2>2, <2>3, AppendProperties
<1>4. ASSUME NEW s \in Sides, EmptyHead(s) \/ EmptyTail(s)
      PROVE  FifoKinds'
  <2>1. (overrun \/ At("rx", "taken")) \in BOOLEAN
    OBVIOUS
  <2>2. CASE EmptyHead(s)
    <3>1. /\ head' = 0 /\ overrun' = (overrun \/ At("rx", "taken"))
          /\ UNCHANGED <<tail, ring, pendingSize, pushed, got, epoch>>
      BY <2>2 DEF EmptyHead, tasks
    <3>. QED  BY <2>1, <3>1
  <2>3. CASE EmptyTail(s)
    <3>1. /\ tail' = 0 /\ pendingSize' = 0 /\ epoch' \in {epoch, epoch + 1}
          /\ UNCHANGED <<head, ring, pushed, got, overrun>>
      BY <2>3 DEF EmptyTail, tasks
    <3>. QED  BY <3>1
  <2>. QED  BY <1>4, <2>2, <2>3
<1>5. ASSUME NEW s \in Sides, Again(s)
      PROVE  FifoKinds'
  BY <1>5, Numbers DEF Again, flags
<1>6. ASSUME NEW s \in Sides,
             \/ Initialize(s) \/ OpenChannel(s) \/ CloseChannel(s) \/ Finalize(s)
             \/ MarkInitialized(s) \/ InitInterrupts(s) \/ FinalizeWake(s)
             \/ FinalizeClose(s) \/ FinalizeEnd(s)
      PROVE  FifoKinds'
  BY <1>6 DEF Initialize, OpenChannel, CloseChannel, Finalize, MarkInitialized,
              InitInterrupts, FinalizeWake, FinalizeClose, FinalizeEnd,
              fifo, tasks, flags
<1>7. ASSUME NEW s \in Sides,
             \/ RecvCall \/ WaitEvent(s) \/ Enqueue(s) \/ Evaluate(s)
             \/ WakeUp(s) \/ Signal(s) \/ HandlerStart(s) \/ HandlerScan(s)
      PROVE  FifoKinds'
  BY <1>7 DEF RecvCall, WaitEvent, Enqueue, WaitOn, Evaluate, WakeUp, Signal,
              HandlerStart, HandlerScan, fifo, tasks, flags
<1>8. CASE Pop
  <2>1. (overrun \/ LifeAt("tx", "tail")) \in BOOLEAN
    OBVIOUS
  <2>2. overrun' \in BOOLEAN
    BY <1>8, <2>1 DEF Pop
  <2>3. UNCHANGED <<head, tail, ring, pendingSize, pushed, got, epoch>>
    BY <1>8 DEF Pop, fifo
  <2>. QED  BY <2>2, <2>3
<1>. QED  BY <1>1, <1>2, <1>3, <1>4, <1>5, <1>6, <1>7, <1>8, Steps, SideFacts

LEMMA SignalKindsKept ==
  ASSUME Kinds, Next
  PROVE  SignalKinds'
<1> USE DEF Kinds, SignalKinds
<1>1. \A n \in Counter : Plus1(n) \in Counter
  BY RestartAssumption DEF Counter, Plus1
<1>2. 0 \in Counter
  BY RestartAssumption DEF Counter
<1>3. ASSUME NEW s \in Sides, Initialize(s)
      PROVE  SignalKinds'
  BY <1>2, <1>3, SideFacts DEF Initialize, FifoInit, ResetCounters
<1>4. ASSUME NEW s \in Sides, InitInterrupts(s)
      PROVE  SignalKinds'
  BY <1>4, SideFacts DEF InitInterrupts, counters
<1>5. ASSUME NEW s \in Sides, OpenChannel(s) \/ CloseChannel(s) \/ FinalizeClose(s)
      PROVE  SignalKinds'
  BY <1>5, SideFacts DEF OpenChannel, CloseChannel, FinalizeClose, Raise, counters
<1>6. ASSUME NEW s \in Sides, Signal(s)
      PROVE  SignalKinds'
  <2> DEFINE to == Peer(s)
  <2>1. to \in Sides /\ Plus1(sig[to]) \in Counter
    BY <1>1, SideFacts
  <2>2. /\ sig' = [sig EXCEPT ![to] = Plus1(sig[to])]
        /\ masked' = [masked EXCEPT ![to] = Plus1(sig[to]) = ack[to]]
        /\ notify' = [notify EXCEPT ![to] = TRUE]
        /\ cleared' = [cleared EXCEPT ![to] = FALSE]
        /\ UNCHANGED <<ack, handler>>
    BY <1>6 DEF Signal, Raise
  <2> HIDE DEF to
  <2>. QED  BY <2>1, <2>2
<1>7. ASSUME NEW s \in Sides, HandlerStart(s)
      PROVE  SignalKinds'
  BY <1>7 DEF HandlerStart, HandlerGoto, counters, flags
<1>8. ASSUME NEW s \in Sides, HandlerScan(s)
      PROVE  SignalKinds'
  <2>1. UNCHANGED <<sig, notify, masked, cleared>>
    BY <1>8 DEF HandlerScan, flags
  <2>2. \/ ack' = [ack EXCEPT ![s] = Plus1(ack[s])] /\ UNCHANGED handler
        \/ handler' = [handler EXCEPT ![s] = "idle"] /\ UNCHANGED ack
    BY <1>8 DEF HandlerScan, Serve, Done, HandlerGoto
  <2>3. Plus1(ack[s]) \in Counter
    BY <1>1
  <2>. QED  BY <2>1, <2>2, <2>3
<1>9. ASSUME NEW s \in Sides,
             \/ EmptyHead(s) \/ EmptyTail(s) \/ Finalize(s)
             \/ MarkInitialized(s) \/ FinalizeWake(s) \/ FinalizeEnd(s)
      PROVE  SignalKinds'
  BY <1>9 DEF EmptyHead, EmptyTail, Finalize, MarkInitialized, FinalizeWake, FinalizeEnd, counters, flags
<1>10. ASSUME NEW s \in Sides,
              \/ SendCall \/ RecvCall \/ Push \/ Pop \/ Taken \/ WaitEvent(s)
              \/ Enqueue(s) \/ Evaluate(s) \/ WakeUp(s) \/ Again(s)
       PROVE  SignalKinds'
  BY <1>10 DEF SendCall, RecvCall, Push, Pop, Taken, WaitEvent, Enqueue, WaitOn,
               Evaluate, WakeUp, Again, counters, flags
<1>. QED
  BY <1>3, <1>4, <1>5, <1>6, <1>7, <1>8, <1>9, <1>10, Steps, SideFacts

LEMMA NodeKindsKept ==
  ASSUME Kinds, Next
  PROVE  NodeKinds'
<1> USE DEF Kinds, NodeKinds
<1>1. MaxEnds \in Nat /\ MaxSwitches \in Nat
  BY RestartAssumption
<1>2. ASSUME NEW s \in Sides
      PROVE  /\ Initialize(s) => NodeKinds'
             /\ EmptyHead(s) \/ EmptyTail(s) => NodeKinds'
             /\ MarkInitialized(s) => NodeKinds'
             /\ InitInterrupts(s) => NodeKinds'
             /\ OpenChannel(s) => NodeKinds'
             /\ CloseChannel(s) => NodeKinds'
             /\ Finalize(s) => NodeKinds'
             /\ FinalizeWake(s) => NodeKinds'
             /\ FinalizeClose(s) => NodeKinds'
             /\ FinalizeEnd(s) => NodeKinds'
  <2>1. Initialize(s) => NodeKinds'
    BY <1>1 DEF Initialize, FifoInit, LifeGoto
  <2>0. EmptyHead(s) \/ EmptyTail(s) => NodeKinds'
    BY <1>1 DEF EmptyHead, EmptyTail, LifeGoto, nodes
  <2>2. MarkInitialized(s) => NodeKinds'
    BY <1>1 DEF MarkInitialized, LifeGoto, nodes
  <2>3. InitInterrupts(s) => NodeKinds'
    BY <1>1 DEF InitInterrupts, LifeGoto, nodes
  <2>4. OpenChannel(s) => NodeKinds'
    BY <1>1 DEF OpenChannel, CountSwitch
  <2>5. CloseChannel(s) => NodeKinds'
    BY <1>1 DEF CloseChannel, CountSwitch
  <2>6. Finalize(s) => NodeKinds'
    BY <1>1 DEF Finalize, LifeGoto
  <2>7. FinalizeWake(s) => NodeKinds'
    BY <1>1 DEF FinalizeWake, LifeGoto, nodes
  <2>8. FinalizeClose(s) => NodeKinds'
    BY <1>1 DEF FinalizeClose, LifeGoto
  <2>9. FinalizeEnd(s) => NodeKinds'
    BY <1>1 DEF FinalizeEnd, LifeGoto
  <2>. QED  BY <2>0, <2>1, <2>2, <2>3, <2>4, <2>5, <2>6, <2>7, <2>8, <2>9
<1>4. ASSUME NEW s \in Sides,
             \/ SendCall \/ RecvCall \/ Push \/ Pop \/ Taken \/ WaitEvent(s)
             \/ Enqueue(s) \/ Evaluate(s) \/ WakeUp(s) \/ Again(s) \/ Signal(s)
             \/ HandlerStart(s) \/ HandlerScan(s)
      PROVE  NodeKinds'
  BY <1>4 DEF SendCall, RecvCall, Push, Pop, Taken, WaitEvent, Enqueue, WaitOn,
              Evaluate, WakeUp, Again, Signal, HandlerStart, HandlerScan, nodes
<1>. QED  BY <1>2, <1>4, Steps, SideFacts

LEMMA TaskKindsKept ==
  ASSUME Kinds, Next
  PROVE  TaskKinds'
<1> USE DEF Kinds, TaskKinds
<1>1. call' \in [Sides -> Calls]
  <2>1. ASSUME NEW s \in Sides,
               \/ EmptyHead(s) \/ EmptyTail(s)
               \/ OpenChannel(s) \/ Finalize(s) \/ MarkInitialized(s)
               \/ InitInterrupts(s) \/ FinalizeWake(s) \/ FinalizeClose(s)
               \/ FinalizeEnd(s) \/ HandlerStart(s) \/ HandlerScan(s)
        PROVE  call' = call
    BY <2>1 DEF EmptyHead, EmptyTail, OpenChannel, Finalize, MarkInitialized, InitInterrupts,
                FinalizeWake, FinalizeClose, FinalizeEnd, HandlerStart,
                HandlerScan, tasks
  <2>2. ASSUME NEW s \in Sides,
               \/ SendCall \/ RecvCall \/ Push \/ Pop \/ Taken \/ WaitEvent(s)
               \/ Enqueue(s) \/ Evaluate(s) \/ WakeUp(s) \/ Again(s) \/ Signal(s)
               \/ Initialize(s) \/ CloseChannel(s)
        PROVE  call' \in [Sides -> Calls]
    BY <2>2, TaskMoves, PopMoves DEF Moves, Returns, Abandons
  <2>. QED  BY <2>1, <2>2, Steps, SideFacts
<1>2. waiting' \subseteq Sides
  <2>1. ASSUME NEW s \in Sides, WaitEvent(s) \/ Enqueue(s)
        PROVE  waiting' \subseteq Sides
    BY <2>1 DEF WaitEvent, Enqueue, WaitOn
  <2>2. ASSUME NEW s \in Sides, Evaluate(s) \/ FinalizeWake(s) \/ HandlerScan(s)
        PROVE  waiting' \subseteq Sides
    BY <2>2 DEF Evaluate, FinalizeWake, HandlerScan, Serve, Done, WakeTasks
  <2>3. ASSUME NEW s \in Sides,
               \/ Initialize(s) \/ EmptyHead(s) \/ EmptyTail(s)
               \/ OpenChannel(s) \/ CloseChannel(s)
               \/ Finalize(s) \/ MarkInitialized(s) \/ InitInterrupts(s)
               \/ FinalizeClose(s) \/ FinalizeEnd(s) \/ WakeUp(s) \/ Again(s)
               \/ Signal(s) \/ HandlerStart(s) \/ SendCall \/ RecvCall
               \/ Push \/ Pop \/ Taken
        PROVE  waiting' = waiting
    BY <2>3 DEF Initialize, EmptyHead, EmptyTail, OpenChannel, CloseChannel, Finalize, MarkInitialized,
       InitInterrupts, FinalizeClose, FinalizeEnd, WakeUp, Again, Signal,
       HandlerStart, SendCall, RecvCall, Push, Pop, Taken, tasks
  <2>. QED  BY <2>1, <2>2, <2>3, Steps, SideFacts
<1>3. sends' \in 0 .. MaxSends
  <2>1. SendCall => sends' = sends + 1 /\ sends < MaxSends
    BY DEF SendCall
  <2>2. ASSUME NEW s \in Sides,
               \/ Initialize(s) \/ EmptyHead(s) \/ EmptyTail(s)
               \/ OpenChannel(s) \/ CloseChannel(s)
               \/ Finalize(s) \/ MarkInitialized(s) \/ InitInterrupts(s)
               \/ FinalizeWake(s) \/ FinalizeClose(s) \/ FinalizeEnd(s)
               \/ HandlerStart(s) \/ HandlerScan(s)
        PROVE  sends' = sends
    BY <2>2 DEF Initialize, EmptyHead, EmptyTail, OpenChannel, CloseChannel, Finalize, MarkInitialized,
       InitInterrupts, FinalizeWake, FinalizeClose, FinalizeEnd, HandlerStart,
       HandlerScan, tasks
  <2>3. ASSUME NEW s \in Sides,
               \/ RecvCall \/ Push \/ Pop \/ Taken \/ WaitEvent(s) \/ Enqueue(s)
               \/ Evaluate(s) \/ WakeUp(s) \/ Again(s) \/ Signal(s)
        PROVE  sends' = sends
    BY <2>3 DEF RecvCall, Push, Pop, Taken, WaitEvent, Enqueue, WaitOn, Evaluate,
                WakeUp, Again, Signal
  <2>4. MaxSends \in Nat
    BY RestartAssumption
  <2>. QED  BY <2>1, <2>2, <2>3, <2>4, Steps, SideFacts
<1>. QED  BY <1>1, <1>2, <1>3
-----------------------------------------------------------------------------
(***************************************************************************)
(* The life-cycle calls and the tasks inside a call.                       *)
(***************************************************************************)

\* The steps of the tasks and of the handlers leave the nodes alone.
LEMMA NodesLeftAlone ==
  ASSUME NEW s \in Sides,
         \/ SendCall \/ RecvCall \/ Push \/ Pop \/ Taken \/ WaitEvent(s)
         \/ Enqueue(s) \/ Evaluate(s) \/ WakeUp(s) \/ Again(s) \/ Signal(s)
         \/ HandlerStart(s) \/ HandlerScan(s)
  PROVE  UNCHANGED <<node, config, endpoint, queue, lives, life>>
BY DEF SendCall, RecvCall, Push, Pop, Taken, WaitEvent, Enqueue, WaitOn, Evaluate,
   WakeUp, Again, Signal, HandlerStart, HandlerScan, nodes

LEMMA LifeKept ==
  ASSUME Kinds, LifeOK, Next
  PROVE  LifeOK'
<1> USE DEF Kinds, NodeKinds, LifeOK, LifeAt
<1>1. ASSUME UNCHANGED <<node, config, endpoint, queue, lives, life>>
      PROVE  LifeOK'
  BY <1>1
<1>2. ASSUME NEW s \in Sides
      PROVE  /\ Initialize(s) => LifeOK'
             /\ EmptyHead(s) \/ EmptyTail(s) => LifeOK'
             /\ MarkInitialized(s) => LifeOK'
             /\ InitInterrupts(s) => LifeOK'
             /\ OpenChannel(s) => LifeOK'
             /\ CloseChannel(s) => LifeOK'
             /\ Finalize(s) => LifeOK'
             /\ FinalizeWake(s) => LifeOK'
             /\ FinalizeClose(s) => LifeOK'
             /\ FinalizeEnd(s) => LifeOK'
  <2>1. Initialize(s) => LifeOK'
    BY DEF Initialize, FifoInit, LifeGoto
  <2>0. EmptyHead(s) \/ EmptyTail(s) => LifeOK'
    BY DEF EmptyHead, EmptyTail, LifeGoto, nodes
  <2>2. MarkInitialized(s) => LifeOK'
    BY DEF MarkInitialized, LifeGoto
  <2>3. InitInterrupts(s) => LifeOK'
    BY DEF InitInterrupts, LifeGoto, nodes
  <2>4. OpenChannel(s) => LifeOK'
    BY DEF OpenChannel
  <2>5. CloseChannel(s) => LifeOK'
    BY DEF CloseChannel
  <2>6. Finalize(s) => LifeOK'
    BY DEF Finalize, LifeGoto
  <2>7. FinalizeWake(s) => LifeOK'
    BY DEF FinalizeWake, LifeGoto, nodes
  <2>8. FinalizeClose(s) => LifeOK'
    BY DEF FinalizeClose, LifeGoto
  <2>9. FinalizeEnd(s) => LifeOK'
    BY DEF FinalizeEnd, LifeGoto
  <2>. QED  BY <2>0, <2>1, <2>2, <2>3, <2>4, <2>5, <2>6, <2>7, <2>8, <2>9
<1>. QED  BY <1>1, <1>2, NodesLeftAlone, Steps, SideFacts

\* The steps of the life-cycle calls that leave the tasks alone.
LEMMA CallsLeftAlone ==
  ASSUME NEW s \in Sides,
         \/ EmptyHead(s) \/ EmptyTail(s)
         \/ OpenChannel(s) \/ Finalize(s) \/ MarkInitialized(s)
         \/ InitInterrupts(s) \/ FinalizeWake(s) \/ FinalizeClose(s)
         \/ FinalizeEnd(s) \/ HandlerStart(s) \/ HandlerScan(s)
  PROVE  call' = call
BY DEF EmptyHead, EmptyTail, OpenChannel, Finalize, MarkInitialized, InitInterrupts, FinalizeWake,
       FinalizeClose, FinalizeEnd, HandlerStart, HandlerScan, tasks

LEMMA CallsKept ==
  ASSUME Kinds, LifeOK, CallsOK, Next
  PROVE  CallsOK'
<1> USE DEF CallsOK, Sleeps, InCall, At
<1>0. /\ queue \in [Sides -> Nat] /\ lives \in [Sides -> Nat]
      /\ endpoint \in [Sides -> {"CLOSED", "OPEN"}]
      /\ life \in [Sides -> {"idle", "head", "tail", "mark", "interrupts", "wake",
                             "close", "end"}]
      /\ config \in [Sides -> BOOLEAN]
      /\ \A s \in Sides : call[s].queue \in Nat /\ call[s].abandoned \in BOOLEAN
  BY DEF Kinds, NodeKinds, TaskKinds, Calls
<1>1. ASSUME UNCHANGED <<endpoint, config, life, queue, call>>
      PROVE  CallsOK'
  BY <1>1
<1>2. ASSUME NEW s \in Sides, OpenChannel(s)
      PROVE  CallsOK'
  <2>1. /\ endpoint' = [endpoint EXCEPT ![s] = "OPEN"]
        /\ UNCHANGED <<call, config, life, queue>>
    BY <1>2, CallsLeftAlone DEF OpenChannel
  <2>. QED  BY <1>0, <2>1
<1>3. ASSUME NEW s \in Sides, Finalize(s)
      PROVE  CallsOK'
  <2>1. /\ LifeAt(s, "idle")
        /\ life' = [life EXCEPT ![s] = IF endpoint[s] = "OPEN" THEN "wake"
                                                              ELSE "close"]
        /\ UNCHANGED <<call, config, endpoint, queue>>
    BY <1>3, CallsLeftAlone DEF Finalize, LifeGoto
  <2>. QED  BY <1>0, <2>1 DEF LifeAt
<1>4. ASSUME NEW s \in Sides, MarkInitialized(s)
      PROVE  CallsOK'
  <2>1. /\ LifeAt(s, "mark")
        /\ life' = [life EXCEPT ![s] = "interrupts"]
        /\ queue' = [queue EXCEPT ![s] = lives[s]]
        /\ UNCHANGED <<call, config, endpoint>>
    BY <1>4, CallsLeftAlone DEF MarkInitialized, LifeGoto
  <2>2. /\ queue[s] < lives[s] /\ endpoint[s] = "CLOSED" /\ config[s]
        /\ life[s] = "mark"
    BY <1>0, <2>1 DEF LifeOK, LifeAt
  <2>3. call[s].pc # "idle" => call[s].abandoned
    BY <2>2
  <2>. QED  BY <1>0, <2>1, <2>2, <2>3
<1>5. ASSUME NEW s \in Sides, EmptyHead(s) \/ EmptyTail(s) \/ InitInterrupts(s)
      PROVE  CallsOK'
  <2>1. /\ life[s] \in {"head", "tail", "interrupts"}
        /\ \E p \in {"tail", "mark", "idle"} : life' = [life EXCEPT ![s] = p]
        /\ UNCHANGED <<call, config, endpoint, queue>>
    BY <1>5, CallsLeftAlone
       DEF EmptyHead, EmptyTail, InitInterrupts, LifeAt, LifeGoto, nodes
  <2>. QED  BY <1>0, <2>1 DEF LifeAt
<1>6. ASSUME NEW s \in Sides, FinalizeWake(s) \/ FinalizeClose(s) \/ FinalizeEnd(s)
      PROVE  CallsOK'
  <2>1. CASE FinalizeWake(s)
    <3>1. /\ life' = [life EXCEPT ![s] = "close"]
          /\ UNCHANGED <<call, config, endpoint, queue>>
      BY <2>1, CallsLeftAlone DEF FinalizeWake, LifeGoto, nodes
    <3>. QED  BY <1>0, <3>1
  <2>2. CASE FinalizeClose(s)
    <3>1. /\ life' = [life EXCEPT ![s] = "end"]
          /\ endpoint' = [endpoint EXCEPT ![s] = "CLOSED"]
          /\ UNCHANGED <<call, config, queue>>
      BY <2>2, CallsLeftAlone DEF FinalizeClose, LifeGoto
    <3>. QED  BY <1>0, <3>1
  <2>3. CASE FinalizeEnd(s)
    <3>1. /\ life' = [life EXCEPT ![s] = "idle"]
          /\ config' = [config EXCEPT ![s] = FALSE]
          /\ UNCHANGED <<call, endpoint, queue>>
      BY <2>3, CallsLeftAlone DEF FinalizeEnd, LifeGoto
    <3>. QED  BY <1>0, <3>1
  <2>. QED  BY <1>6, <2>1, <2>2, <2>3
<1>7. ASSUME NEW s \in Sides, Initialize(s) \/ CloseChannel(s)
      PROVE  CallsOK'
  <2>1. Abandons(s)
    BY <1>7, TaskMoves
  <2>2. CASE Initialize(s)
    <3>1. /\ config' = [config EXCEPT ![s] = TRUE]
          /\ \E p \in {"head", "mark"} : life' = [life EXCEPT ![s] = p]
          /\ UNCHANGED <<endpoint, queue>>
      BY <2>2 DEF Initialize, FifoInit, LifeGoto
    <3>2. \A u \in Sides \ {s} :
            call'[u] = call[u] /\ config'[u] = config[u] /\ life'[u] = life[u]
      BY <1>0, <2>1, <3>1 DEF Abandons
    <3>3. /\ call'[s].pc = call[s].pc /\ call'[s].queue = call[s].queue
          /\ call[s].pc # "idle" => call'[s].abandoned
      BY <2>1 DEF Abandons
    <3>. QED  BY <3>1, <3>2, <3>3
  <2>3. CASE CloseChannel(s)
    <3>1. /\ endpoint' = [endpoint EXCEPT ![s] = "CLOSED"]
          /\ UNCHANGED <<config, life, queue>>
      BY <2>3 DEF CloseChannel
    <3>. QED  BY <1>0, <2>1, <3>1 DEF Abandons
  <2>. QED  BY <1>7, <2>2, <2>3
<1>8. ASSUME NEW s \in Sides, NEW p \in Places,
             UNCHANGED <<endpoint, config, life, queue>>,
             Moves(s, p, call[s].queue), InCall(s) \/ endpoint[s] = "OPEN",
             p \in {"enqueue", "evaluate", "asleep"} => Sleeps(s),
             p = "push" => s = "tx", p \in {"pop", "taken"} => s = "rx"
      PROVE  CallsOK'
  BY <1>0, <1>8 DEF Moves
<1>9. ASSUME NEW s \in Sides, UNCHANGED <<endpoint, config, life, queue>>,
             InCall(s), Moves(s, "evaluate", queue[s]) \/ Moves(s, "again", 0)
      PROVE  CallsOK'
  BY <1>0, <1>9 DEF Moves
<1>10. ASSUME NEW s \in Sides, UNCHANGED <<endpoint, config, life, queue>>,
              Returns(s)
       PROVE  CallsOK'
  BY <1>0, <1>10, IdleCall DEF Returns
<1>11. ASSUME NEW s \in Sides,
              \/ SendCall \/ RecvCall \/ Push \/ Pop \/ Taken \/ WaitEvent(s)
              \/ Enqueue(s) \/ Evaluate(s) \/ WakeUp(s) \/ Again(s) \/ Signal(s)
              \/ HandlerStart(s) \/ HandlerScan(s)
       PROVE  CallsOK'
  <2>1. UNCHANGED <<endpoint, config, life, queue>>
    BY <1>11, NodesLeftAlone
  <2>2. Places = {"idle", "wait", "enqueue", "evaluate", "asleep", "again", "push",
                  "pop", "taken", "signal"}
    BY DEF Places
  <2>3. CASE SendCall
    <3>1. endpoint["tx"] = "OPEN"
      BY <2>3 DEF SendCall, Accepted
    <3>. QED  BY <1>8, <2>1, <2>2, <2>3, <3>1, TaskMoves, SideFacts
  <2>4. CASE RecvCall
    <3>1. endpoint["rx"] = "OPEN"
      BY <2>4 DEF RecvCall, Accepted
    <3>. QED  BY <1>8, <2>1, <2>2, <2>4, <3>1, TaskMoves, SideFacts
  <2>5. CASE Push
    BY <1>8, <2>1, <2>2, <2>5, TaskMoves, SideFacts DEF Push
  <2>6. CASE Taken
    BY <1>8, <2>1, <2>2, <2>6, TaskMoves, SideFacts DEF Taken
  <2>7. CASE Pop
    BY <1>8, <1>10, <2>1, <2>2, <2>7, PopMoves, SideFacts DEF Pop
  <2>8. CASE WaitEvent(s) \/ Enqueue(s)
    BY <1>9, <2>1, <2>8, TaskMoves DEF WaitEvent, Enqueue
  <2>9. CASE Evaluate(s)
    BY <1>8, <1>9, <2>1, <2>2, <2>9, TaskMoves DEF Evaluate
  <2>10. CASE WakeUp(s)
    BY <1>8, <2>1, <2>2, <2>10, TaskMoves DEF WakeUp
  <2>11. CASE Again(s)
    <3>1. /\ Transfer(s) \in {"push", "pop"}
          /\ Transfer(s) = "push" => s = "tx"
          /\ Transfer(s) = "pop" => s = "rx"
      BY DEF Transfer, Sides
    <3>2. InCall(s)
      BY <2>11 DEF Again
    <3>3. CASE Returns(s)
      BY <1>10, <2>1, <3>3
    <3>4. CASE Moves(s, Transfer(s), call[s].queue)
      <4>1. CASE Moves(s, "push", call[s].queue) /\ s = "tx"
        BY <1>8, <2>1, <2>2, <3>2, <4>1
      <4>2. CASE Moves(s, "pop", call[s].queue) /\ s = "rx"
        BY <1>8, <2>1, <2>2, <3>2, <4>2
      <4>. QED  BY <3>1, <3>4, <4>1, <4>2
    <3>5. CASE Moves(s, "wait", call[s].queue)
      BY <1>8, <2>1, <2>2, <3>2, <3>5
    <3>. QED  BY <2>11, <3>3, <3>4, <3>5, TaskMoves
  <2>12. CASE Signal(s)
    BY <1>10, <2>1, <2>12, TaskMoves
  <2>13. CASE HandlerStart(s) \/ HandlerScan(s)
    BY <1>1, <2>1, <2>13, CallsLeftAlone
  <2>. QED  BY <1>11, <2>3, <2>4, <2>5, <2>6, <2>7, <2>8, <2>9, <2>10, <2>11,
               <2>12, <2>13
<1>. QED  BY <1>2, <1>3, <1>4, <1>5, <1>6, <1>7, <1>11, Steps, SideFacts

\* ICC_Finalize releases the tasks that are asleep, or they are abandoned: a
\* task falls asleep only in a node that is up, and those that sleep when their
\* node goes down are on its wait queue, unless their call is abandoned.
LEMMA ReleasedKept ==
  ASSUME Kinds, LifeOK, CallsOK, WaitersReleased, Next
  PROVE  WaitersReleased'
<1> USE DEF WaitersReleased, At, LifeAt
<1>0. /\ node \in [Sides -> {"UNINIT", "INIT"}]
      /\ life \in [Sides -> {"idle", "head", "tail", "mark", "interrupts", "wake",
                             "close", "end"}]
      /\ \A s \in Sides : call[s].abandoned \in BOOLEAN
  BY DEF Kinds, NodeKinds, TaskKinds, Calls
<1>1. ASSUME UNCHANGED <<node, life, waiting, call>>
      PROVE  WaitersReleased'
  BY <1>1
<1>2. ASSUME NEW s \in Sides,
             \/ Initialize(s) \/ EmptyHead(s) \/ EmptyTail(s)
             \/ OpenChannel(s) \/ CloseChannel(s)
             \/ Finalize(s) \/ MarkInitialized(s) \/ InitInterrupts(s)
             \/ FinalizeClose(s) \/ FinalizeEnd(s) \/ WakeUp(s) \/ Again(s)
             \/ Signal(s) \/ HandlerStart(s) \/ SendCall \/ RecvCall
             \/ Push \/ Pop \/ Taken
      PROVE  waiting' = waiting
  BY <1>2 DEF Initialize, EmptyHead, EmptyTail, OpenChannel, CloseChannel, Finalize, MarkInitialized,
     InitInterrupts, FinalizeClose, FinalizeEnd, WakeUp, Again, Signal,
     HandlerStart, SendCall, RecvCall, Push, Pop, Taken, tasks
<1>3. ASSUME NEW s \in Sides, Initialize(s) \/ CloseChannel(s)
      PROVE  WaitersReleased'
  <2>1. Abandons(s) /\ waiting' = waiting /\ node' = node
    BY <1>2, <1>3, TaskMoves DEF Initialize, CloseChannel
  <2>2. \/ life' = life
        \/ /\ life[s] = "idle"
           /\ \E p \in {"head", "mark"} : life' = [life EXCEPT ![s] = p]
    BY <1>3 DEF Initialize, FifoInit, CloseChannel, LifeGoto
  <2>. QED  BY <1>0, <2>1, <2>2 DEF Abandons, InCall
<1>4. ASSUME NEW s \in Sides,
             \/ EmptyHead(s) \/ EmptyTail(s) \/ OpenChannel(s)
             \/ FinalizeClose(s) \/ FinalizeEnd(s)
      PROVE  WaitersReleased'
  <2>1. call' = call /\ waiting' = waiting /\ node' = node
    BY <1>2, <1>4, CallsLeftAlone
       DEF EmptyHead, EmptyTail, OpenChannel, FinalizeClose, FinalizeEnd, nodes
  <2>2. \/ life' = life
        \/ life[s] # "wake" /\ \E p : life' = [life EXCEPT ![s] = p]
    BY <1>4 DEF EmptyHead, EmptyTail, OpenChannel, FinalizeClose, FinalizeEnd,
                LifeGoto
  <2>. QED  BY <1>0, <2>1, <2>2
<1>5. ASSUME NEW s \in Sides, MarkInitialized(s) \/ InitInterrupts(s)
      PROVE  WaitersReleased'
  <2>1. call' = call /\ waiting' = waiting
    BY <1>2, <1>5, CallsLeftAlone
  <2>2. CASE MarkInitialized(s)
    <3>1. life[s] = "mark" /\ node' = [node EXCEPT ![s] = "INIT"]
      BY <2>2 DEF MarkInitialized, LifeAt
    <3>2. life' = [life EXCEPT ![s] = "interrupts"]
      BY <2>2 DEF MarkInitialized, LifeGoto
    <3>. QED  BY <1>0, <2>1, <3>1, <3>2
  <2>3. CASE InitInterrupts(s)
    <3>1. life[s] = "interrupts" /\ node' = node
      BY <2>3 DEF InitInterrupts, LifeAt, nodes
    <3>2. \E p : life' = [life EXCEPT ![s] = p]
      BY <2>3 DEF InitInterrupts, LifeGoto
    <3>3. node[s] = "INIT"
      BY <1>0, <3>1 DEF LifeOK
    <3>. QED  BY <1>0, <2>1, <3>1, <3>2, <3>3
  <2>. QED  BY <1>5, <2>2, <2>3
<1>6. ASSUME NEW s \in Sides, Finalize(s)
      PROVE  WaitersReleased'
  <2>1. /\ call' = call /\ waiting' = waiting /\ config[s] /\ life[s] = "idle"
        /\ life' = [life EXCEPT ![s] = IF endpoint[s] = "OPEN" THEN "wake"
                                                              ELSE "close"]
        /\ node' = [node EXCEPT ![s] = "UNINIT"]
    BY <1>2, <1>6, CallsLeftAlone DEF Finalize, LifeGoto
  <2>2. call[s].pc = "asleep" /\ endpoint[s] # "OPEN" => call[s].abandoned
    BY <2>1 DEF CallsOK, InCall, Kinds, NodeKinds
  <2>. QED  BY <1>0, <2>1, <2>2
<1>7. ASSUME NEW s \in Sides, FinalizeWake(s)
      PROVE  WaitersReleased'
  <2>1. /\ call' = call /\ node' = node /\ life' = [life EXCEPT ![s] = "close"]
        /\ waiting' = IF call[s].queue = queue[s] THEN waiting \ {s} ELSE waiting
    BY <1>7, CallsLeftAlone DEF FinalizeWake, WakeTasks, LifeGoto, nodes
  <2>2. call[s].pc = "asleep" /\ call[s].queue # queue[s] => call[s].abandoned
    BY DEF CallsOK, Sleeps
  <2>. QED  BY <1>0, <2>1, <2>2
<1>8. ASSUME NEW s \in Sides, NEW p \in Places, p # "asleep", NEW q \in Nat,
             UNCHANGED <<node, life>>, Moves(s, p, q),
             waiting' = waiting \/ waiting' = waiting \union {s}
             \/ waiting' = waiting \ {s}
      PROVE  WaitersReleased'
  BY <1>0, <1>8 DEF Moves
<1>9. ASSUME NEW s \in Sides, UNCHANGED <<node, life, waiting>>, Returns(s)
      PROVE  WaitersReleased'
  BY <1>0, <1>9, IdleCall DEF Returns
<1>10. ASSUME NEW s \in Sides, HandlerStart(s) \/ HandlerScan(s)
       PROVE  WaitersReleased'
  <2>1. UNCHANGED <<node, life, call>>
    BY <1>10, NodesLeftAlone, CallsLeftAlone
  <2>2. waiting' = waiting \/ waiting' = waiting \ {s}
    BY <1>10, <1>2 DEF HandlerScan, Serve, Done, WakeTasks
  <2>. QED  BY <1>0, <2>1, <2>2
<1>11. ASSUME NEW s \in Sides, Evaluate(s)
       PROVE  WaitersReleased'
  <2>1. UNCHANGED <<node, life>>
    BY <1>11, NodesLeftAlone
  <2>2. CASE WaitCondition(s)
    <3>1. /\ call' = [call EXCEPT ![s].pc = "again", ![s].snap = 0, ![s].queue = 0]
          /\ waiting' = waiting \ {s}
      BY <1>11, <2>2 DEF Evaluate
    <3>2. Moves(s, "again", 0)
      BY <3>1, CallWaits DEF Kinds, TaskKinds, NodeKinds
    <3>. QED  BY <1>8, <2>1, <3>1, <3>2 DEF Places
  <2>3. CASE ~WaitCondition(s)
    <3>1. node[s] # "UNINIT"
      BY <2>3 DEF WaitCondition
    <3>2. Goto(s, "asleep") /\ waiting' = waiting
      BY <1>11, <2>3 DEF Evaluate
    <3>3. Moves(s, "asleep", call[s].queue)
      BY <3>2, CallGoes DEF Kinds, TaskKinds, Places
    <3>. QED  BY <1>0, <2>1, <3>1, <3>2, <3>3 DEF Moves
  <2>. QED  BY <2>2, <2>3
<1>12. ASSUME NEW s \in Sides,
              \/ SendCall \/ RecvCall \/ Push \/ Pop \/ Taken \/ WaitEvent(s)
              \/ Enqueue(s) \/ WakeUp(s) \/ Again(s) \/ Signal(s)
       PROVE  WaitersReleased'
  <2>1. UNCHANGED <<node, life>>
    BY <1>12, NodesLeftAlone
  <2>2. \A u \in Sides : call[u].queue \in Nat /\ queue[u] \in Nat
    BY DEF Kinds, TaskKinds, NodeKinds, Calls
  <2>3. \E u \in Sides :
          \/ Returns(u)
          \/ \E p \in Places \ {"asleep"}, q \in Nat : Moves(u, p, q)
    <3>1. /\ \A p \in {"push", "pop", "wait", "evaluate", "enqueue", "signal",
                       "taken"} : p \in Places \ {"asleep"}
          /\ Transfer(s) \in {"push", "pop"}
      BY DEF Places, Transfer
    <3>. QED  BY <1>12, <2>2, <3>1, TaskMoves, PopMoves, SideFacts
  <2>4. CASE WaitEvent(s) \/ Enqueue(s)
    <3>1. Moves(s, "evaluate", queue[s]) /\ waiting' = waiting \union {s}
      BY <2>4, TaskMoves DEF WaitEvent, Enqueue, WaitOn
    <3>. QED  BY <1>8, <2>1, <2>2, <3>1 DEF Places
  <2>5. CASE \/ SendCall \/ RecvCall \/ Push \/ Pop \/ Taken \/ WakeUp(s)
             \/ Again(s) \/ Signal(s)
    <3>1. waiting' = waiting
      BY <1>2, <2>5
    <3>. QED  BY <1>8, <1>9, <2>1, <2>3, <3>1
  <2>. QED  BY <1>12, <2>4, <2>5
<1>. QED  BY <1>3, <1>4, <1>5, <1>6, <1>7, <1>10, <1>11, <1>12, Steps, SideFacts
-----------------------------------------------------------------------------
(***************************************************************************)
(* The indexes of messages of one size.                                    *)
(***************************************************************************)
LEMMA NoMultipleBetween ==
  ASSUME NEW m \in Int, FifoSize * m < FifoSize, 0 - FifoSize < FifoSize * m
  PROVE  m = 0
<1>1. CASE m >= 1
  <2>1. FifoSize * m >= FifoSize
    BY <1>1, Numbers
  <2>. QED  BY <2>1, Numbers
<1>2. CASE m <= 0 - 1
  <2>1. FifoSize * m <= 0 - FifoSize
    BY <1>2, Numbers
  <2>. QED  BY <2>1, Numbers
<1>. QED  BY <1>1, <1>2

LEMMA Slots ==
  ASSUME NEW x \in Int
  PROVE  /\ x \div FifoSize \in Int
         /\ x = FifoSize * (x \div FifoSize) + (x % FifoSize)
         /\ x % FifoSize \in 0 .. FifoSize - 1
BY Numbers

LEMMA RingShift ==
  ASSUME NEW x \in Int
  PROVE  (x - FifoSize) % FifoSize = x % FifoSize
<1> DEFINE y == x - FifoSize
           k == x \div FifoSize
           l == y \div FifoSize
           a == x % FifoSize
           b == y % FifoSize
<1>1. FifoSize \in Nat \ {0} /\ y \in Int /\ y = x - FifoSize
  BY Numbers
<1> HIDE DEF y
<1>2. /\ k \in Int /\ l \in Int /\ a \in 0 .. FifoSize - 1 /\ b \in 0 .. FifoSize - 1
      /\ x = FifoSize * k + a /\ y = FifoSize * l + b
  BY <1>1, Slots
<1> HIDE DEF k, l, a, b
<1>3. FifoSize * (k - 1 - l) = b - a
  BY <1>1, <1>2
<1>4. k - 1 - l = 0
  <2>1. k - 1 - l \in Int /\ b - a < FifoSize /\ 0 - FifoSize < b - a
    BY <1>1, <1>2
  <2>. QED  BY <1>3, <2>1, NoMultipleBetween
<1>5. a = b
  BY <1>1, <1>2, <1>3, <1>4
<1>. QED  BY <1>5 DEF a, b, y

LEMMA RingDistinct ==
  ASSUME NEW x \in Int, NEW y \in Int, x < y, y < x + FifoSize
  PROVE  x % FifoSize # y % FifoSize
<1> DEFINE k == x \div FifoSize
           l == y \div FifoSize
<1>1. /\ k \in Int /\ l \in Int
      /\ x = FifoSize * k + (x % FifoSize) /\ y = FifoSize * l + (y % FifoSize)
  BY Slots
<1> HIDE DEF k, l
<1>2. SUFFICES ASSUME x % FifoSize = y % FifoSize PROVE FALSE
  OBVIOUS
<1>3. y - x = FifoSize * (l - k)
  BY <1>1, <1>2, Numbers
<1>4. l - k = 0
  <2>1. l - k \in Int /\ y - x < FifoSize /\ 0 - FifoSize < y - x
    BY <1>1, Numbers
  <2>. QED  BY <1>3, <2>1, NoMultipleBetween
<1>. QED  BY <1>3, <1>4, Numbers
-----------------------------------------------------------------------------
(***************************************************************************)
(* The indexes.                                                            *)
(***************************************************************************)

\* The steps that neither transfer a message nor empty the FIFO.
LEMMA FifoLeftAlone ==
  ASSUME Kinds, NEW s \in Sides,
         \/ SendCall \/ RecvCall \/ WaitEvent(s) \/ Enqueue(s)
         \/ Evaluate(s) \/ WakeUp(s) \/ Again(s) \/ Signal(s)
         \/ HandlerStart(s) \/ HandlerScan(s)
         \/ Initialize(s) \/ OpenChannel(s) \/ CloseChannel(s) \/ Finalize(s)
         \/ MarkInitialized(s) \/ InitInterrupts(s) \/ FinalizeWake(s)
         \/ FinalizeClose(s) \/ FinalizeEnd(s)
  PROVE  /\ UNCHANGED <<head, tail, ring, pushed, got, epoch, overrun>>
         /\ Emptying' <=> Emptying
<1>1. UNCHANGED <<head, tail, ring, pushed, got, epoch, overrun>>
  BY DEF SendCall, RecvCall, WaitEvent, Enqueue, WaitOn, Evaluate, WakeUp, Again,
     Signal, HandlerStart, HandlerScan, Initialize, OpenChannel, CloseChannel,
     Finalize, MarkInitialized, InitInterrupts, FinalizeWake, FinalizeClose,
     FinalizeEnd, fifo, tasks, flags
<1>2. \/ life' = life
      \/ /\ life[s] # "tail"
         /\ \E p : p # "tail" /\ life' = [life EXCEPT ![s] = p]
  <2>1. CASE \/ SendCall \/ RecvCall \/ WaitEvent(s) \/ Enqueue(s)
             \/ Evaluate(s) \/ WakeUp(s) \/ Again(s) \/ Signal(s)
             \/ HandlerStart(s) \/ HandlerScan(s)
    BY <2>1, NodesLeftAlone
  <2>2. CASE \/ Initialize(s) \/ OpenChannel(s) \/ CloseChannel(s) \/ Finalize(s)
             \/ MarkInitialized(s) \/ InitInterrupts(s) \/ FinalizeWake(s)
             \/ FinalizeClose(s) \/ FinalizeEnd(s)
    BY <2>2 DEF Initialize, FifoInit, OpenChannel, CloseChannel, Finalize,
       MarkInitialized, InitInterrupts, FinalizeWake, FinalizeClose, FinalizeEnd,
       LifeAt, LifeGoto
  <2>. QED  BY <2>1, <2>2
<1>3. Emptying' <=> Emptying
  <2>1. life \in [Sides -> {"idle", "head", "tail", "mark", "interrupts", "wake",
                            "close", "end"}]
    BY DEF Kinds, NodeKinds
  <2>. QED  BY <1>2, <2>1, SideFacts DEF Emptying, LifeAt
<1>. QED  BY <1>1, <1>3

\* The steps of the two transfers leave ICC_Initialize where it is.
LEMMA TransferLeavesLife ==
  ASSUME Push \/ Pop \/ Taken
  PROVE  Emptying' <=> Emptying
BY NodesLeftAlone, SideFacts DEF Emptying, LifeAt

LEMMA PopLeavesFifo ==
  ASSUME Kinds, Pop
  PROVE  /\ UNCHANGED <<head, tail, ring, pendingSize, pushed, got, epoch>>
         /\ ~overrun' => ~overrun
         /\ ~overrun' /\ Emptying => Return("rx")
<1>1. UNCHANGED <<head, tail, ring, pendingSize, pushed, got, epoch>>
  BY DEF Pop, fifo
<1>2. \/ overrun' = (overrun \/ LifeAt("tx", "tail"))
      \/ Return("rx") /\ UNCHANGED overrun
  BY Zenon DEF Pop
<1>3. (~overrun' => ~overrun) /\ (~overrun' /\ Emptying => Return("rx"))
  <2>1. CASE overrun' = (overrun \/ LifeAt("tx", "tail"))
    <3>1. (overrun \/ life["tx"] = "tail") <=> (overrun' = TRUE)
      BY <2>1 DEF LifeAt
    <3>. QED  BY <3>1 DEF Emptying, LifeAt
  <2>2. CASE Return("rx") /\ UNCHANGED overrun
    BY <2>2
  <2>. QED  BY <1>2, <2>1, <2>2
<1>. QED  BY <1>1, <1>3

\* ICC_FIFO_Init empties the FIFO of the transmitting side, in two steps.
LEMMA Emptied ==
  ASSUME Kinds, LifeOK, NEW s \in Sides
  PROVE  /\ EmptyHead(s) =>
              /\ UNCHANGED <<tail, ring, pendingSize, pushed, got, epoch, call>>
              /\ s = "tx" /\ head' = 0 /\ Emptying'
              /\ ~overrun' => ~overrun /\ ~At("rx", "taken")
         /\ EmptyTail(s) =>
              /\ UNCHANGED <<head, ring, pushed, got, overrun, call>>
              /\ s = "tx" /\ tail' = 0 /\ pendingSize' = 0 /\ epoch' = epoch + 1
              /\ Emptying /\ ~Emptying'
<1>0. life \in [Sides -> {"idle", "head", "tail", "mark", "interrupts", "wake",
                          "close", "end"}]
  BY DEF Kinds, NodeKinds
<1>1. ASSUME EmptyHead(s)
      PROVE  /\ UNCHANGED <<tail, ring, pendingSize, pushed, got, epoch, call>>
             /\ s = "tx" /\ head' = 0 /\ Emptying'
             /\ ~overrun' => ~overrun /\ ~At("rx", "taken")
  <2>1. life[s] = "head" /\ life' = [life EXCEPT ![s] = "tail"]
    BY <1>1 DEF EmptyHead, LifeAt, LifeGoto
  <2>2. s = "tx"
    BY <2>1 DEF LifeOK
  <2>3. Emptying'
    BY <1>0, <2>1, <2>2 DEF Emptying, LifeAt
  <2>. QED  BY <1>1, <2>2, <2>3 DEF EmptyHead, tasks
<1>2. ASSUME EmptyTail(s)
      PROVE  /\ UNCHANGED <<head, ring, pushed, got, overrun, call>>
             /\ s = "tx" /\ tail' = 0 /\ pendingSize' = 0 /\ epoch' = epoch + 1
             /\ Emptying /\ ~Emptying'
  <2>1. life[s] = "tail" /\ life' = [life EXCEPT ![s] = "mark"]
    BY <1>2 DEF EmptyTail, LifeAt, LifeGoto
  <2>2. s = "tx"
    BY <2>1 DEF LifeOK
  <2>3. Emptying /\ ~Emptying'
    BY <1>0, <2>1, <2>2 DEF Emptying, LifeAt
  <2>. QED  BY <1>2, <2>2, <2>3 DEF EmptyTail, tasks
<1>. QED  BY <1>1, <1>2

\* Where a task goes that neither begins a push nor takes a message.
Elsewhere(s) ==
  \/ Returns(s)
  \/ \E p \in Places \ {"push", "taken"}, q \in Nat : Moves(s, p, q)

LEMMA GoesElsewhere ==
  ASSUME Kinds, NEW s \in Sides,
         \/ RecvCall \/ Push \/ Taken \/ WaitEvent(s) \/ Enqueue(s) \/ Evaluate(s)
         \/ WakeUp(s) \/ Signal(s)
  PROVE  \E u \in Sides : Elsewhere(u)
<1>1. \A u \in Sides : call[u].queue \in Nat /\ queue[u] \in Nat
  BY DEF Kinds, TaskKinds, NodeKinds, Calls
<1>2. \A p \in {"pop", "wait", "evaluate", "again", "asleep", "enqueue", "signal"} :
        p \in Places \ {"push", "taken"}
  BY DEF Places
<1>. QED  BY <1>1, <1>2, TaskMoves, SideFacts DEF Elsewhere

\* The two calls that begin a push have found room.
LEMMA BeginsPush ==
  ASSUME Kinds, NEW s \in Sides, SendCall \/ Again(s)
  PROVE  \/ \E u \in Sides : Elsewhere(u)
         \/ Fits /\ Moves("tx", "push", call["tx"].queue)
<1>1. \A u \in Sides : call[u].queue \in Nat
  BY DEF Kinds, TaskKinds, Calls
<1>2. \A p \in {"wait", "pop"} : p \in Places \ {"push", "taken"}
  BY DEF Places
<1>3. /\ call \in [Sides -> Calls] /\ "tx" \in Sides
      /\ \A p \in {"wait", "pop", "push"} : p \in Places
  BY SideFacts DEF Kinds, TaskKinds, Places
<1>4. CASE SendCall
  <2>1. \/ Fits /\ Goto("tx", "push")
        \/ Goto("tx", "wait")
    BY <1>4 DEF SendCall
  <2>. QED  BY <1>1, <1>2, <1>3, <2>1, CallGoes DEF Elsewhere
<1>5. CASE Again(s)
  <2>1. \/ Return(s)
        \/ Served(s) /\ Goto(s, Transfer(s))
        \/ Goto(s, "wait")
    BY <1>5 DEF Again
  <2>2. CASE Served(s) /\ Goto(s, Transfer(s)) /\ s = "tx"
    BY <1>3, <2>2, CallGoes DEF Served, Transfer
  <2>3. CASE Goto(s, Transfer(s)) /\ s # "tx"
    BY <1>1, <1>2, <1>3, <2>3, CallGoes DEF Elsewhere, Transfer
  <2>. QED  BY <1>1, <1>2, <1>3, <2>1, <2>2, <2>3, CallGoes, CallReturns DEF Elsewhere
<1>. QED  BY <1>4, <1>5

LEMMA IndexesKept ==
  ASSUME Kinds, LifeOK, CallsOK, IndexesOK, Next
  PROVE  IndexesOK'
<1> USE DEF At
<1>0. Size \in Nat /\ Size < FifoSize /\ Aligned(0) /\ FifoSize \in Nat
  BY Numbers
<1>1. ASSUME UNCHANGED <<head, tail, overrun, call>>, Emptying' <=> Emptying
      PROVE  IndexesOK'
  BY <1>1 DEF IndexesOK
<1>2. ASSUME NEW s \in Sides, UNCHANGED <<head, tail>>, ~overrun' => ~overrun,
             Emptying' <=> Emptying, Elsewhere(s)
      PROVE  IndexesOK'
  <2>1. /\ call'[s].pc \notin {"push", "taken"}
        /\ \A u \in Sides : u # s => call'[u] = call[u]
    BY <1>2, IdleCall DEF Elsewhere, Returns, Moves
  <2>. QED  BY <1>2, <2>1, SideFacts DEF IndexesOK
<1>3. ASSUME NEW s \in Sides, Abandons(s)
      PROVE  \A u \in Sides : call'[u].pc = call[u].pc /\ call'[u].head = call[u].head
  BY <1>3 DEF Abandons
<1>4. ASSUME NEW s \in Sides, EmptyHead(s) \/ EmptyTail(s)
      PROVE  IndexesOK'
  <2>1. CASE EmptyHead(s)
    <3>1. /\ head' = 0 /\ Emptying' /\ call' = call
          /\ ~overrun' => call["rx"].pc # "taken"
      BY <2>1, Emptied
    <3>. QED  BY <1>0, <3>1 DEF IndexesOK, Index
  <2>2. CASE EmptyTail(s)
    <3>1. /\ UNCHANGED <<head, overrun, call>> /\ tail' = 0
          /\ Emptying /\ ~Emptying'
      BY <2>2, Emptied
    <3>2. Room(0, 0, Size) /\ 0 \in Index
      BY <1>0 DEF Room, WrappedAround, Index
    <3>. QED  BY <1>0, <3>1, <3>2 DEF IndexesOK
  <2>. QED  BY <1>4, <2>1, <2>2
<1>5. ASSUME NEW s \in Sides, Initialize(s) \/ CloseChannel(s)
      PROVE  IndexesOK'
  <2>1. Abandons(s) /\ UNCHANGED <<head, tail, overrun>> /\ (Emptying' <=> Emptying)
    BY <1>5, TaskMoves, FifoLeftAlone
  <2>. QED  BY <1>3, <2>1, SideFacts DEF IndexesOK
<1>6. ASSUME NEW s \in Sides, SendCall \/ Again(s)
      PROVE  IndexesOK'
  <2>1. UNCHANGED <<head, tail, overrun>> /\ (Emptying' <=> Emptying)
    BY <1>6, FifoLeftAlone
  <2>2. CASE Fits /\ Moves("tx", "push", call["tx"].queue)
    <3>1. ~overrun /\ ~Emptying => Room(head, tail, Size)
      BY <2>2, FitsHasRoom, Numbers DEF IndexesOK, Fits, Size
    <3>. QED  BY <2>1, <2>2, <3>1, SideFacts DEF IndexesOK, Moves
  <2>. QED  BY <1>2, <1>6, <2>1, <2>2, BeginsPush
<1>7. CASE Push
  <2> DEFINE body == TailAfter(head, tail, HeaderSize, 0)
  <2>1. /\ At("tx", "push") /\ UNCHANGED <<head, overrun>>
        /\ tail' = TailAfter(head, body, MsgSize, Padding(MsgSize))
    BY <1>7 DEF Push, flags
  <2>2. /\ call'["tx"].pc = "signal" /\ call'["rx"] = call["rx"]
    BY <1>7, TaskMoves, SideFacts DEF Moves
  <2>6. Emptying' <=> Emptying
    BY <1>7, TransferLeavesLife
  <2>3. ASSUME ~overrun, ~Emptying
        PROVE  /\ head \in Index /\ tail \in Index /\ Aligned(head) /\ Aligned(tail)
               /\ Room(head, tail, Size)
               /\ At("rx", "taken") => /\ Size <= PendingBytes(head, tail)
                                       /\ call["rx"].head = Onward(head, Size)
    BY <2>1, <2>3 DEF IndexesOK
  <2>4. ASSUME ~overrun, ~Emptying
        PROVE  /\ tail' \in Index /\ Aligned(tail')
               /\ PendingBytes(head, tail') = PendingBytes(head, tail) + Size
    BY <2>1, <2>3, <2>4, Numbers, MessagePushed
  <2>5. ASSUME ~overrun, ~Emptying, Size <= PendingBytes(head, tail)
        PROVE  Size <= PendingBytes(head, tail')
    BY <1>0, <2>3, <2>4, <2>5, Occupied
  <2> HIDE DEF body
  <2>. QED  BY <2>1, <2>2, <2>3, <2>4, <2>5, <2>6 DEF IndexesOK
<1>8. CASE Taken
  <2>1. /\ At("rx", "taken") /\ head' = call["rx"].head /\ UNCHANGED <<tail, overrun>>
    BY <1>8 DEF Taken, flags
  <2>2. /\ call'["rx"].pc = "signal" /\ call'["tx"] = call["tx"]
    BY <1>8, TaskMoves, SideFacts DEF Moves
  <2>5. (Emptying' <=> Emptying) /\ (~overrun => ~Emptying)
    BY <1>8, <2>1, TransferLeavesLife DEF IndexesOK
  <2>3. ASSUME ~overrun
        PROVE  /\ head \in Index /\ tail \in Index /\ Aligned(head) /\ Aligned(tail)
               /\ head' = Onward(head, Size) /\ Size <= PendingBytes(head, tail)
               /\ At("tx", "push") => Room(head, tail, Size)
    BY <2>1, <2>3, <2>5 DEF IndexesOK
  <2>4. ASSUME ~overrun
        PROVE  /\ head' \in Index /\ Aligned(head')
               /\ At("tx", "push") => Room(head', tail, Size)
    BY <2>3, <2>4, Numbers, MessageRead
  <2>. QED  BY <2>1, <2>2, <2>3, <2>4, <2>5 DEF IndexesOK
<1>9. CASE Pop
  <2>1. /\ UNCHANGED <<head, tail>> /\ (~overrun' => ~overrun)
        /\ Emptying' <=> Emptying
        /\ ~overrun' /\ Emptying => Returns("rx")
    <3>1. Return("rx") => Returns("rx")
      BY SideFacts, CallReturns DEF Kinds, TaskKinds
    <3>. QED  BY <1>9, <3>1, PopLeavesFifo, TransferLeavesLife
  <2>2. CASE Returns("rx")
    BY <1>2, <2>1, <2>2, SideFacts DEF Elsewhere
  <2>3. CASE /\ Size <= PendingBytes(head, tail)
             /\ Moves("rx", "taken", call["rx"].queue)
             /\ call'["rx"].head =
                  Behind(Behind(head, HeaderSize, 0), MsgSize, Padding(MsgSize))
    <3>1. ~overrun /\ ~Emptying => call'["rx"].head = Onward(head, Size)
      BY <2>3, Numbers, MessagePopped DEF IndexesOK, Behind
    <3>2. ~overrun' => ~Emptying
      BY <2>1, <2>2, <1>2, IdleCall, <2>3 DEF Returns, Moves
    <3>. QED  BY <2>1, <2>3, <3>1, <3>2, SideFacts DEF IndexesOK, Moves
  <2>. QED  BY <1>9, <2>2, <2>3, PopMoves
<1>10. ASSUME NEW s \in Sides,
              \/ RecvCall \/ WaitEvent(s) \/ Enqueue(s) \/ Evaluate(s)
              \/ WakeUp(s) \/ Signal(s)
       PROVE  IndexesOK'
  BY <1>2, <1>10, GoesElsewhere, FifoLeftAlone
<1>11. ASSUME NEW s \in Sides,
              \/ OpenChannel(s) \/ Finalize(s) \/ MarkInitialized(s)
              \/ InitInterrupts(s) \/ FinalizeWake(s) \/ FinalizeClose(s)
              \/ FinalizeEnd(s) \/ HandlerStart(s) \/ HandlerScan(s)
       PROVE  IndexesOK'
  BY <1>1, <1>11, FifoLeftAlone, CallsLeftAlone
<1>. QED
  BY <1>4, <1>5, <1>6, <1>7, <1>8, <1>9, <1>10, <1>11, Steps, SideFacts
-----------------------------------------------------------------------------
(***************************************************************************)
(* The contents of the ring and the messages received.                     *)
(***************************************************************************)

\* The message received before the i-th one.
Previous(g, i) == IF i = 1 THEN <<1, 0>> ELSE g[i - 1]

LEMMA Preceded ==
  ASSUME NEW g \in Seq(Message), NEW i \in 1 .. Len(g)
  PROVE  /\ (<<<<1, 0>>>> \o g)[i] = Previous(g, i)
         /\ (<<<<1, 0>>>> \o g)[i + 1] = g[i]
<1> DEFINE first == <<<<1, 0>>>>
<1>1. first \in Seq(Message) /\ Len(first) = 1 /\ first[1] = <<1, 0>>
  BY DEF Message
<1> HIDE DEF first
<1>2. \A j \in 1 .. Len(first) + Len(g) :
        (first \o g)[j] = IF j <= Len(first) THEN first[j] ELSE g[j - Len(first)]
  BY ONLY <1>1, g \in Seq(Message), ConcatProperties, Zenon
<1>3. /\ Len(g) \in Nat /\ i \in 1 .. 1 + Len(g) /\ i + 1 \in 1 .. 1 + Len(g)
      /\ i + 1 - 1 = i /\ ~(i + 1 <= 1) /\ (i <= 1 <=> i = 1)
  OBVIOUS
<1>4. (first \o g)[i] = Previous(g, i)
  BY <1>1, <1>2, <1>3 DEF Previous
<1>5. (first \o g)[i + 1] = g[i]
  <2> DEFINE j == i + 1
  <2>1. j \in 1 .. Len(first) + Len(g) /\ ~(j <= Len(first)) /\ j - Len(first) = i
    BY <1>1, <1>3
  <2> HIDE DEF j
  <2>2. (first \o g)[j] = g[j - Len(first)]
    BY ONLY <1>2, <2>1
  <2>. QED  BY <2>1, <2>2 DEF j
<1>. QED  BY <1>4, <1>5 DEF first

\* What InOrder says of two neighbours.
Follows(m, k) == k[2] < m[2] /\ (k[1] = m[1] => m[2] = k[2] + 1)

LEMMA Ordered ==
  ASSUME got \in Seq(Message), ~overrun
  PROVE  InOrder <=> \A i \in 1 .. Len(got) : Follows(got[i], Previous(got, i))
BY Preceded DEF InOrder, Follows

LEMMA OrderedAfter ==
  ASSUME got' \in Seq(Message), ~overrun',
         \A i \in 1 .. Len(got') : Follows(got'[i], Previous(got', i))
  PROVE  InOrder'
BY Preceded DEF InOrder, Follows

LEMMA LatestKind ==
  ASSUME Kinds
  PROVE  Latest[1] \in Nat /\ Latest[2] \in Nat
<1>1. got \in Seq(Message) /\ \A k \in Message : k[1] \in Nat /\ k[2] \in Nat
  BY DEF Kinds, FifoKinds, Message
<1>2. Latest \in Message
  BY <1>1, EmptySeq DEF Latest, Message
<1>. QED  BY <1>1, <1>2

\* The slots of the unread messages, of the one pushed next and its body.
LEMMA SlotsApart ==
  ASSUME NEW h \in Index, NEW t \in Index, NEW n \in Nat,
         PendingBytes(h, t) = Size * n, Size * n + Size <= FifoSize,
         NEW body \in Int, body = t + HeaderSize \/ body = t + HeaderSize - FifoSize
  PROVE  /\ (h + Size * n) % FifoSize = t % FifoSize
         /\ \A i \in 0 .. n - 1 : /\ (h + Size * i) % FifoSize # t % FifoSize
                                  /\ (h + Size * i) % FifoSize # body % FifoSize
<1> DEFINE y == h + Size * n
<1>1. /\ Size \in Nat /\ HeaderSize \in Nat /\ HeaderSize < Size /\ FifoSize \in Nat
      /\ h \in Int /\ t \in Int /\ 0 < HeaderSize
      /\ Size * n \in Int
  BY Numbers DEF Index
<1>2. y \in Int /\ y = h + Size * n
  BY <1>1
<1> HIDE DEF y
<1>3. t = y \/ t = y - FifoSize
  BY <1>1, <1>2 DEF PendingBytes, WrappedAround
<1>4. y % FifoSize = t % FifoSize
  BY <1>2, <1>3, RingShift
<1>5. (y + HeaderSize) % FifoSize = body % FifoSize
  <2> DEFINE z == y + HeaderSize
             w == z - FifoSize
  <2>1. z \in Int /\ w \in Int /\ (body = z \/ body = w \/ body = w - FifoSize)
    BY <1>1, <1>2, <1>3
  <2>2. z % FifoSize = w % FifoSize
    BY <2>1, RingShift
  <2> HIDE DEF z, w
  <2>3. w % FifoSize = (w - FifoSize) % FifoSize
    BY <2>1, RingShift
  <2>4. z % FifoSize = body % FifoSize
    BY <2>1, <2>2, <2>3
  <2>. QED  BY <2>4 DEF z
<1>6. ASSUME NEW i \in 0 .. n - 1
      PROVE  /\ (h + Size * i) % FifoSize # t % FifoSize
             /\ (h + Size * i) % FifoSize # body % FifoSize
  <2> DEFINE x == h + Size * i
  <2>1. i \in Int /\ 0 <= i /\ i + 1 <= n /\ Size * i \in Int
    BY <1>1
  <2>2. Size * (i + 1) <= Size * n /\ Size * (i + 1) = Size * i + Size
    BY <1>1, <2>1
  <2>3. 0 <= Size * i
    BY <1>1, <2>1
  <2>4. x \in Int /\ x = h + Size * i
    BY <1>1, <2>1
  <2> HIDE DEF x
  <2>5. /\ x < y /\ y < x + FifoSize
        /\ x < y + HeaderSize /\ y + HeaderSize < x + FifoSize
        /\ y + HeaderSize \in Int
    BY <1>1, <1>2, <2>1, <2>2, <2>3, <2>4
  <2>6. x % FifoSize # y % FifoSize /\ x % FifoSize # (y + HeaderSize) % FifoSize
    BY <1>2, <2>4, <2>5, RingDistinct
  <2>. QED  BY <1>4, <1>5, <2>6 DEF x
<1>. QED  BY <1>4, <1>6 DEF y

LEMMA PushKeepsContent ==
  ASSUME Kinds, CallsOK, IndexesOK, ContentOK, Push, ~overrun', ~Emptying
  PROVE  ContentOK'
<1> DEFINE body == TailAfter(head, tail, HeaderSize, 0)
<1>1. /\ At("tx", "push") /\ UNCHANGED <<head, got, epoch, overrun>>
      /\ pushed' = pushed + 1
      /\ tail' = TailAfter(head, body, MsgSize, Padding(MsgSize))
      /\ ring' = [i \in 0 .. FifoSize - 1 |->
           IF i = tail % FifoSize \/ i = body % FifoSize THEN <<epoch, pushed + 1>>
                                                         ELSE ring[i]]
  BY DEF Push, flags
<1>2. call'["rx"] = call["rx"]
  BY TaskMoves, SideFacts DEF Moves
<1>3. /\ ~overrun /\ head \in Index /\ tail \in Index /\ Aligned(tail)
      /\ Room(head, tail, Size)
  BY <1>1 DEF IndexesOK
<1>4. /\ body = tail + HeaderSize \/ body = tail + HeaderSize - FifoSize
      /\ tail' \in Index
      /\ PendingBytes(head, tail') = PendingBytes(head, tail) + Size
  BY <1>1, <1>3, Numbers, MessagePushed
<1> HIDE DEF body
<1>5. InOrder'
  BY <1>1, <1>3 DEF ContentOK, InOrder
<1>6. PICK n \in Nat : Unread(n)
  BY <1>3 DEF ContentOK
<1>7. /\ FifoSize \in Nat \ {0} /\ HeaderSize \in Nat /\ Size \in Nat
      /\ head \in Int /\ tail \in Int /\ body \in Int /\ n + 1 \in Nat
      /\ pushed \in Nat /\ Size * (n + 1) = Size * n + Size /\ Size * n \in Int
  <2>1. /\ FifoSize \in Nat \ {0} /\ HeaderSize \in Nat /\ Size \in Nat
        /\ head \in Int /\ tail \in Int /\ n \in Int /\ pushed \in Nat
    BY <1>3, Numbers DEF Index, Kinds, FifoKinds
  <2>2. body \in Int
    BY <1>4, <2>1
  <2>3. Size * (n + 1) = Size * n + Size /\ Size * n \in Int
    BY <2>1
  <2>. QED  BY <2>1, <2>2, <2>3
<1>8. /\ PendingBytes(head, tail) = Size * n
      /\ PendingBytes(head, tail') = Size * (n + 1)
  BY <1>4, <1>6, <1>7 DEF Unread
<1>9. Size * n + Size <= FifoSize
  <2>1. PendingBytes(head, tail') \in 0 .. FifoSize
    BY <1>3, <1>4, Occupied
  <2>. QED  BY <1>7, <1>8, <2>1
<1>10. /\ (head + Size * n) % FifoSize = tail % FifoSize
       /\ \A i \in 0 .. n - 1 :
            /\ (head + Size * i) % FifoSize # tail % FifoSize
            /\ (head + Size * i) % FifoSize # body % FifoSize
  <2>1. /\ head \in Index /\ tail \in Index /\ n \in Nat /\ body \in Int
        /\ PendingBytes(head, tail) = Size * n /\ Size * n + Size <= FifoSize
        /\ body = tail + HeaderSize \/ body = tail + HeaderSize - FifoSize
    BY <1>3, <1>4, <1>7, <1>8, <1>9
  <2>. QED  BY ONLY <2>1, SlotsApart
<1>11. ASSUME NEW i \in 0 .. n
       PROVE  ring'[(head + Size * i) % FifoSize]
                = <<epoch, (pushed + 1) - (n + 1) + 1 + i>>
  <2>1. (head + Size * i) % FifoSize \in 0 .. FifoSize - 1
    BY <1>7
  <2>2. CASE i = n
    <3>1. ring'[(head + Size * i) % FifoSize] = <<epoch, pushed + 1>>
      BY <1>1, <1>10, <2>1, <2>2
    <3>2. (pushed + 1) - (n + 1) + 1 + i = pushed + 1
      BY <1>7, <2>2
    <3>. QED  BY <3>1, <3>2
  <2>3. CASE i # n
    <3>1. i \in 0 .. n - 1
      BY <2>3
    <3>2. ring'[(head + Size * i) % FifoSize] = ring[(head + Size * i) % FifoSize]
      BY <1>1, <1>10, <2>1, <3>1
    <3>3. ring[(head + Size * i) % FifoSize] = <<epoch, pushed - n + 1 + i>>
      BY <1>6, <3>1 DEF Unread
    <3>4. (pushed + 1) - (n + 1) + 1 + i = pushed - n + 1 + i
      BY <1>7
    <3>. QED  BY <3>2, <3>3, <3>4
  <2>. QED  BY <2>2, <2>3
<1>12. pushed' - (n + 1) = pushed - n /\ (n + 1) - 1 = n
  BY <1>1, <1>7
<1>13. Unread(n + 1)'
  <2>1. Latest' = Latest /\ (At("rx", "taken")' <=> At("rx", "taken"))
    BY <1>1, <1>2 DEF Latest, At
  <2>2. \A i \in 0 .. (n + 1) - 1 :
          ring'[(head' + Size * i) % FifoSize]
            = <<epoch', pushed' - (n + 1) + 1 + i>>
    BY <1>1, <1>11, <1>12
  <2>. QED  BY <1>1, <1>2, <1>6, <1>8, <1>12, <2>1, <2>2 DEF Unread
<1>14. Latest'[1] <= epoch' /\ Latest'[2] <= pushed'
  <2>1. Latest' = Latest
    BY <1>1 DEF Latest
  <2>2. Latest[2] \in Int
    BY LatestKind
  <2>. QED  BY <1>1, <1>3, <1>7, <2>1, <2>2 DEF ContentOK
<1>. QED  BY <1>5, <1>7, <1>13, <1>14 DEF ContentOK

LEMMA TakenKeepsContent ==
  ASSUME Kinds, CallsOK, IndexesOK, ContentOK, Taken, ~overrun'
  PROVE  ContentOK'
<1> DEFINE m == call["rx"].msg
<1>1. /\ At("rx", "taken") /\ head' = call["rx"].head /\ got' = Append(got, m)
      /\ UNCHANGED <<tail, ring, pushed, epoch, overrun>>
  BY DEF Taken, flags
<1>2. call'["rx"].pc = "signal"
  BY TaskMoves, SideFacts DEF Moves
<1>3. /\ ~overrun /\ head \in Index /\ tail \in Index /\ Aligned(head)
      /\ Size <= PendingBytes(head, tail) /\ head' = Onward(head, Size) /\ ~Emptying
  BY <1>1 DEF IndexesOK
<1>4. /\ head' = head + Size \/ head' = head + Size - FifoSize
      /\ PendingBytes(head', tail) = PendingBytes(head, tail) - Size
  BY <1>3, Numbers, MessageRead
<1>5. PICK n \in Nat : Unread(n)
  BY <1>3 DEF ContentOK
<1>6. /\ FifoSize \in Nat \ {0} /\ Size \in Nat /\ 0 < Size /\ n \in Int
      /\ head \in Int /\ pushed \in Nat /\ epoch \in Nat /\ Size * n \in Int
  BY <1>3, Numbers DEF Index, Kinds, FifoKinds
<1>7. n - 1 \in Nat /\ Size * (n - 1) = Size * n - Size
  <2>1. PendingBytes(head, tail) = Size * n
    BY <1>5 DEF Unread
  <2>2. n # 0
    BY <1>3, <1>6, <2>1
  <2>. QED  BY <1>6, <2>2
<1>8. /\ m = <<epoch, pushed - n + 1>>
      /\ Latest[1] = epoch => Latest[2] = pushed - n
      /\ Latest[2] <= pushed - n
  BY <1>1, <1>5 DEF Unread
<1>9. /\ got \in Seq(Message) /\ got' \in Seq(Message) /\ Len(got') = Len(got) + 1
      /\ got'[Len(got) + 1] = m /\ \A i \in 1 .. Len(got) : got'[i] = got[i]
      /\ Len(got) \in Nat
  <2>1. got \in Seq(Message) /\ m \in Message
    BY SideFacts DEF Kinds, FifoKinds, TaskKinds, Calls
  <2>. QED  BY <1>1, <2>1, AppendProperties
<1> HIDE DEF m
<1>10. Latest' = m
  BY <1>9 DEF Latest
<1>11. InOrder'
  <2>1. \A i \in 1 .. Len(got) : Follows(got[i], Previous(got, i))
    BY <1>3, <1>9, Ordered DEF ContentOK
  <2>2. \A i \in 1 .. Len(got) : Previous(got', i) = Previous(got, i)
    BY <1>9 DEF Previous
  <2>3. Previous(got', Len(got) + 1) = Latest
    <3>1. CASE got = <<>>
      BY <1>9, <3>1 DEF Previous, Latest
    <3>2. CASE got # <<>>
      <4>1. Len(got) # 0 /\ Len(got) + 1 # 1 /\ Len(got) + 1 - 1 = Len(got)
            /\ Len(got) \in 1 .. Len(got)
        BY <1>9, <3>2, EmptySeq
      <4>. QED  BY <1>9, <3>2, <4>1 DEF Previous, Latest
    <3>. QED  BY <3>1, <3>2
  <2>4. Follows(m, Latest)
    <3>1. m[1] = epoch /\ m[2] = pushed - n + 1
      BY <1>8
    <3>2. Latest[2] \in Int
      <4>1. \A k \in Message : k[2] \in Int
        BY DEF Message
      <4>2. Latest \in Message
        BY <1>9, EmptySeq DEF Latest, Message
      <4>. QED  BY <4>1, <4>2
    <3>. QED  BY <1>6, <1>8, <3>1, <3>2 DEF Follows
  <2>5. ASSUME NEW i \in 1 .. Len(got')
        PROVE  Follows(got'[i], Previous(got', i))
    <3>1. i \in 1 .. Len(got) \/ i = Len(got) + 1
      BY <1>9
    <3>2. CASE i \in 1 .. Len(got)
      BY <1>9, <2>1, <2>2, <3>2
    <3>3. CASE i = Len(got) + 1
      BY <1>9, <2>3, <2>4, <3>3
    <3>. QED  BY <3>1, <3>2, <3>3
  <2>. QED  BY <1>9, <2>5, OrderedAfter
<1>12. pushed - (n - 1) = pushed - n + 1
  BY <1>6
<1>13. ASSUME NEW i \in 0 .. (n - 1) - 1
       PROVE  ring[(head' + Size * i) % FifoSize]
                = <<epoch, pushed - (n - 1) + 1 + i>>
  <2> DEFINE x == head + Size * (i + 1)
  <2>1. /\ i \in Int /\ Size * i \in Int /\ Size * (i + 1) = Size * i + Size
        /\ i + 1 \in 0 .. n - 1
    BY <1>6
  <2>2. x \in Int /\ x = head + Size * i + Size
    BY <1>6, <2>1
  <2>3. ring[x % FifoSize] = <<epoch, pushed - n + 1 + (i + 1)>>
    BY <1>5, <2>1 DEF Unread
  <2> HIDE DEF x
  <2>4. head' + Size * i = x \/ head' + Size * i = x - FifoSize
    BY <1>4, <1>6, <2>1, <2>2
  <2>5. (head' + Size * i) % FifoSize = x % FifoSize
    BY <2>2, <2>4, RingShift
  <2>6. pushed - (n - 1) + 1 + i = pushed - n + 1 + (i + 1)
    BY <1>6, <2>1
  <2>. QED  BY <2>3, <2>5, <2>6
<1>14. Unread(n - 1)'
  <2>1. /\ PendingBytes(head', tail') = Size * (n - 1)
        /\ ~At("rx", "taken")'
    BY <1>1, <1>2, <1>4, <1>5, <1>7 DEF Unread, At
  <2>2. /\ Latest'[1] <= epoch' /\ Latest'[2] <= pushed' - (n - 1)
        /\ Latest'[2] = pushed' - (n - 1)
    BY <1>1, <1>6, <1>8, <1>10, <1>12
  <2>3. \A i \in 0 .. (n - 1) - 1 :
          ring'[(head' + Size * i) % FifoSize]
            = <<epoch', pushed' - (n - 1) + 1 + i>>
    BY <1>1, <1>13
  <2>. QED  BY <2>1, <2>2, <2>3 DEF Unread
<1>15. Latest'[1] <= epoch' /\ Latest'[2] <= pushed'
  <2>1. m[1] = epoch /\ m[2] = pushed - n + 1 /\ pushed - n + 1 <= pushed
    BY <1>6, <1>7, <1>8
  <2>. QED  BY <1>1, <1>6, <1>10, <2>1
<1>. QED  BY <1>7, <1>11, <1>14, <1>15 DEF ContentOK

LEMMA ContentKept ==
  ASSUME Kinds, LifeOK, CallsOK, IndexesOK, ContentOK, Next
  PROVE  ContentOK'
<1> USE DEF At
<1>1. ASSUME UNCHANGED <<head, tail, ring, pushed, got, epoch>>,
             ~overrun' => ~overrun, Emptying' <=> Emptying,
             call'["rx"].pc = "taken" =>
               call["rx"].pc = "taken" /\ call'["rx"].msg = call["rx"].msg
      PROVE  ContentOK'
  <2>1. InOrder /\ ~overrun => InOrder'
    BY <1>1 DEF InOrder
  <2>2. \A n \in Nat : Unread(n) => Unread(n)'
    BY <1>1 DEF Unread, Latest
  <2>3. Latest' = Latest
    BY <1>1 DEF Latest
  <2>. QED  BY <1>1, <2>1, <2>2, <2>3 DEF ContentOK
<1>2. ASSUME NEW s \in Sides, Elsewhere(s) \/ Moves(s, "push", call[s].queue)
      PROVE  call'["rx"].pc = "taken" =>
               call["rx"].pc = "taken" /\ call'["rx"].msg = call["rx"].msg
  BY <1>2, IdleCall, SideFacts DEF Elsewhere, Moves, Returns
<1>3. ASSUME NEW s \in Sides, EmptyHead(s) \/ EmptyTail(s)
      PROVE  ContentOK'
  <2>1. SUFFICES ASSUME ~overrun' PROVE ContentOK'
    BY DEF ContentOK
  <2>2. UNCHANGED <<pushed, got, call>> /\ ~overrun
    BY <1>3, <2>1, Emptied
  <2>3. InOrder' /\ Latest' = Latest
    BY <2>2 DEF ContentOK, InOrder, Latest
  <2>4. /\ Latest[1] <= epoch /\ Latest[2] <= pushed
        /\ Latest[1] \in Nat /\ Latest[2] \in Nat /\ epoch \in Nat /\ pushed \in Nat
    BY <2>2, LatestKind DEF ContentOK, Kinds, FifoKinds
  <2>5. CASE EmptyHead(s)
    <3>1. epoch' = epoch /\ Emptying'
      BY <2>5, Emptied
    <3>. QED  BY <2>2, <2>3, <2>4, <3>1 DEF ContentOK
  <2>6. CASE EmptyTail(s)
    <3>1. /\ head' = head /\ tail' = 0 /\ epoch' = epoch + 1 /\ Emptying
      BY <2>6, Emptied
    <3>2. head = 0 /\ ~At("rx", "taken")
      BY <2>2, <3>1 DEF IndexesOK
    <3>3. PendingBytes(head', tail') = Size * 0
      BY <3>1, <3>2, Numbers DEF PendingBytes, WrappedAround
    <3>4. ~At("rx", "taken")'
      BY <2>2, <3>2
    <3>5. Unread(0)'
      BY <2>2, <2>3, <2>4, <3>1, <3>3, <3>4 DEF Unread
    <3>6. Latest'[1] <= epoch' /\ Latest'[2] <= pushed'
      BY <2>2, <2>3, <2>4, <3>1
    <3>. QED  BY <2>3, <3>5, <3>6 DEF ContentOK
  <2>. QED  BY <1>3, <2>5, <2>6
<1>4. ASSUME NEW s \in Sides, Initialize(s) \/ CloseChannel(s)
      PROVE  ContentOK'
  <2>1. Abandons(s)
    BY <1>4, TaskMoves
  <2>2. \A u \in Sides : call'[u].pc = call[u].pc /\ call'[u].msg = call[u].msg
    BY <2>1 DEF Abandons
  <2>. QED  BY <1>1, <1>4, <2>2, FifoLeftAlone, SideFacts
<1>5. ASSUME NEW s \in Sides,
             \/ SendCall \/ Again(s) \/ RecvCall \/ WaitEvent(s) \/ Enqueue(s)
             \/ Evaluate(s) \/ WakeUp(s) \/ Signal(s)
      PROVE  ContentOK'
  <2>1. \E u \in Sides : Elsewhere(u) \/ Moves(u, "push", call[u].queue)
    BY <1>5, BeginsPush, GoesElsewhere, SideFacts
  <2>. QED  BY <1>1, <1>2, <1>5, <2>1, FifoLeftAlone
<1>6. ASSUME NEW s \in Sides,
             \/ OpenChannel(s) \/ Finalize(s) \/ MarkInitialized(s)
             \/ InitInterrupts(s) \/ FinalizeWake(s) \/ FinalizeClose(s)
             \/ FinalizeEnd(s) \/ HandlerStart(s) \/ HandlerScan(s)
      PROVE  ContentOK'
  BY <1>1, <1>6, FifoLeftAlone, CallsLeftAlone
<1>7. CASE Pop
  <2>0. SUFFICES ASSUME ~overrun' PROVE ContentOK'
    BY DEF ContentOK
  <2>1. /\ UNCHANGED <<head, tail, ring, pushed, got, epoch>> /\ ~overrun
        /\ Emptying' <=> Emptying
        /\ Emptying => Returns("rx")
    <3>1. Return("rx") => Returns("rx")
      BY SideFacts, CallReturns DEF Kinds, TaskKinds
    <3>. QED  BY <1>7, <2>0, <3>1, PopLeavesFifo, TransferLeavesLife
  <2>2. CASE Returns("rx")
    BY <1>1, <1>2, <2>1, <2>2, SideFacts DEF Elsewhere
  <2>3. CASE /\ Size <= PendingBytes(head, tail)
             /\ Moves("rx", "taken", call["rx"].queue)
             /\ call'["rx"].msg = ring[head % FifoSize]
    <3>1. ~Emptying
      BY <2>1, <2>3, IdleCall DEF Returns, Moves
    <3>2. ~overrun /\ head \in Int
      BY <2>1 DEF Kinds, FifoKinds
    <3>3. InOrder' /\ Latest'[1] <= epoch' /\ Latest'[2] <= pushed'
      BY <2>1, <3>2 DEF ContentOK, InOrder, Latest
    <3>4. PICK n \in Nat : Unread(n)
      BY <3>1, <3>2 DEF ContentOK
    <3>5. call'["rx"].msg = <<epoch, pushed - n + 1>>
      <4>1. Size \in Nat /\ 0 < Size /\ n # 0
        BY <2>3, <3>4, Numbers DEF Unread
      <4>2. 0 \in 0 .. n - 1 /\ head + Size * 0 = head
            /\ pushed - n + 1 + 0 = pushed - n + 1
        BY <3>2, <4>1 DEF Kinds, FifoKinds
      <4>3. ring[(head + Size * 0) % FifoSize] = <<epoch, pushed - n + 1 + 0>>
        BY <3>4, <4>2 DEF Unread
      <4>. QED  BY <2>3, <4>2, <4>3
    <3>6. Unread(n)'
      BY <2>1, <3>4, <3>5 DEF Unread, Latest
    <3>. QED  BY <3>3, <3>6 DEF ContentOK
  <2>. QED  BY <1>7, <2>2, <2>3, PopMoves
<1>8. CASE Push
  <2>1. (Emptying' <=> Emptying) /\ UNCHANGED <<got, epoch, overrun>>
        /\ pushed' = pushed + 1
    BY <1>8, TransferLeavesLife DEF Push, flags
  <2>2. ASSUME Emptying, ~overrun
        PROVE  ContentOK'
    <3>1. InOrder' /\ Latest' = Latest
      BY <2>1, <2>2 DEF ContentOK, InOrder, Latest
    <3>2. Latest[2] \in Nat /\ pushed \in Nat
      BY LatestKind DEF Kinds, FifoKinds
    <3>. QED  BY <2>1, <2>2, <3>1, <3>2 DEF ContentOK
  <2>. QED  BY <1>8, <2>1, <2>2, PushKeepsContent DEF ContentOK
<1>9. CASE Taken
  BY <1>9, TakenKeepsContent DEF ContentOK
<1>. QED
  BY <1>3, <1>4, <1>5, <1>6, <1>7, <1>8, <1>9, Steps, SideFacts
-----------------------------------------------------------------------------
(***************************************************************************)
(* pending_send_msg_size: a sender that sleeps has published it, so the    *)
(* handler will look for its room.                                         *)
(***************************************************************************)

\* The smallest message fits an empty FIFO: a sender whose node emptied the
\* FIFO and its pending_send_msg_size under it does not fall asleep.
LEMMA NothingFits == MsgFits(0, 0, 0)
<1>1. /\ RealSize(0) = HeaderSize + 0 + Padding(0) /\ RealSize(0) \in Nat
      /\ Padding(0) \in 0 .. Alignment - 1 /\ Aligned(RealSize(0))
  BY PaddingProperties
<1>2. /\ HeaderSize \in Nat /\ Size \in Nat /\ HeaderSize < Size /\ Size < FifoSize
      /\ FifoSize \in Nat /\ Aligned(Size)
  BY Numbers
<1>3. RealSize(0) <= Size
  <2>1. RealSize(0) - Padding(0) <= Size /\ RealSize(0) \in Int /\ Size \in Int
    BY <1>1, <1>2
  <2>. QED  BY <1>1, <1>2, <2>1, PaddingStaysInside
<1>. QED  BY <1>1, <1>2, <1>3 DEF MsgFits, FreeBytes, WrappedAround

LEMMA SizeLeftAlone ==
  ASSUME NEW s \in Sides,
         \/ RecvCall \/ Push \/ Pop \/ Taken \/ WaitEvent(s) \/ Enqueue(s)
         \/ Evaluate(s) \/ WakeUp(s) \/ Signal(s) \/ HandlerStart(s)
         \/ HandlerScan(s) \/ Initialize(s) \/ EmptyHead(s) \/ OpenChannel(s) \/ CloseChannel(s) \/ Finalize(s)
         \/ MarkInitialized(s) \/ InitInterrupts(s) \/ FinalizeWake(s)
         \/ FinalizeClose(s) \/ FinalizeEnd(s)
  PROVE  pendingSize' = pendingSize
BY DEF RecvCall, Push, Pop, Taken, WaitEvent, Enqueue, WaitOn, Evaluate, WakeUp,
   Signal, HandlerStart, HandlerScan, Initialize, EmptyHead, OpenChannel,
   CloseChannel, Finalize, MarkInitialized, InitInterrupts, FinalizeWake, FinalizeClose, FinalizeEnd, fifo

\* A task falls asleep only when it could not be served.
LEMMA AsleepUnserved ==
  ASSUME Kinds, PendingOK, NEW s \in Sides, Evaluate(s), ~overrun
  PROVE  \/ Moves(s, "again", 0) /\ waiting' = waiting \ {s}
         \/ /\ Moves(s, "asleep", call[s].queue) /\ waiting' = waiting
            /\ ~Served(s)
            /\ s = "tx" => pendingSize = MsgSize
<1>1. /\ call \in [Sides -> Calls] /\ queue \in [Sides -> Nat]
      /\ "asleep" \in Places
  BY DEF Kinds, TaskKinds, NodeKinds, Places
<1>2. CASE WaitCondition(s)
  <2>1. /\ call' = [call EXCEPT ![s].pc = "again", ![s].snap = 0, ![s].queue = 0]
        /\ waiting' = waiting \ {s}
    BY <1>2 DEF Evaluate
  <2>. QED  BY <1>1, <2>1, CallWaits
<1>3. CASE ~WaitCondition(s)
  <2>1. Goto(s, "asleep") /\ waiting' = waiting /\ At(s, "evaluate")
    BY <1>3 DEF Evaluate
  <2>2. Moves(s, "asleep", call[s].queue)
    BY <1>1, <2>1, CallGoes
  <2>3. s = "tx" => pendingSize = MsgSize
    BY <1>3, <2>1, NothingFits DEF PendingOK, Waits, At, WaitCondition
  <2>4. ~Served(s)
    BY <1>3, <2>3 DEF WaitCondition, Served, Fits
  <2>. QED  BY <2>1, <2>2, <2>3, <2>4
<1>. QED  BY <1>2, <1>3

LEMMA PendingKept ==
  ASSUME Kinds, LifeOK, CallsOK, IndexesOK, PendingOK, Next
  PROVE  PendingOK'
<1> USE DEF At, Waits
<1>1. ASSUME UNCHANGED <<head, tail, pendingSize, node, queue>>,
             ~overrun' => ~overrun,
             \/ call'["tx"].pc = call["tx"].pc
                /\ call'["tx"].queue = call["tx"].queue
             \/ call["tx"].pc \in {"wait", "enqueue", "asleep", "again"}
                /\ call'["tx"].pc \in {"evaluate", "enqueue", "again", "wait"}
             \/ ~Waits("tx")'
      PROVE  PendingOK'
  BY <1>1 DEF PendingOK
<1>2. ASSUME NEW s \in Sides,
             \/ SendCall \/ RecvCall \/ Push \/ Pop \/ Taken \/ WaitEvent(s)
             \/ Enqueue(s) \/ Evaluate(s) \/ WakeUp(s) \/ Again(s) \/ Signal(s)
             \/ HandlerStart(s) \/ HandlerScan(s)
      PROVE  UNCHANGED <<node, queue>>
  BY <1>2, NodesLeftAlone
<1>3. CASE SendCall
  <2>1. UNCHANGED <<head, tail, overrun, node, queue>>
    BY <1>2, <1>3, FifoLeftAlone, SideFacts
  <2>2. \/ call'["tx"].pc = "push"
        \/ call'["tx"].pc = "wait" /\ pendingSize' = MsgSize
    <3>1. \/ Goto("tx", "push")
          \/ Goto("tx", "wait") /\ pendingSize' = MsgSize
      BY <1>3 DEF SendCall
    <3>2. call \in [Sides -> Calls] /\ "push" \in Places /\ "wait" \in Places
      BY DEF Kinds, TaskKinds, Places
    <3>. QED  BY <3>1, <3>2, CallGoes, SideFacts DEF Moves
  <2>. QED  BY <2>1, <2>2 DEF PendingOK
<1>4. ASSUME NEW s \in Sides, Again(s)
      PROVE  PendingOK'
  <2>1. UNCHANGED <<head, tail, overrun, node, queue>>
    BY <1>2, <1>4, FifoLeftAlone
  <2>2. call \in [Sides -> Calls] /\ \A p \in {"push", "pop", "wait"} : p \in Places
    BY DEF Kinds, TaskKinds, Places
  <2>3. \/ Return(s) /\ pendingSize' = pendingSize
        \/ /\ Goto(s, Transfer(s))
           /\ pendingSize' = IF s = "tx" THEN 0 ELSE pendingSize
        \/ Goto(s, "wait") /\ pendingSize' = pendingSize
    BY <1>4 DEF Again
  <2>4. CASE s = "tx"
    <3>1. \/ call'["tx"].pc \in {"idle", "push"}
          \/ call'["tx"].pc = "wait" /\ pendingSize' = pendingSize
      BY <2>2, <2>3, <2>4, CallGoes, CallReturns, IdleCall
         DEF Moves, Returns, Transfer
    <3>2. call["tx"].pc = "again"
      BY <1>4, <2>4 DEF Again
    <3>. QED  BY <2>1, <3>1, <3>2 DEF PendingOK
  <2>5. CASE s # "tx"
    <3>1. Transfer(s) \in Places
      BY <2>2 DEF Transfer
    <3>2. call'["tx"] = call["tx"] /\ pendingSize' = pendingSize
      BY <2>2, <2>3, <2>5, <3>1, CallGoes, CallReturns, SideFacts DEF Moves, Returns
    <3>. QED  BY <1>1, <2>1, <3>2
  <2>. QED  BY <2>4, <2>5
<1>5. ASSUME NEW s \in Sides, RecvCall \/ Pop
      PROVE  PendingOK'
  <2>1. UNCHANGED <<head, tail, pendingSize, node, queue>> /\ (~overrun' => ~overrun)
    BY <1>2, <1>5, FifoLeftAlone, PopLeavesFifo, SizeLeftAlone
  <2>2. call'["tx"] = call["tx"]
    BY <1>5, TaskMoves, PopMoves, SideFacts DEF Moves, Returns
  <2>. QED  BY <1>1, <2>1, <2>2
<1>6. ASSUME NEW s \in Sides, WaitEvent(s) \/ Enqueue(s) \/ WakeUp(s) \/ Signal(s)
      PROVE  PendingOK'
  <2>1. UNCHANGED <<head, tail, pendingSize, overrun, node, queue>>
    BY <1>2, <1>6, FifoLeftAlone, SizeLeftAlone
  <2>2. CASE s # "tx"
    <3>1. call'["tx"] = call["tx"]
      BY <1>6, <2>2, TaskMoves, SideFacts DEF Moves, Returns
    <3>. QED  BY <1>1, <2>1, <3>1
  <2>3. CASE s = "tx" /\ (WaitEvent(s) \/ Enqueue(s) \/ WakeUp(s))
    <3>1. call["tx"].pc \in {"wait", "enqueue", "asleep"}
      BY <2>3 DEF WaitEvent, Enqueue, WakeUp
    <3>2. call'["tx"].pc \in {"evaluate", "enqueue"}
      BY <2>3, TaskMoves DEF Moves
    <3>. QED  BY <1>1, <2>1, <3>1, <3>2
  <2>4. CASE s = "tx" /\ Signal(s)
    <3>1. call'["tx"].pc = "idle"
      BY <2>4, TaskMoves, IdleCall DEF Returns
    <3>. QED  BY <1>1, <2>1, <3>1
  <2>. QED  BY <1>6, <2>2, <2>3, <2>4
<1>7. ASSUME NEW s \in Sides, Evaluate(s)
      PROVE  PendingOK'
  <2>1. UNCHANGED <<head, tail, pendingSize, overrun, node, queue>>
    BY <1>2, <1>7, FifoLeftAlone, SizeLeftAlone
  <2>2. SUFFICES ASSUME ~overrun PROVE PendingOK'
    BY <2>1 DEF PendingOK
  <2>3. CASE s # "tx"
    <3>1. call'["tx"] = call["tx"]
      BY <1>7, <2>3, TaskMoves, SideFacts DEF Moves
    <3>. QED  BY <1>1, <2>1, <3>1
  <2>4. CASE s = "tx" /\ Moves(s, "again", 0)
    <3>1. call["tx"].pc = "evaluate" /\ call'["tx"].pc = "again"
      BY <1>7, <2>4 DEF Evaluate, Moves
    <3>. QED  BY <2>1, <3>1 DEF PendingOK
  <2>5. CASE s = "tx" /\ pendingSize = MsgSize
    BY <2>1, <2>5 DEF PendingOK
  <2>. QED  BY <1>7, <2>2, <2>3, <2>4, <2>5, AsleepUnserved
<1>8. CASE Push
  <2>1. call'["tx"].pc = "signal"
    BY <1>8, TaskMoves, SideFacts DEF Moves
  <2>. QED  BY <2>1 DEF PendingOK
<1>9. CASE Taken
  <2>1. UNCHANGED <<tail, pendingSize, overrun, node, queue>>
    BY <1>2, <1>9, SizeLeftAlone, SideFacts DEF Taken, flags
  <2>2. call'["tx"] = call["tx"]
    BY <1>9, TaskMoves, SideFacts DEF Moves
  <2>3. ~overrun => ~(head = 0 /\ tail = 0)
    <3>1. ~overrun => Size <= PendingBytes(head, tail)
      BY <1>9 DEF Taken, IndexesOK, At
    <3>2. Size \in Nat /\ 0 < Size /\ PendingBytes(0, 0) = 0
      BY Numbers DEF PendingBytes, WrappedAround
    <3>. QED  BY <3>1, <3>2
  <2>. QED  BY <2>1, <2>2, <2>3 DEF PendingOK
<1>10. ASSUME NEW s \in Sides, Initialize(s) \/ EmptyHead(s) \/ EmptyTail(s)
       PROVE  PendingOK'
  <2>1. UNCHANGED <<node, queue>>
    BY <1>10 DEF Initialize, EmptyHead, EmptyTail, nodes
  <2>2. call'["tx"].pc = call["tx"].pc /\ call'["tx"].queue = call["tx"].queue
    BY <1>10, TaskMoves, Emptied, SideFacts DEF Abandons
  <2>3. CASE Initialize(s)
    <3>1. UNCHANGED <<head, tail, pendingSize, overrun>>
      BY <2>3, FifoLeftAlone, SizeLeftAlone
    <3>. QED  BY <1>1, <2>1, <2>2, <3>1
  <2>4. CASE EmptyHead(s)
    <3>1. /\ UNCHANGED <<tail, pendingSize>> /\ head' = 0
          /\ ~overrun' => ~overrun
      BY <2>4, Emptied
    <3>. QED  BY <2>1, <2>2, <3>1 DEF PendingOK
  <2>5. CASE EmptyTail(s)
    <3>1. UNCHANGED <<head, overrun>> /\ tail' = 0 /\ pendingSize' = 0
          /\ s = "tx" /\ Emptying
      BY <2>5, Emptied
    <3>2. ~overrun => head = 0
      BY <3>1 DEF IndexesOK
    <3>3. node'["tx"] # "INIT"
      BY <2>1, <3>1, SideFacts DEF Emptying, LifeAt, LifeOK
    <3>. QED  BY <2>2, <3>1, <3>2, <3>3 DEF PendingOK
  <2>. QED  BY <1>10, <2>3, <2>4, <2>5
<1>11. ASSUME NEW s \in Sides, MarkInitialized(s) \/ Finalize(s)
       PROVE  PendingOK'
  <2>1. UNCHANGED <<head, tail, pendingSize, overrun, call>>
    BY <1>11, FifoLeftAlone, SizeLeftAlone, CallsLeftAlone
  <2>2. CASE s # "tx"
    <3>1. node'["tx"] = node["tx"] /\ queue'["tx"] = queue["tx"]
      BY <1>11, <2>2, SideFacts
         DEF MarkInitialized, Finalize, Kinds, NodeKinds
    <3>. QED  BY <2>1, <3>1 DEF PendingOK
  <2>3. CASE s = "tx" /\ Finalize(s)
    <3>1. node'["tx"] = "UNINIT"
      BY <2>3 DEF Finalize, Kinds, NodeKinds
    <3>. QED  BY <2>1, <3>1 DEF PendingOK
  <2>4. CASE s = "tx" /\ MarkInitialized(s)
    <3>1. queue'["tx"] = lives["tx"] /\ life["tx"] = "mark"
      BY <2>4 DEF MarkInitialized, LifeAt, Kinds, NodeKinds
    <3>2. /\ call["tx"].queue <= queue["tx"] /\ queue["tx"] = lives["tx"] - 1
          /\ call["tx"].queue \in Nat /\ lives["tx"] \in Nat
      BY <3>1, SideFacts
         DEF CallsOK, LifeOK, LifeAt, Kinds, NodeKinds, TaskKinds, Calls
    <3>3. call'["tx"].queue # queue'["tx"]
      BY <2>1, <3>1, <3>2
    <3>. QED  BY <2>1, <3>3 DEF PendingOK
  <2>. QED  BY <1>11, <2>2, <2>3, <2>4
<1>12. ASSUME NEW s \in Sides,
              \/ OpenChannel(s) \/ CloseChannel(s) \/ InitInterrupts(s)
              \/ FinalizeWake(s) \/ FinalizeClose(s) \/ FinalizeEnd(s)
              \/ HandlerStart(s) \/ HandlerScan(s)
       PROVE  PendingOK'
  <2>1. UNCHANGED <<head, tail, pendingSize, overrun>>
    BY <1>12, FifoLeftAlone, SizeLeftAlone
  <2>2. UNCHANGED <<node, queue>>
    BY <1>12 DEF OpenChannel, CloseChannel, InitInterrupts, FinalizeWake,
       FinalizeClose, FinalizeEnd, HandlerStart, HandlerScan, nodes
  <2>3. call'["tx"].pc = call["tx"].pc /\ call'["tx"].queue = call["tx"].queue
    <3>1. CASE CloseChannel(s)
      BY <3>1, TaskMoves, SideFacts DEF Abandons
    <3>2. CASE call' = call
      BY <3>2
    <3>. QED  BY <1>12, <3>1, <3>2, CallsLeftAlone
  <2>. QED  BY <1>1, <2>1, <2>2, <2>3
<1>. QED
  BY <1>3, <1>4, <1>5, <1>6, <1>7, <1>8, <1>9, <1>10, <1>11, <1>12, Steps, SideFacts
-----------------------------------------------------------------------------
(***************************************************************************)
(* A task that could be served and sleeps on has a wakeup to expect.       *)
(***************************************************************************)
Busy(s) == call[s].pc \in {"push", "taken", "signal"}

\* What the tasks' steps but Signal leave alone.
LEMMA SignalsLeftAlone ==
  ASSUME NEW s \in Sides,
         \/ SendCall \/ RecvCall \/ Push \/ Pop \/ Taken \/ WaitEvent(s)
         \/ Enqueue(s) \/ Evaluate(s) \/ WakeUp(s) \/ Again(s)
  PROVE  UNCHANGED <<sig, ack, notify, handler, masked, cleared, life>>
BY DEF SendCall, RecvCall, Push, Pop, Taken, WaitEvent, Enqueue, WaitOn, Evaluate,
   WakeUp, Again, counters, flags

LEMMA CountersLeftAlone ==
  ASSUME NEW s \in Sides,
         \/ EmptyHead(s) \/ EmptyTail(s)
         \/ OpenChannel(s) \/ CloseChannel(s) \/ Finalize(s)
         \/ MarkInitialized(s) \/ InitInterrupts(s) \/ FinalizeWake(s)
         \/ FinalizeClose(s) \/ FinalizeEnd(s) \/ HandlerStart(s)
  PROVE  UNCHANGED <<sig, ack, masked>>
BY DEF EmptyHead, EmptyTail, OpenChannel, CloseChannel, Finalize, MarkInitialized,
   InitInterrupts,
   FinalizeWake, FinalizeClose, FinalizeEnd, HandlerStart, counters, flags

\* A step of the task of side u that neither ends a transfer nor lets it sleep.
LEMMA TaskKeepsWake ==
  ASSUME Kinds, WakeOK, NEW u \in Sides,
         UNCHANGED <<head, tail, node, queue>>, ~overrun' => ~overrun,
         UNCHANGED <<sig, ack, notify, handler, masked, cleared, life>>,
         \A s \in Sides : s # u /\ s \in waiting' => s \in waiting,
         Returns(u) \/ \E p \in Places, q \in Nat : p # "asleep" /\ Moves(u, p, q),
         Busy(u) => Busy(u)'
  PROVE  WakeOK'
<1>1. SUFFICES ASSUME NEW s \in Sides, Oversleeps(s)' PROVE Expected(s)'
  BY DEF WakeOK
<1>2. call'[u].pc # "asleep" /\ \A v \in Sides : v # u => call'[v] = call[v]
  BY IdleCall DEF Returns, Moves
<1>3. s # u
  BY <1>1, <1>2 DEF Oversleeps, At
<1>4. call'[s] = call[s] /\ (s \in waiting' => s \in waiting)
  BY <1>2, <1>3
<1>5. Oversleeps(s)
  BY <1>1, <1>4 DEF Oversleeps, At, Served, Fits, MoreThanHeader, Emptying, LifeAt
<1>6. Expected(s)
  BY <1>5 DEF WakeOK
<1>7. Peer(s) = u
  BY <1>3, SideFacts
<1>. QED  BY <1>6, <1>7 DEF Expected, Starting, Busy

\* A step that leaves the tasks asleep that were, and what they wait for.
LEMMA StillAsleep ==
  ASSUME NEW s \in Sides, Oversleeps(s)', UNCHANGED <<head, tail, overrun>>,
         Emptying' <=> Emptying,
         call'[s].pc = call[s].pc, call'[s].queue = call[s].queue,
         node'[s] = node[s], queue'[s] = queue[s], s \in waiting' => s \in waiting
  PROVE  Oversleeps(s)
BY DEF Oversleeps, At, Served, Fits, MoreThanHeader

LEMMA WakeKeptByTasks ==
  ASSUME Kinds, CallsOK, IndexesOK, PendingOK, WakeOK, NEW u \in Sides,
         \/ SendCall \/ RecvCall \/ Push \/ Pop \/ Taken \/ WaitEvent(u)
         \/ Enqueue(u) \/ Evaluate(u) \/ WakeUp(u) \/ Again(u) \/ Signal(u)
  PROVE  WakeOK'
<1>0. UNCHANGED <<node, queue, life>>
  BY NodesLeftAlone
<1>1. /\ \A s \in Sides : call[s].queue \in Nat /\ queue[s] \in Nat
      /\ \A p \in {"push", "pop", "wait", "evaluate", "again", "enqueue", "taken"} :
           p \in Places /\ p # "asleep"
  BY DEF Kinds, TaskKinds, NodeKinds, Calls, Places
<1>2. CASE SendCall
  <2>1. \E p \in Places, q \in Nat : p # "asleep" /\ Moves("tx", p, q)
    BY <1>1, <1>2, TaskMoves, SideFacts
  <2>2. waiting' = waiting /\ ~Busy("tx")
    BY <1>2 DEF SendCall, Accepted, At, Busy
  <2>. QED  BY <1>0, <1>2, <2>1, <2>2, TaskKeepsWake, FifoLeftAlone,
               SignalsLeftAlone, SideFacts
<1>3. CASE RecvCall
  <2>1. \E p \in Places, q \in Nat : p # "asleep" /\ Moves("rx", p, q)
    BY <1>1, <1>3, TaskMoves, SideFacts
  <2>2. waiting' = waiting /\ ~Busy("rx")
    BY <1>3 DEF RecvCall, Accepted, At, Busy
  <2>. QED  BY <1>0, <1>3, <2>1, <2>2, TaskKeepsWake, FifoLeftAlone,
               SignalsLeftAlone, SideFacts
<1>4. CASE Pop
  <2>1. \/ Returns("rx")
        \/ \E p \in Places, q \in Nat : p # "asleep" /\ Moves("rx", p, q)
    BY <1>1, <1>4, PopMoves, SideFacts
  <2>2. waiting' = waiting /\ ~Busy("rx")
    BY <1>4 DEF Pop, At, Busy
  <2>. QED  BY <1>0, <1>4, <2>1, <2>2, TaskKeepsWake, PopLeavesFifo,
               SignalsLeftAlone, SideFacts
<1>5. CASE WaitEvent(u) \/ Enqueue(u) \/ WakeUp(u) \/ Again(u)
  <2>1. \/ Returns(u)
        \/ \E p \in Places, q \in Nat : p # "asleep" /\ Moves(u, p, q)
    <3>1. Transfer(u) \in Places /\ Transfer(u) # "asleep"
      BY <1>1 DEF Transfer
    <3>. QED  BY <1>1, <1>5, <3>1, TaskMoves
  <2>2. ~Busy(u) /\ (waiting' = waiting \/ waiting' = waiting \union {u})
    BY <1>5 DEF WaitEvent, Enqueue, WaitOn, WakeUp, Again, At, Busy
  <2>. QED  BY <1>0, <1>5, <2>1, <2>2, TaskKeepsWake, FifoLeftAlone,
               SignalsLeftAlone
<1>6. CASE Evaluate(u)
  <2>1. UNCHANGED <<head, tail, overrun>> /\ (Emptying' <=> Emptying)
    BY <1>6, FifoLeftAlone
  <2>2. UNCHANGED <<sig, ack, notify, handler, masked, cleared, life>>
    BY <1>6, SignalsLeftAlone
  <2>3. ~Busy(u)
    BY <1>6 DEF Evaluate, At, Busy
  <2>4. CASE overrun
    BY <2>1, <2>4 DEF WakeOK, Oversleeps
  <2>5. CASE Moves(u, "again", 0) /\ waiting' = waiting \ {u}
    BY <1>0, <1>1, <2>1, <2>2, <2>3, <2>5, TaskKeepsWake
  <2>6. CASE Moves(u, "asleep", call[u].queue) /\ waiting' = waiting /\ ~Served(u)
    <3>1. SUFFICES ASSUME NEW s \in Sides, Oversleeps(s)' PROVE Expected(s)'
      BY DEF WakeOK
    <3>2. s # u
      BY <2>1, <2>6, <3>1 DEF Oversleeps, Served, Fits, MoreThanHeader
    <3>3. call'[s] = call[s] /\ Peer(s) = u
      BY <2>6, <3>2, SideFacts DEF Moves
    <3>4. Expected(s)
      BY <1>0, <2>1, <2>6, <3>1, <3>3, StillAsleep DEF WakeOK
    <3>. QED  BY <2>2, <2>3, <3>3, <3>4 DEF Expected, Starting, Busy
  <2>. QED  BY <1>6, <2>4, <2>5, <2>6, AsleepUnserved
<1>7. ASSUME NEW s \in Sides, Moves(s, "signal", call[s].queue)
      PROVE  WakeOK'
  <2>1. SUFFICES ASSUME NEW v \in Sides, Oversleeps(v)' PROVE Expected(v)'
    BY DEF WakeOK
  <2>2. call'[s].pc = "signal"
    BY <1>7 DEF Moves
  <2>3. v # s
    BY <2>1, <2>2 DEF Oversleeps, At
  <2>4. Peer(v) = s
    BY <2>3, SideFacts
  <2>. QED  BY <2>2, <2>4 DEF Expected
<1>8. CASE Push
  BY <1>7, <1>8, TaskMoves, SideFacts
<1>9. CASE Taken
  BY <1>7, <1>9, TaskMoves, SideFacts
<1>10. CASE Signal(u)
  <2>1. SUFFICES ASSUME NEW s \in Sides, Oversleeps(s)' PROVE Expected(s)'
    BY DEF WakeOK
  <2>2. Returns(u)
    BY <1>10, TaskMoves
  <2>3. s # u
    BY <2>1, <2>2, IdleCall DEF Oversleeps, At, Returns
  <2>4. Peer(u) = s
    BY <2>3, SideFacts
  <2>5. /\ sig'[s] = Plus1(sig[s]) /\ ack' = ack /\ notify'[s] = TRUE
        /\ masked'[s] = (Plus1(sig[s]) = ack[s])
    BY <1>10, <2>4 DEF Signal, Raise, Kinds, SignalKinds
  <2>. QED  BY <2>5 DEF Expected
<1>. QED  BY <1>2, <1>3, <1>4, <1>5, <1>6, <1>8, <1>9, <1>10

\* The handler: it starts for a node that is up, and what it acknowledges it
\* wakes up for.
LEMMA WakeKeptByHandler ==
  ASSUME Kinds, LifeOK, PendingOK, WakeOK, NEW u \in Sides,
         HandlerStart(u) \/ HandlerScan(u)
  PROVE  WakeOK'
<1>1. /\ UNCHANGED <<head, tail, overrun, node, queue, life, call, pendingSize>>
      /\ UNCHANGED <<sig, masked, cleared>> /\ (Emptying' <=> Emptying)
  <2>1. /\ UNCHANGED <<head, tail, overrun, node, queue, life, call, pendingSize>>
        /\ Emptying' <=> Emptying
    BY FifoLeftAlone, NodesLeftAlone, CallsLeftAlone, SizeLeftAlone
  <2>2. UNCHANGED <<sig, masked, cleared>>
    BY DEF HandlerStart, HandlerScan, counters, flags
  <2>. QED  BY <2>1, <2>2
<1>2. waiting' = waiting \/ waiting' = waiting \ {u}
  BY DEF HandlerStart, HandlerScan, Serve, Done, WakeTasks, tasks
<1>3. SUFFICES ASSUME NEW s \in Sides, Oversleeps(s)' PROVE Expected(s)'
  BY DEF WakeOK
<1>4. Oversleeps(s) /\ Expected(s)
  <2>1. Oversleeps(s)
    BY <1>1, <1>2, <1>3, StillAsleep
  <2>. QED  BY <2>1 DEF WakeOK
<1>5. CASE s # u
  <2>1. notify'[s] = notify[s] /\ handler'[s] = handler[s] /\ ack'[s] = ack[s]
    BY <1>5 DEF HandlerStart, HandlerScan, HandlerGoto, Serve, Done, counters,
                Kinds, SignalKinds
  <2>. QED  BY <1>1, <1>4, <2>1 DEF Expected, Starting
<1>6. CASE s = u /\ HandlerStart(s)
  <2>1. node[s] = "INIT" /\ config[s]
    BY <1>4 DEF Oversleeps, LifeOK
  <2>2. handler'[s] = "scan" /\ ack' = ack
    BY <1>6, <2>1 DEF HandlerStart, HandlerGoto, counters, Kinds, SignalKinds
  <2>. QED  BY <1>1, <1>4, <2>2 DEF Expected, Starting
<1>7. CASE s = u /\ HandlerScan(s) /\ sig[s] # ack[s]
  <2>1. IF WakesUp(s) THEN WakeTasks(s) ELSE UNCHANGED waiting
    BY <1>7 DEF HandlerScan, Serve
  <2>2. call[s].queue = queue[s] /\ s \in waiting'
    BY <1>3, <1>4 DEF Oversleeps
  <2>3. ~WakesUp(s)
    BY <2>1, <2>2 DEF WakeTasks
  <2>4. s = "tx" /\ ~(pendingSize # 0 /\ Fits)
    BY <2>3, SideFacts DEF WakesUp, Sides
  <2>5. Fits /\ pendingSize = MsgSize
    BY <1>4, <2>4 DEF Oversleeps, Served, PendingOK
  <2>. QED  BY <2>4, <2>5, Numbers
<1>8. CASE s = u /\ HandlerScan(s) /\ sig[s] = ack[s]
  <2>1. ack' = ack
    BY <1>8 DEF HandlerScan, Done
  <2>. QED  BY <1>1, <1>4, <1>8, <2>1 DEF Expected, Starting
<1>. QED  BY <1>5, <1>6, <1>7, <1>8

LEMMA WakeKeptByLife ==
  ASSUME Kinds, LifeOK, CallsOK, IndexesOK, WakeOK, NEW u \in Sides,
         \/ Initialize(u) \/ EmptyHead(u) \/ EmptyTail(u)
         \/ OpenChannel(u) \/ CloseChannel(u) \/ Finalize(u)
         \/ MarkInitialized(u) \/ InitInterrupts(u) \/ FinalizeWake(u)
         \/ FinalizeClose(u) \/ FinalizeEnd(u)
  PROVE  WakeOK'
<1>1. SUFFICES ASSUME NEW s \in Sides, Oversleeps(s)' PROVE Expected(s)'
  BY DEF WakeOK
<1>2. \A v \in Sides : call'[v].pc = call[v].pc /\ call'[v].queue = call[v].queue
  <2>1. CASE Initialize(u) \/ CloseChannel(u)
    BY <2>1, TaskMoves DEF Abandons
  <2>2. CASE call' = call
    BY <2>2
  <2>. QED  BY <2>1, <2>2, CallsLeftAlone
<1>3. s \in waiting' => s \in waiting
  BY DEF Initialize, EmptyHead, EmptyTail, OpenChannel, CloseChannel, Finalize,
     MarkInitialized, InitInterrupts, FinalizeWake, FinalizeClose, FinalizeEnd,
     WakeTasks, tasks
<1>4. CASE Initialize(u)
  <2>1. s # u
    <3>1. node'[u] # "INIT"
      BY <1>4 DEF Initialize, LifeOK
    <3>. QED  BY <1>1, <3>1 DEF Oversleeps
  <2>2. Peer(u) = s /\ Peer(s) = u
    BY <2>1, SideFacts
  <2>3. /\ sig'[s] = 0 /\ ack'[s] = ack[s] /\ masked'[s] = (ack[s] = 0)
        /\ life'[u] \in {"head", "mark"}
    BY <1>4, <2>1, <2>2
       DEF Initialize, FifoInit, ResetCounters, LifeGoto, Kinds, SignalKinds,
           NodeKinds
  <2>. QED  BY <2>2, <2>3 DEF Expected, Starting
<1>5. ASSUME ~Initialize(u), ~EmptyHead(u), ~EmptyTail(u)
      PROVE  /\ UNCHANGED <<sig, ack, masked, handler, head, tail, overrun>>
             /\ Emptying' <=> Emptying
  <2>1. UNCHANGED <<head, tail, overrun>> /\ (Emptying' <=> Emptying)
    BY <1>5, FifoLeftAlone
  <2>2. UNCHANGED <<sig, ack, masked>>
    BY <1>5, CountersLeftAlone
  <2>3. UNCHANGED handler
    BY <1>5 DEF OpenChannel, CloseChannel, Finalize, MarkInitialized,
       InitInterrupts, FinalizeWake, FinalizeClose, FinalizeEnd
  <2>. QED  BY <2>1, <2>2, <2>3
<1>6. CASE OpenChannel(u) \/ CloseChannel(u) \/ FinalizeClose(u)
  <2>1. /\ UNCHANGED <<node, queue>>
        /\ \A v \in Sides : Starting(v)' <=>
                            Starting(v)
    BY <1>6 DEF OpenChannel, CloseChannel, FinalizeClose, LifeGoto, LifeAt, Starting,
       Kinds, NodeKinds
  <2>2. Raise(Peer(u))
    BY <1>6 DEF OpenChannel, CloseChannel, FinalizeClose
  <2>3. /\ notify[s] => notify'[s]
        /\ cleared[s] => cleared'[s] \/ notify'[s]
    BY <2>2, SideFacts DEF Raise, Kinds, SignalKinds
  <2>4. /\ UNCHANGED <<sig, ack, masked, handler, head, tail, overrun>>
        /\ Emptying' <=> Emptying
    <3>1. ~Initialize(u) /\ ~EmptyHead(u) /\ ~EmptyTail(u)
      BY <1>6 DEF OpenChannel, CloseChannel, FinalizeClose, Initialize, EmptyHead,
         EmptyTail, LifeAt
    <3>. QED  BY <1>5, <3>1
  <2>5. Expected(s)
    BY <1>1, <1>2, <1>3, <2>1, <2>4, StillAsleep DEF WakeOK
  <2>. QED  BY <1>2, <2>1, <2>3, <2>4, <2>5, SideFacts DEF Expected, Starting
<1>7. CASE Finalize(u) \/ FinalizeWake(u) \/ FinalizeEnd(u)
  <2>1. s = u => ~Finalize(u)
    <3>1. Finalize(u) => node'[u] = "UNINIT"
      BY DEF Finalize, Kinds, NodeKinds
    <3>. QED  BY <1>1, <3>1 DEF Oversleeps
  <2>2. /\ node'[s] = node[s] /\ queue' = queue /\ UNCHANGED <<notify, cleared>>
        /\ \A v \in Sides : Starting(v)' <=>
                            Starting(v)
    BY <1>7, <2>1 DEF Finalize, FinalizeWake, FinalizeEnd, LifeGoto, LifeAt, Starting,
       Kinds, NodeKinds, nodes, flags
  <2>3. /\ UNCHANGED <<sig, ack, masked, handler, head, tail, overrun>>
        /\ Emptying' <=> Emptying
    <3>1. ~Initialize(u) /\ ~EmptyHead(u) /\ ~EmptyTail(u)
      BY <1>7 DEF Finalize, FinalizeWake, FinalizeEnd, Initialize, EmptyHead,
         EmptyTail, LifeAt
    <3>. QED  BY <1>5, <3>1
  <2>4. Expected(s)
    BY <1>1, <1>2, <1>3, <2>2, <2>3, StillAsleep DEF WakeOK
  <2>. QED  BY <1>2, <2>2, <2>3, <2>4, SideFacts DEF Expected, Starting
<1>8. CASE MarkInitialized(u)
  <2>1. s # u
    <3>1. /\ queue'[u] = lives[u] /\ queue[u] = lives[u] - 1
          /\ call[u].queue <= queue[u]
          /\ call[u].queue \in Nat /\ lives[u] \in Nat
      BY <1>8 DEF MarkInitialized, LifeAt, LifeOK, CallsOK, Kinds, NodeKinds,
                  TaskKinds, Calls
    <3>2. call'[u].queue # queue'[u]
      BY <1>2, <3>1
    <3>. QED  BY <1>1, <3>2 DEF Oversleeps
  <2>2. /\ node'[s] = node[s] /\ queue'[s] = queue[s] /\ UNCHANGED <<notify, cleared>>
        /\ \A v \in Sides : Starting(v) =>
                            Starting(v)'
    BY <1>8, <2>1 DEF MarkInitialized, LifeGoto, LifeAt, Starting, Kinds, NodeKinds,
                      flags
  <2>3. /\ UNCHANGED <<sig, ack, masked, handler, head, tail, overrun>>
        /\ Emptying' <=> Emptying
    <3>1. ~Initialize(u) /\ ~EmptyHead(u) /\ ~EmptyTail(u)
      BY <1>8 DEF MarkInitialized, Initialize, EmptyHead,
         EmptyTail, LifeAt
    <3>. QED  BY <1>5, <3>1
  <2>4. Expected(s)
    BY <1>1, <1>2, <1>3, <2>2, <2>3, StillAsleep DEF WakeOK
  <2>. QED  BY <1>2, <2>2, <2>3, <2>4, SideFacts DEF Expected, Starting
<1>9. CASE InitInterrupts(u)
  <2>1. /\ UNCHANGED <<sig, ack, masked, handler, head, tail, overrun>>
        /\ Emptying' <=> Emptying
    <3>1. ~Initialize(u) /\ ~EmptyHead(u) /\ ~EmptyTail(u)
      BY <1>9 DEF InitInterrupts, Initialize, EmptyHead,
         EmptyTail, LifeAt
    <3>. QED  BY <1>5, <3>1
  <2>2. UNCHANGED <<node, queue>>
    BY <1>9 DEF InitInterrupts, nodes
  <2>3. Expected(s)
    BY <1>1, <1>2, <1>3, <2>1, <2>2, StillAsleep DEF WakeOK
  <2>4. CASE s = Peer(u)
    <3>1. notify'[s] = TRUE
      BY <1>9, <2>4, SideFacts DEF InitInterrupts, Kinds, SignalKinds
    <3>. QED  BY <1>2, <2>1, <2>3, <3>1, SideFacts DEF Expected, Starting
  <2>5. CASE s = u
    <3>1. notify[s] => notify'[s] \/ cleared'[s]
      BY <1>9, <2>5, SideFacts DEF InitInterrupts, Kinds, SignalKinds
    <3>2. cleared[s] => cleared'[s]
      BY <1>9, <2>5, SideFacts DEF InitInterrupts, Kinds, SignalKinds
    <3>3. life'[Peer(s)] = life[Peer(s)]
      BY <1>9, <2>5, SideFacts DEF InitInterrupts, LifeGoto, Kinds, NodeKinds
    <3>. QED  BY <1>2, <2>1, <2>3, <3>1, <3>2, <3>3, SideFacts DEF Expected, Starting
  <2>. QED  BY <2>4, <2>5, SideFacts
<1>10. CASE EmptyHead(u) \/ EmptyTail(u)
  <2>1. CASE EmptyHead(u)
    BY <1>1, <2>1, Emptied DEF Oversleeps
  <2>2. CASE EmptyTail(u)
    <3>1. /\ UNCHANGED <<head, overrun>> /\ tail' = 0 /\ u = "tx" /\ Emptying
      BY <2>2, Emptied
    <3>2. ~overrun' => head = 0
      BY <3>1 DEF IndexesOK
    <3>3. ~overrun' => ~MoreThanHeader'
      BY <3>1, <3>2, Numbers DEF MoreThanHeader, PendingBytes, WrappedAround
    <3>4. s = "tx"
      BY <1>1, <3>3 DEF Oversleeps, Served, Sides
    <3>5. node'["tx"] # "INIT"
      BY <2>2, <3>1, SideFacts DEF EmptyTail, nodes, Emptying, LifeAt, LifeOK
    <3>. QED  BY <1>1, <3>4, <3>5 DEF Oversleeps
  <2>. QED  BY <1>10, <2>1, <2>2
<1>. QED  BY <1>4, <1>6, <1>7, <1>8, <1>9, <1>10

LEMMA WakeKept ==
  ASSUME Kinds, LifeOK, CallsOK, IndexesOK, PendingOK, WakeOK, Next
  PROVE  WakeOK'
BY WakeKeptByTasks, WakeKeptByHandler, WakeKeptByLife, Steps, SideFacts
-----------------------------------------------------------------------------
(***************************************************************************)
(* The invariant, and what it implies.                                     *)
(***************************************************************************)
LEMMA InitInv == Init => RestartInv
<1> SUFFICES ASSUME Init PROVE RestartInv
  OBVIOUS
<1>1. /\ FifoSize \in Nat \ {0} /\ Size \in Nat /\ Aligned(0) /\ 0 \in Counter
      /\ MaxEnds \in Nat /\ MaxSwitches \in Nat /\ MaxSends \in Nat
      /\ NoMsg \in Message
  BY Numbers, RestartAssumption DEF Counter, NoMsg, Message
<1>2. call = [s \in Sides |-> Idle] /\ call \in [Sides -> Calls]
  BY IdleCall DEF Init
<1>3. \A s \in Sides : ~InCall(s) /\ call[s].queue = 0 /\ call[s].pc = "idle"
  BY <1>2, IdleCall DEF InCall, At
<1>4. Kinds
  <2>1. FifoKinds
    <3>1. /\ head = 0 /\ tail = 0 /\ pendingSize = 0 /\ pushed = 0 /\ epoch = 1
          /\ overrun \in BOOLEAN /\ ring \in [0 .. FifoSize - 1 -> Message]
      BY <1>1 DEF Init
    <3>2. got \in Seq(Message)
      <4>1. got = <<>> /\ <<>> \in Seq(Message)
        BY EmptySeq DEF Init
      <4>. QED  BY <4>1
    <3>. QED  BY <3>1, <3>2 DEF FifoKinds
  <2>2. SignalKinds
    BY <1>1 DEF Init, SignalKinds
  <2>3. NodeKinds
    BY <1>1 DEF Init, NodeKinds
  <2>4. TaskKinds
    BY <1>1, <1>2 DEF Init, TaskKinds
  <2>. QED  BY <2>1, <2>2, <2>3, <2>4 DEF Kinds
<1>5. LifeOK
  BY DEF Init, LifeOK, LifeAt
<1>6. CallsOK
  BY <1>3 DEF Init, CallsOK, Sleeps, InCall, At
<1>7. IndexesOK
  BY <1>1, <1>3, SideFacts DEF Init, IndexesOK, Index, At, Emptying, LifeAt
<1>8. ContentOK
  <2>1. InOrder
    BY DEF Init, InOrder
  <2>2. Unread(0)
    <3>1. PendingBytes(head, tail) = Size * 0
      BY <1>1 DEF Init, PendingBytes, WrappedAround
    <3>2. Latest = <<1, 0>>
      BY DEF Init, Latest
    <3>. QED  BY <1>3, <3>1, <3>2, SideFacts DEF Init, Unread, At
  <2>3. Latest[1] <= epoch /\ Latest[2] <= pushed
    BY DEF Init, Latest
  <2>. QED  BY <2>1, <2>2, <2>3 DEF ContentOK
<1>9. PendingOK
  BY <1>3, SideFacts DEF PendingOK, Waits, At
<1>10. WakeOK /\ WaitersReleased
  BY <1>3 DEF WakeOK, Oversleeps, WaitersReleased, At
<1>. QED  BY <1>4, <1>5, <1>6, <1>7, <1>8, <1>9, <1>10 DEF RestartInv

LEMMA RestartStep == RestartInv /\ [Next]_vars => RestartInv'
<1> SUFFICES ASSUME RestartInv, [Next]_vars PROVE RestartInv'
  OBVIOUS
<1>1. CASE Next
  <2>1. Kinds'
    BY <1>1, FifoKindsKept, SignalKindsKept, NodeKindsKept, TaskKindsKept
       DEF RestartInv, Kinds
  <2>2. LifeOK' /\ CallsOK' /\ IndexesOK' /\ ContentOK'
    BY <1>1, LifeKept, CallsKept, IndexesKept, ContentKept DEF RestartInv
  <2>3. PendingOK' /\ WakeOK' /\ WaitersReleased'
    BY <1>1, PendingKept, WakeKept, ReleasedKept DEF RestartInv
  <2>. QED  BY <2>1, <2>2, <2>3 DEF RestartInv
<1>2. CASE UNCHANGED vars
  <2>1. /\ UNCHANGED <<head, tail, ring, pendingSize>> /\ UNCHANGED <<sig, ack>>
        /\ UNCHANGED <<notify, handler>>
        /\ UNCHANGED <<node, config, endpoint, queue, lives, switches, ends, life>>
        /\ UNCHANGED <<call, waiting, sends, pushed, got>>
        /\ UNCHANGED <<epoch, overrun, masked, cleared>>
    BY <1>2 DEF vars, fifo, counters, nodes, tasks, flags
  <2>2. Kinds'
    BY <2>1 DEF RestartInv, Kinds, FifoKinds, SignalKinds, NodeKinds, TaskKinds
  <2>3. LifeOK' /\ CallsOK'
    BY <2>1 DEF RestartInv, LifeOK, CallsOK, LifeAt, InCall, At, Sleeps
  <2>4. IndexesOK'
    BY <2>1 DEF RestartInv, IndexesOK, At, Emptying, LifeAt
  <2>5. ContentOK'
    BY <2>1 DEF RestartInv, ContentOK, Unread, Latest, InOrder, At, Emptying, LifeAt
  <2>6. PendingOK'
    BY <2>1 DEF RestartInv, PendingOK, Waits, At
  <2>7. WakeOK'
    BY <2>1 DEF RestartInv, WakeOK, Oversleeps, Expected, Starting, Served, Fits,
                MoreThanHeader, At, Emptying, LifeAt
  <2>8. WaitersReleased'
    BY <2>1 DEF RestartInv, WaitersReleased, LifeAt, At
  <2>. QED  BY <2>2, <2>3, <2>4, <2>5, <2>6, <2>7, <2>8 DEF RestartInv
<1>. QED  BY <1>1, <1>2

LEMMA RestartInvariant == Spec => []RestartInv
BY InitInv, RestartStep, PTL DEF Spec

\* However often either node is finalized and initialized again under the
\* tasks, the variables keep their types, the indexes stay in the ring unless
\* the writer's ICC_FIFO_Init met a receive, and a node is initialized exactly
\* when it has a configuration.
THEOREM RestartTypeCorrect == Spec => []TypeOK
<1>1. RestartInv => TypeOK
  BY DEF RestartInv, Kinds, FifoKinds, SignalKinds, NodeKinds, TaskKinds,
         IndexesOK, Emptying, LifeOK, TypeOK
<1>. QED  BY <1>1, RestartInvariant, PTL

\* A reader gets no message twice and none out of order, and it misses one only
\* when the writer's node was initialized again: ICC_FIFO_Init empties the TX
\* FIFO only.
THEOREM NothingTwice == Spec => []InOrder
<1>1. RestartInv => InOrder
  <2>1. overrun => InOrder
    BY DEF InOrder
  <2>. QED  BY <2>1 DEF RestartInv, ContentOK
<1>. QED  BY <1>1, RestartInvariant, PTL

\* A task that could be served and sleeps on has an event to come, or a restart
\* set a counter back so that the last signal made both counters equal, or its
\* own ICC_Initialize cleared the notification.
THEOREM WakeupsSurviveRestarts == Spec => []LostOnlyByRestart
<1>1. RestartInv => LostOnlyByRestart
  <2> SUFFICES ASSUME RestartInv, NEW side \in Sides, Oversleeps(side)
               PROVE  WakeupComes(side) \/ masked[side] \/ cleared[side]
    BY DEF LostOnlyByRestart, Oversleeps, Emptying
  <2>1. Expected(side)
    BY DEF RestartInv, WakeOK
  <2>. QED  BY <2>1 DEF Expected, Starting, WakeupComes
<1>. QED  BY <1>1, RestartInvariant, PTL

\* ICC_Finalize releases every task that is asleep, unless its call was
\* abandoned before: its end point closed or its node initialized again.
THEOREM FinalizeReleases == Spec => []WaitersReleased
<1>1. RestartInv => WaitersReleased
  BY DEF RestartInv
<1>. QED  BY <1>1, RestartInvariant, PTL
=============================================================================
