---------------------------- MODULE NodeRestart ----------------------------
(***************************************************************************)
(* One direction of a channel whose two nodes initialize, finalize and     *)
(* initialize again while the other one stays up: what ICC_Initialize and  *)
(* ICC_Finalize do to the FIFO, to the signal and acknowledge counters, to *)
(* the wait queue and to the tasks inside a call.                          *)
(*                                                                         *)
(* A side is a core: "tx" writes the FIFO, "rx" reads it.  On each core    *)
(* one task makes the life-cycle calls, another one sends or receives with *)
(* ICC_WAIT_FOREVER, and the event handler is run by an interrupt.         *)
(* All messages have one size.  A push is one step (IccFifoStores looks    *)
(* inside), and so are a signal and its notification, a snapshot and the   *)
(* enqueueing (MsgTransfer has them apart); a pop loads the indexes and    *)
(* stores `head' in two steps, and the writer's ICC_FIFO_Init stores       *)
(* `head' and `tail' in two: the reader's core runs in between.            *)
(***************************************************************************)
EXTENDS FifoOps, Sequences

CONSTANTS
  MsgSize,       \* size of every message
  CounterRange,  \* the rd and wr counters are numbers modulo this
  MaxEnds,       \* bound: the calls of ICC_Finalize by both sides
  MaxLives,      \* bound: the calls of ICC_Initialize by both sides
  MaxSwitches,   \* bound: the calls of ICC_Open_Channel and
                 \* ICC_Close_Channel by both sides
  MaxSends,      \* bound: the calls of ICC_Msg_Send
  PastOverrun    \* bound: whether a behaviour is followed on after the
                 \* writer's ICC_FIFO_Init met a receive

Sides == {"tx", "rx"}
Peer(side) == IF side = "tx" THEN "rx" ELSE "tx"

ASSUME RestartAssumption ==
  /\ MsgSize \in Nat \ {0} /\ RealSize(MsgSize) < FifoSize
  /\ CounterRange \in Nat /\ CounterRange > 1
  /\ MaxEnds \in Nat /\ MaxLives \in Nat /\ MaxSwitches \in Nat /\ MaxSends \in Nat
  /\ PastOverrun \in BOOLEAN

VARIABLES
  head, tail,   \* ICC_Fifo_Ram_t.head and tail
  ring,         \* what the ring holds, by index: the message it belongs to
  pendingSize,  \* ICC_Fifo_Ram_t.pending_send_msg_size
  sig, ack,     \* what each side was signalled and acknowledged: for "rx"
                \* wr[remote] and wr[local], for "tx" rd[remote] and rd[local]
  notify,       \* the interrupt of this side is asserted
  handler,      \* ICC_Remote_Event_Handler of this side
  node,         \* ICC_Initialized[side]
  config,       \* ICC_Config_Ptr of this side is set
  endpoint,     \* endpoint_state of this side
  queue,        \* the wait queue of this side: which life allocated it
  life,         \* where the life-cycle call of this side is
  call,         \* where the task of this side is, and the locals of its call
  waiting,      \* sides whose task is on a wait queue and was not woken up
  lives, switches, ends, sends, \* count the calls, for the bounds
  \* History: the messages pushed and received; how often the transmitting
  \* node emptied the FIFO; whether a receive was at work meanwhile;
  \* whether the last signal to a side made its counters equal; whether the
  \* last notification of a side was cleared unseen.
  pushed, got, epoch, overrun, masked, cleared

fifo == <<head, tail, ring, pendingSize>>
counters == <<sig, ack>>
nodes == <<node, config, endpoint, queue, lives, switches, ends>>
tasks == <<call, waiting, sends, pushed, got>>
flags == <<epoch, overrun, masked, cleared>>
vars == <<fifo, counters, notify, handler, nodes, life, tasks, flags>>

NoMsg == <<0, 0>>

\* A task outside the two calls.  In a call: snap is current_status, queue the
\* one it waits on, msg and head are what a pop took; abandoned is history: its
\* end was closed, or its node started again, under the call.
Idle == [pc |-> "idle", snap |-> 0, queue |-> 0, msg |-> NoMsg, head |-> 0,
         abandoned |-> FALSE]

\* Both nodes have been initialized once and the channel is open
\* (ChannelStates has the way there).
Init ==
  /\ head = 0 /\ tail = 0 /\ ring = [i \in 0 .. FifoSize - 1 |-> NoMsg]
  /\ pendingSize = 0
  /\ sig = [s \in Sides |-> 0] /\ ack = [s \in Sides |-> 0]
  /\ notify = [s \in Sides |-> FALSE] /\ handler = [s \in Sides |-> "idle"]
  /\ node = [s \in Sides |-> "INIT"] /\ config = [s \in Sides |-> TRUE]
  /\ endpoint = [s \in Sides |-> "OPEN"] /\ queue = [s \in Sides |-> 1]
  /\ life = [s \in Sides |-> "idle"] /\ call = [s \in Sides |-> Idle]
  /\ waiting = {} /\ lives = [s \in Sides |-> 1] /\ switches = 0
  /\ ends = 0 /\ sends = 0
  /\ pushed = 0 /\ got = <<>> /\ epoch = 1
  /\ overrun = FALSE /\ masked = [s \in Sides |-> FALSE]
  /\ cleared = [s \in Sides |-> FALSE]

Plus1(n) == (n + 1) % CounterRange
Raise(side) == /\ notify' = [notify EXCEPT ![side] = TRUE]
               /\ cleared' = [cleared EXCEPT ![side] = FALSE]
LifeAt(side, place) == life[side] = place
LifeGoto(side, place) == life' = [life EXCEPT ![side] = place]
At(side, place) == call[side].pc = place
Goto(side, place) == call' = [call EXCEPT ![side].pc = place]
Return(side) == call' = [call EXCEPT ![side] = Idle]
InCall(side) == ~At(side, "idle")
-----------------------------------------------------------------------------
(***************************************************************************)
(* ICC_Initialize.                                                         *)
(***************************************************************************)
\* Both FIFOs lose this side's rd and wr: what it signalled to its peer and
\* what it acknowledged.
ResetCounters(side) ==
  /\ sig' = [sig EXCEPT ![Peer(side)] = 0]
  /\ ack' = [ack EXCEPT ![side] = 0]
  /\ masked' = [masked EXCEPT ![Peer(side)] = ack[Peer(side)] = 0]

\* A mutant of FifoInit: each side goes on to empty the FIFO, whether it writes
\* it or reads it.
FifoInit_Both(side) == ResetCounters(side) /\ LifeGoto(side, "head")

\* ICC_FIFO_Init: only the TX FIFO is emptied.
FifoInit(side) ==
  /\ ResetCounters(side)
  /\ LifeGoto(side, IF side = "tx" THEN "head" ELSE "mark")

Abandon(side) == call' = [call EXCEPT ![side].abandoned = InCall(side)]

\* The end points are closed already: ICC_Finalize has seen to it.
Initialize(side) ==
  /\ LifeAt(side, "idle") /\ ~config[side]
  /\ lives["tx"] + lives["rx"] < MaxLives
  /\ config' = [config EXCEPT ![side] = TRUE]
  /\ lives' = [lives EXCEPT ![side] = @ + 1]
  /\ FifoInit(side)
  /\ Abandon(side)
  /\ UNCHANGED <<fifo, notify, handler, node, endpoint, queue, switches, ends,
                 waiting, sends, pushed, got, epoch, overrun, cleared>>

\* ICC_FIFO_Init goes on, for the FIFO this side writes: head is stored, under
\* a reader that has loaded it before, perhaps.
EmptyHead(side) ==
  /\ LifeAt(side, "head")
  /\ head' = 0
  /\ overrun' = (overrun \/ At("rx", "taken"))
  /\ LifeGoto(side, "tail")
  /\ UNCHANGED <<tail, ring, pendingSize, counters, notify, handler, nodes,
                 tasks, epoch, masked, cleared>>

\* And tail, with pending_send_msg_size, which this core alone reads.
EmptyTail(side) ==
  /\ LifeAt(side, "tail")
  /\ tail' = 0 /\ pendingSize' = 0
  /\ epoch' = IF side = "tx" THEN epoch + 1 ELSE epoch
  /\ LifeGoto(side, "mark")
  /\ UNCHANGED <<head, ring, counters, notify, handler, nodes, tasks, overrun,
                 masked, cleared>>

\* A new wait queue by ICC_OS_Initialize; the node is initialized.
MarkInitialized(side) ==
  /\ LifeAt(side, "mark")
  /\ queue' = [queue EXCEPT ![side] = lives[side]]
  /\ node' = [node EXCEPT ![side] = "INIT"]
  /\ LifeGoto(side, "interrupts")
  /\ UNCHANGED <<fifo, counters, notify, handler, config, endpoint, lives,
                 switches, ends, tasks, flags>>

\* ICC_OS_Init_Interrupts (ChannelStates has its two steps) and
\* ICC_Notify_Peer.
InitInterrupts(side) ==
  /\ LifeAt(side, "interrupts")
  /\ notify' = [notify EXCEPT ![side] = @ /\ node[Peer(side)] # "UNINIT",
                              ![Peer(side)] = TRUE]
  /\ cleared' = [cleared EXCEPT
       ![side] = @ \/ (notify[side] /\ node[Peer(side)] = "UNINIT"),
       ![Peer(side)] = FALSE]
  /\ LifeGoto(side, "idle")
  /\ UNCHANGED <<fifo, counters, handler, nodes, tasks, epoch, overrun, masked>>
-----------------------------------------------------------------------------
CountSwitch == switches < MaxSwitches /\ switches' = switches + 1

OpenChannel(side) ==
  /\ LifeAt(side, "idle") /\ config[side] /\ endpoint[side] = "CLOSED"
  /\ CountSwitch
  /\ endpoint' = [endpoint EXCEPT ![side] = "OPEN"]
  /\ Raise(Peer(side))
  /\ UNCHANGED <<fifo, counters, handler, node, config, queue, lives, ends,
                 life, tasks, epoch, overrun, masked>>

\* The tasks inside a call are not woken up.
CloseChannel(side) ==
  /\ LifeAt(side, "idle") /\ config[side] /\ endpoint[side] = "OPEN"
  /\ CountSwitch
  /\ endpoint' = [endpoint EXCEPT ![side] = "CLOSED"]
  /\ Raise(Peer(side))
  /\ Abandon(side)
  /\ UNCHANGED <<fifo, counters, handler, node, config, queue, lives, ends, life,
                 waiting, sends, pushed, got, epoch, overrun, masked>>
-----------------------------------------------------------------------------
(***************************************************************************)
(* ICC_Finalize.                                                           *)
(***************************************************************************)
Finalize(side) ==
  /\ LifeAt(side, "idle") /\ config[side] /\ ends < MaxEnds
  /\ ends' = ends + 1
  /\ node' = [node EXCEPT ![side] = "UNINIT"]
  /\ LifeGoto(side, IF endpoint[side] = "OPEN" THEN "wake" ELSE "close")
  /\ UNCHANGED <<fifo, counters, notify, handler, config, endpoint, queue,
                 lives, switches, tasks, flags>>

\* The tasks of this side on its wait queue, when it is the current one.
WakeTasks(side) ==
  waiting' = IF call[side].queue = queue[side] THEN waiting \ {side} ELSE waiting

\* A mutant of FinalizeWake: it is left to the peer's next signal.
FinalizeWake_Forgotten(side) ==
  /\ LifeAt(side, "wake")
  /\ LifeGoto(side, "close")
  /\ UNCHANGED <<fifo, counters, notify, handler, nodes, tasks, flags>>

\* ICC_OS_Set_Event for both FIFOs, which share the wait queue.
FinalizeWake(side) ==
  /\ LifeAt(side, "wake")
  /\ WakeTasks(side)
  /\ LifeGoto(side, "close")
  /\ UNCHANGED <<fifo, counters, notify, handler, nodes, call, sends, pushed, got,
                 flags>>

\* The end point is closed and the peer notified.
FinalizeClose(side) ==
  /\ LifeAt(side, "close")
  /\ endpoint' = [endpoint EXCEPT ![side] = "CLOSED"]
  /\ Raise(Peer(side))
  /\ LifeGoto(side, "end")
  /\ UNCHANGED <<fifo, counters, handler, node, config, queue, lives, switches,
                 ends, tasks, epoch, overrun, masked>>

\* ICC_OS_Finalize frees the wait queue, whoever is still on it, and the
\* configuration is gone.
FinalizeEnd(side) ==
  /\ LifeAt(side, "end")
  /\ config' = [config EXCEPT ![side] = FALSE]
  /\ LifeGoto(side, "idle")
  /\ UNCHANGED <<fifo, counters, notify, handler, node, endpoint, queue, lives,
                 switches, ends, tasks, flags>>
-----------------------------------------------------------------------------
(***************************************************************************)
(* ICC_Msg_Send and ICC_Msg_Recv with ICC_WAIT_FOREVER.                    *)
(***************************************************************************)
Fits == MsgFits(head, tail, MsgSize)
MoreThanHeader == PendingBytes(head, tail) > HeaderSize
Served(side) == IF side = "tx" THEN Fits ELSE MoreThanHeader
Transfer(side) == IF side = "tx" THEN "push" ELSE "pop"
Accepted(side) == At(side, "idle") /\ config[side] /\ endpoint[side] = "OPEN"

SendCall ==
  /\ Accepted("tx") /\ sends < MaxSends
  /\ sends' = sends + 1
  /\ pendingSize' = IF Fits THEN pendingSize ELSE MsgSize
  /\ Goto("tx", IF Fits THEN "push" ELSE "wait")
  /\ UNCHANGED <<head, tail, ring, counters, notify, handler, nodes, life,
                 waiting, pushed, got, flags>>

RecvCall ==
  /\ Accepted("rx")
  /\ Goto("rx", IF MoreThanHeader THEN "pop" ELSE "wait")
  /\ UNCHANGED <<fifo, counters, notify, handler, nodes, life, waiting, sends,
                 pushed, got, flags>>

\* ICC_OS_Wait_Event, as in MsgTransfer, with the node's state as part of the
\* condition.  A task that runs again waits on the queue that is current then.
WaitOn(side, snap) ==
  /\ waiting' = waiting \union {side}
  /\ call' = [call EXCEPT ![side].pc = "evaluate", ![side].snap = snap,
                          ![side].queue = queue[side]]
  /\ UNCHANGED <<fifo, counters, notify, handler, nodes, life, sends, pushed,
                 got, flags>>

WaitEvent(side) == At(side, "wait") /\ WaitOn(side, ack[side])
Enqueue(side) == At(side, "enqueue") /\ WaitOn(side, call[side].snap)

\* A mutant of WaitCondition: the state of the FIFO is not part of it.
WaitCondition_SignalsOnly(side) ==
  node[side] = "UNINIT" \/ call[side].snap # sig[side]

WaitCondition(side) ==
  \/ node[side] = "UNINIT" \/ call[side].snap # sig[side]
  \/ IF side = "tx" THEN MsgFits(head, tail, pendingSize) ELSE MoreThanHeader

Evaluate(side) ==
  /\ At(side, "evaluate")
  /\ \/ WaitCondition(side) /\ waiting' = waiting \ {side}
        /\ call' = [call EXCEPT ![side].pc = "again", ![side].snap = 0,
                                ![side].queue = 0]
     \/ ~WaitCondition(side) /\ Goto(side, "asleep") /\ UNCHANGED waiting
  /\ UNCHANGED <<fifo, counters, notify, handler, nodes, life, sends, pushed,
                 got, flags>>

WakeUp(side) ==
  /\ At(side, "asleep") /\ side \notin waiting
  /\ Goto(side, "enqueue")
  /\ UNCHANGED <<fifo, counters, notify, handler, nodes, life, waiting, sends,
                 pushed, got, flags>>

\* ICC_ERR_NODE_DEINITIALIZED, the transfer, or another round.
Again(side) ==
  /\ At(side, "again")
  /\ \/ node[side] = "UNINIT" /\ Return(side) /\ UNCHANGED pendingSize
     \/ /\ node[side] # "UNINIT" /\ Served(side)
        /\ Goto(side, Transfer(side))
        /\ pendingSize' = IF side = "tx" THEN 0 ELSE pendingSize
     \/ /\ node[side] # "UNINIT" /\ ~Served(side)
        /\ Goto(side, "wait")
        /\ UNCHANGED pendingSize
  /\ UNCHANGED <<head, tail, ring, counters, notify, handler, nodes, life,
                 waiting, sends, pushed, got, flags>>

-----------------------------------------------------------------------------
\* A message is <<epoch, number>>.  ICC_FIFO_Push_Header and ICC_FIFO_Push.
Push ==
  LET body == TailAfter(head, tail, HeaderSize, 0)
  IN
  /\ At("tx", "push")
  /\ pushed' = pushed + 1
  /\ ring' = [i \in 0 .. FifoSize - 1 |->
       IF i = tail % FifoSize \/ i = body % FifoSize THEN <<epoch, pushed + 1>>
                                                     ELSE ring[i]]
  /\ tail' = TailAfter(head, body, MsgSize, Padding(MsgSize))
  /\ Goto("tx", "signal")
  /\ UNCHANGED <<head, pendingSize, counters, notify, handler, nodes, life,
                 waiting, sends, got, flags>>

\* ICC_FIFO_Pop_Header and ICC_FIFO_Pop: the indexes and the bytes are loaded.
\* Between the two stores of ICC_FIFO_Init the old bytes before tail look
\* pending.
Behind(index, len, pad) == HeadAfter(index, tail, len, pad)

Pop ==
  /\ At("rx", "pop")
  /\ \/ /\ RealSize(MsgSize) <= PendingBytes(head, tail)
        /\ call' = [call EXCEPT !["rx"].pc = "taken",
                                !["rx"].msg = ring[head % FifoSize],
                                !["rx"].head =
             Behind(Behind(head, HeaderSize, 0), MsgSize, Padding(MsgSize))]
        /\ overrun' = (overrun \/ LifeAt("tx", "tail"))
     \/ /\ RealSize(MsgSize) > PendingBytes(head, tail)
        /\ Return("rx") /\ UNCHANGED overrun
  /\ UNCHANGED <<fifo, counters, notify, handler, nodes, life, waiting, sends,
                 pushed, got, epoch, masked, cleared>>

\* ALIGN_READ: head is stored.
Taken ==
  /\ At("rx", "taken")
  /\ head' = call["rx"].head
  /\ got' = Append(got, call["rx"].msg)
  /\ Goto("rx", "signal")
  /\ UNCHANGED <<tail, ring, pendingSize, counters, notify, handler, nodes,
                 life, waiting, sends, pushed, flags>>

\* ICC_FIFO_Msg_Wr_Sig or ICC_FIFO_Msg_Rd_Sig, and ICC_Notify_Peer.
Signal(side) ==
  LET to == Peer(side)
  IN
  /\ At(side, "signal")
  /\ sig' = [sig EXCEPT ![to] = Plus1(@)]
  /\ masked' = [masked EXCEPT ![to] = Plus1(sig[to]) = ack[to]]
  /\ Raise(to)
  /\ Return(side)
  /\ UNCHANGED <<fifo, ack, handler, nodes, life, waiting, sends, pushed, got,
                 epoch, overrun>>
-----------------------------------------------------------------------------
(***************************************************************************)
(* ICC_Remote_Event_Handler, what it does for this FIFO.                   *)
(***************************************************************************)
HandlerAt(side, place) == handler[side] = place
HandlerGoto(side, place) == handler' = [handler EXCEPT ![side] = place]

\* Nothing to do before ICC_Initialize and after ICC_Finalize.
HandlerStart(side) ==
  /\ HandlerAt(side, "idle") /\ notify[side]
  /\ notify' = [notify EXCEPT ![side] = FALSE]
  /\ HandlerGoto(side, IF config[side] /\ node[side] # "UNINIT" THEN "scan"
                                                                ELSE "idle")
  /\ UNCHANGED <<fifo, counters, nodes, life, tasks, flags>>

WakesUp(side) == side = "rx" \/ (pendingSize # 0 /\ Fits)

\* ICC_OS_Set_Event for a signal that is not acknowledged yet, and
\* ICC_FIFO_Msg_Wr_Ack or ICC_FIFO_Msg_Rd_Ack (MsgTransfer has them apart).
Serve(side) ==
  /\ IF WakesUp(side) THEN WakeTasks(side) ELSE UNCHANGED waiting
  /\ ack' = [ack EXCEPT ![side] = Plus1(@)]
  /\ UNCHANGED handler

Done(side) == HandlerGoto(side, "idle") /\ UNCHANGED <<ack, waiting>>

\* The configuration is looked at once, when the handler starts; one that
\* finds it gone in the middle goes on through a null pointer, and no further.
HandlerScan(side) ==
  /\ HandlerAt(side, "scan") /\ config[side]
  /\ IF sig[side] # ack[side] THEN Serve(side) ELSE Done(side)
  /\ UNCHANGED <<fifo, sig, notify, nodes, life, call, sends, pushed, got, flags>>
-----------------------------------------------------------------------------
LifeStep(side) ==
  \/ EmptyHead(side) \/ EmptyTail(side)
  \/ MarkInitialized(side) \/ InitInterrupts(side)
  \/ FinalizeWake(side) \/ FinalizeClose(side) \/ FinalizeEnd(side)

TaskStep(side) ==
  \/ WaitEvent(side) \/ Enqueue(side) \/ Evaluate(side) \/ WakeUp(side)
  \/ Again(side) \/ Signal(side)
  \/ side = "tx" /\ Push
  \/ side = "rx" /\ (Pop \/ Taken)

Handler(side) == HandlerStart(side) \/ HandlerScan(side)

Next ==
  /\ overrun => PastOverrun
  /\ \/ \E s \in Sides :
          \/ Initialize(s) \/ OpenChannel(s) \/ CloseChannel(s)
          \/ Finalize(s) \/ LifeStep(s) \/ TaskStep(s) \/ Handler(s)
     \/ SendCall \/ RecvCall

Spec == Init /\ [][Next]_vars

\* Calls that were begun run on and interrupts are served.
Fairness ==
  \A s \in Sides : /\ WF_vars(LifeStep(s)) /\ WF_vars(TaskStep(s))
                   /\ WF_vars(Handler(s))

FairSpec == Spec /\ Fairness
-----------------------------------------------------------------------------
(***************************************************************************)
(* Properties.                                                             *)
(***************************************************************************)
Message == Nat \X Nat
Counter == 0 .. CounterRange - 1
Places == {"idle", "wait", "enqueue", "evaluate", "asleep", "again", "push", "pop",
           "taken", "signal"}
Calls == [pc: Places, snap: Counter, queue: Nat, msg: Message, head: Int,
          abandoned: BOOLEAN]

\* The variables hold what the code can store in them; between two
\* life-cycle calls a node is initialized exactly when it has a configuration,
\* and its end point is open only then.
TypeOK ==
  /\ head \in Int /\ tail \in Int /\ pendingSize \in {0, MsgSize}
  /\ ~overrun => head \in Index /\ (tail \in Index \/ LifeAt("tx", "tail"))
  /\ ring \in [0 .. FifoSize - 1 -> Message]
  /\ sig \in [Sides -> Counter] /\ ack \in [Sides -> Counter]
  /\ notify \in [Sides -> BOOLEAN] /\ handler \in [Sides -> {"idle", "scan"}]
  /\ node \in [Sides -> {"UNINIT", "INIT"}] /\ config \in [Sides -> BOOLEAN]
  /\ endpoint \in [Sides -> {"CLOSED", "OPEN"}] /\ waiting \subseteq Sides
  /\ life \in [Sides -> {"idle", "head", "tail", "mark", "interrupts", "wake",
                         "close", "end"}]
  /\ queue \in [Sides -> Nat] /\ lives \in [Sides -> Nat]
  /\ call \in [Sides -> Calls]
  /\ ends \in 0 .. MaxEnds /\ switches \in 0 .. MaxSwitches
  /\ sends \in 0 .. MaxSends
  /\ pushed \in Nat /\ got \in Seq(Message) /\ epoch \in Nat
  /\ overrun \in BOOLEAN
  /\ masked \in [Sides -> BOOLEAN] /\ cleared \in [Sides -> BOOLEAN]
  /\ \A s \in Sides : LifeAt(s, "idle") =>
       (node[s] = "INIT" <=> config[s]) /\ (endpoint[s] = "OPEN" => config[s])

\* A reader never gets a message twice, never an older one after a newer one,
\* and misses one only when the writer's node was initialized again in
\* between: its own restart costs it nothing.  (All of it is lost when the
\* writer's ICC_FIFO_Init meets a receive: when it stores head between the
\* reader's load and store of head, or when the reader takes the bytes that
\* look pending between its stores of head and tail.)
InOrder ==
  LET all == <<<<1, 0>>>> \o got
  IN
  ~overrun => \A i \in 1 .. Len(got) :
    /\ all[i][2] < all[i + 1][2]
    /\ all[i][1] = all[i + 1][1] => all[i + 1][2] = all[i][2] + 1

\* Why a task of this side need not be woken up now: it will be, by the peer's
\* transfer in progress or by a signal the handler has yet to see, at the
\* latest when the peer's ICC_Initialize ends and notifies it.
WakeupComes(side) ==
  \/ call[Peer(side)].pc \in {"push", "taken", "signal"}
  \/ /\ sig[side] # ack[side]
     /\ \/ notify[side] \/ handler[side] = "scan"
        \/ life[Peer(side)] \in {"head", "tail", "mark", "interrupts"}

\* Across the restarts of either node a task that could be served sleeps on
\* without an event to come in two cases only: a restart set a counter back
\* and the last signal made the two counters equal; or its own ICC_Initialize
\* cleared the notification, because the peer's node, though not its task, was
\* down.  (Nothing is said once the writer's ICC_FIFO_Init met a receive, as in
\* InOrder: the reader's index is wrong then; nor between the two stores of
\* ICC_FIFO_Init: what looks pending there is no message.)
LostOnlyByRestart ==
  \A side \in Sides :
    /\ At(side, "asleep") /\ side \in waiting /\ Served(side)
    /\ node[side] = "INIT" /\ call[side].queue = queue[side]
    /\ ~overrun /\ ~LifeAt("tx", "tail")
    => WakeupComes(side) \/ masked[side] \/ cleared[side]

\* ICC_Finalize leaves no task asleep behind, on a queue that is freed next,
\* unless the end point was closed, or the node had started again, under the
\* task before.
WaitersReleased ==
  \A side \in Sides : At(side, "asleep") /\ side \in waiting
                      /\ node[side] = "UNINIT" /\ ~LifeAt(side, "wake")
    => call[side].abandoned

\* "ICC_ERR_NODE_DEINITIALIZED - The node was deinitialized while the blocking
\* call was pending": a call that is pending when its node is finalized
\* returns, or sees the node initialized again.
PendingReturns ==
  \A side \in Sides :
    (InCall(side) /\ node[side] = "UNINIT") ~>
      (~InCall(side) \/ node[side] = "INIT")
============================================================================
