--------------------------- MODULE Sac58rTransfer ---------------------------
(***************************************************************************)
(* The older port, for SAC58R (src/release/iccsac58r): one direction of a  *)
(* channel from the first ICC_Initialize of its two nodes on.  Where it    *)
(* differs from the S32V234 port that the other modules describe:          *)
(*  - each ICC_Initialize empties both FIFOs, so the node that comes late  *)
(*    erases what its peer has sent;                                       *)
(*  - ICC_OS_Wait_Event takes its snapshot of the counter the peer writes, *)
(*    and looks at nothing else: a signal before the snapshot goes unseen; *)
(*  - ICC_OS_Initialize can fail and leaves the node half initialized, on  *)
(*    a first start with a state that no core has ever written;            *)
(*  - a header that is split at the end of the ring is put together wrong  *)
(*    ("header + gap_to_end" counts headers and not bytes), which no       *)
(*    alignment of the configuration tables lets happen;                   *)
(*  - the sample receives in the callback the event handler makes.         *)
(* "tx" writes the FIFO and "rx" reads it.  Both run the same ICC_Api.c;   *)
(* the operating system layer of a peer that is no Linux is taken to be    *)
(* like this one.  A push is one step, and so are a snapshot and the       *)
(* enqueueing, a wake-up and an acknowledgement (MsgTransfer has them      *)
(* apart).  All messages have one size.                                    *)
(***************************************************************************)
EXTENDS FifoOps, Sequences

CONSTANTS
  MsgSize,      \* size of every message
  CounterRange, \* the rd and wr counters are numbers modulo this
  MaxInits,     \* bound: the calls of ICC_Initialize by both sides
  MaxEnds,      \* bound: the calls of ICC_Close_Channel and ICC_Finalize
  MaxOpens,     \* bound: the calls of ICC_Open_Channel by both sides
  MaxSends      \* bound: the calls of ICC_Msg_Send

Sides == {"tx", "rx"}
Peer(side) == IF side = "tx" THEN "rx" ELSE "tx"

\* Messages start at multiples of the alignment and a header is no longer than
\* that: none is split at the end of the ring.  The counters, 32-bit numbers,
\* count more messages than the FIFO holds.
ASSUME Sac58rAssumption ==
  /\ HeaderSize <= Alignment
  /\ MsgSize \in Nat \ {0} /\ RealSize(MsgSize) < FifoSize
  /\ CounterRange \in Nat /\ CounterRange > FifoSize \div RealSize(MsgSize) + 1
  /\ MaxInits \in Nat /\ MaxEnds \in Nat /\ MaxOpens \in Nat /\ MaxSends \in Nat

VARIABLES
  head, tail,    \* ICC_Fifo_Ram_t.head and tail
  count,         \* how many messages are in the ring
  pendingSize,   \* ICC_Fifo_Ram_t.pending_send_msg_size
  sig, ack,      \* what each side was signalled and acknowledged
  notify,        \* the CPU-to-CPU interrupt of this side is asserted
  handler,       \* ICC_Remote_Event_Handler of this side
  callback,      \* Channel_Rx_Cb of the reader receives the message itself
  node,          \* ICC_Initialized[side]; "BLANK" is cleared memory
  config,        \* ICC_Config_Ptr of this side is set
  setup,         \* what ICC_OS_Initialize has set up, see below
  endpoint,      \* endpoint_state of this side
  life,          \* where the life-cycle call of this side is
  call,          \* where the task of this side is, and the locals of its call
  waiting,       \* sides whose task is on its wait queue and not woken up
  inits, ends, opens, sends, \* count the calls, for the bounds
  \* History: the task of a side could be served when it took its snapshot;
  \* an ICC_Initialize erased messages or signals that were not handled yet;
  \* the sides whose end was closed, or whose node started again, under a task
  \* inside a call; the last signal to a side made its two counters equal.
  late, erased, abandoned, masked

fifo == <<head, tail, count, pendingSize>>
counters == <<sig, ack>>
nodes == <<node, config, setup, endpoint, inits, ends, opens>>
tasks == <<call, waiting, sends, late>>
history == <<erased, abandoned, masked>>
vars == <<fifo, counters, notify, handler, callback, nodes, life, tasks, history>>

Idle == [pc |-> "idle", snap |-> 0, alarm |-> "off"]

\* "nothing" yet; the semaphores and the "queue"; "all", with the interrupt; or
\* the queue and the interrupt were "freed" again.
Setups == {"nothing", "queue", "all", "freed"}
HasQueue(side) == setup[side] \in {"queue", "all"}

Init ==
  /\ head = 0 /\ tail = 0 /\ count = 0 /\ pendingSize = 0
  /\ sig = [s \in Sides |-> 0] /\ ack = [s \in Sides |-> 0]
  /\ notify = [s \in Sides |-> FALSE] /\ handler = [s \in Sides |-> "idle"]
  /\ callback \in BOOLEAN
  /\ \E memory \in {"UNINIT", "BLANK"} : node = [s \in Sides |-> memory]
  /\ config = [s \in Sides |-> FALSE] /\ setup = [s \in Sides |-> "nothing"]
  /\ endpoint = [s \in Sides |-> "CLOSED"] /\ life = [s \in Sides |-> "idle"]
  /\ call = [s \in Sides |-> Idle] /\ waiting = {}
  /\ inits = 0 /\ ends = 0 /\ opens = 0 /\ sends = 0
  /\ late = [s \in Sides |-> FALSE] /\ erased = FALSE /\ abandoned = {}
  /\ masked = [s \in Sides |-> FALSE]

Plus1(n) == (n + 1) % CounterRange
Raise(side) == notify' = [notify EXCEPT ![side] = TRUE]
LifeAt(side, place) == life[side] = place
LifeGoto(side, place) == life' = [life EXCEPT ![side] = place]
At(side, place) == call[side].pc = place
Goto(side, place) == call' = [call EXCEPT ![side].pc = place]
Return(side) == call' = [call EXCEPT ![side] = Idle]
HandlerAt(side, place) == handler[side] = place
HandlerGoto(side, place) == handler' = [handler EXCEPT ![side] = place]
-----------------------------------------------------------------------------
(***************************************************************************)
(* The ring, as in FifoOps, except for the header.                         *)
(***************************************************************************)
Fits(size) == MsgFits(head, tail, size)
MoreThanHeader == PendingBytes(head, tail) > HeaderSize

\* ICC_FIFO_Push_Header, and ICC_FIFO_Push behind it.
HeaderPushed == TailAfter(head, tail, HeaderSize, 0)
PushAll == tail' = TailAfter(head, HeaderPushed, MsgSize, Padding(MsgSize))

\* ICC_FIFO_Pop_Header, and ICC_FIFO_Pop behind it.
HeaderPopped == HeadAfter(head, tail, HeaderSize, 0)
PopAll ==
  /\ head' = HeadAfter(HeaderPopped, tail, MsgSize, Padding(MsgSize))
  /\ count' = IF count > 0 THEN count - 1 ELSE 0
-----------------------------------------------------------------------------
(***************************************************************************)
(* The life cycle.                                                         *)
(***************************************************************************)

\* ICC_FIFO_Init: each side empties the FIFO and takes back its own counters.
FifoInit(side) ==
  /\ head' = 0 /\ tail' = 0 /\ count' = 0 /\ pendingSize' = 0
  /\ sig' = [sig EXCEPT ![Peer(side)] = 0]
  /\ ack' = [ack EXCEPT ![side] = 0]
  /\ erased' = (erased \/ count > 0 \/ sig # ack \/ sig[side] # 0
                       \/ \E s \in Sides : ~At(s, "idle"))

Abandon(side) ==
  abandoned' = IF At(side, "idle") THEN abandoned ELSE abandoned \union {side}

\* The configurations of the nodes match.
Initialize(side) ==
  /\ LifeAt(side, "idle") /\ ~config[side] /\ inits < MaxInits
  /\ inits' = inits + 1
  /\ config' = [config EXCEPT ![side] = TRUE]
  /\ FifoInit(side)
  /\ Abandon(side)
  /\ LifeGoto(side, "os")
  /\ UNCHANGED <<notify, handler, callback, node, setup, endpoint, ends, opens,
                 tasks, masked>>

SetUp(side, value) == setup' = [setup EXCEPT ![side] = value]

\* ICC_OS_Initialize.  When the wait queue, or behind it the mapping or the
\* interrupt, cannot be had, ICC_Initialize returns an error; the configuration
\* stays set.
OsInitialize(side) ==
  /\ LifeAt(side, "os")
  /\ \/ /\ LifeGoto(side, "mark") /\ SetUp(side, "all")
        /\ notify' = [notify EXCEPT ![side] = FALSE]
     \/ /\ LifeGoto(side, "idle") /\ SetUp(side, "queue")
        /\ \E i \in {notify[side], FALSE} : notify' = [notify EXCEPT ![side] = i]
     \/ LifeGoto(side, "idle") /\ UNCHANGED <<setup, notify>>
  /\ UNCHANGED <<fifo, counters, handler, callback, node, config, endpoint, inits,
                 ends, opens, tasks, history>>

MarkInitialized(side) ==
  /\ LifeAt(side, "mark")
  /\ node' = [node EXCEPT ![side] = "INIT"]
  /\ Raise(Peer(side))
  /\ LifeGoto(side, "idle")
  /\ UNCHANGED <<fifo, counters, handler, callback, config, setup, endpoint,
                 inits, ends, opens, tasks, history>>

\* The configuration is all that is asked for.
OpenChannel(side) ==
  /\ LifeAt(side, "idle") /\ config[side] /\ endpoint[side] = "CLOSED"
  /\ opens < MaxOpens
  /\ opens' = opens + 1
  /\ endpoint' = [endpoint EXCEPT ![side] = "OPEN"]
  /\ Raise(Peer(side))
  /\ UNCHANGED <<fifo, counters, handler, callback, node, config, setup, inits,
                 ends, life, tasks, history>>

CloseChannel(side) ==
  /\ LifeAt(side, "idle") /\ config[side] /\ endpoint[side] = "OPEN"
  /\ ends < MaxEnds
  /\ ends' = ends + 1
  /\ endpoint' = [endpoint EXCEPT ![side] = "CLOSED"]
  /\ Raise(Peer(side))
  /\ Abandon(side)
  /\ UNCHANGED <<fifo, counters, handler, callback, node, config, setup, inits,
                 opens, life, tasks, erased, masked>>

Finalize(side) ==
  /\ LifeAt(side, "idle") /\ config[side] /\ ends < MaxEnds
  /\ ends' = ends + 1
  /\ node' = [node EXCEPT ![side] = "UNINIT"]
  /\ LifeGoto(side, "wake")
  /\ UNCHANGED <<fifo, counters, notify, handler, callback, config, setup,
                 endpoint, inits, opens, tasks, history>>

\* A mutant of FinalizeChannel: the waiting task is not woken up.
FinalizeChannel_Silent(side) ==
  /\ LifeAt(side, "wake")
  /\ endpoint' = [endpoint EXCEPT ![side] = "CLOSED"]
  /\ Raise(Peer(side))
  /\ LifeGoto(side, "end")
  /\ UNCHANGED <<fifo, counters, handler, callback, node, config, setup, inits,
                 ends, opens, tasks, history>>

\* An open end point is closed behind ICC_OS_Set_Event; the peer is notified.
FinalizeChannel(side) ==
  /\ LifeAt(side, "wake") /\ (endpoint[side] = "OPEN" => HasQueue(side))
  /\ waiting' = IF endpoint[side] = "OPEN" THEN waiting \ {side} ELSE waiting
  /\ endpoint' = [endpoint EXCEPT ![side] = "CLOSED"]
  /\ Raise(Peer(side))
  /\ LifeGoto(side, "end")
  /\ UNCHANGED <<fifo, counters, handler, callback, node, config, setup, inits,
                 ends, opens, call, sends, late, history>>

\* ICC_OS_Set_Event with no queue behind its pointer: the kernel stops it there.
FinalizeOops(side) ==
  /\ LifeAt(side, "wake") /\ endpoint[side] = "OPEN" /\ ~HasQueue(side)
  /\ LifeGoto(side, "oops")
  /\ UNCHANGED <<fifo, counters, notify, handler, callback, nodes, tasks,
                 history>>

\* ICC_OS_Finalize frees the queue and the interrupt, which waits for its handler.
FinalizeEnd(side) ==
  /\ LifeAt(side, "end") /\ HandlerAt(side, "idle")
  /\ config' = [config EXCEPT ![side] = FALSE]
  /\ SetUp(side, IF setup[side] = "nothing" THEN "nothing" ELSE "freed")
  /\ LifeGoto(side, "idle")
  /\ UNCHANGED <<fifo, counters, notify, handler, callback, node, endpoint,
                 inits, ends, opens, tasks, history>>
-----------------------------------------------------------------------------
(***************************************************************************)
(* ICC_Msg_Send and ICC_Msg_Recv by the tasks.                             *)
(***************************************************************************)
Served(side) == IF side = "tx" THEN Fits(MsgSize) ELSE MoreThanHeader
Transfer(side) == IF side = "tx" THEN "push" ELSE "pop"
Accepted(side) == At(side, "idle") /\ config[side] /\ endpoint[side] = "OPEN"

\* A transfer at once, or the wait behind ICC_OS_Set_Rel_Alarm.  A call that
\* waits forever is one whose timer never expires.
Enter(side) ==
  call' = [call EXCEPT
    ![side].pc = IF Served(side) THEN Transfer(side) ELSE "wait",
    ![side].alarm = IF Served(side) THEN "off" ELSE "set"]

SendCall ==
  /\ Accepted("tx") /\ sends < MaxSends
  /\ sends' = sends + 1
  /\ pendingSize' = IF Fits(MsgSize) THEN pendingSize ELSE MsgSize
  /\ Enter("tx")
  /\ UNCHANGED <<head, tail, count, counters, notify, handler, callback, nodes,
                 life, waiting, late, history>>

RecvCall ==
  /\ Accepted("rx") /\ ~callback
  /\ Enter("rx")
  /\ UNCHANGED <<fifo, counters, notify, handler, callback, nodes, life,
                 waiting, sends, late, history>>

\* ICC_OS_Wait_Event: the snapshot is the counter the peer writes.  The alarm
\* is good for one wait.
WaitEvent(side) ==
  /\ At(side, "wait") /\ HasQueue(side)
  /\ waiting' = waiting \union {side}
  /\ call' = [call EXCEPT
       ![side].pc = "evaluate", ![side].snap = sig[side],
       ![side].alarm = IF @ = "set" THEN "running" ELSE "off"]
  /\ late' = [late EXCEPT ![side] = Served(side)]
  /\ UNCHANGED <<fifo, counters, notify, handler, callback, nodes, life, sends,
                 history>>

\* The same with no queue, which is not touched when the condition holds.
WaitWithoutQueue(side) ==
  /\ At(side, "wait") /\ ~HasQueue(side)
  /\ IF node[side] = "UNINIT" THEN Goto(side, "again") ELSE Goto(side, "oops")
  /\ UNCHANGED <<fifo, counters, notify, handler, callback, nodes, life, waiting,
                 sends, late, history>>

\* A mutant of WaitCondition: it waits for the handler's wake-up alone.
WaitCondition_Blind(side) == node[side] = "UNINIT"

WaitCondition(side) == node[side] = "UNINIT" \/ call[side].snap # sig[side]

\* The event is the time-out when the timer expired and nothing else came.
Evaluate(side) ==
  /\ At(side, "evaluate")
  /\ \/ /\ WaitCondition(side) \/ call[side].alarm = "expired"
        /\ waiting' = waiting \ {side}
        /\ call' = [call EXCEPT
             ![side].pc = "again", ![side].snap = 0,
             ![side].alarm = IF WaitCondition(side) THEN "off" ELSE "expired"]
        /\ late' = [late EXCEPT ![side] = FALSE]
     \/ /\ ~WaitCondition(side) /\ call[side].alarm # "expired"
        /\ Goto(side, "asleep")
        /\ UNCHANGED <<waiting, late>>
  /\ UNCHANGED <<fifo, counters, notify, handler, callback, nodes, life, sends,
                 history>>

\* Woken up, or by its timer.
Run(side) ==
  /\ At(side, "asleep")
  /\ \/ side \notin waiting /\ Goto(side, "evaluate")
     \/ /\ call[side].alarm = "running"
        /\ call' = [call EXCEPT ![side].pc = "evaluate",
                                ![side].alarm = "expired"]
  /\ waiting' = waiting \union {side}
  /\ UNCHANGED <<fifo, counters, notify, handler, callback, nodes, life, sends,
                 late, history>>

\* ICC_ERR_NODE_DEINITIALIZED, ICC_ERR_TIMEOUT, the transfer or another round.
Again(side) ==
  LET over == node[side] = "UNINIT" \/ call[side].alarm = "expired"
  IN
  /\ At(side, "again")
  /\ \/ over /\ Return(side) /\ UNCHANGED pendingSize
     \/ /\ ~over /\ Served(side)
        /\ Goto(side, Transfer(side))
        /\ pendingSize' = IF side = "tx" THEN 0 ELSE pendingSize
     \/ ~over /\ ~Served(side) /\ Goto(side, "wait") /\ UNCHANGED pendingSize
  /\ UNCHANGED <<head, tail, count, counters, notify, handler, callback, nodes,
                 life, waiting, sends, late, history>>

\* ICC_OS_Get_Semaphore refuses while no semaphore has been initialized.
Semaphore(side) == setup[side] # "nothing"

Push ==
  /\ At("tx", "push")
  /\ \/ /\ Semaphore("tx")
        /\ PushAll /\ count' = count + 1 /\ Goto("tx", "signal")
     \/ ~Semaphore("tx") /\ Return("tx") /\ UNCHANGED <<tail, count>>
  /\ UNCHANGED <<head, pendingSize, counters, notify, handler, callback, nodes,
                 life, waiting, sends, late, history>>

\* ICC_ERR_FIFO_EMPTY when the peer has emptied the FIFO in between.
Pop ==
  /\ At("rx", "pop")
  /\ \/ Semaphore("rx") /\ MoreThanHeader /\ PopAll /\ Goto("rx", "signal")
     \/ /\ ~(Semaphore("rx") /\ MoreThanHeader) /\ Return("rx")
        /\ UNCHANGED <<head, count>>
  /\ UNCHANGED <<tail, pendingSize, counters, notify, handler, callback, nodes,
                 life, waiting, sends, late, history>>

\* ICC_FIFO_Msg_Wr_Sig or ICC_FIFO_Msg_Rd_Sig, and the trigger.
SignalPeer(side) ==
  LET peer == Peer(side) IN
  /\ sig' = [sig EXCEPT ![peer] = Plus1(@)]
  /\ Raise(peer)
  /\ masked' = [masked EXCEPT ![peer] = Plus1(sig[peer]) = ack[peer]]

Signal(side) ==
  /\ At(side, "signal")
  /\ SignalPeer(side)
  /\ Return(side)
  /\ UNCHANGED <<fifo, ack, handler, callback, nodes, life, waiting, sends,
                 late, erased, abandoned>>
-----------------------------------------------------------------------------
(***************************************************************************)
(* ICC_Remote_Event_Handler, run by the interrupt.                         *)
(***************************************************************************)
HandlerStart(side) ==
  /\ HandlerAt(side, "idle") /\ notify[side] /\ setup[side] = "all"
  /\ notify' = [notify EXCEPT ![side] = FALSE]
  /\ HandlerGoto(side, IF config[side] /\ node[side] # "UNINIT" THEN "scan"
                                                                ELSE "idle")
  /\ UNCHANGED <<fifo, counters, callback, nodes, life, tasks, history>>

WakesUp(side) == side = "rx" \/ (pendingSize # 0 /\ Fits(pendingSize))

\* A mutant of WakeAndAck: the signal is not acknowledged.
WakeAndAck_NoAck(side) ==
  /\ waiting' = IF WakesUp(side) THEN waiting \ {side} ELSE waiting
  /\ UNCHANGED ack

\* ICC_OS_Set_Event and ICC_FIFO_Msg_Wr_Ack or ICC_FIFO_Msg_Rd_Ack.
WakeAndAck(side) ==
  /\ waiting' = IF WakesUp(side) THEN waiting \ {side} ELSE waiting
  /\ ack' = [ack EXCEPT ![side] = Plus1(@)]

\* While a signal is not acknowledged.
HandlerScan(side) ==
  /\ HandlerAt(side, "scan")
  /\ \/ sig[side] = ack[side] /\ HandlerGoto(side, "idle")
        /\ UNCHANGED <<ack, waiting>>
     \/ /\ sig[side] # ack[side] /\ side = "rx" /\ callback
        /\ HandlerGoto(side, "callback")
        /\ UNCHANGED <<ack, waiting>>
     \/ /\ sig[side] # ack[side] /\ ~(side = "rx" /\ callback)
        /\ WakeAndAck(side)
        /\ UNCHANGED handler
  /\ UNCHANGED <<fifo, sig, notify, callback, nodes, life, call, sends, late,
                 history>>

\* USER_ICC_Callback_Rx_CB_App: ICC_Msg_Recv with ICC_WAIT_FOREVER, inside the
\* interrupt.  With nothing to receive it sleeps there.
ReceiveInCallback ==
  /\ HandlerAt("rx", "callback")
  /\ \/ endpoint["rx"] = "OPEN" /\ MoreThanHeader
        /\ PopAll /\ HandlerGoto("rx", "callback_signal")
     \/ endpoint["rx"] = "OPEN" /\ ~MoreThanHeader
        /\ HandlerGoto("rx", "stuck") /\ UNCHANGED <<head, count>>
     \/ endpoint["rx"] = "CLOSED"
        /\ HandlerGoto("rx", "wake") /\ UNCHANGED <<head, count>>
  /\ UNCHANGED <<tail, pendingSize, counters, notify, callback, nodes, life,
                 tasks, history>>

SignalInCallback ==
  /\ HandlerAt("rx", "callback_signal")
  /\ SignalPeer("rx")
  /\ HandlerGoto("rx", "wake")
  /\ UNCHANGED <<fifo, ack, callback, nodes, life, tasks, erased, abandoned>>

CallbackReturns ==
  /\ HandlerAt("rx", "wake")
  /\ WakeAndAck("rx")
  /\ HandlerGoto("rx", "scan")
  /\ UNCHANGED <<fifo, sig, notify, callback, nodes, life, call, sends, late,
                 history>>
-----------------------------------------------------------------------------
Life(side) ==
  \/ Initialize(side) \/ OsInitialize(side) \/ MarkInitialized(side)
  \/ OpenChannel(side) \/ CloseChannel(side)
  \/ Finalize(side) \/ FinalizeChannel(side) \/ FinalizeOops(side)
  \/ FinalizeEnd(side)

TaskStep(side) ==
  \/ WaitEvent(side) \/ WaitWithoutQueue(side) \/ Evaluate(side) \/ Run(side)
  \/ Again(side) \/ Signal(side)

Handler(side) == HandlerStart(side) \/ HandlerScan(side)

Next ==
  \/ \E s \in Sides : Life(s) \/ TaskStep(s) \/ Handler(s)
  \/ SendCall \/ RecvCall \/ Push \/ Pop
  \/ ReceiveInCallback \/ SignalInCallback \/ CallbackReturns

Spec == Init /\ [][Next]_vars
-----------------------------------------------------------------------------
(***************************************************************************)
(* Properties.                                                             *)
(***************************************************************************)
Counter == 0 .. CounterRange - 1

\* The variables hold what the code can store in them, a handler runs only
\* with a configuration, and a node that is initialized has one.
TypeOK ==
  /\ head \in Index /\ tail \in Index /\ count \in 0 .. MaxSends
  /\ pendingSize \in {0, MsgSize}
  /\ sig \in [Sides -> Counter] /\ ack \in [Sides -> Counter]
  /\ notify \in [Sides -> BOOLEAN] /\ config \in [Sides -> BOOLEAN]
  /\ handler \in [Sides -> {"idle", "scan", "callback", "callback_signal",
                            "stuck", "wake"}]
  /\ \A s \in Sides : /\ ~HandlerAt(s, "idle") => config[s]
                      /\ node[s] = "INIT" => config[s]
  /\ node \in [Sides -> {"BLANK", "UNINIT", "INIT"}]
  /\ setup \in [Sides -> Setups]
  /\ endpoint \in [Sides -> {"CLOSED", "OPEN"}]
  /\ life \in [Sides -> {"idle", "os", "mark", "wake", "oops", "end"}]
  /\ \A s \in Sides : call[s].pc \in
       {"idle", "wait", "evaluate", "asleep", "oops", "again", "push", "pop",
        "signal"}
  /\ waiting \subseteq Sides

\* The receive in the callback finds a message, so that it does not sleep in
\* the interrupt: there is one for every signal, as long as no node erased
\* what the other one had begun.
CallbackNeverWaits == HandlerAt("rx", "stuck") => erased

\* A task that could be served sleeps on without a wake-up to come in three
\* cases only: the peer's transfer fell between its look at the FIFO and its
\* snapshot; a node erased what the other one had begun; or as many signals
\* went unacknowledged as the counters have values.
WakeupUnlessLate ==
  \A s \in Sides :
    /\ At(s, "asleep") /\ s \in waiting /\ Served(s) /\ node[s] = "INIT"
    => \/ At(Peer(s), "signal") \/ HandlerAt(Peer(s), "callback_signal")
       \/ sig[s] # ack[s] /\ (notify[s] \/ ~HandlerAt(s, "idle"))
       \/ late[s] \/ erased \/ masked[s]

\* ICC_Finalize will find a call that sleeps: its end point is open, the queue it
\* sleeps on is there, and the node is not finalized yet.  So none sleeps where
\* the node's word is UNINIT.  After a first ICC_OS_Initialize that failed the
\* word is blank and calls do sleep: nothing else will wake them up.  Only a call
\* whose channel was closed, or whose node started again, under it is left behind.
FinalizeReaches ==
  \A s \in Sides : At(s, "asleep") /\ s \in waiting
    => \/ s \in abandoned
       \/ /\ config[s] /\ endpoint[s] = "OPEN" /\ HasQueue(s)
          /\ node[s] = "UNINIT" => LifeAt(s, "wake")
============================================================================
