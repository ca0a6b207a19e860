---------------------------- MODULE ChannelStates ----------------------------
(***************************************************************************)
(* The life of the two nodes and of one channel: ICC_Initialize,           *)
(* ICC_Finalize, ICC_Open_Channel and ICC_Close_Channel on both cores, one *)
(* load or store of shared memory a step, and the event handler that       *)
(* reports to each core what the other one signalled.                      *)
(*                                                                         *)
(* A core changes its own end point or node state, reads the peer's, and   *)
(* signals the state it saw; the peer may be doing the same.  On each core *)
(* one task makes these calls, as the sample application does.             *)
(*                                                                         *)
(* A signal queue is a ring.  ICC_Initialize empties the two that its core *)
(* writes by two stores each, while the peer's handler may be at any step  *)
(* of a dequeue.  A signal is one step here: it takes a slot the reader    *)
(* does not look at before the store of tail.  That does not hold of an    *)
(* overflow, whose steps SigFifo has.                                      *)
(*                                                                         *)
(* Interrupts are the notification: asserting one that is already asserted *)
(* is no error, so notifying never fails.                                  *)
(*                                                                         *)
(* Before its first life a node is UNINIT where the shared memory has an   *)
(* initializer (ICC_LINUX2LINUX), and BLANK where it is cleared memory of  *)
(* the other core: zero is neither ICC_NODE_STATE_UNINIT nor _INIT.        *)
(***************************************************************************)
EXTENDS Integers, Sequences

CONSTANTS
  QueueSlots,      \* ICC_CFG_MAX_SIGNALS
  MaxLives,        \* bound, by core: the calls of ICC_Initialize
  MaxChanges,      \* bound, by core: the calls that open or close its end
  PastDisturbance  \* bound: whether a behaviour is followed on after a dequeue
                   \* met an emptying, or a queue overflowed

Core == {0, 1}

ASSUME BoundsAssumption ==
  /\ QueueSlots \in Nat \ {0, 1} /\ PastDisturbance \in BOOLEAN
  /\ MaxLives \in [Core -> Nat] /\ MaxChanges \in [Core -> Nat]

Peer(c) == 1 - c

\* ICC_Endpoint_State_t
CLOSED == 0
OPEN == 1

\* ICC_Channel_State_t, as the core at the local end sees the two ends.
ChannelState(remote, local) == 2 * remote + local
ESTABLISHED == ChannelState(OPEN, OPEN)
LocalEnd(state) == state % 2

\* ICC_Node_State_t, and the cleared memory that is none of them.
UNINIT == 16
INIT == 17
BLANK == 0

\* Nothing signalled or reported yet.
Unreported == -1

\* The signal queues: of channel states (sig_fifo_remote) and of node states
\* (ICC_Node_Sig_Fifo_Ram), each by the core that writes it.
Kinds == {"channels", "nodes"}
QueueIds == Kinds \X Core
After(slot) == IF slot = QueueSlots - 1 THEN 0 ELSE slot + 1

VARIABLES
  node,      \* ICC_Initialized: INIT, UNINIT or BLANK by core
  config,    \* ICC_Config_Ptr is set
  endpoint,  \* endpoint_state by core
  sigHead, sigTail, sigSlots,  \* ICC_Signal_Fifo_Ram_t, by queue
  notified,  \* the interrupt to the core is asserted
  call,      \* the call the core is in: [op, pc, saw]
  handler,   \* the queue that the core's ICC_Remote_Event_Handler is at
  dequeue,   \* ICC_Sig_Fifo_Dequeue_Signal by the core: next step, locals
  lives, changes,  \* count the calls, for the bounds
  \* History: what Channel_Update_Cb or Node_Update_Cb was told last from a
  \* queue; whether a queue was emptied under its reader, or overflowed.
  told, disturbed

queues == <<sigHead, sigTail, sigSlots, disturbed>>
counts == <<lives, changes>>
reports == <<handler, dequeue, told>>
vars == <<node, config, endpoint, queues, notified, call, counts, reports>>

Idle == [op |-> "none", pc |-> "idle", saw |-> CLOSED]
NoDequeue == [pc |-> "check", head |-> 0, signal |-> Unreported]

Init ==
  /\ \E memory \in {UNINIT, BLANK} : node = [c \in Core |-> memory]
  /\ config = [c \in Core |-> FALSE]
  /\ endpoint = [c \in Core |-> CLOSED]
  /\ sigHead = [q \in QueueIds |-> 0] /\ sigTail = [q \in QueueIds |-> 0]
  /\ sigSlots = [q \in QueueIds |-> [i \in 0 .. QueueSlots - 1 |-> Unreported]]
  /\ notified = [c \in Core |-> FALSE]
  /\ call = [c \in Core |-> Idle]
  /\ lives = [c \in Core |-> 0] /\ changes = [c \in Core |-> 0]
  /\ handler = [c \in Core |-> "idle"]
  /\ dequeue = [c \in Core |-> NoDequeue]
  /\ told = [q \in QueueIds |-> Unreported] /\ disturbed = FALSE

\* ICC_Sig_Fifo_Empty and ICC_Sig_Fifo_Full.
Empty(q) == sigHead[q] = sigTail[q]
Full(q) == After(sigTail[q]) = sigHead[q]

\* The peer's handler has found a signal in the queue and not yet stored head.
Dequeuing(q) ==
  handler[Peer(q[2])] = q[1] /\ dequeue[Peer(q[2])].pc # "check"

\* ICC_Sig_Fifo_Init is between its two stores.
Emptying(q) ==
  call[q[2]].pc = IF q[1] = "channels" THEN "channel_tail" ELSE "node_tail"

Goto(c, pc) == call' = [call EXCEPT ![c].pc = pc]

Begin(c, op, pc) ==
  /\ call[c].pc = "idle"
  /\ call' = [call EXCEPT ![c] = [Idle EXCEPT !.op = op, !.pc = pc]]

\* ICC_Open_Channel and ICC_Close_Channel up to ICC_Get_Channel_State.
Change(c, op, state) ==
  /\ config[c] /\ endpoint[c] # state
  /\ Begin(c, op, "load_node")
  /\ endpoint' = [endpoint EXCEPT ![c] = state]
  /\ changes[c] < MaxChanges[c] /\ changes' = [changes EXCEPT ![c] = @ + 1]
  /\ UNCHANGED <<node, config, queues, notified, lives, reports>>
-----------------------------------------------------------------------------
(***************************************************************************)
(* How the four calls begin.  ICC_Initialize closes the end point it finds *)
(* in shared memory, ICC_Finalize marks the node first.  A node that may   *)
(* not start again (MaxLives) is not finalized: the properties are about   *)
(* nodes that are up.                                                      *)
(***************************************************************************)
Initialize(c) ==
  /\ ~config[c]
  /\ Begin(c, "initialize", "load_node")
  /\ config' = [config EXCEPT ![c] = TRUE]
  /\ endpoint' = [endpoint EXCEPT ![c] = CLOSED]
  /\ lives[c] < MaxLives[c] /\ lives' = [lives EXCEPT ![c] = @ + 1]
  /\ UNCHANGED <<node, queues, notified, changes, reports>>

Open(c) == Change(c, "open", OPEN)

Close(c) == Change(c, "close", CLOSED)

Finalize(c) ==
  /\ config[c] /\ lives[c] < MaxLives[c]
  /\ Begin(c, "finalize", "close")
  /\ node' = [node EXCEPT ![c] = UNINIT]
  /\ UNCHANGED <<config, endpoint, queues, notified, counts, reports>>

FinalizeClose(c) ==
  /\ call[c].pc = "close"
  /\ Goto(c, IF endpoint[c] = OPEN THEN "load_node" ELSE "signal_node")
  /\ endpoint' = [endpoint EXCEPT ![c] = CLOSED]
  /\ UNCHANGED <<node, config, queues, notified, counts, reports>>
-----------------------------------------------------------------------------
(***************************************************************************)
(* ICC_Get_Channel_State: the end point of a node that is not initialized  *)
(* counts as closed.                                                       *)
(***************************************************************************)
Looked(c) == IF call[c].op = "initialize" THEN "channel_head" ELSE "signal"

LoadNode(c) ==
  /\ call[c].pc = "load_node"
  /\ Goto(c, IF node[Peer(c)] = UNINIT THEN Looked(c) ELSE "load_endpoint")
  /\ UNCHANGED <<node, config, endpoint, queues, notified, counts, reports>>

LoadEndpoint(c) ==
  /\ call[c].pc = "load_endpoint"
  /\ call' = [call EXCEPT ![c].pc = Looked(c), ![c].saw = endpoint[Peer(c)]]
  /\ UNCHANGED <<node, config, endpoint, queues, notified, counts, reports>>
-----------------------------------------------------------------------------
(***************************************************************************)
(* ICC_Sig_Fifo_Init by ICC_Initialize, under a reader that has loaded     *)
(* head before, perhaps, and ICC_Sig_Fifo_Signal.                          *)
(***************************************************************************)
EmptyHead(c, kind, pc, next) ==
  /\ call[c].pc = pc
  /\ sigHead' = [sigHead EXCEPT ![<<kind, c>>] = 0]
  /\ disturbed' = (disturbed \/ Dequeuing(<<kind, c>>))
  /\ Goto(c, next)
  /\ UNCHANGED <<node, config, endpoint, sigTail, sigSlots, notified, counts,
                 reports>>

EmptyTail(c, kind, pc, next) ==
  /\ call[c].pc = pc
  /\ sigTail' = [sigTail EXCEPT ![<<kind, c>>] = 0]
  /\ disturbed' = (disturbed \/ Dequeuing(<<kind, c>>))
  /\ Goto(c, next)
  /\ UNCHANGED <<node, config, endpoint, sigHead, sigSlots, notified, counts,
                 reports>>

EmptyChannelHead(c) == EmptyHead(c, "channels", "channel_head", "channel_tail")
EmptyChannelTail(c) == EmptyTail(c, "channels", "channel_tail", "signal")
EmptyNodeHead(c) == EmptyHead(c, "nodes", "node_head", "node_tail")
EmptyNodeTail(c) == EmptyTail(c, "nodes", "node_tail", "signal_node")

\* The queue's signal goes to tail or, when the queue is full, to head.
Signal(q, signal) ==
  LET slot == IF Full(q) THEN sigHead[q] ELSE sigTail[q] IN
  /\ sigSlots' = [sigSlots EXCEPT ![q][slot] = signal]
  /\ sigTail' = [sigTail EXCEPT ![q] = After(slot)]
  /\ disturbed' = (disturbed \/ Full(q))

SignalChannel(c) ==
  /\ call[c].pc = "signal"
  /\ Signal(<<"channels", c>>, ChannelState(call[c].saw, endpoint[c]))
  /\ Goto(c, CASE call[c].op \in {"open", "close"} -> "notify"
              [] call[c].op = "initialize" -> "node_head"
              [] OTHER -> "signal_node")
  /\ UNCHANGED <<node, config, endpoint, sigHead, notified, counts, reports>>

SignalNode(c) ==
  /\ call[c].pc = "signal_node"
  /\ IF call[c].op = "initialize"
     THEN Signal(<<"nodes", c>>, INIT) /\ Goto(c, "mark")
     ELSE Signal(<<"nodes", c>>, UNINIT) /\ Goto(c, "notify")
  /\ UNCHANGED <<node, config, endpoint, sigHead, notified, counts, reports>>
-----------------------------------------------------------------------------
(***************************************************************************)
(* The rest of ICC_Initialize, and how the calls end.                      *)
(***************************************************************************)
MarkInitialized(c) ==
  /\ call[c].pc = "mark"
  /\ node' = [node EXCEPT ![c] = INIT]
  /\ Goto(c, "interrupts")
  /\ UNCHANGED <<config, endpoint, queues, notified, counts, reports>>

\* ICC_OS_Init_Interrupts: an interrupt from a peer that is not initialized
\* is cleared.
InitInterrupts(c) ==
  /\ call[c].pc = "interrupts"
  /\ Goto(c, IF node[Peer(c)] = UNINIT THEN "clear" ELSE "notify")
  /\ UNCHANGED <<node, config, endpoint, queues, notified, counts, reports>>

\* A mutant of ClearInterrupt: a node that clears it does not notify.
ClearInterrupt_Returns(c) ==
  /\ call[c].pc = "clear"
  /\ notified' = [notified EXCEPT ![c] = FALSE]
  /\ call' = [call EXCEPT ![c] = Idle]
  /\ UNCHANGED <<node, config, endpoint, queues, counts, reports>>

ClearInterrupt(c) ==
  /\ call[c].pc = "clear"
  /\ notified' = [notified EXCEPT ![c] = FALSE]
  /\ Goto(c, "notify")
  /\ UNCHANGED <<node, config, endpoint, queues, counts, reports>>

\* ICC_Notify_Peer, the last step of every call but ICC_Finalize.
NotifyPeer(c) ==
  /\ call[c].pc = "notify"
  /\ notified' = [notified EXCEPT ![Peer(c)] = TRUE]
  /\ IF call[c].op = "finalize" THEN Goto(c, "end")
                                ELSE call' = [call EXCEPT ![c] = Idle]
  /\ UNCHANGED <<node, config, endpoint, queues, counts, reports>>

FinalizeEnd(c) ==
  /\ call[c].pc = "end"
  /\ config' = [config EXCEPT ![c] = FALSE]
  /\ call' = [call EXCEPT ![c] = Idle]
  /\ UNCHANGED <<node, endpoint, queues, notified, counts, reports>>
-----------------------------------------------------------------------------
(***************************************************************************)
(* ICC_Remote_Event_Handler.  Before the node is initialized the interrupt *)
(* is cleared, and what was signalled stays in the queues.                 *)
(***************************************************************************)
HandlerStart(c) ==
  /\ notified[c] /\ handler[c] = "idle"
  /\ notified' = [notified EXCEPT ![c] = FALSE]
  /\ handler' = [handler EXCEPT ![c] =
       IF config[c] /\ node[c] # UNINIT THEN "channels" ELSE @]
  /\ UNCHANGED <<node, config, endpoint, queues, call, counts, dequeue, told>>

\* The queue that the handler of a core reads.
Reads(c) == <<handler[c], Peer(c)>>
AtStep(c, pc) == handler[c] # "idle" /\ dequeue[c].pc = pc

DequeueCheck(c) ==
  /\ AtStep(c, "check") /\ ~Empty(Reads(c))
  /\ dequeue' = [dequeue EXCEPT ![c].pc = "load"]
  /\ disturbed' = (disturbed \/ Emptying(Reads(c)))
  /\ UNCHANGED <<node, config, endpoint, sigHead, sigTail, sigSlots, notified,
                 call, counts, handler, told>>

DequeueLoad(c) ==
  LET head == sigHead[Reads(c)] IN
  /\ AtStep(c, "load")
  /\ dequeue' = [dequeue EXCEPT ![c] =
       [pc |-> "store", head |-> head, signal |-> sigSlots[Reads(c)][head]]]
  /\ UNCHANGED <<node, config, endpoint, queues, notified, call, counts,
                 handler, told>>

\* A mutant of DequeueStore: the handler skips to the newest signal.
DequeueStore_ToTail(c) ==
  /\ AtStep(c, "store")
  /\ sigHead' = [sigHead EXCEPT ![Reads(c)] = sigTail[Reads(c)]]
  /\ told' = [told EXCEPT ![Reads(c)] = dequeue[c].signal]
  /\ dequeue' = [dequeue EXCEPT ![c] = NoDequeue]
  /\ UNCHANGED <<node, config, endpoint, sigTail, sigSlots, disturbed,
                 notified, call, counts, handler>>

\* The slot is free again, and the call-back is called with the signal.
DequeueStore(c) ==
  /\ AtStep(c, "store")
  /\ sigHead' = [sigHead EXCEPT ![Reads(c)] = After(dequeue[c].head)]
  /\ told' = [told EXCEPT ![Reads(c)] = dequeue[c].signal]
  /\ dequeue' = [dequeue EXCEPT ![c] = NoDequeue]
  /\ UNCHANGED <<node, config, endpoint, sigTail, sigSlots, disturbed,
                 notified, call, counts, handler>>

ChannelsEmpty(c) ==
  /\ handler[c] = "channels" /\ AtStep(c, "check") /\ Empty(Reads(c))
  /\ handler' = [handler EXCEPT ![c] = "nodes"]
  /\ UNCHANGED <<node, config, endpoint, queues, notified, call, counts,
                 dequeue, told>>

\* A mutant of HandlerEnd: the interrupt is cleared when all is done.
HandlerEnd_Clears(c) ==
  /\ handler[c] = "nodes" /\ AtStep(c, "check") /\ Empty(Reads(c))
  /\ handler' = [handler EXCEPT ![c] = "idle"]
  /\ notified' = [notified EXCEPT ![c] = FALSE]
  /\ UNCHANGED <<node, config, endpoint, queues, call, counts, dequeue, told>>

HandlerEnd(c) ==
  /\ handler[c] = "nodes" /\ AtStep(c, "check") /\ Empty(Reads(c))
  /\ handler' = [handler EXCEPT ![c] = "idle"]
  /\ UNCHANGED <<node, config, endpoint, queues, notified, call, counts,
                 dequeue, told>>
-----------------------------------------------------------------------------
Task(c) ==
  \/ Initialize(c) \/ Open(c) \/ Close(c) \/ Finalize(c) \/ FinalizeClose(c)
  \/ LoadNode(c) \/ LoadEndpoint(c) \/ EmptyChannelHead(c)
  \/ EmptyChannelTail(c) \/ SignalChannel(c) \/ EmptyNodeHead(c)
  \/ EmptyNodeTail(c) \/ SignalNode(c) \/ MarkInitialized(c)
  \/ InitInterrupts(c) \/ ClearInterrupt(c) \/ NotifyPeer(c) \/ FinalizeEnd(c)

Handler(c) ==
  \/ HandlerStart(c) \/ DequeueCheck(c) \/ DequeueLoad(c) \/ DequeueStore(c)
  \/ ChannelsEmpty(c) \/ HandlerEnd(c)

Next ==
  /\ disturbed => PastDisturbance
  /\ \E c \in Core : Task(c) \/ Handler(c)

Spec == Init /\ [][Next]_vars
-----------------------------------------------------------------------------
(***************************************************************************)
(* Properties.                                                             *)
(***************************************************************************)

SigValues == 0 .. 3 \union {UNINIT, INIT, Unreported}

\* The variables hold what the code can store in them.
TypeOK ==
  /\ node \in [Core -> {INIT, UNINIT, BLANK}] /\ config \in [Core -> BOOLEAN]
  /\ endpoint \in [Core -> {CLOSED, OPEN}]
  /\ sigHead \in [QueueIds -> 0 .. QueueSlots - 1]
  /\ sigTail \in [QueueIds -> 0 .. QueueSlots - 1]
  /\ sigSlots \in [QueueIds -> [0 .. QueueSlots - 1 -> SigValues]]
  /\ notified \in [Core -> BOOLEAN] /\ disturbed \in BOOLEAN
  /\ lives \in [Core -> Nat] /\ changes \in [Core -> Nat]
  /\ call \in [Core -> [op: {"none", "initialize", "open", "close",
                             "finalize"},
                        pc: {"idle", "close", "load_node", "load_endpoint",
                             "channel_head", "channel_tail", "signal",
                             "node_head", "node_tail", "signal_node", "mark",
                             "interrupts", "clear", "notify", "end"},
                        saw: {CLOSED, OPEN}]]
  /\ handler \in [Core -> {"idle", "channels", "nodes"}]
  /\ dequeue \in [Core -> [pc: {"check", "load", "store"},
                           head: 0 .. QueueSlots - 1, signal: SigValues]]
  /\ told \in [QueueIds -> SigValues]

BothInitialized == \A c \in Core : node[c] = INIT

\* No call, no handler and no interrupt is under way.
Quiet == \A c \in Core :
  call[c].pc = "idle" /\ handler[c] = "idle" /\ ~notified[c]

\* Two nodes that initialize at the same time do not both miss the other one:
\* when everything has settled, one at least has been told of its peer, unless
\* a node queue was emptied while the peer's handler was taking a signal of it.
NodesMeet ==
  BothInitialized /\ Quiet =>
    disturbed \/ \E c \in Core : told[<<"nodes", c>>] = INIT

\* Two cores that open their ends at the same time each signal the state they
\* saw: when everything has settled, one at least has been told that the
\* channel is established, unless a queue was emptied under its reader.
EndsMeet ==
  BothInitialized /\ Quiet /\ (\A c \in Core : endpoint[c] = OPEN) =>
    disturbed \/ \E c \in Core : told[<<"channels", c>>] = ESTABLISHED

\* The reports of a core follow its peer's end through every opening, closing
\* and restart, the signals that a restart drops included: once all has settled
\* and no signal is left in the queue, the last report says of the peer's end
\* what is true.  Only a restart that empties the queue between two steps of
\* the reader's dequeue, or an overflow, can leave it untrue for good.
ReportsCatchUp ==
  BothInitialized /\ Quiet =>
    disturbed \/ \A c \in Core :
      Empty(<<"channels", c>>) /\ told[<<"channels", c>>] # Unreported =>
        LocalEnd(told[<<"channels", c>>]) = endpoint[c]
==============================================================================
