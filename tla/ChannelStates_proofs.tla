------------------------ MODULE ChannelStates_proofs ------------------------
(***************************************************************************)
(* What ChannelStates promises, however often the nodes are initialized    *)
(* and the ends of the channel opened and closed.                          *)
(*                                                                         *)
(* The properties speak of the moments when everything has settled.  What  *)
(* makes them true is said of every moment by StatesInv: a core signals    *)
(* each change of its end after it has made it (SignalsTrue); of two ends  *)
(* that are open, or two nodes that are initialized, one core has seen the *)
(* other or is about to look (EndsOK, NodesOK); and what it signals is     *)
(* reported, because each call ends with a notification (OnItsWay) and a   *)
(* dequeue finds at head what it takes (DequeuesOK).                       *)
(***************************************************************************)
EXTENDS ChannelStates, SigQueue, SequenceTheorems, TLAPS
-----------------------------------------------------------------------------
(***************************************************************************)
(* The inductive invariant.                                                *)
(***************************************************************************)
\* Where ICC_Initialize is before it marks its node, and after.
Unmarked == {"load_node", "load_endpoint", "channel_head", "channel_tail", "signal",
             "node_head", "node_tail", "signal_node", "mark"}
Marked == {"interrupts", "clear", "notify"}

\* What the call a core is in says of its node and its end point.
CallOK(c) ==
  \/ /\ call[c].op = "none" /\ call[c].pc = "idle"
     /\ config[c] <=> node[c] = INIT
     /\ ~config[c] => endpoint[c] = CLOSED
  \/ /\ call[c].op = "initialize" /\ config[c] /\ endpoint[c] = CLOSED
     /\ \/ call[c].pc \in Unmarked /\ node[c] # INIT
        \/ call[c].pc \in Marked /\ node[c] = INIT
  \/ /\ call[c].op \in {"open", "close"} /\ config[c] /\ node[c] = INIT
     /\ call[c].pc \in {"load_node", "load_endpoint", "signal", "notify"}
     /\ endpoint[c] = IF call[c].op = "open" THEN OPEN ELSE CLOSED
  \/ /\ call[c].op = "finalize" /\ config[c] /\ node[c] = UNINIT
     /\ \/ call[c].pc = "close"
        \/ /\ endpoint[c] = CLOSED
           /\ call[c].pc \in {"load_node", "load_endpoint", "signal",
                              "signal_node", "notify", "end"}
CallsOK == \A c \in Core : CallOK(c)

\* What a core signalled last: it is still in the queue, or it was reported.
Before(slot) == IF slot = 0 THEN QueueSlots - 1 ELSE slot - 1
Newest(q) == IF Empty(q) THEN told[q] ELSE sigSlots[q][Before(sigTail[q])]
LastChannel(c) == Newest(<<"channels", c>>)
LastNode(c) == Newest(<<"nodes", c>>)
NoChannelLeft(c) == Empty(<<"channels", c>>)
NoNodeLeft(c) == Empty(<<"nodes", c>>)

\* A dequeue under way has found a signal; what it has loaded is at head.
DequeueOK(c) ==
  dequeue[c].pc # "check" =>
    /\ handler[c] \in Kinds /\ ~Empty(Reads(c)) /\ ~Emptying(Reads(c))
    /\ dequeue[c].pc = "store" =>
         /\ dequeue[c].head = sigHead[Reads(c)]
         /\ dequeue[c].signal = sigSlots[Reads(c)][sigHead[Reads(c)]]
DequeuesOK == \A c \in Core : DequeueOK(c)

\* A core that has changed its end point signals it before anything else.
Looking(c) == call[c].pc \in {"load_node", "load_endpoint"}
Changing(c) == Looking(c) \/ call[c].pc \in {"channel_head", "channel_tail", "signal"}
SignalsTrue ==
  \A c \in Core :
    ~Changing(c) /\ LastChannel(c) # Unreported => LocalEnd(LastChannel(c)) = endpoint[c]

\* What core c signalled will be reported: the call it is in ends with a
\* notification, its peer is notified, or the handler has yet to get there.
OnItsWay(c, taken, stages) ==
  taken \/ call[c].pc # "idle" \/ notified[Peer(c)] \/ handler[Peer(c)] \in stages

\* Of two open ends one was opened after the other: its core sees both.
SeesBoth(c) ==
  \/ Looking(c)
  \/ call[c].pc = "signal" /\ call[c].saw = OPEN
  \/ /\ ~Changing(c) /\ LastChannel(c) = ESTABLISHED
     /\ OnItsWay(c, NoChannelLeft(c), {"channels"})
EndsOK ==
  (\A c \in Core : node[c] = INIT /\ endpoint[c] = OPEN) => \E c \in Core : SeesBoth(c)

\* Of two initialized nodes one was marked after the other: its state is on
\* the way, or its peer, that cleared the interrupt, has yet to notify it.
NodesOK ==
  /\ \A c \in Core : node[c] = INIT \/ call[c].pc = "mark" => LastNode(c) = INIT
  /\ BothInitialized =>
       \E c \in Core : OnItsWay(c, NoNodeLeft(c), {"channels", "nodes"})

\* Nothing is claimed of the reports once a queue was emptied under its reader,
\* or overflowed.
ReportsOK == DequeuesOK /\ SignalsTrue /\ EndsOK /\ NodesOK
StatesInv == TypeOK /\ CallsOK /\ (disturbed \/ ReportsOK)

-----------------------------------------------------------------------------
(***************************************************************************)
(* The queues.                                                             *)
(***************************************************************************)
\* A queue is known by its kind and its writer.
LEMMA QueueFacts ==
  /\ \A kind \in Kinds, c \in Core :
       /\ <<kind, c>> \in QueueIds /\ <<kind, c>>[1] = kind /\ <<kind, c>>[2] = c
  /\ \A kind, other \in Kinds, c, d \in Core :
       <<kind, c>> = <<other, d>> <=> kind = other /\ c = d
  /\ \A q \in QueueIds : q[1] \in Kinds /\ q[2] \in Core /\ q = <<q[1], q[2]>>
  /\ \A c \in Core : Peer(c) \in Core /\ Peer(Peer(c)) = c /\ Peer(c) # c
  /\ "channels" \in Kinds /\ "nodes" \in Kinds /\ "idle" \notin Kinds
  BY DEF Kinds, QueueIds, Core, Peer

\* The slots are a ring.
LEMMA SlotFacts ==
  \A i \in 0 .. QueueSlots - 1 :
    /\ After(i) \in 0 .. QueueSlots - 1 /\ Before(i) \in 0 .. QueueSlots - 1
    /\ Before(After(i)) = i /\ After(i) # i
    /\ \A j \in 0 .. QueueSlots - 1 : After(j) = i <=> j = Before(i)
  BY BoundsAssumption DEF After, Before

\* What is not touched is the newest as before.
LEMMA QueuesKept ==
  ASSUME UNCHANGED <<sigHead, sigTail, sigSlots, told>>
  PROVE  \A d \in Core : /\ LastChannel(d)' = LastChannel(d) /\ LastNode(d)' = LastNode(d)
                         /\ NoChannelLeft(d)' = NoChannelLeft(d) /\ NoNodeLeft(d)' = NoNodeLeft(d)
  BY DEF LastChannel, LastNode, NoChannelLeft, NoNodeLeft, Newest, Empty

\* A signal is the newest of its queue, unless the queue was full.
LEMMA SignalNewest ==
  ASSUME TypeOK, NEW q \in QueueIds, NEW signal \in SigValues, Signal(q, signal), ~disturbed',
         UNCHANGED <<sigHead, told>>
  PROVE  /\ Newest(q)' = signal
         /\ \A r \in QueueIds : r # q => Newest(r)' = Newest(r) /\ Empty(r)' = Empty(r)
         /\ \A r \in QueueIds : ~Empty(r) => /\ ~Empty(r)'
                                             /\ sigSlots'[r][sigHead[r]] = sigSlots[r][sigHead[r]]
<1>1. /\ sigTail[q] \in 0 .. QueueSlots - 1 /\ sigHead[q] \in 0 .. QueueSlots - 1
      /\ ~Full(q)
      /\ sigSlots' = [sigSlots EXCEPT ![q][sigTail[q]] = signal]
      /\ sigTail' = [sigTail EXCEPT ![q] = After(sigTail[q])]
  BY DEF TypeOK, Signal
<1>2. /\ sigTail'[q] = After(sigTail[q]) /\ sigTail'[q] # sigHead[q]
      /\ sigSlots'[q][sigTail[q]] = signal
      /\ \A i \in 0 .. QueueSlots - 1 : i # sigTail[q] => sigSlots'[q][i] = sigSlots[q][i]
      /\ \A r \in QueueIds : r # q => sigTail'[r] = sigTail[r] /\ sigSlots'[r] = sigSlots[r]
  BY <1>1 DEF TypeOK, Full
<1>3. Before(sigTail'[q]) = sigTail[q]
  BY <1>1, <1>2, SlotFacts
<1>4. Newest(q)' = signal
  BY <1>2, <1>3 DEF Newest, Empty, Before
<1>5. \A r \in QueueIds : r # q => Newest(r)' = Newest(r) /\ Empty(r)' = Empty(r)
  BY <1>2 DEF Newest, Empty, Before
<1>6. \A r \in QueueIds : ~Empty(r) => /\ ~Empty(r)'
                                       /\ sigSlots'[r][sigHead[r]] = sigSlots[r][sigHead[r]]
  BY <1>1, <1>2 DEF Empty
<1> QED
  BY <1>4, <1>5, <1>6

\* Reporting a signal leaves the newest what it was.
LEMMA DequeueNewest ==
  ASSUME TypeOK, DequeuesOK, NEW c \in Core, DequeueStore(c)
  PROVE  /\ \A r \in QueueIds : Newest(r)' = Newest(r)
         /\ \A r \in QueueIds : r # Reads(c) => Empty(r)' = Empty(r)
<1>1. /\ handler[c] \in Kinds /\ ~Empty(Reads(c)) /\ dequeue[c].head = sigHead[Reads(c)]
      /\ dequeue[c].signal = sigSlots[Reads(c)][sigHead[Reads(c)]]
  BY DEF DequeuesOK, DequeueOK, DequeueStore, AtStep
<1>2. PICK q \in QueueIds : q = Reads(c)
  BY <1>1, QueueFacts DEF Reads
<1>3. /\ sigHead' = [sigHead EXCEPT ![q] = After(sigHead[q])]
      /\ told' = [told EXCEPT ![q] = sigSlots[q][sigHead[q]]]
      /\ UNCHANGED <<sigTail, sigSlots>>
  BY <1>1, <1>2 DEF DequeueStore
<1>4. /\ sigHead'[q] = After(sigHead[q]) /\ told'[q] = sigSlots[q][sigHead[q]]
      /\ \A r \in QueueIds : r # q => sigHead'[r] = sigHead[r] /\ told'[r] = told[r]
  BY <1>3 DEF TypeOK
<1>5. Newest(q)' = Newest(q)
  <2>1. sigHead[q] \in 0 .. QueueSlots - 1 /\ sigTail[q] \in 0 .. QueueSlots - 1
    BY DEF TypeOK
  <2>2. After(sigHead[q]) = sigTail[q] <=> sigHead[q] = Before(sigTail[q])
    BY <2>1, SlotFacts
  <2>3. Newest(q) = sigSlots[q][Before(sigTail[q])]
    BY <1>1, <1>2 DEF Newest
  <2>4. CASE After(sigHead[q]) = sigTail[q]
    <3>1. Newest(q)' = told'[q]
      BY <1>3, <1>4, <2>4 DEF Newest, Empty
    <3> QED
      BY <1>4, <2>2, <2>3, <2>4, <3>1
  <2>5. CASE After(sigHead[q]) # sigTail[q]
    BY <1>3, <1>4, <2>3, <2>5 DEF Newest, Empty, Before
  <2> QED
    BY <2>4, <2>5
<1>6. \A r \in QueueIds : r # q => Newest(r)' = Newest(r) /\ Empty(r)' = Empty(r)
  BY <1>3, <1>4 DEF Newest, Empty, Before
<1> QED
  BY <1>2, <1>5, <1>6

\* Emptying a queue leaves the others alone.
LEMMA EmptyingNewest ==
  ASSUME TypeOK, NEW c \in Core, NEW kind \in Kinds, NEW pc, NEW next,
         EmptyHead(c, kind, pc, next) \/ EmptyTail(c, kind, pc, next)
  PROVE  \A r \in QueueIds : r # <<kind, c>> =>
           /\ Newest(r)' = Newest(r) /\ Empty(r)' = Empty(r)
           /\ sigHead'[r] = sigHead[r]
<1>1. \A r \in QueueIds : r # <<kind, c>> =>
        /\ sigHead'[r] = sigHead[r] /\ sigTail'[r] = sigTail[r]
        /\ sigSlots'[r] = sigSlots[r] /\ told'[r] = told[r]
  <2> DEFINE q == <<kind, c>>
  <2>1. q \in QueueIds
    BY QueueFacts
  <2>2. /\ sigHead' = [sigHead EXCEPT ![q] = 0] \/ sigHead' = sigHead
        /\ sigTail' = [sigTail EXCEPT ![q] = 0] \/ sigTail' = sigTail
        /\ sigSlots' = sigSlots /\ told' = told
    BY DEF EmptyHead, EmptyTail, reports
  <2> HIDE DEF q
  <2>3. \A r \in QueueIds : r # q =>
          /\ sigHead'[r] = sigHead[r] /\ sigTail'[r] = sigTail[r]
          /\ sigSlots'[r] = sigSlots[r] /\ told'[r] = told[r]
    BY <2>1, <2>2 DEF TypeOK
  <2> QED
    BY <2>3 DEF q
<1> QED
  BY <1>1 DEF Newest, Empty, Before
-----------------------------------------------------------------------------
(***************************************************************************)
(* Types.                                                                  *)
(***************************************************************************)
\* The calls a core can be in.
Places == {"idle", "close", "load_node", "load_endpoint", "channel_head", "channel_tail",
           "signal", "node_head", "node_tail", "signal_node", "mark", "interrupts",
           "clear", "notify", "end"}
Calls == [op : {"none", "initialize", "open", "close", "finalize"}, pc : Places,
          saw : {CLOSED, OPEN}]
Dequeues == [pc : {"check", "load", "store"}, head : 0 .. QueueSlots - 1, signal : SigValues]

\* Outside a call.
LEMMA IdleCall == Idle \in Calls
  BY DEF Idle, Calls, Places

\* The beginning of a call leads to one of them.
LEMMA BeginCalls ==
  ASSUME call \in [Core -> Calls], NEW c \in Core,
         NEW op \in {"initialize", "open", "close", "finalize"},
         NEW pc \in {"load_node", "close"}, Begin(c, op, pc)
  PROVE  call' \in [Core -> Calls]
<1>1. [Idle EXCEPT !.op = op, !.pc = pc] \in Calls
  BY DEF Idle, Calls, Places
<1> QED
  BY <1>1 DEF Begin

\* It is at its first step, and the peer where it was.
LEMMA BeginPlaces ==
  ASSUME call \in [Core -> Calls], NEW c \in Core,
         NEW op \in {"initialize", "open", "close", "finalize"},
         NEW pc \in {"load_node", "close"}, Begin(c, op, pc)
  PROVE  /\ call'[c].pc = pc
         /\ \A d \in Core : d # c => call'[d] = call[d]
<1>1. [Idle EXCEPT !.op = op, !.pc = pc].pc = pc
  BY DEF Idle
<1> QED
  BY <1>1 DEF Begin

\* So does another step of it.
LEMMA GotoCalls ==
  ASSUME call \in [Core -> Calls], NEW c \in Core, NEW pc \in Places, Goto(c, pc)
  PROVE  /\ call' \in [Core -> Calls]
         /\ call'[c].pc = pc /\ call'[c].op = call[c].op /\ call'[c].saw = call[c].saw
         /\ \A d \in Core : d # c => call'[d] = call[d]
<1>1. [call[c] EXCEPT !.pc = pc] \in Calls
  BY DEF Calls
<1>2. call' = [call EXCEPT ![c] = [call[c] EXCEPT !.pc = pc]]
  BY DEF Goto
<1> QED
  BY <1>1, <1>2 DEF Calls

\* The stores that empty a queue change it and the step the call is at.
LEMMA EmptyPlaces ==
  ASSUME call \in [Core -> Calls], NEW c \in Core,
         NEW kind, NEW pc, NEW next \in Places,
         EmptyHead(c, kind, pc, next) \/ EmptyTail(c, kind, pc, next)
  PROVE  /\ UNCHANGED <<node, config, endpoint, notified, handler>>
         /\ call[c].pc = pc /\ call'[c].pc = next
<1>1. Goto(c, next) /\ call[c].pc = pc
  BY DEF EmptyHead, EmptyTail
<1>2. UNCHANGED <<node, config, endpoint, notified, handler>>
  BY DEF EmptyHead, EmptyTail, reports
<1> QED
  BY <1>1, <1>2, GotoCalls

\* ICC_Get_Channel_State keeps the peer's end for the signal that follows.
LEMMA LoadEndpointCall ==
  ASSUME call \in [Core -> Calls], NEW c \in Core, LoadEndpoint(c),
         endpoint[Peer(c)] \in {CLOSED, OPEN}
  PROVE  /\ call' \in [Core -> Calls]
         /\ call[c].pc = "load_endpoint" /\ call'[c].pc = Looked(c)
         /\ call'[c].op = call[c].op /\ call'[c].saw = endpoint[Peer(c)]
         /\ call'[Peer(c)] = call[Peer(c)]
<1>1. call' = [call EXCEPT ![c] = [call[c] EXCEPT !.pc = Looked(c), !.saw = endpoint[Peer(c)]]]
  BY DEF LoadEndpoint
<1>2. Peer(c) \in Core /\ Peer(c) # c /\ call[c] \in Calls /\ Looked(c) \in Places
  BY DEF Peer, Core, Looked, Places
<1>3. [call[c] EXCEPT !.pc = Looked(c), !.saw = endpoint[Peer(c)]] \in Calls
  BY <1>2 DEF Calls
<1> QED
  BY <1>1, <1>2, <1>3 DEF LoadEndpoint, Calls

\* The states of channels and of nodes are signals.
LEMMA SignalKinds ==
  ASSUME TypeOK, NEW c \in Core
  PROVE  /\ ChannelState(call[c].saw, endpoint[c]) \in SigValues
         /\ LocalEnd(ChannelState(call[c].saw, endpoint[c])) = endpoint[c]
         /\ ChannelState(call[c].saw, endpoint[c]) # Unreported
         /\ INIT \in SigValues /\ UNINIT \in SigValues
<1>1. call[c].saw \in {0, 1} /\ endpoint[c] \in {0, 1}
  BY DEF TypeOK, OPEN, CLOSED
<1> QED
  BY <1>1 DEF ChannelState, LocalEnd, SigValues, Unreported

\* A signal goes into a slot of its queue.
LEMMA SignalKeepsTypes ==
  ASSUME TypeOK, NEW q \in QueueIds, NEW signal \in SigValues, Signal(q, signal)
  PROVE  /\ sigTail' \in [QueueIds -> 0 .. QueueSlots - 1]
         /\ sigSlots' \in [QueueIds -> [0 .. QueueSlots - 1 -> SigValues]]
         /\ disturbed' \in BOOLEAN
<1>1. PICK slot \in 0 .. QueueSlots - 1 :
        /\ sigSlots' = [sigSlots EXCEPT ![q][slot] = signal]
        /\ sigTail' = [sigTail EXCEPT ![q] = After(slot)]
  BY DEF TypeOK, Signal
<1>2. sigTail' \in [QueueIds -> 0 .. QueueSlots - 1]
  BY <1>1, SlotFacts DEF TypeOK
<1>3. sigSlots' \in [QueueIds -> [0 .. QueueSlots - 1 -> SigValues]]
  BY <1>1 DEF TypeOK
<1>4. disturbed' \in BOOLEAN
  BY DEF TypeOK, Signal, Full
<1> QED
  BY <1>2, <1>3, <1>4

\* Where a call goes on, and with what it has looked at.
LEMMA LookedPlace == \A c \in Core : Looked(c) \in {"channel_head", "signal"}
  BY DEF Looked

\* Every step keeps every variable in its kind.
LEMMA TypeOKStep == TypeOK /\ [Next]_vars => TypeOK'
<1> SUFFICES ASSUME TypeOK, [Next]_vars PROVE TypeOK'
  OBVIOUS
<1> DEFINE Queues == /\ sigHead \in [QueueIds -> 0 .. QueueSlots - 1]
                     /\ sigTail \in [QueueIds -> 0 .. QueueSlots - 1]
                     /\ sigSlots \in [QueueIds -> [0 .. QueueSlots - 1 -> SigValues]]
                     /\ told \in [QueueIds -> SigValues] /\ disturbed \in BOOLEAN
           Nodes == /\ node \in [Core -> {INIT, UNINIT, BLANK}] /\ config \in [Core -> BOOLEAN]
                    /\ endpoint \in [Core -> {CLOSED, OPEN}]
                    /\ notified \in [Core -> BOOLEAN]
                    /\ lives \in [Core -> Nat] /\ changes \in [Core -> Nat]
           Handlers == /\ handler \in [Core -> {"idle", "channels", "nodes"}]
                       /\ dequeue \in [Core -> Dequeues]
<1>0. Queues /\ Nodes /\ Handlers /\ call \in [Core -> Calls]
  BY DEF TypeOK, Calls, Places, Dequeues
<1>a. Queues' /\ Nodes' /\ Handlers' /\ call' \in [Core -> Calls] => TypeOK'
  BY DEF TypeOK, Calls, Places, Dequeues
<1>b. UNCHANGED <<queues, told>> => Queues'
  BY <1>0 DEF queues
<1>c. UNCHANGED <<handler, dequeue>> => Handlers'
  BY <1>0
<1> USE DEF queues, counts, reports
<1>1. ASSUME NEW c \in Core, Initialize(c) PROVE TypeOK'
  <2>1. call' \in [Core -> Calls]
    BY <1>0, <1>1, BeginCalls DEF Initialize
  <2>2. Nodes' /\ UNCHANGED <<queues, reports>>
    BY <1>0, <1>1 DEF Initialize, Core, OPEN, CLOSED
  <2> QED
    BY <1>a, <1>b, <1>c, <2>1, <2>2
<1>2. ASSUME NEW c \in Core, Open(c) PROVE TypeOK'
  <2>1. call' \in [Core -> Calls]
    BY <1>0, <1>2, BeginCalls DEF Open, Change
  <2>2. Nodes' /\ UNCHANGED <<queues, reports>>
    BY <1>0, <1>2 DEF Open, Change, Core, OPEN, CLOSED
  <2> QED
    BY <1>a, <1>b, <1>c, <2>1, <2>2
<1>3. ASSUME NEW c \in Core, Close(c) PROVE TypeOK'
  <2>1. call' \in [Core -> Calls]
    BY <1>0, <1>3, BeginCalls DEF Close, Change
  <2>2. Nodes' /\ UNCHANGED <<queues, reports>>
    BY <1>0, <1>3 DEF Close, Change, Core, OPEN, CLOSED
  <2> QED
    BY <1>a, <1>b, <1>c, <2>1, <2>2
<1>4. ASSUME NEW c \in Core, Finalize(c) PROVE TypeOK'
  <2>1. call' \in [Core -> Calls]
    BY <1>0, <1>4, BeginCalls DEF Finalize
  <2>2. Nodes' /\ UNCHANGED <<queues, reports>>
    BY <1>0, <1>4 DEF Finalize, Core, OPEN, CLOSED
  <2> QED
    BY <1>a, <1>b, <1>c, <2>1, <2>2
<1>5. ASSUME NEW c \in Core, FinalizeClose(c) PROVE TypeOK'
  <2>1. PICK pc \in Places : Goto(c, pc)
    BY <1>5, LookedPlace DEF FinalizeClose, Places
  <2>2. call' \in [Core -> Calls]
    BY <1>0, <2>1, GotoCalls
  <2>3. Nodes' /\ UNCHANGED <<queues, reports>>
    BY <1>0, <1>5 DEF FinalizeClose, CLOSED
  <2> QED
    BY <1>a, <1>b, <1>c, <2>2, <2>3
<1>6. ASSUME NEW c \in Core, LoadNode(c) PROVE TypeOK'
  <2>1. PICK pc \in Places : Goto(c, pc)
    BY <1>6, LookedPlace DEF LoadNode, Places
  <2>2. call' \in [Core -> Calls]
    BY <1>0, <2>1, GotoCalls
  <2>3. Nodes' /\ UNCHANGED <<queues, reports>>
    BY <1>0, <1>6 DEF LoadNode, CLOSED
  <2> QED
    BY <1>a, <1>b, <1>c, <2>2, <2>3
<1>7. ASSUME NEW c \in Core, LoadEndpoint(c) PROVE TypeOK'
  <2>1. endpoint[Peer(c)] \in {CLOSED, OPEN}
    BY <1>0, QueueFacts
  <2>2. call' \in [Core -> Calls]
    BY <1>0, <1>7, <2>1, LoadEndpointCall
  <2>3. Nodes' /\ UNCHANGED <<queues, reports>>
    BY <1>0, <1>7 DEF LoadEndpoint
  <2> QED
    BY <1>a, <1>b, <1>c, <2>2, <2>3
<1>8. ASSUME NEW c \in Core, NEW kind \in Kinds, NEW pc, NEW next \in Places,
             EmptyHead(c, kind, pc, next) \/ EmptyTail(c, kind, pc, next)
      PROVE  TypeOK'
  <2>1. call' \in [Core -> Calls]
    BY <1>0, <1>8, GotoCalls DEF EmptyHead, EmptyTail
  <2>2. Nodes' /\ Handlers' /\ UNCHANGED <<sigSlots, told>> /\ disturbed' \in BOOLEAN
    BY <1>0, <1>8 DEF EmptyHead, EmptyTail, Dequeuing
  <2>3. 0 \in 0 .. QueueSlots - 1 /\ <<kind, c>> \in QueueIds
    BY BoundsAssumption, QueueFacts
  <2>4. /\ sigHead' \in [QueueIds -> 0 .. QueueSlots - 1]
        /\ sigTail' \in [QueueIds -> 0 .. QueueSlots - 1]
    BY <1>0, <1>8, <2>3 DEF EmptyHead, EmptyTail
  <2> QED
    BY <1>0, <1>a, <2>1, <2>2, <2>4
<1>9. ASSUME NEW c \in Core, \/ EmptyChannelHead(c) \/ EmptyChannelTail(c)
                              \/ EmptyNodeHead(c) \/ EmptyNodeTail(c)
      PROVE  TypeOK'
  BY <1>8, <1>9, QueueFacts
     DEF EmptyChannelHead, EmptyChannelTail, EmptyNodeHead, EmptyNodeTail, Places
<1>10. ASSUME NEW c \in Core, SignalChannel(c) PROVE TypeOK'
  <2>1. PICK pc \in Places : Goto(c, pc)
    BY <1>10 DEF SignalChannel, Places
  <2>2. call' \in [Core -> Calls]
    BY <1>0, <2>1, GotoCalls
  <2>3. \E signal \in SigValues : Signal(<<"channels", c>>, signal)
    BY <1>10, SignalKinds DEF SignalChannel
  <2>4. Queues'
    BY <1>0, <1>10, <2>3, SignalKeepsTypes, QueueFacts DEF SignalChannel
  <2>5. Nodes' /\ Handlers'
    BY <1>0, <1>10 DEF SignalChannel
  <2> QED
    BY <1>a, <2>2, <2>4, <2>5
<1>11. ASSUME NEW c \in Core, SignalNode(c) PROVE TypeOK'
  <2>1. PICK pc \in Places : Goto(c, pc)
    BY <1>11 DEF SignalNode, Places
  <2>2. call' \in [Core -> Calls]
    BY <1>0, <2>1, GotoCalls
  <2>3. \E signal \in SigValues : Signal(<<"nodes", c>>, signal)
    BY <1>11, SignalKinds DEF SignalNode
  <2>4. Queues'
    BY <1>0, <1>11, <2>3, SignalKeepsTypes, QueueFacts DEF SignalNode
  <2>5. Nodes' /\ Handlers'
    BY <1>0, <1>11 DEF SignalNode
  <2> QED
    BY <1>a, <2>2, <2>4, <2>5
<1>12. ASSUME NEW c \in Core, MarkInitialized(c) PROVE TypeOK'
  <2>1. PICK pc \in Places : Goto(c, pc)
    BY <1>12, LookedPlace DEF MarkInitialized, Places
  <2>2. call' \in [Core -> Calls]
    BY <1>0, <2>1, GotoCalls
  <2>3. Nodes' /\ UNCHANGED <<queues, reports>>
    BY <1>0, <1>12 DEF MarkInitialized, CLOSED
  <2> QED
    BY <1>a, <1>b, <1>c, <2>2, <2>3
<1>13. ASSUME NEW c \in Core, InitInterrupts(c) PROVE TypeOK'
  <2>1. PICK pc \in Places : Goto(c, pc)
    BY <1>13, LookedPlace DEF InitInterrupts, Places
  <2>2. call' \in [Core -> Calls]
    BY <1>0, <2>1, GotoCalls
  <2>3. Nodes' /\ UNCHANGED <<queues, reports>>
    BY <1>0, <1>13 DEF InitInterrupts, CLOSED
  <2> QED
    BY <1>a, <1>b, <1>c, <2>2, <2>3
<1>14. ASSUME NEW c \in Core, ClearInterrupt(c) PROVE TypeOK'
  <2>1. PICK pc \in Places : Goto(c, pc)
    BY <1>14, LookedPlace DEF ClearInterrupt, Places
  <2>2. call' \in [Core -> Calls]
    BY <1>0, <2>1, GotoCalls
  <2>3. Nodes' /\ UNCHANGED <<queues, reports>>
    BY <1>0, <1>14 DEF ClearInterrupt, CLOSED
  <2> QED
    BY <1>a, <1>b, <1>c, <2>2, <2>3
<1>15. ASSUME NEW c \in Core, NotifyPeer(c) PROVE TypeOK'
  <2>1. call' \in [Core -> Calls]
    <3>1. CASE call[c].op = "finalize"
      BY <1>0, <1>15, <3>1, GotoCalls DEF NotifyPeer, Places
    <3>2. CASE call[c].op # "finalize"
      BY <1>0, <1>15, <3>2, IdleCall DEF NotifyPeer
    <3> QED
      BY <3>1, <3>2
  <2>2. Nodes' /\ UNCHANGED <<queues, reports>>
    BY <1>0, <1>15 DEF NotifyPeer
  <2> QED
    BY <1>a, <1>b, <1>c, <2>1, <2>2
<1>16. ASSUME NEW c \in Core, FinalizeEnd(c) PROVE TypeOK'
  <2>1. call' \in [Core -> Calls]
    BY <1>0, <1>16, IdleCall DEF FinalizeEnd
  <2>2. Nodes' /\ UNCHANGED <<queues, reports>>
    BY <1>0, <1>16 DEF FinalizeEnd
  <2> QED
    BY <1>a, <1>b, <1>c, <2>1, <2>2
<1>17. ASSUME NEW c \in Core, HandlerStart(c) \/ ChannelsEmpty(c) \/ HandlerEnd(c) PROVE TypeOK'
  <2>1. Nodes' /\ Handlers' /\ UNCHANGED <<queues, told, call>>
    BY <1>0, <1>17 DEF HandlerStart, ChannelsEmpty, HandlerEnd
  <2> QED
    BY <1>0, <1>a, <1>b, <2>1
<1>18. ASSUME NEW c \in Core, DequeueCheck(c) PROVE TypeOK'
  <2>1. [dequeue[c] EXCEPT !.pc = "load"] \in Dequeues
    BY <1>0 DEF Dequeues
  <2>2. Handlers' /\ Nodes' /\ UNCHANGED <<sigHead, sigTail, sigSlots, told, call>>
    BY <1>0, <1>18, <2>1 DEF DequeueCheck
  <2>3. disturbed' \in BOOLEAN
    BY <1>0, <1>18 DEF DequeueCheck, Emptying
  <2> QED
    BY <1>0, <1>a, <2>2, <2>3
<1>19. ASSUME NEW c \in Core, DequeueLoad(c) PROVE TypeOK'
  <2>1. Reads(c) \in QueueIds
    BY <1>0, <1>19, QueueFacts DEF DequeueLoad, AtStep, Reads, Kinds
  <2>2. [pc |-> "store", head |-> sigHead[Reads(c)],
         signal |-> sigSlots[Reads(c)][sigHead[Reads(c)]]] \in Dequeues
    <3>1. sigHead[Reads(c)] \in 0 .. QueueSlots - 1
      BY <1>0, <2>1
    <3>2. sigSlots[Reads(c)] \in [0 .. QueueSlots - 1 -> SigValues]
      BY <1>0, <2>1
    <3>3. sigSlots[Reads(c)][sigHead[Reads(c)]] \in SigValues
      BY <3>1, <3>2
    <3> QED
      BY <3>1, <3>3 DEF Dequeues
  <2>3. Handlers' /\ Nodes' /\ UNCHANGED <<queues, told, call>>
    BY <1>0, <1>19, <2>2 DEF DequeueLoad
  <2> QED
    BY <1>0, <1>a, <1>b, <2>3
<1>20. ASSUME NEW c \in Core, DequeueStore(c) PROVE TypeOK'
  <2>1. Reads(c) \in QueueIds /\ NoDequeue \in Dequeues
    BY <1>0, <1>20, QueueFacts, BoundsAssumption
       DEF DequeueStore, AtStep, Reads, Kinds, NoDequeue, Dequeues, SigValues
  <2>2. Handlers' /\ Nodes' /\ UNCHANGED <<sigTail, sigSlots, disturbed, call>>
    BY <1>0, <1>20, <2>1 DEF DequeueStore
  <2>3. After(dequeue[c].head) \in 0 .. QueueSlots - 1 /\ dequeue[c].signal \in SigValues
    BY <1>0, SlotFacts DEF Dequeues
  <2>4. /\ sigHead' \in [QueueIds -> 0 .. QueueSlots - 1]
        /\ told' \in [QueueIds -> SigValues]
    BY <1>0, <1>20, <2>1, <2>3 DEF DequeueStore
  <2> QED
    BY <1>0, <1>a, <2>2, <2>4
<1>21. CASE UNCHANGED vars
  BY <1>0, <1>a, <1>21 DEF vars
<1> HIDE DEF Queues, Nodes, Handlers, queues, counts, reports
<1>22. ASSUME NEW c \in Core, Task(c) PROVE TypeOK'
  BY <1>1, <1>2, <1>3, <1>4, <1>5, <1>6, <1>7, <1>9, <1>10, <1>11, <1>12, <1>13, <1>14, <1>15,
     <1>16, <1>22 DEF Task
<1>23. ASSUME NEW c \in Core, Handler(c) PROVE TypeOK'
  BY <1>17, <1>18, <1>19, <1>20, <1>23 DEF Handler
<1> QED
  BY <1>21, <1>22, <1>23 DEF Next
-----------------------------------------------------------------------------
(***************************************************************************)
(* The calls.                                                              *)
(***************************************************************************)
\* What a step of a core does to its call.
LEMMA CallSteps ==
  ASSUME call \in [Core -> Calls], NEW c \in Core
  PROVE  /\ FinalizeClose(c) \/ LoadNode(c) \/ SignalChannel(c) \/ SignalNode(c)
              \/ MarkInitialized(c) \/ InitInterrupts(c) \/ ClearInterrupt(c)
              \/ EmptyChannelHead(c) \/ EmptyChannelTail(c) \/ EmptyNodeHead(c) \/ EmptyNodeTail(c)
            => /\ call'[c].op = call[c].op /\ call'[c].saw = call[c].saw
               /\ call'[Peer(c)] = call[Peer(c)]
         /\ Handler(c) => call' = call
<1>1. \A pc \in Places : Goto(c, pc) =>
        call'[c].op = call[c].op /\ call'[c].saw = call[c].saw /\ call'[Peer(c)] = call[Peer(c)]
  BY GotoCalls, QueueFacts
<1>2. FinalizeClose(c) \/ LoadNode(c) \/ SignalChannel(c) \/ SignalNode(c)
        \/ MarkInitialized(c) \/ InitInterrupts(c) \/ ClearInterrupt(c)
        \/ EmptyChannelHead(c) \/ EmptyChannelTail(c) \/ EmptyNodeHead(c) \/ EmptyNodeTail(c)
      => \E pc \in Places : Goto(c, pc)
  BY DEF FinalizeClose, LoadNode, Looked, SignalChannel, SignalNode, MarkInitialized,
         InitInterrupts, ClearInterrupt, Places, EmptyChannelHead, EmptyChannelTail,
         EmptyNodeHead, EmptyNodeTail, EmptyHead, EmptyTail
<1>3. Handler(c) => call' = call
  BY DEF Handler, HandlerStart, DequeueCheck, DequeueLoad, DequeueStore, ChannelsEmpty, HandlerEnd
<1> QED
  BY <1>1, <1>2, <1>3

\* A call finds its node and its end point as the call before left them.
LEMMA CallsOKStep == TypeOK /\ CallsOK /\ [Next]_vars => CallsOK'
<1> SUFFICES ASSUME TypeOK, CallsOK, [Next]_vars PROVE CallsOK'
  OBVIOUS
<1>0. /\ call \in [Core -> Calls]
      /\ node \in [Core -> {INIT, UNINIT, BLANK}] /\ config \in [Core -> BOOLEAN]
      /\ endpoint \in [Core -> {CLOSED, OPEN}]
  BY DEF TypeOK, Calls, Places
<1> USE DEF Core, Peer, Goto, OPEN, CLOSED, INIT, UNINIT, BLANK, CallsOK, CallOK, Unmarked, Marked,
            Calls
<1>1. ASSUME NEW c \in Core, Initialize(c) PROVE CallsOK'
  BY <1>0, <1>1 DEF Initialize, Begin, Idle
<1>2. ASSUME NEW c \in Core, Open(c) PROVE CallsOK'
  BY <1>0, <1>2 DEF Open, Change, Begin, Idle
<1>3. ASSUME NEW c \in Core, Close(c) PROVE CallsOK'
  BY <1>0, <1>3 DEF Close, Change, Begin, Idle
<1>4. ASSUME NEW c \in Core, Finalize(c) PROVE CallsOK'
  BY <1>0, <1>4 DEF Finalize, Begin, Idle
<1>5. ASSUME NEW c \in Core, FinalizeClose(c) PROVE CallsOK'
  BY <1>0, <1>5 DEF FinalizeClose
<1>6. ASSUME NEW c \in Core, LoadNode(c) PROVE CallsOK'
  BY <1>0, <1>6 DEF LoadNode, Looked
<1>7. ASSUME NEW c \in Core, SignalChannel(c) PROVE CallsOK'
  BY <1>0, <1>7 DEF SignalChannel
<1>8. ASSUME NEW c \in Core, SignalNode(c) PROVE CallsOK'
  BY <1>0, <1>8 DEF SignalNode
<1>9. ASSUME NEW c \in Core, MarkInitialized(c) PROVE CallsOK'
  BY <1>0, <1>9 DEF MarkInitialized
<1>10. ASSUME NEW c \in Core, InitInterrupts(c) PROVE CallsOK'
  BY <1>0, <1>10 DEF InitInterrupts
<1>11. ASSUME NEW c \in Core, ClearInterrupt(c) PROVE CallsOK'
  BY <1>0, <1>11 DEF ClearInterrupt
<1>12. ASSUME NEW c \in Core, NotifyPeer(c) PROVE CallsOK'
  BY <1>0, <1>12 DEF NotifyPeer, Idle
<1>13. ASSUME NEW c \in Core, FinalizeEnd(c) PROVE CallsOK'
  BY <1>0, <1>13 DEF FinalizeEnd, Idle
<1>14. ASSUME NEW c \in Core, LoadEndpoint(c) PROVE CallsOK'
  <2>1. endpoint[Peer(c)] \in {CLOSED, OPEN} /\ call \in [Core -> Calls]
    BY <1>0
  <2>2. /\ call[c].pc = "load_endpoint" /\ call'[c].pc = Looked(c) /\ call'[c].op = call[c].op
        /\ call'[Peer(c)] = call[Peer(c)]
    BY ONLY <1>14, <2>1, LoadEndpointCall
  <2>3. UNCHANGED <<node, config, endpoint>>
    BY <1>14 DEF LoadEndpoint
  <2> QED
    BY <1>0, <2>2, <2>3 DEF Looked
<1>15. ASSUME NEW c \in Core, \/ EmptyChannelHead(c) \/ EmptyChannelTail(c)
                              \/ EmptyNodeHead(c) \/ EmptyNodeTail(c)
      PROVE  CallsOK'
  BY <1>0, <1>15 DEF EmptyChannelHead, EmptyChannelTail, EmptyNodeHead, EmptyNodeTail,
     EmptyHead, EmptyTail
<1>16. ASSUME NEW c \in Core, Handler(c) PROVE CallsOK'
  BY <1>16 DEF Handler, HandlerStart, DequeueCheck, DequeueLoad, DequeueStore, ChannelsEmpty,
     HandlerEnd
<1>17. CASE UNCHANGED vars
  BY <1>17 DEF vars
<1> HIDE DEF Core, Peer, Goto, OPEN, CLOSED, INIT, UNINIT, BLANK, CallsOK, CallOK, Unmarked, Marked, Calls
<1>18. ASSUME NEW c \in Core, Task(c) PROVE CallsOK'
  BY <1>1, <1>2, <1>3, <1>4, <1>5, <1>6, <1>7, <1>8, <1>9, <1>10, <1>11, <1>12, <1>13, <1>14,
     <1>15, <1>18 DEF Task
<1> QED
  BY <1>16, <1>17, <1>18 DEF Next
-----------------------------------------------------------------------------
(***************************************************************************)
(* The reports, while no queue is disturbed.                               *)
(***************************************************************************)
\* The steps that touch no queue.
LEMMA QuietSteps ==
  ASSUME NEW c \in Core,
         \/ Initialize(c) \/ Open(c) \/ Close(c) \/ Finalize(c) \/ FinalizeClose(c)
         \/ LoadNode(c) \/ LoadEndpoint(c) \/ MarkInitialized(c) \/ InitInterrupts(c)
         \/ ClearInterrupt(c) \/ NotifyPeer(c) \/ FinalizeEnd(c) \/ HandlerStart(c)
         \/ DequeueCheck(c) \/ DequeueLoad(c) \/ ChannelsEmpty(c) \/ HandlerEnd(c)
  PROVE  UNCHANGED <<sigHead, sigTail, sigSlots, told>>
  BY DEF Initialize, Open, Close, Change, Finalize, FinalizeClose, LoadNode, LoadEndpoint,
     MarkInitialized, InitInterrupts, ClearInterrupt, NotifyPeer, FinalizeEnd, HandlerStart,
     DequeueCheck, DequeueLoad, ChannelsEmpty, HandlerEnd, queues, reports

\* Once a queue was disturbed this is remembered.
LEMMA DisturbedStays == [Next]_vars /\ disturbed => disturbed'
<1> SUFFICES ASSUME [Next]_vars, disturbed PROVE disturbed'
  OBVIOUS
<1>1. ASSUME NEW c \in Core, Task(c) PROVE disturbed'
  BY <1>1 DEF Task, Initialize, Open, Close, Change, Finalize, FinalizeClose, LoadNode,
     LoadEndpoint,
     MarkInitialized, InitInterrupts, ClearInterrupt, NotifyPeer, FinalizeEnd, SignalChannel,
     SignalNode, Signal, queues, EmptyChannelHead, EmptyChannelTail, EmptyNodeHead,
     EmptyNodeTail, EmptyHead, EmptyTail
<1>2. ASSUME NEW c \in Core, Handler(c) PROVE disturbed'
  BY <1>2 DEF Handler, HandlerStart, DequeueCheck, DequeueLoad, DequeueStore, ChannelsEmpty,
     HandlerEnd, queues
<1> QED
  BY <1>1, <1>2 DEF Next, vars, queues

\* What a dequeue has found stays until it has stored head: the reader's own
\* steps and the signals of the writer leave it there, and an emptying that
\* does not is a disturbance.
LEMMA DequeuesOKStep ==
  TypeOK /\ CallsOK /\ DequeuesOK /\ [Next]_vars /\ ~disturbed' => DequeuesOK'
<1> SUFFICES ASSUME TypeOK, CallsOK, DequeuesOK, [Next]_vars, ~disturbed' PROVE DequeuesOK'
  OBVIOUS
<1>0. /\ call \in [Core -> Calls] /\ dequeue \in [Core -> Dequeues]
      /\ handler \in [Core -> {"idle", "channels", "nodes"}]
      /\ \A c \in Core : Peer(c) \in Core /\ Peer(c) # c /\ \A d \in Core : d = c \/ d = Peer(c)
  BY DEF TypeOK, Calls, Places, Dequeues, Core, Peer
<1>1. ASSUME UNCHANGED <<sigHead, sigTail, sigSlots, handler, dequeue>>,
             \A d \in Core : \/ call'[d].pc = call[d].pc
                             \/ call'[d].pc \notin {"channel_tail", "node_tail"}
      PROVE  DequeuesOK'
  BY <1>0, <1>1 DEF DequeuesOK, DequeueOK, Reads, Empty, Emptying
<1>2. ASSUME NEW c \in Core,
             \/ Initialize(c) \/ Open(c) \/ Close(c) \/ Finalize(c) \/ FinalizeClose(c)
             \/ LoadNode(c) \/ MarkInitialized(c) \/ InitInterrupts(c)
             \/ ClearInterrupt(c) \/ NotifyPeer(c) \/ FinalizeEnd(c)
      PROVE  DequeuesOK'
  <2>1. UNCHANGED <<sigHead, sigTail, sigSlots, handler, dequeue>>
    BY <1>2, QuietSteps DEF Initialize, Open, Close, Change, Finalize, FinalizeClose, LoadNode,
       MarkInitialized, InitInterrupts, ClearInterrupt, NotifyPeer, FinalizeEnd, reports
  <2>2. call'[c].pc \notin {"channel_tail", "node_tail"} /\ call'[Peer(c)] = call[Peer(c)]
    <3>1. CASE \/ FinalizeClose(c) \/ LoadNode(c) \/ MarkInitialized(c)
               \/ InitInterrupts(c) \/ ClearInterrupt(c)
      <4>1. PICK pc \in Places \ {"channel_tail", "node_tail"} : Goto(c, pc)
        BY <3>1, LookedPlace DEF FinalizeClose, LoadNode, MarkInitialized, InitInterrupts,
           ClearInterrupt, Places
      <4> QED
        BY <1>0, <4>1, GotoCalls
    <3>2. CASE Initialize(c) \/ Open(c) \/ Close(c) \/ Finalize(c)
      <4>1. PICK op \in {"initialize", "open", "close", "finalize"},
                 pc \in {"load_node", "close"} : Begin(c, op, pc)
        BY <3>2 DEF Initialize, Open, Close, Change, Finalize
      <4> QED
        BY <1>0, <4>1, BeginPlaces, QueueFacts
    <3>3. CASE NotifyPeer(c) \/ FinalizeEnd(c)
      <4>1. Goto(c, "end") \/ call' = [call EXCEPT ![c] = Idle]
        BY <3>3 DEF NotifyPeer, FinalizeEnd
      <4> QED
        BY <1>0, <4>1, GotoCalls DEF Idle, Places
    <3> QED
      BY <1>2, <3>1, <3>2, <3>3
  <2> QED
    BY <1>0, <1>1, <2>1, <2>2
<1>3. ASSUME NEW c \in Core, LoadEndpoint(c) PROVE DequeuesOK'
  <2>1. UNCHANGED <<sigHead, sigTail, sigSlots, handler, dequeue>>
    BY <1>3, QuietSteps DEF LoadEndpoint, reports
  <2>2. call'[c].pc = Looked(c) /\ call'[Peer(c)] = call[Peer(c)]
    BY <1>0, <1>3, LoadEndpointCall DEF TypeOK
  <2> QED
    BY <1>0, <1>1, <2>1, <2>2, LookedPlace
<1>4. ASSUME NEW c \in Core, NEW kind \in Kinds, NEW pc, NEW next \in Places,
             next \in {"channel_tail", "node_tail"} =>
               next = IF kind = "channels" THEN "channel_tail" ELSE "node_tail",
             EmptyHead(c, kind, pc, next) \/ EmptyTail(c, kind, pc, next)
      PROVE  DequeuesOK'
  <2>1. UNCHANGED <<handler, dequeue, sigSlots>> /\ ~Dequeuing(<<kind, c>>)
    BY <1>4 DEF EmptyHead, EmptyTail, reports
  <2>2. call'[c].pc = next /\ call'[Peer(c)] = call[Peer(c)]
    BY <1>0, <1>4, GotoCalls DEF EmptyHead, EmptyTail
  <2>3. \A r \in QueueIds : r # <<kind, c>> => sigHead'[r] = sigHead[r] /\ Empty(r)' = Empty(r)
    BY <1>4, EmptyingNewest
  <2> SUFFICES ASSUME NEW d \in Core, dequeue[d].pc # "check" PROVE DequeueOK(d)'
    BY <2>1 DEF DequeuesOK, DequeueOK
  <2>4. DequeueOK(d) /\ handler[d] \in Kinds /\ Reads(d) \in QueueIds
    BY QueueFacts DEF DequeuesOK, DequeueOK, Reads
  <2>5. Reads(d) # <<kind, c>>
    BY <2>1, <2>4, QueueFacts DEF Dequeuing, Reads
  <2>6. PICK q \in QueueIds : q = Reads(d) /\ q # <<kind, c>> /\ Reads(d)' = q
    BY <2>1, <2>4, <2>5 DEF Reads
  <2>7. Emptying(q)' = Emptying(q)
    <3>1. CASE q[2] = c
      <4>1. q[1] # kind /\ q[1] \in Kinds
        BY <2>6, <3>1, QueueFacts
      <4>2. call[c].pc \notin {IF q[1] = "channels" THEN "channel_tail" ELSE "node_tail"}
        BY <2>4, <2>6, <3>1 DEF DequeueOK, Emptying
      <4> QED
        BY <1>4, <2>2, <3>1, <4>1, <4>2 DEF Emptying, Kinds
    <3>2. CASE q[2] # c
      <4>1. call'[q[2]] = call[q[2]]
        BY <1>0, <2>2, <3>2, QueueFacts
      <4> QED
        BY <4>1 DEF Emptying
    <3> QED
      BY <3>1, <3>2
  <2>8. sigHead'[q] = sigHead[q] /\ Empty(q)' = Empty(q)
    BY <2>3, <2>6
  <2> HIDE DEF Reads
  <2>9. /\ handler[d] \in Kinds /\ ~Empty(q) /\ ~Emptying(q)
        /\ dequeue[d].pc = "store" =>
             dequeue[d].head = sigHead[q] /\ dequeue[d].signal = sigSlots[q][sigHead[q]]
    BY <2>4, <2>6 DEF DequeueOK
  <2>10. /\ handler'[d] \in Kinds /\ ~Empty(q)' /\ ~Emptying(q)'
         /\ dequeue'[d].pc = "store" =>
              dequeue'[d].head = sigHead'[q] /\ dequeue'[d].signal = sigSlots'[q][sigHead'[q]]
    BY <2>1, <2>7, <2>8, <2>9
  <2> QED
    BY <2>6, <2>10 DEF DequeueOK, Empty, Emptying
<1>5. ASSUME NEW c \in Core, \/ EmptyChannelHead(c) \/ EmptyChannelTail(c)
                             \/ EmptyNodeHead(c) \/ EmptyNodeTail(c)
      PROVE  DequeuesOK'
  BY <1>4, <1>5, QueueFacts
     DEF EmptyChannelHead, EmptyChannelTail, EmptyNodeHead, EmptyNodeTail, Places
<1>6. ASSUME NEW c \in Core, NEW q \in QueueIds, NEW signal \in SigValues, Signal(q, signal),
             UNCHANGED <<sigHead, told, handler, dequeue>>,
             \A d \in Core : \/ call'[d].pc = call[d].pc
                             \/ call'[d].pc \notin {"channel_tail", "node_tail"}
      PROVE  DequeuesOK'
  <2>1. \A r \in QueueIds : ~Empty(r) => /\ ~Empty(r)'
                                          /\ sigSlots'[r][sigHead[r]] = sigSlots[r][sigHead[r]]
    BY <1>6, SignalNewest
  <2> SUFFICES ASSUME NEW d \in Core, dequeue[d].pc # "check" PROVE DequeueOK(d)'
    BY <1>6 DEF DequeuesOK, DequeueOK
  <2>2. PICK r \in QueueIds : r = Reads(d) /\ Reads(d)' = r
    BY <1>6, QueueFacts DEF DequeuesOK, DequeueOK, Reads
  <2>3. /\ handler[d] \in Kinds /\ ~Empty(r) /\ ~Emptying(r)
        /\ dequeue[d].pc = "store" =>
             dequeue[d].head = sigHead[r] /\ dequeue[d].signal = sigSlots[r][sigHead[r]]
    BY <2>2 DEF DequeuesOK, DequeueOK
  <2>4. ~Emptying(r)'
    BY <1>6, <2>3, QueueFacts DEF Emptying
  <2>5. /\ handler'[d] \in Kinds /\ ~Empty(r)' /\ ~Emptying(r)'
        /\ dequeue'[d].pc = "store" =>
             dequeue'[d].head = sigHead'[r] /\ dequeue'[d].signal = sigSlots'[r][sigHead'[r]]
    BY <1>6, <2>1, <2>3, <2>4
  <2> QED
    BY <2>2, <2>5 DEF DequeueOK, Empty, Emptying
<1>7. ASSUME NEW c \in Core, SignalChannel(c) \/ SignalNode(c) PROVE DequeuesOK'
  <2>1. PICK q \in QueueIds, signal \in SigValues : Signal(q, signal)
    BY <1>7, SignalKinds, QueueFacts DEF SignalChannel, SignalNode
  <2>2. PICK pc \in Places \ {"channel_tail", "node_tail"} : Goto(c, pc)
    BY <1>7 DEF SignalChannel, SignalNode, Places
  <2>3. call'[c].pc = pc /\ \A d \in Core : d # c => call'[d] = call[d]
    BY <1>0, <2>2, GotoCalls
  <2> QED
    BY <1>6, <1>7, <2>1, <2>3 DEF SignalChannel, SignalNode, reports
<1>8. ASSUME NEW c \in Core, HandlerStart(c) \/ ChannelsEmpty(c) \/ HandlerEnd(c) PROVE DequeuesOK'
  <2>1. /\ dequeue[c].pc = "check" /\ UNCHANGED <<sigHead, sigTail, sigSlots, call, dequeue>>
        /\ handler'[Peer(c)] = handler[Peer(c)]
    BY <1>0, <1>8, QuietSteps, QueueFacts
       DEF HandlerStart, ChannelsEmpty, HandlerEnd, AtStep, DequeuesOK, DequeueOK
  <2>2. DequeueOK(c)'
    BY <2>1 DEF DequeueOK
  <2>3. DequeueOK(Peer(c))'
    BY <1>0, <2>1 DEF DequeuesOK, DequeueOK, Reads, Empty, Emptying
  <2> QED
    BY <1>0, <2>2, <2>3 DEF DequeuesOK
<1>9. ASSUME NEW c \in Core, DequeueCheck(c) \/ DequeueLoad(c) PROVE DequeuesOK'
  <2>1. /\ UNCHANGED <<sigHead, sigTail, sigSlots, call, handler>>
        /\ dequeue'[Peer(c)] = dequeue[Peer(c)] /\ handler[c] \in Kinds
    BY <1>0, <1>9, QuietSteps, QueueFacts DEF DequeueCheck, DequeueLoad, AtStep, Kinds
  <2>2. DequeueOK(Peer(c))'
    BY <1>0, <2>1 DEF DequeuesOK, DequeueOK, Reads, Empty, Emptying
  <2>3. CASE DequeueCheck(c)
    <3>1. dequeue'[c].pc = "load" /\ ~Empty(Reads(c)) /\ ~Emptying(Reads(c))
      BY <1>0, <2>3 DEF DequeueCheck, Dequeues
    <3> QED
      BY <1>0, <2>1, <2>2, <3>1 DEF DequeuesOK, DequeueOK, Reads, Empty, Emptying
  <2>4. CASE DequeueLoad(c)
    <3>1. /\ dequeue[c].pc = "load"
          /\ dequeue'[c] = [pc |-> "store", head |-> sigHead[Reads(c)],
                            signal |-> sigSlots[Reads(c)][sigHead[Reads(c)]]]
      BY <1>0, <2>4 DEF DequeueLoad, AtStep
    <3>2. ~Empty(Reads(c)) /\ ~Emptying(Reads(c))
      BY <3>1 DEF DequeuesOK, DequeueOK
    <3> QED
      BY <1>0, <2>1, <2>2, <3>1, <3>2 DEF DequeuesOK, DequeueOK, Reads, Empty, Emptying
  <2> QED
    BY <1>9, <2>3, <2>4
<1>10. ASSUME NEW c \in Core, DequeueStore(c) PROVE DequeuesOK'
  <2>1. /\ UNCHANGED <<sigTail, sigSlots, call, handler>>
        /\ dequeue'[Peer(c)] = dequeue[Peer(c)] /\ handler[c] \in Kinds
        /\ dequeue'[c].pc = "check"
    BY <1>0, <1>10 DEF DequeueStore, AtStep, Kinds, NoDequeue
  <2>2. DequeueOK(c)'
    BY <2>1 DEF DequeueOK
  <2>3. handler[Peer(c)] \in Kinds => sigHead'[Reads(Peer(c))] = sigHead[Reads(Peer(c))]
    <3>1. PICK q \in QueueIds : q = Reads(c)
      BY <2>1, QueueFacts DEF Reads
    <3>2. ASSUME handler[Peer(c)] \in Kinds PROVE Reads(Peer(c)) \in QueueIds /\ Reads(Peer(c)) # q
      BY <2>1, <3>1, <3>2, QueueFacts DEF Reads
    <3>3. \E i : sigHead' = [sigHead EXCEPT ![q] = i]
      BY <1>10, <3>1 DEF DequeueStore
    <3> QED
      BY <3>2, <3>3 DEF TypeOK
  <2>4. DequeueOK(Peer(c))'
    BY <1>0, <2>1, <2>3 DEF DequeuesOK, DequeueOK, Reads, Empty, Emptying
  <2> QED
    BY <1>0, <2>2, <2>4 DEF DequeuesOK
<1>11. CASE UNCHANGED vars
  BY <1>1, <1>11 DEF vars, queues, reports
<1>12. ASSUME NEW c \in Core, Task(c) PROVE DequeuesOK'
  BY <1>2, <1>3, <1>5, <1>7, <1>12 DEF Task
<1>13. ASSUME NEW c \in Core, Handler(c) PROVE DequeuesOK'
  BY <1>8, <1>9, <1>10, <1>13 DEF Handler
<1> QED
  BY <1>11, <1>12, <1>13 DEF Next

\* Two queues of a core, and what a step on one of them leaves alone.
LEMMA SignalChannelNewest ==
  ASSUME TypeOK, NEW c \in Core, SignalChannel(c), ~disturbed'
  PROVE  /\ LastChannel(c)' = ChannelState(call[c].saw, endpoint[c])
         /\ LastChannel(Peer(c))' = LastChannel(Peer(c))
         /\ NoChannelLeft(Peer(c))' = NoChannelLeft(Peer(c))
         /\ \A d \in Core : LastNode(d)' = LastNode(d) /\ NoNodeLeft(d)' = NoNodeLeft(d)
<1>1. /\ Signal(<<"channels", c>>, ChannelState(call[c].saw, endpoint[c]))
      /\ UNCHANGED <<sigHead, told>>
  BY DEF SignalChannel, reports
<1> QED
  BY <1>1, SignalNewest, SignalKinds, QueueFacts
     DEF LastChannel, LastNode, NoChannelLeft, NoNodeLeft

LEMMA SignalNodeNewest ==
  ASSUME TypeOK, NEW c \in Core, SignalNode(c), ~disturbed'
  PROVE  /\ LastNode(c)' = IF call[c].op = "initialize" THEN INIT ELSE UNINIT
         /\ LastNode(Peer(c))' = LastNode(Peer(c)) /\ NoNodeLeft(Peer(c))' = NoNodeLeft(Peer(c))
         /\ \A d \in Core : LastChannel(d)' = LastChannel(d) /\ NoChannelLeft(d)' = NoChannelLeft(d)
<1>1. /\ Signal(<<"nodes", c>>, IF call[c].op = "initialize" THEN INIT ELSE UNINIT)
      /\ UNCHANGED <<sigHead, told>>
  BY DEF SignalNode, reports
<1> QED
  BY <1>1, SignalNewest, SignalKinds, QueueFacts
     DEF LastChannel, LastNode, NoChannelLeft, NoNodeLeft

LEMMA EmptyingSteps ==
  ASSUME TypeOK, NEW c \in Core,
         \/ EmptyChannelHead(c) \/ EmptyChannelTail(c) \/ EmptyNodeHead(c) \/ EmptyNodeTail(c)
  PROVE  /\ LastChannel(Peer(c))' = LastChannel(Peer(c))
         /\ NoChannelLeft(Peer(c))' = NoChannelLeft(Peer(c))
         /\ LastNode(Peer(c))' = LastNode(Peer(c)) /\ NoNodeLeft(Peer(c))' = NoNodeLeft(Peer(c))
         /\ EmptyNodeHead(c) \/ EmptyNodeTail(c) =>
              LastChannel(c)' = LastChannel(c) /\ NoChannelLeft(c)' = NoChannelLeft(c)
         /\ EmptyChannelHead(c) \/ EmptyChannelTail(c) =>
              LastNode(c)' = LastNode(c) /\ NoNodeLeft(c)' = NoNodeLeft(c)
  BY EmptyingNewest, QueueFacts
     DEF EmptyChannelHead, EmptyChannelTail, EmptyNodeHead, EmptyNodeTail,
         LastChannel, LastNode, NoChannelLeft, NoNodeLeft

LEMMA DequeueSteps ==
  ASSUME TypeOK, DequeuesOK, NEW c \in Core, DequeueStore(c)
  PROVE  /\ \A d \in Core : LastChannel(d)' = LastChannel(d) /\ LastNode(d)' = LastNode(d)
         /\ NoChannelLeft(c)' = NoChannelLeft(c) /\ NoNodeLeft(c)' = NoNodeLeft(c)
         /\ handler[c] = "channels" => NoNodeLeft(Peer(c))' = NoNodeLeft(Peer(c))
         /\ handler[c] = "nodes" => NoChannelLeft(Peer(c))' = NoChannelLeft(Peer(c))
<1>1. /\ \A r \in QueueIds : Newest(r)' = Newest(r)
      /\ \A r \in QueueIds : r # Reads(c) => Empty(r)' = Empty(r)
  BY DequeueNewest
<1>2. /\ <<"channels", c>> # Reads(c) /\ <<"nodes", c>> # Reads(c)
      /\ handler[c] = "channels" => <<"nodes", Peer(c)>> # Reads(c)
      /\ handler[c] = "nodes" => <<"channels", Peer(c)>> # Reads(c)
  BY QueueFacts DEF Reads
<1> QED
  BY <1>1, <1>2, QueueFacts DEF LastChannel, LastNode, NoChannelLeft, NoNodeLeft

\* The newest state a core signalled says of its end what is true: the queue
\* is emptied only by a call that goes on to signal, and so is the end changed.
LEMMA SignalsTrueStep ==
  TypeOK /\ CallsOK /\ DequeuesOK /\ SignalsTrue /\ [Next]_vars /\ ~disturbed' => SignalsTrue'
<1> SUFFICES ASSUME TypeOK, CallsOK, DequeuesOK, SignalsTrue, [Next]_vars, ~disturbed' PROVE SignalsTrue'
  OBVIOUS
<1>0. /\ call \in [Core -> Calls]
      /\ node \in [Core -> {INIT, UNINIT, BLANK}] /\ config \in [Core -> BOOLEAN]
      /\ endpoint \in [Core -> {CLOSED, OPEN}] /\ notified \in [Core -> BOOLEAN]
      /\ handler \in [Core -> {"idle", "channels", "nodes"}]
  BY DEF TypeOK, Calls, Places
<1> USE DEF Core, Peer, Goto, OPEN, CLOSED, INIT, UNINIT, BLANK, queues, reports, CallsOK, CallOK,
            Unmarked, Marked, Calls, Changing, Looking, SignalsTrue
<1>1. ASSUME NEW c \in Core, Initialize(c) PROVE SignalsTrue'
  BY <1>0, <1>1, QuietSteps, QueuesKept DEF Initialize, Begin, Idle
<1>2. ASSUME NEW c \in Core, Open(c) PROVE SignalsTrue'
  BY <1>0, <1>2, QuietSteps, QueuesKept DEF Open, Change, Begin, Idle
<1>3. ASSUME NEW c \in Core, Close(c) PROVE SignalsTrue'
  BY <1>0, <1>3, QuietSteps, QueuesKept DEF Close, Change, Begin, Idle
<1>4. ASSUME NEW c \in Core, Finalize(c) PROVE SignalsTrue'
  BY <1>0, <1>4, QuietSteps, QueuesKept DEF Finalize, Begin, Idle
<1>5. ASSUME NEW c \in Core, FinalizeClose(c) PROVE SignalsTrue'
  BY <1>0, <1>5, QuietSteps, QueuesKept DEF FinalizeClose
<1>6. ASSUME NEW c \in Core, LoadNode(c) PROVE SignalsTrue'
  BY <1>0, <1>6, QuietSteps, QueuesKept DEF LoadNode, Looked
<1>7. ASSUME NEW c \in Core, MarkInitialized(c) PROVE SignalsTrue'
  BY <1>0, <1>7, QuietSteps, QueuesKept DEF MarkInitialized
<1>8. ASSUME NEW c \in Core, InitInterrupts(c) PROVE SignalsTrue'
  BY <1>0, <1>8, QuietSteps, QueuesKept DEF InitInterrupts
<1>9. ASSUME NEW c \in Core, ClearInterrupt(c) PROVE SignalsTrue'
  BY <1>0, <1>9, QuietSteps, QueuesKept DEF ClearInterrupt
<1>10. ASSUME NEW c \in Core, NotifyPeer(c) PROVE SignalsTrue'
  BY <1>0, <1>10, QuietSteps, QueuesKept DEF NotifyPeer, Idle
<1>11. ASSUME NEW c \in Core, FinalizeEnd(c) PROVE SignalsTrue'
  BY <1>0, <1>11, QuietSteps, QueuesKept DEF FinalizeEnd, Idle
<1>12. ASSUME NEW c \in Core, HandlerStart(c) PROVE SignalsTrue'
  BY <1>0, <1>12, QuietSteps, QueuesKept DEF HandlerStart
<1>13. ASSUME NEW c \in Core, DequeueCheck(c) PROVE SignalsTrue'
  BY <1>0, <1>13, QuietSteps, QueuesKept DEF DequeueCheck
<1>14. ASSUME NEW c \in Core, DequeueLoad(c) PROVE SignalsTrue'
  BY <1>0, <1>14, QuietSteps, QueuesKept DEF DequeueLoad
<1>15. ASSUME NEW c \in Core, ChannelsEmpty(c) PROVE SignalsTrue'
  BY <1>0, <1>15, QuietSteps, QueuesKept DEF ChannelsEmpty
<1>16. ASSUME NEW c \in Core, HandlerEnd(c) PROVE SignalsTrue'
  BY <1>0, <1>16, QuietSteps, QueuesKept DEF HandlerEnd
<1>17. ASSUME NEW c \in Core, LoadEndpoint(c) PROVE SignalsTrue'
  <2>1. /\ call[c].pc = "load_endpoint" /\ call'[c].pc = Looked(c)
        /\ call'[c].op = call[c].op /\ call'[c].saw = endpoint[Peer(c)]
        /\ call'[Peer(c)] = call[Peer(c)]
    BY <1>0, <1>17, LoadEndpointCall, QueueFacts
  <2>2. UNCHANGED <<node, config, endpoint, notified, handler>>
    BY <1>17 DEF LoadEndpoint, reports
  <2> QED
    BY <1>0, <1>17, <2>1, <2>2, QuietSteps, QueuesKept DEF Looked
<1>18. ASSUME NEW c \in Core, \/ EmptyChannelHead(c) \/ EmptyChannelTail(c)
                              \/ EmptyNodeHead(c) \/ EmptyNodeTail(c) PROVE SignalsTrue'
  <2>1. /\ call'[c].op = call[c].op /\ call'[c].saw = call[c].saw
        /\ call'[Peer(c)] = call[Peer(c)]
    BY <1>0, <1>18, CallSteps
  <2>2. /\ UNCHANGED <<node, config, endpoint, notified, handler>>
        /\ \/ EmptyChannelHead(c) /\ call[c].pc = "channel_head" /\ call'[c].pc = "channel_tail"
           \/ EmptyChannelTail(c) /\ call[c].pc = "channel_tail" /\ call'[c].pc = "signal"
           \/ EmptyNodeHead(c) /\ call[c].pc = "node_head" /\ call'[c].pc = "node_tail"
           \/ EmptyNodeTail(c) /\ call[c].pc = "node_tail" /\ call'[c].pc = "signal_node"
    BY <1>0, <1>18, EmptyPlaces
       DEF EmptyChannelHead, EmptyChannelTail, EmptyNodeHead, EmptyNodeTail, Places
  <2> QED
    BY <1>0, <1>18, <2>1, <2>2, EmptyingSteps
<1>19. ASSUME NEW c \in Core, SignalChannel(c) PROVE SignalsTrue'
  <2>1. /\ call'[c].op = call[c].op /\ call'[c].saw = call[c].saw
        /\ call'[Peer(c)] = call[Peer(c)]
    BY <1>0, <1>19, CallSteps
  <2>2. /\ UNCHANGED <<node, config, endpoint, notified, handler>>
        /\ call[c].pc = "signal" /\ call'[c].pc \in {"notify", "node_head", "signal_node"}
    BY <1>0, <1>19 DEF SignalChannel, reports
  <2> QED
    BY <1>0, <1>19, <2>1, <2>2, SignalChannelNewest, SignalKinds
<1>20. ASSUME NEW c \in Core, SignalNode(c) PROVE SignalsTrue'
  <2>1. /\ call'[c].op = call[c].op /\ call'[c].saw = call[c].saw
        /\ call'[Peer(c)] = call[Peer(c)]
    BY <1>0, <1>20, CallSteps
  <2>2. /\ UNCHANGED <<node, config, endpoint, notified, handler>>
        /\ call[c].pc = "signal_node"
        /\ call'[c].pc = IF call[c].op = "initialize" THEN "mark" ELSE "notify"
    BY <1>0, <1>20 DEF SignalNode, reports
  <2> QED
    BY <1>0, <1>20, <2>1, <2>2, SignalNodeNewest
<1>21. ASSUME NEW c \in Core, DequeueStore(c) PROVE SignalsTrue'
  <2>1. UNCHANGED <<node, config, endpoint, call, notified, handler>> /\ handler[c] # "idle"
    BY <1>21 DEF DequeueStore, AtStep
  <2> QED
    BY <1>0, <1>21, <2>1, DequeueSteps
<1>22. CASE UNCHANGED vars
  BY <1>22, QueuesKept DEF vars, queues, reports
<1> HIDE DEF Core, Peer, Goto, OPEN, CLOSED, INIT, UNINIT, BLANK, queues, reports, CallsOK, CallOK,
            Unmarked, Marked, Calls, Changing, Looking, SignalsTrue
<1>23. ASSUME NEW c \in Core, Task(c) PROVE SignalsTrue'
  BY <1>1, <1>2, <1>3, <1>4, <1>5, <1>6, <1>7, <1>8, <1>9, <1>10, <1>11, <1>17, <1>18, <1>19,
     <1>20, <1>23
     DEF Task
<1>24. ASSUME NEW c \in Core, Handler(c) PROVE SignalsTrue'
  BY <1>12, <1>13, <1>14, <1>15, <1>16, <1>21, <1>24 DEF Handler
<1> QED
  BY <1>22, <1>23, <1>24 DEF Next

\* The core that opens its end last sees the other one open, signals it, and
\* notifies; ICC_Initialize, which may clear an interrupt, has a closed end.
LEMMA EndsOKStep ==
  TypeOK /\ CallsOK /\ DequeuesOK /\ EndsOK /\ [Next]_vars /\ ~disturbed' => EndsOK'
<1> SUFFICES ASSUME TypeOK, CallsOK, DequeuesOK, EndsOK, [Next]_vars, ~disturbed' PROVE EndsOK'
  OBVIOUS
<1>0. /\ call \in [Core -> Calls]
      /\ node \in [Core -> {INIT, UNINIT, BLANK}] /\ config \in [Core -> BOOLEAN]
      /\ endpoint \in [Core -> {CLOSED, OPEN}] /\ notified \in [Core -> BOOLEAN]
      /\ handler \in [Core -> {"idle", "channels", "nodes"}]
  BY DEF TypeOK, Calls, Places
<1> USE DEF Core, Peer, Goto, OPEN, CLOSED, INIT, UNINIT, BLANK, queues, reports, CallsOK, CallOK,
            Unmarked, Marked, Calls, Changing, Looking, EndsOK, SeesBoth, OnItsWay,
            ESTABLISHED, ChannelState
<1>1. ASSUME NEW c \in Core, Initialize(c) PROVE EndsOK'
  BY <1>0, <1>1, QuietSteps, QueuesKept DEF Initialize, Begin, Idle
<1>2. ASSUME NEW c \in Core, Open(c) PROVE EndsOK'
  BY <1>0, <1>2, QuietSteps, QueuesKept DEF Open, Change, Begin, Idle
<1>3. ASSUME NEW c \in Core, Close(c) PROVE EndsOK'
  BY <1>0, <1>3, QuietSteps, QueuesKept DEF Close, Change, Begin, Idle
<1>4. ASSUME NEW c \in Core, Finalize(c) PROVE EndsOK'
  BY <1>0, <1>4, QuietSteps, QueuesKept DEF Finalize, Begin, Idle
<1>5. ASSUME NEW c \in Core, FinalizeClose(c) PROVE EndsOK'
  BY <1>0, <1>5, QuietSteps, QueuesKept DEF FinalizeClose
<1>6. ASSUME NEW c \in Core, LoadNode(c) PROVE EndsOK'
  BY <1>0, <1>6, QuietSteps, QueuesKept DEF LoadNode, Looked
<1>7. ASSUME NEW c \in Core, MarkInitialized(c) PROVE EndsOK'
  BY <1>0, <1>7, QuietSteps, QueuesKept DEF MarkInitialized
<1>8. ASSUME NEW c \in Core, InitInterrupts(c) PROVE EndsOK'
  BY <1>0, <1>8, QuietSteps, QueuesKept DEF InitInterrupts
<1>9. ASSUME NEW c \in Core, ClearInterrupt(c) PROVE EndsOK'
  BY <1>0, <1>9, QuietSteps, QueuesKept DEF ClearInterrupt
<1>10. ASSUME NEW c \in Core, NotifyPeer(c) PROVE EndsOK'
  BY <1>0, <1>10, QuietSteps, QueuesKept DEF NotifyPeer, Idle
<1>11. ASSUME NEW c \in Core, FinalizeEnd(c) PROVE EndsOK'
  BY <1>0, <1>11, QuietSteps, QueuesKept DEF FinalizeEnd, Idle
<1>12. ASSUME NEW c \in Core, HandlerStart(c) PROVE EndsOK'
  BY <1>0, <1>12, QuietSteps, QueuesKept DEF HandlerStart
<1>13. ASSUME NEW c \in Core, DequeueCheck(c) PROVE EndsOK'
  BY <1>0, <1>13, QuietSteps, QueuesKept DEF DequeueCheck
<1>14. ASSUME NEW c \in Core, DequeueLoad(c) PROVE EndsOK'
  BY <1>0, <1>14, QuietSteps, QueuesKept DEF DequeueLoad
<1>15. ASSUME NEW c \in Core, ChannelsEmpty(c) PROVE EndsOK'
  <2>1. /\ handler[c] = "channels" /\ NoChannelLeft(Peer(c)) /\ handler' = [handler EXCEPT ![c] = "nodes"]
        /\ UNCHANGED <<node, config, endpoint, call, notified>>
    BY <1>15 DEF ChannelsEmpty, Reads, NoChannelLeft
  <2> QED
    BY <1>0, <1>15, <2>1, QuietSteps, QueuesKept
<1>16. ASSUME NEW c \in Core, HandlerEnd(c) PROVE EndsOK'
  BY <1>0, <1>16, QuietSteps, QueuesKept DEF HandlerEnd
<1>17. ASSUME NEW c \in Core, LoadEndpoint(c) PROVE EndsOK'
  <2>1. /\ call[c].pc = "load_endpoint" /\ call'[c].pc = Looked(c)
        /\ call'[c].op = call[c].op /\ call'[c].saw = endpoint[Peer(c)]
        /\ call'[Peer(c)] = call[Peer(c)]
    BY <1>0, <1>17, LoadEndpointCall, QueueFacts
  <2>2. UNCHANGED <<node, config, endpoint, notified, handler>>
    BY <1>17 DEF LoadEndpoint, reports
  <2> QED
    BY <1>0, <1>17, <2>1, <2>2, QuietSteps, QueuesKept DEF Looked
<1>18. ASSUME NEW c \in Core, \/ EmptyChannelHead(c) \/ EmptyChannelTail(c)
                              \/ EmptyNodeHead(c) \/ EmptyNodeTail(c) PROVE EndsOK'
  <2>1. /\ call'[c].op = call[c].op /\ call'[c].saw = call[c].saw
        /\ call'[Peer(c)] = call[Peer(c)]
    BY <1>0, <1>18, CallSteps
  <2>2. /\ UNCHANGED <<node, config, endpoint, notified, handler>>
        /\ \/ EmptyChannelHead(c) /\ call[c].pc = "channel_head" /\ call'[c].pc = "channel_tail"
           \/ EmptyChannelTail(c) /\ call[c].pc = "channel_tail" /\ call'[c].pc = "signal"
           \/ EmptyNodeHead(c) /\ call[c].pc = "node_head" /\ call'[c].pc = "node_tail"
           \/ EmptyNodeTail(c) /\ call[c].pc = "node_tail" /\ call'[c].pc = "signal_node"
    BY <1>0, <1>18, EmptyPlaces
       DEF EmptyChannelHead, EmptyChannelTail, EmptyNodeHead, EmptyNodeTail, Places
  <2> QED
    BY <1>0, <1>18, <2>1, <2>2, EmptyingSteps
<1>19. ASSUME NEW c \in Core, SignalChannel(c) PROVE EndsOK'
  <2>1. /\ call'[c].op = call[c].op /\ call'[c].saw = call[c].saw
        /\ call'[Peer(c)] = call[Peer(c)]
    BY <1>0, <1>19, CallSteps
  <2>2. /\ UNCHANGED <<node, config, endpoint, notified, handler>>
        /\ call[c].pc = "signal" /\ call'[c].pc \in {"notify", "node_head", "signal_node"}
    BY <1>0, <1>19 DEF SignalChannel, reports
  <2> QED
    BY <1>0, <1>19, <2>1, <2>2, SignalChannelNewest, SignalKinds
<1>20. ASSUME NEW c \in Core, SignalNode(c) PROVE EndsOK'
  <2>1. /\ call'[c].op = call[c].op /\ call'[c].saw = call[c].saw
        /\ call'[Peer(c)] = call[Peer(c)]
    BY <1>0, <1>20, CallSteps
  <2>2. /\ UNCHANGED <<node, config, endpoint, notified, handler>>
        /\ call[c].pc = "signal_node"
        /\ call'[c].pc = IF call[c].op = "initialize" THEN "mark" ELSE "notify"
    BY <1>0, <1>20 DEF SignalNode, reports
  <2> QED
    BY <1>0, <1>20, <2>1, <2>2, SignalNodeNewest
<1>21. ASSUME NEW c \in Core, DequeueStore(c) PROVE EndsOK'
  <2>1. UNCHANGED <<node, config, endpoint, call, notified, handler>> /\ handler[c] # "idle"
    BY <1>21 DEF DequeueStore, AtStep
  <2> QED
    BY <1>0, <1>21, <2>1, DequeueSteps
<1>22. CASE UNCHANGED vars
  BY <1>22, QueuesKept DEF vars, queues, reports
<1> HIDE DEF Core, Peer, Goto, OPEN, CLOSED, INIT, UNINIT, BLANK, queues, reports, CallsOK, CallOK,
            Unmarked, Marked, Calls, Changing, Looking, EndsOK, SeesBoth, OnItsWay,
            ESTABLISHED, ChannelState
<1>23. ASSUME NEW c \in Core, Task(c) PROVE EndsOK'
  BY <1>1, <1>2, <1>3, <1>4, <1>5, <1>6, <1>7, <1>8, <1>9, <1>10, <1>11, <1>17, <1>18, <1>19,
     <1>20, <1>23
     DEF Task
<1>24. ASSUME NEW c \in Core, Handler(c) PROVE EndsOK'
  BY <1>12, <1>13, <1>14, <1>15, <1>16, <1>21, <1>24 DEF Handler
<1> QED
  BY <1>22, <1>23, <1>24 DEF Next

\* The node that is marked last has signalled before and notifies behind it;
\* a peer that clears this interrupt notifies in its turn.
LEMMA NodesOKStep ==
  TypeOK /\ CallsOK /\ DequeuesOK /\ NodesOK /\ [Next]_vars /\ ~disturbed' => NodesOK'
<1> SUFFICES ASSUME TypeOK, CallsOK, DequeuesOK, NodesOK, [Next]_vars, ~disturbed' PROVE NodesOK'
  OBVIOUS
<1>0. /\ call \in [Core -> Calls]
      /\ node \in [Core -> {INIT, UNINIT, BLANK}] /\ config \in [Core -> BOOLEAN]
      /\ endpoint \in [Core -> {CLOSED, OPEN}] /\ notified \in [Core -> BOOLEAN]
      /\ handler \in [Core -> {"idle", "channels", "nodes"}]
  BY DEF TypeOK, Calls, Places
<1> USE DEF Core, Peer, Goto, OPEN, CLOSED, INIT, UNINIT, BLANK, queues, reports, CallsOK, CallOK,
            Unmarked, Marked, Calls, NodesOK, OnItsWay, BothInitialized
<1>1. ASSUME NEW c \in Core, Initialize(c) PROVE NodesOK'
  BY <1>0, <1>1, QuietSteps, QueuesKept DEF Initialize, Begin, Idle
<1>2. ASSUME NEW c \in Core, Open(c) PROVE NodesOK'
  BY <1>0, <1>2, QuietSteps, QueuesKept DEF Open, Change, Begin, Idle
<1>3. ASSUME NEW c \in Core, Close(c) PROVE NodesOK'
  BY <1>0, <1>3, QuietSteps, QueuesKept DEF Close, Change, Begin, Idle
<1>4. ASSUME NEW c \in Core, Finalize(c) PROVE NodesOK'
  BY <1>0, <1>4, QuietSteps, QueuesKept DEF Finalize, Begin, Idle
<1>5. ASSUME NEW c \in Core, FinalizeClose(c) PROVE NodesOK'
  BY <1>0, <1>5, QuietSteps, QueuesKept DEF FinalizeClose
<1>6. ASSUME NEW c \in Core, LoadNode(c) PROVE NodesOK'
  BY <1>0, <1>6, QuietSteps, QueuesKept DEF LoadNode, Looked
<1>7. ASSUME NEW c \in Core, MarkInitialized(c) PROVE NodesOK'
  BY <1>0, <1>7, QuietSteps, QueuesKept DEF MarkInitialized
<1>8. ASSUME NEW c \in Core, InitInterrupts(c) PROVE NodesOK'
  BY <1>0, <1>8, QuietSteps, QueuesKept DEF InitInterrupts
<1>9. ASSUME NEW c \in Core, ClearInterrupt(c) PROVE NodesOK'
  BY <1>0, <1>9, QuietSteps, QueuesKept DEF ClearInterrupt
<1>10. ASSUME NEW c \in Core, NotifyPeer(c) PROVE NodesOK'
  BY <1>0, <1>10, QuietSteps, QueuesKept DEF NotifyPeer, Idle
<1>11. ASSUME NEW c \in Core, FinalizeEnd(c) PROVE NodesOK'
  BY <1>0, <1>11, QuietSteps, QueuesKept DEF FinalizeEnd, Idle
<1>12. ASSUME NEW c \in Core, HandlerStart(c) PROVE NodesOK'
  BY <1>0, <1>12, QuietSteps, QueuesKept DEF HandlerStart
<1>13. ASSUME NEW c \in Core, DequeueCheck(c) PROVE NodesOK'
  BY <1>0, <1>13, QuietSteps, QueuesKept DEF DequeueCheck
<1>14. ASSUME NEW c \in Core, DequeueLoad(c) PROVE NodesOK'
  BY <1>0, <1>14, QuietSteps, QueuesKept DEF DequeueLoad
<1>15. ASSUME NEW c \in Core, ChannelsEmpty(c) PROVE NodesOK'
  BY <1>0, <1>15, QuietSteps, QueuesKept DEF ChannelsEmpty
<1>16. ASSUME NEW c \in Core, HandlerEnd(c) PROVE NodesOK'
  <2>1. /\ handler[c] = "nodes" /\ NoNodeLeft(Peer(c)) /\ handler' = [handler EXCEPT ![c] = "idle"]
        /\ UNCHANGED <<node, config, endpoint, call, notified>>
    BY <1>16 DEF HandlerEnd, Reads, NoNodeLeft
  <2> QED
    BY <1>0, <1>16, <2>1, QuietSteps, QueuesKept
<1>17. ASSUME NEW c \in Core, LoadEndpoint(c) PROVE NodesOK'
  <2>1. /\ call[c].pc = "load_endpoint" /\ call'[c].pc = Looked(c)
        /\ call'[c].op = call[c].op /\ call'[c].saw = endpoint[Peer(c)]
        /\ call'[Peer(c)] = call[Peer(c)]
    BY <1>0, <1>17, LoadEndpointCall, QueueFacts
  <2>2. UNCHANGED <<node, config, endpoint, notified, handler>>
    BY <1>17 DEF LoadEndpoint, reports
  <2> QED
    BY <1>0, <1>17, <2>1, <2>2, QuietSteps, QueuesKept DEF Looked
<1>18. ASSUME NEW c \in Core, \/ EmptyChannelHead(c) \/ EmptyChannelTail(c)
                              \/ EmptyNodeHead(c) \/ EmptyNodeTail(c) PROVE NodesOK'
  <2>1. /\ call'[c].op = call[c].op /\ call'[c].saw = call[c].saw
        /\ call'[Peer(c)] = call[Peer(c)]
    BY <1>0, <1>18, CallSteps
  <2>2. /\ UNCHANGED <<node, config, endpoint, notified, handler>>
        /\ \/ EmptyChannelHead(c) /\ call[c].pc = "channel_head" /\ call'[c].pc = "channel_tail"
           \/ EmptyChannelTail(c) /\ call[c].pc = "channel_tail" /\ call'[c].pc = "signal"
           \/ EmptyNodeHead(c) /\ call[c].pc = "node_head" /\ call'[c].pc = "node_tail"
           \/ EmptyNodeTail(c) /\ call[c].pc = "node_tail" /\ call'[c].pc = "signal_node"
    BY <1>0, <1>18, EmptyPlaces
       DEF EmptyChannelHead, EmptyChannelTail, EmptyNodeHead, EmptyNodeTail, Places
  <2> QED
    BY <1>0, <1>18, <2>1, <2>2, EmptyingSteps
<1>19. ASSUME NEW c \in Core, SignalChannel(c) PROVE NodesOK'
  <2>1. /\ call'[c].op = call[c].op /\ call'[c].saw = call[c].saw
        /\ call'[Peer(c)] = call[Peer(c)]
    BY <1>0, <1>19, CallSteps
  <2>2. /\ UNCHANGED <<node, config, endpoint, notified, handler>>
        /\ call[c].pc = "signal" /\ call'[c].pc \in {"notify", "node_head", "signal_node"}
    BY <1>0, <1>19 DEF SignalChannel, reports
  <2> QED
    BY <1>0, <1>19, <2>1, <2>2, SignalChannelNewest, SignalKinds
<1>20. ASSUME NEW c \in Core, SignalNode(c) PROVE NodesOK'
  <2>1. /\ call'[c].op = call[c].op /\ call'[c].saw = call[c].saw
        /\ call'[Peer(c)] = call[Peer(c)]
    BY <1>0, <1>20, CallSteps
  <2>2. /\ UNCHANGED <<node, config, endpoint, notified, handler>>
        /\ call[c].pc = "signal_node"
        /\ call'[c].pc = IF call[c].op = "initialize" THEN "mark" ELSE "notify"
    BY <1>0, <1>20 DEF SignalNode, reports
  <2> QED
    BY <1>0, <1>20, <2>1, <2>2, SignalNodeNewest
<1>21. ASSUME NEW c \in Core, DequeueStore(c) PROVE NodesOK'
  <2>1. UNCHANGED <<node, config, endpoint, call, notified, handler>> /\ handler[c] # "idle"
    BY <1>21 DEF DequeueStore, AtStep
  <2> QED
    BY <1>0, <1>21, <2>1, DequeueSteps
<1>22. CASE UNCHANGED vars
  BY <1>22, QueuesKept DEF vars, queues, reports
<1> HIDE DEF Core, Peer, Goto, OPEN, CLOSED, INIT, UNINIT, BLANK, queues, reports, CallsOK, CallOK,
            Unmarked, Marked, Calls, NodesOK, OnItsWay, BothInitialized
<1>23. ASSUME NEW c \in Core, Task(c) PROVE NodesOK'
  BY <1>1, <1>2, <1>3, <1>4, <1>5, <1>6, <1>7, <1>8, <1>9, <1>10, <1>11, <1>17, <1>18, <1>19,
     <1>20, <1>23
     DEF Task
<1>24. ASSUME NEW c \in Core, Handler(c) PROVE NodesOK'
  BY <1>12, <1>13, <1>14, <1>15, <1>16, <1>21, <1>24 DEF Handler
<1> QED
  BY <1>22, <1>23, <1>24 DEF Next

-----------------------------------------------------------------------------
\* Before the first call.
LEMMA InitStatesInv == Init => StatesInv
<1> SUFFICES ASSUME Init PROVE StatesInv
  OBVIOUS
<1>1. TypeOK
  <2>1. PICK memory \in {UNINIT, BLANK} : node = [c \in Core |-> memory]
    BY DEF Init
  <2>2. /\ 0 \in 0 .. QueueSlots - 1 /\ Unreported \in SigValues /\ CLOSED \in {CLOSED, OPEN}
    BY BoundsAssumption DEF SigValues, CLOSED, OPEN
  <2>3. node \in [Core -> {INIT, UNINIT, BLANK}]
    BY <2>1
  <2>4. /\ config \in [Core -> BOOLEAN] /\ endpoint \in [Core -> {CLOSED, OPEN}]
        /\ notified \in [Core -> BOOLEAN] /\ disturbed \in BOOLEAN
        /\ lives \in [Core -> Nat] /\ changes \in [Core -> Nat]
        /\ handler \in [Core -> {"idle", "channels", "nodes"}]
    BY <2>2 DEF Init
  <2>5. /\ sigHead \in [QueueIds -> 0 .. QueueSlots - 1]
        /\ sigTail \in [QueueIds -> 0 .. QueueSlots - 1]
        /\ sigSlots \in [QueueIds -> [0 .. QueueSlots - 1 -> SigValues]]
        /\ told \in [QueueIds -> SigValues]
    BY <2>2 DEF Init
  <2>6. call \in [Core -> Calls]
    BY IdleCall DEF Init
  <2>7. NoDequeue \in [pc: {"check", "load", "store"},
                       head: 0 .. QueueSlots - 1, signal: SigValues]
    BY <2>2 DEF NoDequeue
  <2>8. dequeue \in [Core -> [pc: {"check", "load", "store"},
                              head: 0 .. QueueSlots - 1, signal: SigValues]]
    BY <2>7 DEF Init
  <2> QED
    BY <2>3, <2>4, <2>5, <2>6, <2>8 DEF TypeOK, Calls, Places
<1>2. CallsOK
  BY DEF CallsOK, CallOK, Init, Idle, INIT, UNINIT, BLANK
<1>3. \A c \in Core : LastChannel(c) = Unreported /\ node[c] # INIT /\ call[c].pc = "idle"
  BY QueueFacts DEF Init, LastChannel, Newest, Empty, Idle, INIT, UNINIT, BLANK
<1>4. DequeuesOK
  BY DEF DequeuesOK, DequeueOK, Init, NoDequeue
<1>5. SignalsTrue
  BY <1>3 DEF SignalsTrue
<1>6. EndsOK /\ NodesOK
  BY <1>3 DEF EndsOK, NodesOK, BothInitialized, Core
<1> QED
  BY <1>1, <1>2, <1>4, <1>5, <1>6 DEF StatesInv, ReportsOK

\* Every behaviour keeps the invariant.
LEMMA StatesInvariant == Spec => []StatesInv
<1>1. StatesInv /\ [Next]_vars => StatesInv'
  BY TypeOKStep, CallsOKStep, DisturbedStays, DequeuesOKStep, SignalsTrueStep, EndsOKStep,
     NodesOKStep DEF StatesInv, ReportsOK
<1> QED
  BY <1>1, InitStatesInv, PTL DEF Spec

\* Every variable of the two cores holds a value the code can store in it.
THEOREM StatesTypeCorrect == Spec => []TypeOK
  BY StatesInvariant, PTL DEF StatesInv

\* Two nodes that initialize at the same time do not both miss the other one:
\* the interrupt that ICC_OS_Init_Interrupts clears is made up for by the
\* notification with which the same ICC_Initialize ends.
THEOREM OneNodeIsTold == Spec => []NodesMeet
<1>1. StatesInv => NodesMeet
  <2> SUFFICES ASSUME StatesInv, BothInitialized, Quiet, ~disturbed
               PROVE  \E c \in Core : told[<<"nodes", c>>] = INIT
    BY DEF NodesMeet
  <2>1. PICK c \in Core : OnItsWay(c, NoNodeLeft(c), {"channels", "nodes"})
    BY DEF StatesInv, ReportsOK, NodesOK
  <2>2. LastNode(c) = INIT /\ NoNodeLeft(c)
    BY <2>1, QueueFacts DEF StatesInv, ReportsOK, NodesOK, BothInitialized, Quiet, OnItsWay
  <2> QED
    BY <2>2 DEF LastNode, NoNodeLeft, Newest
<1> QED
  BY <1>1, StatesInvariant, PTL

\* Of two cores that open their ends at the same time one at least is told that
\* the channel is established (ICC_Open_Channel, ICC_Get_Channel_State).
THEOREM OneEndIsTold == Spec => []EndsMeet
<1>1. StatesInv => EndsMeet
  <2> SUFFICES ASSUME StatesInv, BothInitialized, Quiet, ~disturbed,
                      \A c \in Core : endpoint[c] = OPEN
               PROVE  \E c \in Core : told[<<"channels", c>>] = ESTABLISHED
    BY DEF EndsMeet
  <2>1. PICK c \in Core : SeesBoth(c)
    BY DEF StatesInv, ReportsOK, EndsOK, BothInitialized
  <2>2. call[c].pc = "idle" /\ ~notified[Peer(c)] /\ handler[Peer(c)] = "idle"
    BY QueueFacts DEF Quiet
  <2>3. LastChannel(c) = ESTABLISHED /\ NoChannelLeft(c)
    BY <2>1, <2>2 DEF SeesBoth, Looking, OnItsWay
  <2> QED
    BY <2>3 DEF LastChannel, NoChannelLeft, Newest
<1> QED
  BY <1>1, StatesInvariant, PTL

\* What Channel_Update_Cb was told last agrees with the peer's end once no
\* signal is left, over any number of restarts that empty the queue, as long as
\* none of them does so between two steps of the reader's dequeue: every change
\* of an end point is signalled after it is made, and so is the state in which
\* ICC_Initialize leaves it.
THEOREM LastReportIsTrue == Spec => []ReportsCatchUp
<1>1. StatesInv => ReportsCatchUp
  <2> SUFFICES ASSUME StatesInv, BothInitialized, Quiet, ~disturbed, NEW c \in Core,
                      Empty(<<"channels", c>>), told[<<"channels", c>>] # Unreported
               PROVE  LocalEnd(told[<<"channels", c>>]) = endpoint[c]
    BY DEF ReportsCatchUp
  <2>1. LastChannel(c) = told[<<"channels", c>>] /\ ~Changing(c)
    BY DEF LastChannel, Newest, Changing, Looking, Quiet
  <2> QED
    BY <2>1 DEF StatesInv, ReportsOK, SignalsTrue
<1> QED
  BY <1>1, StatesInvariant, PTL
-----------------------------------------------------------------------------
(***************************************************************************)
(* One queue that is never emptied, for every size of it and store by      *)
(* store (SigFifo), overflows included, which ChannelStates excepts.  The  *)
(* invariant says which signal each slot from head to tail holds, and that *)
(* an overflow finds the queue full and the reader away; it holds until a  *)
(* step of the reader meets an overflow (raced), behind which the indexes  *)
(* alone stay correct.                                                     *)
(***************************************************************************)
CONSTANT SignalBound

Signals == INSTANCE SigFifo

\* What SigFifo assumes of its constants.
SignalBounds == MaxSignals \in Nat \ {0, 1} /\ SignalBound \in Nat

\* A signal that found the queue full is on its way into the queue.
Overflowing == wpc # "idle" /\ fullAt = count

\* How many slots a slot lies behind head, and how many signals were dequeued
\* or overwritten before the one at head.
Behind(slot) == IF slot >= head THEN slot - head ELSE slot - head + MaxSignals
Delivering == Signals!Queued - Behind(tail)

\* The writer: where it stores, and what it has stored.
SignalSteps ==
  /\ wpc # "idle" => count >= 1
  /\ wpc = "overwrite" => fullAt = count
OverflowOK ==
  Overflowing => /\ Behind(tail) = MaxSignals - 1 /\ rpc = "idle"
                 /\ wpc # "overwrite" => wtail = head
SignalOK ==
  wpc # "idle" /\ ~Overflowing => wtail = tail /\ Behind(tail) < MaxSignals - 1
StoredOK == wpc = "advance" => slots[wtail] = count

\* The slots from head to tail hold consecutive signals, but for the one that
\* an overflow has just taken.
SlotsOK ==
  \A k \in Signals!Slots :
    \/ Behind(k) >= Behind(tail)
    \/ Overflowing /\ wpc = "advance" /\ k = head
    \/ slots[k] = Delivering + Behind(k) + 1

\* The reader works on a signal that is in the queue.
ReaderOK ==
  /\ rpc # "idle" => head # tail
  /\ rpc = "advance" => rsig = slots[head]

QueueOK ==
  ~raced => /\ OverflowOK /\ SignalOK /\ StoredOK /\ SlotsOK /\ ReaderOK
            /\ Delivering >= 0 /\ Signals!EndsRecent(delivered, Delivering)
SignalsInv == Signals!TypeOK /\ SignalSteps /\ QueueOK

\* Type correctness needs only that a call in progress has been counted.
LEMMA SignalsTypeStep ==
  ASSUME SignalBounds, Signals!TypeOK, SignalSteps, [Signals!Next]_(Signals!vars)
  PROVE  Signals!TypeOK'
<1> USE DEF SignalBounds, Signals!TypeOK, SignalSteps, Signals!Slots, Signals!After, Signals!writerVars, Signals!readerVars
<1>1. CASE Signals!SignalCheck
  <2> USE <1>1 DEF Signals!SignalCheck
  <2>1. raced' \in BOOLEAN
    OBVIOUS
  <2>2. /\ count' \in 0 .. SignalBound /\ wtail' \in Signals!Slots /\ fullAt' \in 0 .. count'
        /\ wpc' \in {"idle", "overwrite", "store", "advance"}
    OBVIOUS
  <2>3. UNCHANGED <<tail, slots, head, rpc, rsig, delivered>>
    OBVIOUS
  <2> QED
    BY ONLY <2>1, <2>2, <2>3, Signals!TypeOK DEF Signals!TypeOK, Signals!Slots
<1>2. CASE Signals!SignalOverwrite
  BY <1>2 DEF Signals!SignalOverwrite
<1>3. CASE Signals!SignalStore
  BY <1>3 DEF Signals!SignalStore
<1>4. CASE Signals!SignalAdvance
  BY <1>4 DEF Signals!SignalAdvance
<1>5. CASE Signals!DequeueCheck
  BY <1>5 DEF Signals!DequeueCheck
<1>6. CASE Signals!DequeueLoad
  BY <1>6 DEF Signals!DequeueLoad
<1>7. CASE Signals!DequeueAdvance
  BY <1>7 DEF Signals!DequeueAdvance
<1>8. CASE UNCHANGED Signals!vars
  BY <1>8 DEF Signals!vars
<1> QED
  BY <1>1, <1>2, <1>3, <1>4, <1>5, <1>6, <1>7, <1>8 DEF Signals!Next, Signals!Writer,
     Signals!Reader

\* The writer's steps.
LEMMA SignalStepsStep ==
  ASSUME Signals!TypeOK, SignalSteps, [Signals!Next]_(Signals!vars)
  PROVE  SignalSteps'
  BY DEF SignalSteps, Signals!TypeOK, Signals!Next, Signals!Writer, Signals!Reader, Signals!vars,
         Signals!writerVars, Signals!readerVars, Signals!SignalCheck, Signals!SignalOverwrite,
         Signals!SignalStore, Signals!SignalAdvance, Signals!DequeueCheck, Signals!DequeueLoad,
         Signals!DequeueAdvance

\* What the remainder of an index that left the queue by one lap is.
LEMMA Wraps ==
  ASSUME NEW m \in Nat \ {0}, NEW x \in Int, -m <= x, x < 2 * m
  PROVE  x % m = IF x < 0 THEN x + m ELSE IF x < m THEN x ELSE x - m
<1> DEFINE q == x \div m
           e == x % m
<1>1. q \in Int /\ e \in 0 .. m - 1 /\ x = m * q + e
  OBVIOUS
<1> HIDE DEF q, e
<1>2. q \in {-1, 0, 1}
  <2>1. q >= 2 => m * q >= 2 * m
    BY <1>1
  <2>2. q <= -2 => m * q <= -2 * m
    BY <1>1
  <2> QED
    BY <1>1, <2>1, <2>2
<1>3. e = IF x < 0 THEN x + m ELSE IF x < m THEN x ELSE x - m
  <2>1. CASE q = -1
    BY <1>1, <2>1
  <2>2. CASE q = 0
    BY <1>1, <2>2
  <2>3. CASE q = 1
    BY <1>1, <2>3
  <2> QED
    BY <1>2, <2>1, <2>2, <2>3
<1> QED
  BY <1>3 DEF e

\* The distances from head are slots, and say how full the queue is.
LEMMA SignalsBehind ==
  ASSUME SignalBounds, Signals!TypeOK
  PROVE  /\ \A k \in Signals!Slots : Behind(k) \in Signals!Slots /\ (Behind(k) = 0 <=> k = head)
         /\ \A k, l \in Signals!Slots : Behind(k) = Behind(l) <=> k = l
         /\ Signals!Queued \in Int /\ Delivering \in Int
         /\ Signals!Full <=> Behind(tail) = MaxSignals - 1
         /\ Signals!Length = Behind(tail)
<1> USE DEF SignalBounds, Signals!TypeOK, Signals!Slots, Behind
<1>1. /\ \A k \in Signals!Slots : Behind(k) \in Signals!Slots /\ (Behind(k) = 0 <=> k = head)
      /\ \A k, l \in Signals!Slots : Behind(k) = Behind(l) <=> k = l
  OBVIOUS
<1>2. Signals!Queued \in Int /\ Delivering \in Int
  BY DEF Signals!Queued, Delivering
<1>3. /\ (tail + 1) % MaxSignals = IF tail = MaxSignals - 1 THEN 0 ELSE tail + 1
      /\ (tail - head) % MaxSignals = Behind(tail)
  <2> DEFINE next == tail + 1
             length == tail - head
  <2>1. /\ MaxSignals \in Nat \ {0} /\ next \in Int /\ length \in Int
        /\ -MaxSignals <= next /\ next < 2 * MaxSignals
        /\ -MaxSignals <= length /\ length < 2 * MaxSignals
    OBVIOUS
  <2>2. /\ (next < 0 <=> FALSE) /\ (next < MaxSignals <=> tail # MaxSignals - 1)
        /\ next = MaxSignals \/ tail # MaxSignals - 1
        /\ (length < 0 <=> tail < head) /\ length < MaxSignals
        /\ Behind(tail) = IF length < 0 THEN length + MaxSignals ELSE length
        /\ tail = MaxSignals - 1 => next - MaxSignals = 0
    OBVIOUS
  <2> HIDE DEF next, length
  <2>3. next % MaxSignals = IF next < 0 THEN next + MaxSignals ELSE IF next < MaxSignals THEN next ELSE next - MaxSignals
    BY ONLY <2>1, Wraps
  <2>4. length % MaxSignals = IF length < 0 THEN length + MaxSignals ELSE IF length < MaxSignals THEN length ELSE length - MaxSignals
    BY ONLY <2>1, Wraps
  <2>5. next % MaxSignals = IF tail = MaxSignals - 1 THEN 0 ELSE next
    BY ONLY <2>2, <2>3
  <2>6. length % MaxSignals = Behind(tail)
    BY ONLY <2>2, <2>4
  <2> QED
    BY ONLY <2>5, <2>6 DEF next, length
<1> DEFINE full == (tail + 1) % MaxSignals
<1> HIDE DEF full
<1>4. full = head <=> Behind(tail) = MaxSignals - 1
  <2>1. full = IF tail = MaxSignals - 1 THEN 0 ELSE tail + 1
    BY <1>3 DEF full
  <2> QED
    BY <2>1
<1>5. Signals!Full <=> Behind(tail) = MaxSignals - 1
  BY ONLY <1>4 DEF Signals!Full, full
<1>6. Signals!Length = Behind(tail)
  BY ONLY <1>3 DEF Signals!Length
<1> QED
  BY <1>1, <1>2, <1>5, <1>6

\* No signal of a sequence that ends with the recent ones is newer than they are.
LEMMA NoneNewer ==
  ASSUME NEW s \in Seq(Int), NEW last \in Nat, fullAt \in Nat, Signals!EndsRecent(s, last)
  PROVE  \A i \in 1 .. Len(s) : s[i] <= fullAt \/ s[i] <= last
  BY DEF Signals!EndsRecent, Signals!Recent

\* The next signal continues such a sequence.
LEMMA NextContinues ==
  ASSUME NEW s \in Seq(Int), NEW last \in Nat, NEW next \in Nat, next = last + 1,
         fullAt \in Nat, Signals!EndsRecent(s, last)
  PROVE  Signals!EndsRecent(Append(s, next), next)
<1> DEFINE t == Append(s, next)
<1>1. /\ Len(t) = Len(s) + 1 /\ Len(s) \in Nat
      /\ \A i \in 1 .. Len(t) : t[i] = IF i = Len(s) + 1 THEN next ELSE s[i]
  OBVIOUS
<1>2. \A i \in 1 .. Len(s) : s[i] \in Int
  OBVIOUS
<1> SUFFICES Signals!EndsRecent(t, next)
  OBVIOUS
<1> HIDE DEF t
<1>3. CASE last < fullAt
  <2>1. Signals!Recent(last) = 0 /\ Signals!Recent(next) = 0
    BY <1>3 DEF Signals!Recent
  <2>2. \A i \in 1 .. Len(s) : s[i] <= fullAt
    BY <1>1, <2>1 DEF Signals!EndsRecent
  <2>3. \A i \in 1 .. Len(t) : t[i] <= fullAt /\ i <= Len(t) - 0
    BY <1>1, <1>3, <2>2
  <2> QED
    BY <1>1, <2>1, <2>3 DEF Signals!EndsRecent
<1>4. CASE ~(last < fullAt)
  <2> DEFINE older == Len(s) - Signals!Recent(last)
  <2>0. Signals!Recent(last) = last - fullAt
    BY <1>1, <1>4 DEF Signals!Recent
  <2>1. older = Len(s) - (last - fullAt) /\ older >= 0 /\ older \in Int
    BY <1>1, <2>0 DEF Signals!EndsRecent
  <2>2. \A i \in 1 .. Len(s) : IF i <= older THEN s[i] <= fullAt ELSE s[i] = fullAt + (i - older)
    BY DEF Signals!EndsRecent
  <2>3. Len(t) - Signals!Recent(next) = older
    BY <1>1, <1>4, <2>1 DEF Signals!Recent
  <2> HIDE DEF older
  <2>4. \A i \in 1 .. Len(t) : IF i <= older THEN t[i] <= fullAt ELSE t[i] = fullAt + (i - older)
    <3>1. fullAt \in Int /\ next = fullAt + (Len(s) + 1 - older) /\ older <= Len(s)
      BY <1>1, <1>4, <2>1
    <3>2. ASSUME NEW i \in 1 .. Len(t), i <= Len(s)
          PROVE  IF i <= older THEN t[i] <= fullAt ELSE t[i] = fullAt + (i - older)
      BY ONLY <1>1, <2>2, <3>2
    <3>3. ASSUME NEW i \in 1 .. Len(t), i = Len(s) + 1
          PROVE  IF i <= older THEN t[i] <= fullAt ELSE t[i] = fullAt + (i - older)
      <4>1. ~(i <= older) /\ t[i] = next
        BY ONLY <1>1, <2>1, <3>1, <3>3
      <4> QED
        BY ONLY <1>1, <2>1, <3>1, <3>3, <4>1
    <3>4. \A i \in 1 .. Len(t) : i <= Len(s) \/ i = Len(s) + 1
      BY ONLY <1>1
    <3> QED
      BY ONLY <3>2, <3>3, <3>4
  <2>5. /\ Len(t) - Signals!Recent(next) >= 0
        /\ \A i \in 1 .. Len(t) : IF i <= Len(t) - Signals!Recent(next) THEN t[i] <= fullAt
             ELSE t[i] = fullAt + (i - (Len(t) - Signals!Recent(next)))
    BY ONLY <2>1, <2>3, <2>4
  <2> QED
    BY ONLY <2>5 DEF Signals!EndsRecent
<1> QED
  BY <1>3, <1>4

\* ICC_Sig_Fifo_Signal looks whether the queue is full.
LEMMA SignalCheckKeeps ==
  ASSUME SignalBounds, SignalsInv, Signals!TypeOK', ~raced', Signals!SignalCheck
  PROVE  /\ OverflowOK' /\ SignalOK' /\ StoredOK' /\ SlotsOK' /\ ReaderOK'
         /\ Delivering' >= 0 /\ Signals!EndsRecent(delivered, Delivering)'
<1> USE DEF Signals!SignalCheck, Signals!writerVars, Signals!readerVars, Signals!After, Signals!OverflowUnderway,
        SignalBounds, Signals!TypeOK, SignalSteps, Signals!Slots, Signals!Empty
<1>1. /\ OverflowOK /\ SignalOK /\ StoredOK /\ SlotsOK /\ ReaderOK
      /\ Delivering >= 0 /\ Signals!EndsRecent(delivered, Delivering)
      /\ Signals!TypeOK /\ SignalSteps /\ Signals!TypeOK'
  BY DEF SignalsInv, QueueOK
<1>2. /\ Delivering \in Int /\ (Signals!Full <=> Behind(tail) = MaxSignals - 1)
      /\ Behind(tail) \in Signals!Slots
  BY SignalsBehind, <1>1
<1>3. OverflowOK'
  BY <1>1, <1>2 DEF OverflowOK, SignalOK, ReaderOK, Overflowing, Behind
<1>4. SignalOK'
  BY <1>1, <1>2 DEF OverflowOK, SignalOK, ReaderOK, Overflowing, Behind
<1>5. StoredOK'
  BY <1>1, <1>2 DEF StoredOK
<1>6. ReaderOK'
  BY <1>1, <1>2 DEF OverflowOK, SignalOK, StoredOK, SlotsOK, ReaderOK, Overflowing, Behind
<1>7. SlotsOK'
  <2>1. UNCHANGED <<head, tail, slots>> /\ wpc' # "advance" /\ Signals!Queued' = Signals!Queued
        /\ ~(Overflowing /\ wpc = "advance") 
    BY <1>1 DEF Overflowing, Signals!Queued
  <2> QED
    BY ONLY <1>1, <2>1 DEF SlotsOK, Overflowing, Behind, Delivering
<1>8. Delivering' >= 0
  BY <1>1, <1>2 DEF OverflowOK, SignalOK, ReaderOK, Overflowing, Behind, Delivering,
     Signals!Queued
<1>9. Signals!EndsRecent(delivered, Delivering)'
  <2>1. UNCHANGED <<Delivering, delivered>>
    BY <1>1 DEF Delivering, Behind, Signals!Queued
  <2>2. CASE UNCHANGED fullAt
    BY ONLY <1>1, <2>1, <2>2 DEF Signals!EndsRecent, Signals!Recent
  <2>3. CASE fullAt' = count + 1
    <3>1. Delivering <= count /\ Delivering \in Nat /\ delivered \in Seq(Int)
      <4>1. Signals!Queued <= count /\ Signals!Queued \in Int /\ count \in Int
        BY <1>1 DEF Signals!Queued
      <4>2. Behind(tail) >= 0 /\ Behind(tail) \in Int
        BY <1>1, <1>2
      <4>3. delivered \in Seq(Int)
        BY <1>1
      <4>4. Delivering = Signals!Queued - Behind(tail) /\ Delivering >= 0 /\ Delivering \in Int
        BY ONLY <1>1, <1>2 DEF Delivering
      <4> QED
        BY ONLY <4>1, <4>2, <4>3, <4>4
    <3>2. \A i \in 1 .. Len(delivered) : delivered[i] <= fullAt \/ delivered[i] <= Delivering
      <4>1. fullAt \in Nat /\ Signals!EndsRecent(delivered, Delivering)
        BY <1>1
      <4> QED
        BY ONLY <3>1, <4>1, NoneNewer
    <3>3. \A i \in 1 .. Len(delivered) : delivered[i] <= fullAt'
      <4>1. \A i \in 1 .. Len(delivered) : delivered[i] \in Int
        BY ONLY <3>1
      <4>2. fullAt \in Int /\ count \in Int /\ fullAt <= count
        BY <1>1
      <4> QED
        BY ONLY <2>3, <3>1, <3>2, <4>1, <4>2
    <3>4. Signals!Recent(Delivering)' = 0 /\ count \in Int
      BY <1>1, <2>1, <2>3, <3>1 DEF Signals!Recent
    <3>5. Len(delivered) \in Nat
      BY ONLY <3>1
    <3>6. \A i \in 1 .. Len(delivered) : i <= Len(delivered) - 0
      BY ONLY <3>5
    <3> QED
      BY ONLY <2>1, <3>3, <3>4, <3>5, <3>6 DEF Signals!EndsRecent
  <2> QED
    BY <2>2, <2>3
<1> QED
  BY <1>3, <1>4, <1>5, <1>6, <1>7, <1>8, <1>9

\* It takes the slot at head.
LEMMA SignalOverwriteKeeps ==
  ASSUME SignalBounds, SignalsInv, Signals!TypeOK', ~raced', Signals!SignalOverwrite
  PROVE  /\ OverflowOK' /\ SignalOK' /\ StoredOK' /\ SlotsOK' /\ ReaderOK'
         /\ Delivering' >= 0 /\ Signals!EndsRecent(delivered, Delivering)'
<1> USE DEF Signals!SignalOverwrite, Signals!writerVars, Signals!readerVars, Signals!After, Signals!OverflowUnderway,
        SignalBounds, Signals!TypeOK, SignalSteps, Signals!Slots, Signals!Empty
<1>1. /\ OverflowOK /\ SignalOK /\ StoredOK /\ SlotsOK /\ ReaderOK
      /\ Delivering >= 0 /\ Signals!EndsRecent(delivered, Delivering)
      /\ Signals!TypeOK /\ SignalSteps /\ Signals!TypeOK'
  BY DEF SignalsInv, QueueOK
<1>2. /\ Delivering \in Int /\ (Signals!Full <=> Behind(tail) = MaxSignals - 1)
      /\ Behind(tail) \in Signals!Slots
  BY SignalsBehind, <1>1
<1>3. OverflowOK'
  BY <1>1, <1>2 DEF OverflowOK, SignalOK, ReaderOK, Overflowing, Behind
<1>4. SignalOK'
  BY <1>1, <1>2 DEF OverflowOK, SignalOK, ReaderOK, Overflowing, Behind
<1>5. StoredOK'
  BY <1>1, <1>2 DEF StoredOK
<1>6. ReaderOK'
  BY <1>1, <1>2 DEF OverflowOK, SignalOK, StoredOK, SlotsOK, ReaderOK, Overflowing, Behind
<1>7. SlotsOK'
  BY <1>1, <1>2 DEF OverflowOK, SignalOK, StoredOK, SlotsOK, ReaderOK, Overflowing, Behind,
     Delivering, Signals!Queued
<1>8. Delivering' >= 0
  BY <1>1, <1>2 DEF OverflowOK, SignalOK, ReaderOK, Overflowing, Behind, Delivering,
     Signals!Queued
<1>9. Signals!EndsRecent(delivered, Delivering)'
  BY <1>1, <1>2 DEF OverflowOK, SignalOK, ReaderOK, Overflowing, Behind, Delivering,
     Signals!Queued, Signals!EndsRecent, Signals!Recent
<1> QED
  BY <1>3, <1>4, <1>5, <1>6, <1>7, <1>8, <1>9

\* It stores the signal.
LEMMA SignalStoreKeeps ==
  ASSUME SignalBounds, SignalsInv, Signals!TypeOK', ~raced', Signals!SignalStore
  PROVE  /\ OverflowOK' /\ SignalOK' /\ StoredOK' /\ SlotsOK' /\ ReaderOK'
         /\ Delivering' >= 0 /\ Signals!EndsRecent(delivered, Delivering)'
<1> USE DEF Signals!SignalStore, Signals!writerVars, Signals!readerVars, Signals!After, Signals!OverflowUnderway,
        SignalBounds, Signals!TypeOK, SignalSteps, Signals!Slots, Signals!Empty
<1>1. /\ OverflowOK /\ SignalOK /\ StoredOK /\ SlotsOK /\ ReaderOK
      /\ Delivering >= 0 /\ Signals!EndsRecent(delivered, Delivering)
      /\ Signals!TypeOK /\ SignalSteps /\ Signals!TypeOK'
  BY DEF SignalsInv, QueueOK
<1>2. /\ Delivering \in Int /\ (Signals!Full <=> Behind(tail) = MaxSignals - 1)
      /\ Behind(tail) \in Signals!Slots
  BY SignalsBehind, <1>1
<1>3. OverflowOK'
  BY <1>1, <1>2 DEF OverflowOK, SignalOK, ReaderOK, Overflowing, Behind
<1>4. SignalOK'
  BY <1>1, <1>2 DEF OverflowOK, SignalOK, ReaderOK, Overflowing, Behind
<1>5. StoredOK'
  BY <1>1, <1>2 DEF StoredOK
<1>6. ReaderOK'
  BY <1>1, <1>2 DEF OverflowOK, SignalOK, StoredOK, SlotsOK, ReaderOK, Overflowing, Behind
<1>7. SlotsOK'
  BY <1>1, <1>2 DEF OverflowOK, SignalOK, StoredOK, SlotsOK, ReaderOK, Overflowing, Behind,
     Delivering, Signals!Queued
<1>8. Delivering' >= 0
  BY <1>1, <1>2 DEF OverflowOK, SignalOK, ReaderOK, Overflowing, Behind, Delivering,
     Signals!Queued
<1>9. Signals!EndsRecent(delivered, Delivering)'
  BY <1>1, <1>2 DEF OverflowOK, SignalOK, ReaderOK, Overflowing, Behind, Delivering,
     Signals!Queued, Signals!EndsRecent, Signals!Recent
<1> QED
  BY <1>3, <1>4, <1>5, <1>6, <1>7, <1>8, <1>9

\* It stores tail: in an overflow the new signal is the only one.
LEMMA SignalAdvanceKeeps ==
  ASSUME SignalBounds, SignalsInv, Signals!TypeOK', ~raced', Signals!SignalAdvance
  PROVE  /\ OverflowOK' /\ SignalOK' /\ StoredOK' /\ SlotsOK' /\ ReaderOK'
         /\ Delivering' >= 0 /\ Signals!EndsRecent(delivered, Delivering)'
<1> USE DEF Signals!SignalAdvance, Signals!writerVars, Signals!readerVars, Signals!After, Signals!OverflowUnderway,
        SignalBounds, Signals!TypeOK, SignalSteps, Signals!Slots, Signals!Empty
<1>1. /\ OverflowOK /\ SignalOK /\ StoredOK /\ SlotsOK /\ ReaderOK
      /\ Delivering >= 0 /\ Signals!EndsRecent(delivered, Delivering)
      /\ Signals!TypeOK /\ SignalSteps /\ Signals!TypeOK'
  BY DEF SignalsInv, QueueOK
<1>2. /\ Delivering \in Int /\ (Signals!Full <=> Behind(tail) = MaxSignals - 1)
      /\ Behind(tail) \in Signals!Slots
  BY SignalsBehind, <1>1
<1>3. OverflowOK'
  BY <1>1, <1>2 DEF OverflowOK, SignalOK, ReaderOK, Overflowing, Behind
<1>4. SignalOK'
  BY <1>1, <1>2 DEF OverflowOK, SignalOK, ReaderOK, Overflowing, Behind
<1>5. StoredOK'
  BY <1>1, <1>2 DEF StoredOK
<1>6. ReaderOK'
  BY <1>1, <1>2 DEF OverflowOK, SignalOK, StoredOK, SlotsOK, ReaderOK, Overflowing, Behind
<1>7. SlotsOK'
  <2>1. UNCHANGED <<head, slots>> /\ wpc' = "idle" /\ head \in Signals!Slots /\ tail' = Signals!After(wtail)
        /\ Signals!Queued = count - 1 /\ Signals!Queued' = count
    BY <1>1 DEF Signals!Queued
  <2>2. CASE Overflowing
    <3>1. wtail = head /\ Behind(tail)' = 1 /\ Delivering' = count - 1 /\ slots'[head] = count
      BY <1>1, <2>1, <2>2 DEF OverflowOK, StoredOK, Behind, Delivering
    <3>2. \A k \in Signals!Slots : Behind(k)' >= 1 \/ k = head
      BY <1>1, <2>1 DEF Behind
    <3>3. Behind(head)' = 0
      BY <1>1, <2>1 DEF Behind
    <3> QED
      BY <1>1, <2>1, <3>1, <3>2, <3>3 DEF SlotsOK
  <2>3. CASE ~Overflowing
    <3>1. wtail = tail /\ Behind(tail)' = Behind(tail) + 1 /\ Delivering' = Delivering /\ slots'[tail] = count
      BY <1>1, <1>2, <2>1, <2>3 DEF SignalOK, StoredOK, Behind, Delivering, Overflowing
    <3>2. \A k \in Signals!Slots : Behind(k)' = Behind(k) /\ Behind(k) \in Int /\ (Behind(k) = Behind(tail) => k = tail)
      BY <1>1, <2>1 DEF Behind
    <3>3. count = Delivering + Behind(tail) + 1
      BY <1>1, <1>2, <2>1 DEF Delivering
    <3>4. ASSUME NEW k \in Signals!Slots
          PROVE  Behind(k)' >= Behind(tail)' \/ slots'[k] = Delivering' + Behind(k)' + 1
      <4>1. CASE k = tail
        BY <3>1, <3>2, <3>3, <4>1, <1>1
      <4>2. CASE k # tail
        <5>1. Behind(k) >= Behind(tail) \/ slots[k] = Delivering + Behind(k) + 1
          BY ONLY <1>1, <2>3, <3>4 DEF SlotsOK
        <5>2. slots'[k] = slots[k]
          BY <1>1, <3>1, <4>2
        <5>3. Behind(k)' = Behind(k) /\ Behind(k) \in Int /\ Behind(k) # Behind(tail) /\ Behind(tail) \in Int
          BY ONLY <1>2, <3>2, <3>4, <4>2 DEF Signals!Slots
        <5> QED
          BY ONLY <1>2, <3>1, <5>1, <5>2, <5>3
      <4> QED
        BY <4>1, <4>2
    <3> QED
      BY <3>4 DEF SlotsOK
  <2> QED
    BY <2>2, <2>3
<1>8. Delivering' >= 0
  BY <1>1, <1>2 DEF OverflowOK, SignalOK, ReaderOK, Overflowing, Behind, Delivering,
     Signals!Queued
<1>9. Signals!EndsRecent(delivered, Delivering)'
  <2>1. UNCHANGED <<fullAt, delivered>> /\ Signals!Queued = count - 1 /\ Signals!Queued' = count
    BY <1>1 DEF Signals!Queued
  <2>2. CASE Overflowing
    <3>1. Signals!Recent(Delivering)' = 0 /\ Signals!Recent(Delivering) = 0
      BY <1>1, <1>2, <1>3, <2>1, <2>2 DEF Signals!Recent, OverflowOK, Overflowing, Behind,
         Delivering
    <3> QED
      BY <1>1, <2>1, <3>1 DEF Signals!EndsRecent
  <2>3. CASE ~Overflowing
    <3>1. Delivering' = Delivering
      BY <1>1, <1>2, <2>1, <2>3 DEF SignalOK, StoredOK, Behind, Delivering, Overflowing
    <3> QED
      BY ONLY <1>1, <2>1, <3>1 DEF Signals!EndsRecent, Signals!Recent
  <2> QED
    BY <2>2, <2>3
<1> QED
  BY <1>3, <1>4, <1>5, <1>6, <1>7, <1>8, <1>9

\* The handler finds a signal.
LEMMA DequeueCheckKeeps ==
  ASSUME SignalBounds, SignalsInv, Signals!TypeOK', ~raced', Signals!DequeueCheck
  PROVE  /\ OverflowOK' /\ SignalOK' /\ StoredOK' /\ SlotsOK' /\ ReaderOK'
         /\ Delivering' >= 0 /\ Signals!EndsRecent(delivered, Delivering)'
<1> USE DEF Signals!DequeueCheck, Signals!writerVars, Signals!readerVars, Signals!After, Signals!OverflowUnderway,
        SignalBounds, Signals!TypeOK, SignalSteps, Signals!Slots, Signals!Empty
<1>1. /\ OverflowOK /\ SignalOK /\ StoredOK /\ SlotsOK /\ ReaderOK
      /\ Delivering >= 0 /\ Signals!EndsRecent(delivered, Delivering)
      /\ Signals!TypeOK /\ SignalSteps /\ Signals!TypeOK'
  BY DEF SignalsInv, QueueOK
<1>2. /\ Delivering \in Int /\ (Signals!Full <=> Behind(tail) = MaxSignals - 1)
      /\ Behind(tail) \in Signals!Slots
  BY SignalsBehind, <1>1
<1>3. OverflowOK'
  BY <1>1, <1>2 DEF OverflowOK, SignalOK, ReaderOK, Overflowing, Behind
<1>4. SignalOK'
  BY <1>1, <1>2 DEF OverflowOK, SignalOK, ReaderOK, Overflowing, Behind
<1>5. StoredOK'
  BY <1>1, <1>2 DEF StoredOK
<1>6. ReaderOK'
  BY <1>1, <1>2 DEF OverflowOK, SignalOK, StoredOK, SlotsOK, ReaderOK, Overflowing, Behind
<1>7. SlotsOK'
  BY <1>1, <1>2 DEF OverflowOK, SignalOK, StoredOK, SlotsOK, ReaderOK, Overflowing, Behind,
     Delivering, Signals!Queued
<1>8. Delivering' >= 0
  BY <1>1, <1>2 DEF OverflowOK, SignalOK, ReaderOK, Overflowing, Behind, Delivering,
     Signals!Queued
<1>9. Signals!EndsRecent(delivered, Delivering)'
  BY <1>1, <1>2 DEF OverflowOK, SignalOK, ReaderOK, Overflowing, Behind, Delivering,
     Signals!Queued, Signals!EndsRecent, Signals!Recent
<1> QED
  BY <1>3, <1>4, <1>5, <1>6, <1>7, <1>8, <1>9

\* It loads the signal at head.
LEMMA DequeueLoadKeeps ==
  ASSUME SignalBounds, SignalsInv, Signals!TypeOK', ~raced', Signals!DequeueLoad
  PROVE  /\ OverflowOK' /\ SignalOK' /\ StoredOK' /\ SlotsOK' /\ ReaderOK'
         /\ Delivering' >= 0 /\ Signals!EndsRecent(delivered, Delivering)'
<1> USE DEF Signals!DequeueLoad, Signals!writerVars, Signals!readerVars, Signals!After, Signals!OverflowUnderway,
        SignalBounds, Signals!TypeOK, SignalSteps, Signals!Slots, Signals!Empty
<1>1. /\ OverflowOK /\ SignalOK /\ StoredOK /\ SlotsOK /\ ReaderOK
      /\ Delivering >= 0 /\ Signals!EndsRecent(delivered, Delivering)
      /\ Signals!TypeOK /\ SignalSteps /\ Signals!TypeOK'
  BY DEF SignalsInv, QueueOK
<1>2. /\ Delivering \in Int /\ (Signals!Full <=> Behind(tail) = MaxSignals - 1)
      /\ Behind(tail) \in Signals!Slots
  BY SignalsBehind, <1>1
<1>3. OverflowOK'
  BY <1>1, <1>2 DEF OverflowOK, SignalOK, ReaderOK, Overflowing, Behind
<1>4. SignalOK'
  BY <1>1, <1>2 DEF OverflowOK, SignalOK, ReaderOK, Overflowing, Behind
<1>5. StoredOK'
  BY <1>1, <1>2 DEF StoredOK
<1>6. ReaderOK'
  BY <1>1, <1>2 DEF OverflowOK, SignalOK, StoredOK, SlotsOK, ReaderOK, Overflowing, Behind
<1>7. SlotsOK'
  BY <1>1, <1>2 DEF OverflowOK, SignalOK, StoredOK, SlotsOK, ReaderOK, Overflowing, Behind,
     Delivering, Signals!Queued
<1>8. Delivering' >= 0
  BY <1>1, <1>2 DEF OverflowOK, SignalOK, ReaderOK, Overflowing, Behind, Delivering,
     Signals!Queued
<1>9. Signals!EndsRecent(delivered, Delivering)'
  BY <1>1, <1>2 DEF OverflowOK, SignalOK, ReaderOK, Overflowing, Behind, Delivering,
     Signals!Queued, Signals!EndsRecent, Signals!Recent
<1> QED
  BY <1>3, <1>4, <1>5, <1>6, <1>7, <1>8, <1>9

\* It stores head and reports the signal.
LEMMA DequeueAdvanceKeeps ==
  ASSUME SignalBounds, SignalsInv, Signals!TypeOK', ~raced', Signals!DequeueAdvance
  PROVE  /\ OverflowOK' /\ SignalOK' /\ StoredOK' /\ SlotsOK' /\ ReaderOK'
         /\ Delivering' >= 0 /\ Signals!EndsRecent(delivered, Delivering)'
<1> USE DEF Signals!DequeueAdvance, Signals!writerVars, Signals!readerVars, Signals!After, Signals!OverflowUnderway,
        SignalBounds, Signals!TypeOK, SignalSteps, Signals!Slots, Signals!Empty
<1>1. /\ OverflowOK /\ SignalOK /\ StoredOK /\ SlotsOK /\ ReaderOK
      /\ Delivering >= 0 /\ Signals!EndsRecent(delivered, Delivering)
      /\ Signals!TypeOK /\ SignalSteps /\ Signals!TypeOK'
  BY DEF SignalsInv, QueueOK
<1>2. /\ Delivering \in Int /\ (Signals!Full <=> Behind(tail) = MaxSignals - 1)
      /\ Behind(tail) \in Signals!Slots
  BY SignalsBehind, <1>1
<1>3. OverflowOK'
  BY <1>1, <1>2 DEF OverflowOK, SignalOK, ReaderOK, Overflowing, Behind
<1>4. SignalOK'
  BY <1>1, <1>2 DEF OverflowOK, SignalOK, ReaderOK, Overflowing, Behind
<1>5. StoredOK'
  BY <1>1, <1>2 DEF StoredOK
<1>6. ReaderOK'
  BY <1>1, <1>2 DEF OverflowOK, SignalOK, StoredOK, SlotsOK, ReaderOK, Overflowing, Behind
<1>7. SlotsOK'
  <2>1. head # tail /\ ~Overflowing /\ ~Overflowing'
    BY <1>1 DEF ReaderOK, OverflowOK, Overflowing
  <2>2. /\ Behind(tail)' = Behind(tail) - 1 /\ Delivering' = Delivering + 1
        /\ \A k \in Signals!Slots : k # head => Behind(k)' = Behind(k) - 1 /\ Behind(k) \in Int
        /\ Behind(head) = 0 /\ Behind(tail) # 0
    <3>1. /\ head' = (IF head = MaxSignals - 1 THEN 0 ELSE head + 1) /\ tail' = tail
          /\ head \in 0 .. MaxSignals - 1 /\ tail \in 0 .. MaxSignals - 1 /\ MaxSignals \in Nat \ {0, 1}
      BY <1>1
    <3>2. Signals!Queued' = Signals!Queued /\ Signals!Queued \in Int
      BY <1>1 DEF Signals!Queued
    <3>3. /\ Behind(tail)' = Behind(tail) - 1
          /\ \A k \in Signals!Slots : k # head => Behind(k)' = Behind(k) - 1 /\ Behind(k) \in Int
          /\ Behind(head) = 0 /\ Behind(tail) # 0
      BY ONLY <2>1, <3>1 DEF Behind, Signals!Slots
    <3> QED
      BY <1>2, <3>2, <3>3 DEF Delivering
  <2>3. ASSUME NEW k \in Signals!Slots
        PROVE  Behind(k)' >= Behind(tail)' \/ slots'[k] = Delivering' + Behind(k)' + 1
    <3>1. CASE k = head
      <4>1. Behind(k)' = MaxSignals - 1 /\ Behind(tail)' <= MaxSignals - 1
        BY <1>1, <3>1 DEF Behind
      <4> QED
        BY <4>1, <1>1, <2>2, <1>2
    <3>2. CASE k # head
      <4>1. Behind(k) >= Behind(tail) \/ slots[k] = Delivering + Behind(k) + 1
        BY ONLY <1>1, <2>1, <2>3 DEF SlotsOK
      <4>2. slots' = slots /\ Behind(k)' = Behind(k) - 1 /\ Behind(k) \in Int /\ Behind(tail) \in Int
        BY <1>1, <1>2, <2>2, <3>2
      <4> QED
        BY ONLY <1>2, <2>2, <4>1, <4>2
    <3> QED
      BY <3>1, <3>2
  <2> QED
    BY <2>3 DEF SlotsOK
<1>8. Delivering' >= 0
  BY <1>1, <1>2 DEF OverflowOK, SignalOK, ReaderOK, Overflowing, Behind, Delivering,
     Signals!Queued
<1>9. Signals!EndsRecent(delivered, Delivering)'
  <2>1. head # tail /\ ~Overflowing /\ rsig = slots[head]
    BY <1>1 DEF ReaderOK, OverflowOK, Overflowing
  <2>2. Behind(head) = 0 /\ Behind(tail) > 0 /\ Delivering' = Delivering + 1
    BY <1>1, <1>2, <2>1 DEF Behind, Delivering, Signals!Queued
  <2>3. slots[head] = Delivering + 1
    <3>1. ~(Behind(head) >= Behind(tail)) /\ head \in Signals!Slots
      BY <1>1, <1>2, <2>2
    <3>2. slots[head] = Delivering + Behind(head) + 1
      BY ONLY <1>1, <2>1, <3>1 DEF SlotsOK
    <3> QED
      BY ONLY <1>2, <2>2, <3>2
  <2>4. delivered \in Seq(Int) /\ Delivering \in Nat /\ fullAt \in Nat
    BY <1>1, <1>2
  <2>5. Signals!EndsRecent(Append(delivered, Delivering + 1), Delivering + 1)
    <3>1. Delivering + 1 \in Nat
      BY <2>4
    <3> QED
      BY ONLY <1>1, <2>4, <3>1, NextContinues
  <2>6. UNCHANGED fullAt /\ delivered' = Append(delivered, Delivering + 1)
    BY <2>1, <2>3
  <2> QED
    BY ONLY <2>2, <2>5, <2>6 DEF Signals!EndsRecent, Signals!Recent
<1> QED
  BY <1>3, <1>4, <1>5, <1>6, <1>7, <1>8, <1>9

\* The queue keeps its invariant until a step of one side meets an overflow.
LEMMA QueueOKStep ==
  ASSUME SignalBounds, SignalsInv, Signals!TypeOK', [Signals!Next]_(Signals!vars)
  PROVE  QueueOK'
<1> SUFFICES ASSUME ~raced'
             PROVE  /\ OverflowOK' /\ SignalOK' /\ StoredOK' /\ SlotsOK' /\ ReaderOK'
                    /\ Delivering' >= 0 /\ Signals!EndsRecent(delivered, Delivering)'
  BY DEF QueueOK
<1>1. CASE UNCHANGED Signals!vars
  <2>1. OverflowOK /\ SignalOK /\ StoredOK /\ SlotsOK /\ ReaderOK /\ Delivering >= 0 /\ Signals!EndsRecent(delivered, Delivering)
    BY <1>1 DEF Signals!vars, SignalsInv, QueueOK
  <2>2. UNCHANGED <<head, tail, slots, wpc, wtail, rpc, rsig, count, fullAt, delivered>>
    BY <1>1 DEF Signals!vars
  <2> QED
    BY ONLY <2>1, <2>2 DEF OverflowOK, SignalOK, StoredOK, SlotsOK, ReaderOK, Delivering,
       Behind, Overflowing,
         Signals!Queued, Signals!EndsRecent, Signals!Recent
<1>2. Signals!SignalCheck \/ Signals!DequeueCheck \/ ~raced
  BY DEF Signals!Next, Signals!Writer, Signals!Reader, Signals!SignalOverwrite,
     Signals!SignalStore,
         Signals!SignalAdvance, Signals!DequeueLoad, Signals!DequeueAdvance, Signals!vars
<1>3. ~raced
  BY <1>2 DEF Signals!SignalCheck, Signals!DequeueCheck
<1> QED
  BY <1>1, <1>3, SignalCheckKeeps, SignalOverwriteKeeps, SignalStoreKeeps, SignalAdvanceKeeps,
     DequeueCheckKeeps,
     DequeueLoadKeeps, DequeueAdvanceKeeps DEF Signals!Next, Signals!Writer, Signals!Reader

\* An initialized queue.
LEMMA InitSignalsInv == SignalBounds /\ Signals!Init => SignalsInv
<1> SUFFICES ASSUME SignalBounds, Signals!Init
             PROVE  SignalsInv
  OBVIOUS
<1> USE DEF SignalBounds, Signals!Init, Signals!Slots, Signals!NoSignal
<1>1. Signals!TypeOK /\ SignalSteps
  <2>1. slots \in [Signals!Slots -> 0 .. SignalBound] /\ delivered \in Seq(0 .. SignalBound) /\ raced \in BOOLEAN
    <3>1. slots \in [Signals!Slots -> 0 .. SignalBound]
      OBVIOUS
    <3>2. delivered \in Seq(0 .. SignalBound)
      BY ONLY Signals!Init DEF Signals!Init
    <3>3. raced \in BOOLEAN
      BY ONLY Signals!Init DEF Signals!Init
    <3> QED
      BY <3>1, <3>2, <3>3
  <2>2. /\ head \in Signals!Slots /\ tail \in Signals!Slots /\ wtail \in Signals!Slots
        /\ rsig \in 0 .. SignalBound /\ count \in 0 .. SignalBound /\ fullAt \in 0 .. count
    OBVIOUS
  <2> QED
    BY <2>1, <2>2 DEF Signals!TypeOK, SignalSteps
<1>2. Behind(tail) = 0 /\ Delivering = 0
  BY DEF Behind, Delivering, Signals!Queued
<1>3. \A k \in Signals!Slots : Behind(k) >= 0
  BY DEF Behind
<1>4. OverflowOK /\ SignalOK /\ StoredOK /\ ReaderOK /\ SlotsOK
  BY <1>2, <1>3 DEF OverflowOK, SignalOK, StoredOK, ReaderOK, SlotsOK, Overflowing
<1>5. Signals!EndsRecent(delivered, Delivering)
  BY <1>2 DEF Signals!EndsRecent, Signals!Recent
<1> QED
  BY <1>1, <1>2, <1>4, <1>5 DEF SignalsInv, QueueOK

\* Every behaviour of a queue of two slots or more keeps the invariant.
LEMMA SignalsInvariant == SignalBounds /\ Signals!Spec => []SignalsInv
<1>1. SignalBounds /\ SignalsInv /\ [Signals!Next]_(Signals!vars) => SignalsInv'
  BY SignalsTypeStep, SignalStepsStep, QueueOKStep DEF SignalsInv
<1>2. SignalBounds => SignalBounds'
  BY DEF SignalBounds
<1> QED
  BY <1>1, <1>2, InitSignalsInv, PTL DEF Signals!Spec

\* The indexes of the signal queue stay in the ring, whatever the writer and
\* the reader race for.
THEOREM SignalsTypeCorrect == SignalBounds /\ Signals!Spec => []Signals!TypeOK
<1>1. SignalsInv => Signals!TypeOK
  BY DEF SignalsInv
<1> QED
  BY <1>1, SignalsInvariant, PTL

\* The invariant leads to the property.
LEMMA QueueKeepsRecent ==
  ASSUME SignalBounds, SignalsInv, ~raced
  PROVE  Signals!EndsRecent(delivered \o Signals!Queue, Signals!Queued)
<1>1. /\ OverflowOK /\ SignalOK /\ StoredOK /\ SlotsOK /\ ReaderOK /\ Delivering >= 0
      /\ Signals!EndsRecent(delivered, Delivering) /\ Signals!TypeOK /\ SignalSteps
  BY DEF SignalsInv, QueueOK
<1> DEFINE n == Behind(tail)
           d == Len(delivered)
           q == Signals!Queued
           all == delivered \o Signals!Queue
<1>2. n \in Nat /\ n < MaxSignals /\ q \in Int /\ Delivering \in Int /\ Signals!Length = n /\ Delivering = q - n
  <2>1. /\ \A k \in Signals!Slots : Behind(k) \in Signals!Slots
        /\ Signals!Queued \in Int /\ Delivering \in Int /\ Signals!Length = Behind(tail)
    BY ONLY <1>1, SignalBounds, SignalsBehind
  <2>2. tail \in Signals!Slots
    BY <1>1 DEF Signals!TypeOK
  <2>3. Behind(tail) \in 0 .. MaxSignals - 1
    BY <2>1, <2>2 DEF Signals!Slots
  <2> QED
    BY ONLY <2>1, <2>3, SignalBounds DEF Delivering, SignalBounds
<1>3. ASSUME NEW i \in 1 .. n
      PROVE  /\ Overflowing => Signals!Queue[i] <= fullAt
             /\ ~Overflowing => Signals!Queue[i] = Delivering + i
  <2> DEFINE k == (head + i - 1) % MaxSignals
  <2>1. k \in Signals!Slots /\ Behind(k) = i - 1
    <3> DEFINE x == head + i - 1
    <3>1. x \in Int /\ -MaxSignals <= x /\ x < 2 * MaxSignals /\ MaxSignals \in Nat \ {0} /\ 0 <= x
      BY <1>1, <1>2 DEF Signals!TypeOK, Signals!Slots, SignalBounds
    <3> HIDE DEF x
    <3>2. x % MaxSignals = IF x < 0 THEN x + MaxSignals ELSE IF x < MaxSignals THEN x ELSE x - MaxSignals
      BY ONLY <3>1, Wraps
    <3> DEFINE e == x % MaxSignals
    <3>3. e = IF x < MaxSignals THEN x ELSE x - MaxSignals
      BY <3>1, <3>2
    <3> HIDE DEF e
    <3>4. e \in Signals!Slots /\ Behind(e) = i - 1
      BY <1>1, <1>2, <3>1, <3>3 DEF x, Signals!TypeOK, Signals!Slots, SignalBounds, Behind
    <3> QED
      BY <3>4 DEF e, x
  <2>2. Signals!Queue[i] = slots[k]
    BY <1>2 DEF Signals!Queue
  <2> HIDE DEF k
  <2>3. \/ Overflowing /\ wpc = "advance" /\ k = head
        \/ slots[k] = Delivering + i
    <3>1. ~(Behind(k) >= Behind(tail))
      BY <1>2, <2>1
    <3>2. \/ Overflowing /\ wpc = "advance" /\ k = head
          \/ slots[k] = Delivering + Behind(k) + 1
      BY ONLY <1>1, <2>1, <3>1 DEF SlotsOK
    <3> QED
      BY <1>2, <2>1, <3>2
  <2>4. Overflowing => slots[k] <= fullAt
    <3> SUFFICES ASSUME Overflowing
                 PROVE  slots[k] <= fullAt
      OBVIOUS
    <3>1. fullAt = count /\ q = count - 1 /\ fullAt \in Nat /\ Delivering + i <= fullAt
      BY <1>1, <1>2 DEF Overflowing, Signals!Queued, Signals!TypeOK
    <3>2. CASE wpc = "advance" /\ k = head
      BY <1>1, <3>1, <3>2 DEF OverflowOK, StoredOK
    <3> QED
      BY <2>3, <3>1, <3>2
  <2> QED
    BY <2>2, <2>3, <2>4
<1>4. /\ Signals!Queue \in Seq(Int) /\ Len(Signals!Queue) = n
  <2>1. \A i \in 1 .. n : Signals!Queue[i] \in Int
    <3> SUFFICES ASSUME NEW i \in 1 .. n
                 PROVE  Signals!Queue[i] \in Int
      OBVIOUS
    <3>1. (head + i - 1) % MaxSignals \in Signals!Slots
      BY <1>1 DEF Signals!TypeOK, Signals!Slots, SignalBounds
    <3> QED
      BY <1>1, <1>2, <3>1 DEF Signals!TypeOK, Signals!Queue, SignalBounds
  <2>2. Signals!Queue = [i \in 1 .. n |-> Signals!Queue[i]]
    BY <1>2 DEF Signals!Queue
  <2> QED
    BY <1>2, <2>1, <2>2
<1>5. /\ delivered \in Seq(Int) /\ d \in Nat /\ fullAt \in Nat
      /\ \A i \in 1 .. d : delivered[i] \in Int
  <2>1. delivered \in Seq(0 .. SignalBound) /\ fullAt \in Nat
    BY <1>1 DEF Signals!TypeOK, SignalBounds
  <2> QED
    BY <2>1 DEF SignalBounds
<1>6. /\ Len(all) = d + n
      /\ \A i \in 1 .. d + n : all[i] = IF i <= d THEN delivered[i] ELSE Signals!Queue[i - d]
  <2> DEFINE queue == Signals!Queue
  <2>1. queue \in Seq(Int) /\ Len(queue) = n
    BY <1>4
  <2> HIDE DEF queue, n
  <2>2. delivered \o queue \in Seq(Int)
    BY <2>1, <1>5
  <2>3. Len(delivered \o queue) = d + n
    BY ONLY <2>1, <1>5, ConcatProperties DEF d
  <2>4. \A i \in 1 .. d + n : (delivered \o queue)[i] = IF i <= d THEN delivered[i] ELSE queue[i - d]
    BY <2>1, <1>5
  <2> QED
    BY <2>3, <2>4 DEF queue
<1> SUFFICES Signals!EndsRecent(all, q)
  OBVIOUS
<1> HIDE DEF n, d, all, q
<1>7. CASE Overflowing
  <2>1. q = fullAt - 1
    BY <1>1, <1>7 DEF q, Overflowing, Signals!Queued, Signals!TypeOK
  <2>2. Signals!Recent(q) = 0 /\ Signals!Recent(Delivering) = 0
    BY <1>2, <1>5, <2>1 DEF Signals!Recent
  <2>3. \A i \in 1 .. d : delivered[i] <= fullAt
    BY <1>1, <1>5, <2>2 DEF Signals!EndsRecent, d
  <2>4. \A i \in 1 .. d + n : all[i] <= fullAt
    BY <1>2, <1>3, <1>5, <1>6, <1>7, <2>3
  <2> QED
    BY <1>2, <1>5, <1>6, <2>2, <2>4 DEF Signals!EndsRecent
<1>8. CASE ~Overflowing /\ Delivering < fullAt
  <2>1. Signals!Recent(Delivering) = 0
    BY <1>2, <1>5, <1>8 DEF Signals!Recent
  <2>2. \A i \in 1 .. d : delivered[i] <= fullAt
    BY <1>1, <1>5, <2>1 DEF Signals!EndsRecent, d
  <2>3. \A i \in 1 .. n : Signals!Queue[i] = Delivering + i
    BY <1>3, <1>8
  <2>0. Signals!Recent(q) \in Int
    BY <1>2, <1>5 DEF Signals!Recent
  <2> DEFINE older == d + n - Signals!Recent(q)
  <2>4. older = (IF q > fullAt THEN d + n - (q - fullAt) ELSE d + n) /\ older \in Nat /\ older >= d
    BY <1>2, <1>5, <1>8 DEF Signals!Recent
  <2> HIDE DEF older
  <2>5. ASSUME NEW i \in 1 .. d + n
        PROVE  IF i <= older THEN all[i] <= fullAt ELSE all[i] = fullAt + (i - older)
    <3>1. CASE i <= d
      BY <1>2, <1>5, <1>6, <2>2, <2>4, <3>1
    <3>2. CASE i > d
      <4>1. all[i] = Delivering + (i - d) /\ i \in Int
        BY <1>2, <1>5, <1>6, <2>3, <3>2
      <4> QED
        BY ONLY <1>2, <1>5, <2>4, <4>1, <2>5, <1>8
    <3> QED
      BY <1>2, <1>5, <3>1, <3>2
  <2>6. Len(all) - Signals!Recent(q) = older
    BY <1>2, <1>5, <1>6, <2>0 DEF older
  <2>7. \A i \in 1 .. Len(all) : IF i <= older THEN all[i] <= fullAt ELSE all[i] = fullAt + (i - older)
    BY ONLY <1>6, <2>5
  <2> QED
    BY ONLY <2>4, <2>6, <2>7 DEF Signals!EndsRecent
<1>9. CASE ~Overflowing /\ ~(Delivering < fullAt)
  <2>0. Signals!Recent(q) \in Int
    BY <1>2, <1>5 DEF Signals!Recent
  <2> DEFINE older == d - Signals!Recent(Delivering)
  <2>1. older \in Nat /\ older = d - (Delivering - fullAt)
    BY <1>1, <1>2, <1>5, <1>9 DEF Signals!EndsRecent, Signals!Recent, d
  <2>2. \A i \in 1 .. d : IF i <= older THEN delivered[i] <= fullAt ELSE delivered[i] = fullAt + (i - older)
    BY <1>1 DEF Signals!EndsRecent, d
  <2>3. d + n - Signals!Recent(q) = older
    BY <1>2, <1>5, <1>9, <2>1 DEF Signals!Recent
  <2> HIDE DEF older
  <2>4. \A i \in 1 .. n : Signals!Queue[i] = Delivering + i
    BY <1>3, <1>9
  <2>5. ASSUME NEW i \in 1 .. d + n
        PROVE  IF i <= older THEN all[i] <= fullAt ELSE all[i] = fullAt + (i - older)
    <3>1. CASE i <= d
      BY <1>2, <1>5, <1>6, <2>2, <3>1
    <3>2. CASE i > d
      <4>1. all[i] = Delivering + (i - d) /\ i \in Int
        BY <1>2, <1>5, <1>6, <2>4, <3>2
      <4> QED
        BY ONLY <1>2, <1>5, <2>1, <4>1, <3>2, <1>9
    <3> QED
      BY <1>2, <1>5, <3>1, <3>2
  <2>6. Len(all) - Signals!Recent(q) = older
    BY <1>2, <1>5, <1>6, <2>0, <2>3
  <2>7. \A i \in 1 .. Len(all) : IF i <= older THEN all[i] <= fullAt ELSE all[i] = fullAt + (i - older)
    BY ONLY <1>6, <2>5
  <2> QED
    BY ONLY <2>1, <2>6, <2>7 DEF Signals!EndsRecent
<1> QED
  BY <1>2, <1>5, <1>7, <1>8, <1>9

\* The signals behind the last ICC_ERR_SQ_FULL are delivered or still queued,
\* each once and in the order of signalling, as long as the reader was not at
\* work during an overflow (ICC_Sig_Fifo_Signal, ICC_Sig_Fifo_Dequeue_Signal).
THEOREM RecentSignalsAreKept == SignalBounds /\ Signals!Spec => []RecentKept
<1>1. SignalBounds /\ SignalsInv => RecentKept
  BY QueueKeepsRecent
  DEF RecentKept, EndsRecent, Recent, Queued, Queue, Length, Signals!EndsRecent,
      Signals!Recent, Signals!Queued, Signals!Queue, Signals!Length
<1>2. SignalBounds => []SignalBounds
  <2>1. SignalBounds => SignalBounds'
    BY DEF SignalBounds
  <2> QED
    BY <2>1, PTL
<1> QED
  BY <1>1, <1>2, SignalsInvariant, PTL
=============================================================================
