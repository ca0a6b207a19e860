----------------------------- MODULE LinuxPair -----------------------------
(***************************************************************************)
(* Two Linux nodes that talk over PCI Express (ICC_LINUX2LINUX with        *)
(* ICC_USE_POLLING): the end point "EP", built as the node that owns the   *)
(* shared memory, and the root complex "RC".  Each has two kernel modules, *)
(* the ICC module (ICC_lib.c, ICC_Pcie.c, ICC_Polling.c) and the sample    *)
(* (ICC_Linux_Sample.c), which are loaded and removed at any time: the     *)
(* relocation of the configuration into the shared memory, the search for  *)
(* it, the handshake through the polled word, and the data threads.        *)
(*                                                                         *)
(* All data is in the memory of EP.  RC reaches it through a BAR; EP       *)
(* reaches RC's polled word through an outbound window, which the          *)
(* handshake tells it how to set.  One channel stands for all; a message   *)
(* is a count; the signal counters are MsgTransfer's.                      *)
(***************************************************************************)
EXTENDS Integers

CONSTANTS
  Slots,      \* messages a FIFO holds
  MaxLoads,   \* bound: how often the ICC module of a node is loaded
  MaxStarts   \* bound: how often the sample of a node is loaded

ASSUME PairAssumption == Slots \in Nat \ {0} /\ MaxLoads \in Nat /\ MaxStarts \in Nat

Nodes == {"EP", "RC"}
Peer(n) == IF n = "EP" THEN "RC" ELSE "EP"

VARIABLES
  matching,   \* the static configurations of the two builds are the same
  driver,     \* the ICC module: "absent", "bound" to its device or "unbound"
  loads,      \* how often it was loaded; for EP also where it maps the memory
  word,       \* the word this node polls
  hasAddress, \* handshake.rc_ddr_addr was stored
  window,     \* where EP's outbound window leads
  block,      \* the relocated ICC_Config_t: This_Ptr and the pointers in it
  found,      \* ICC_Config_Ptr_M4_Remote of RC
  shared,     \* ICC_Initialized and endpoint_state, in the shared memory: the
              \* end point of an "ORPHAN" is open and its node not initialized
  config,     \* ICC_Config_Ptr of this node is set
  sample,     \* where Start_ICC_Sample or Stop_ICC_Sample is
  starts,     \* how often the sample was loaded
  thread,     \* ICC_Data_kthread: the call it is in and where
  fifo,       \* messages written by this node and not yet read
  \* History: RC looked for the configuration, or took its pointers, at a time
  \* when they were not final; EP read the handshake between its two stores;
  \* EP relocated its configuration over the life of this node.
  early, torn, erased

drivers == <<driver, loads>>
handshake == <<word, hasAddress, window>>
memory == <<block, shared, fifo>>
history == <<early, torn, erased>>
vars == <<matching, drivers, handshake, memory, found, config, sample, starts,
          thread, history>>

\* An address is the load of EP's ICC module that made it valid, or one of:
Null == 0       \* the static value: of no use outside the EP's image
Nowhere == -1   \* no configuration was found
NoBlock == [this |-> Nowhere, pointers |-> Nowhere]

FirstCall(n) == IF n = "EP" THEN "send" ELSE "recv"
OtherCall(op) == IF op = "send" THEN "recv" ELSE "send"
NoThread(n) == [pc |-> "none", op |-> FirstCall(n)]

Init ==
  /\ matching \in BOOLEAN
  /\ driver = [n \in Nodes |-> "absent"] /\ loads = [n \in Nodes |-> 0]
  /\ word = [n \in Nodes |-> "WAIT"] /\ hasAddress = FALSE /\ window = "unset"
  /\ block = NoBlock /\ found = Nowhere
  /\ shared = [n \in Nodes |-> "UNINIT"] /\ config = [n \in Nodes |-> FALSE]
  /\ sample = [n \in Nodes |-> "absent"] /\ starts = [n \in Nodes |-> 0]
  /\ thread = [n \in Nodes |-> NoThread(n)] /\ fifo = [n \in Nodes |-> 0]
  /\ early = FALSE /\ torn = FALSE /\ erased = {}

At(n, place) == sample[n] = place
Goto(n, place) == sample' = [sample EXCEPT ![n] = place]
ThreadAt(n, place) == thread[n].pc = place
Up(n) == At(n, "up")
Whole == block.pointers = loads["EP"]
Initialized(n) == shared[n] \in {"INIT", "OPEN"}
EndpointOpen(n) == shared[n] \in {"OPEN", "ORPHAN"}
-----------------------------------------------------------------------------
(***************************************************************************)
(* The ICC module: ICC_probe and ICC_remove.                               *)
(***************************************************************************)
\* shmem_poll_init clears the polled word before the poll thread starts.
StartPolling(n) == word' = [word EXCEPT ![n] = "WAIT"]

\* The probe starts to poll.  RC looks for the magic value at the head of the relocated configuration, which
\* is all the probe can fail on.
LoadDriver(n) ==
  /\ driver[n] = "absent" /\ loads[n] < MaxLoads
  /\ loads' = [loads EXCEPT ![n] = @ + 1]
  /\ StartPolling(n)
  /\ driver' = [driver EXCEPT ![n] =
       IF n = "RC" /\ block = NoBlock THEN "unbound" ELSE "bound"]
  /\ found' = IF n = "RC" THEN block.this ELSE found
  /\ early' = IF n = "RC" THEN ~Whole
                          ELSE early \/ driver["RC"] = "bound"
  /\ UNCHANGED <<matching, hasAddress, window, memory, config, sample, starts,
                 thread, torn, erased>>

\* The sample uses symbols of the ICC module.  shmem_poll_exit waits for the
\* poll thread.
RemoveDriver(n) ==
  /\ driver[n] # "absent" /\ At(n, "absent") /\ ThreadAt(n, "none")
  /\ loads[n] < MaxLoads
  /\ driver' = [driver EXCEPT ![n] = "absent"]
  /\ found' = IF n = "RC" THEN Nowhere ELSE found
  /\ UNCHANGED <<matching, loads, handshake, memory, config, sample, starts,
                 thread, history>>
-----------------------------------------------------------------------------
(***************************************************************************)
(* Start_ICC_Sample.                                                       *)
(***************************************************************************)
LoadSample(n) ==
  /\ driver[n] # "absent" /\ At(n, "absent") /\ ThreadAt(n, "none")
  /\ starts[n] < MaxStarts
  /\ starts' = [starts EXCEPT ![n] = @ + 1]
  /\ Goto(n, IF n = "EP" THEN "relocate" ELSE "initialize")
  /\ UNCHANGED <<matching, drivers, handshake, memory, found, config, thread,
                 history>>

\* ICC_Relocate_Config: the object is copied with its magic value and the
\* addresses of the static objects, ...
Relocate ==
  /\ At("EP", "relocate")
  /\ block' = [this |-> Null, pointers |-> Null]
  /\ Goto("EP", "this")
  /\ UNCHANGED <<matching, drivers, handshake, shared, fifo, found, config,
                 starts, thread, history>>

\* A mutant of RelocateThis: This_Ptr keeps its static value.
RelocateThis_Static ==
  /\ At("EP", "this")
  /\ Goto("EP", "pointers")
  /\ UNCHANGED <<matching, drivers, handshake, memory, found, config, starts,
                 thread, history>>

\* ... then it is told its own address, ...
RelocateThis ==
  /\ At("EP", "this")
  /\ block' = [block EXCEPT !.this = loads["EP"]]
  /\ Goto("EP", "pointers")
  /\ UNCHANGED <<matching, drivers, handshake, shared, fifo, found, config,
                 starts, thread, history>>

\* ... then the channels, the buffers and the runtime objects are copied in
\* their static, that is initial, state and the pointers lead to the copies.
RelocatePointers ==
  /\ At("EP", "pointers")
  /\ block' = [block EXCEPT !.pointers = loads["EP"]]
  /\ shared' = [n \in Nodes |-> "UNINIT"]
  /\ fifo' = [n \in Nodes |-> 0]
  /\ erased' = erased \union {n \in Nodes : shared[n] # "UNINIT"}
  /\ Goto("EP", "initialize")
  /\ UNCHANGED <<matching, drivers, handshake, found, config, starts, thread,
                 early, torn>>

\* ICC_Phys_To_Virt is right for pointers made by the load of the EP's module
\* whose This_Ptr was found.
Translated == found = block.pointers /\ found \notin {Null, Nowhere}

\* ICC_Initialize compares the configurations and takes the pointers.  When it
\* fails, or when they are wrong, the node runs into them: ICC_Finalize, which
\* a failed start calls, uses them too.
Taken(n) == n = "EP" \/ (matching /\ Translated)

\* A mutant of AfterInitialize: RC opens its channels unannounced.
AfterInitialize_Unannounced(n) == IF n = "EP" THEN "wait" ELSE "open"

AfterInitialize(n) == IF n = "EP" THEN "wait" ELSE "alive"

\* With ICC_LINUX2LINUX the peer is not notified.
Initialize(n) ==
  /\ At(n, "initialize") /\ ~config[n]
  /\ config' = [config EXCEPT ![n] = TRUE]
  /\ early' = (early \/ (n = "RC" /\ ~Whole))
  /\ \/ /\ Taken(n)
        /\ shared' = [shared EXCEPT ![n] = "INIT"]
        /\ fifo' = [fifo EXCEPT ![n] = 0]
        /\ erased' = erased \ {n}
        /\ Goto(n, AfterInitialize(n))
     \/ /\ ~Taken(n)
        /\ Goto(n, "astray")
        /\ UNCHANGED <<shared, fifo, erased>>
  /\ UNCHANGED <<matching, drivers, handshake, block, found, starts, thread,
                 torn>>

\* ICC_Notify_Peer_Alive: the bar first, whatever the word holds, ...
Alive ==
  /\ At("RC", "alive")
  /\ word' = [word EXCEPT !["EP"] = "BAR"]
  /\ Goto("RC", "address")
  /\ UNCHANGED <<matching, drivers, hasAddress, window, memory, found, config,
                 starts, thread, history>>

\* ... then the address of the word RC polls.
AliveAddress ==
  /\ At("RC", "address")
  /\ hasAddress' = TRUE
  /\ Goto("RC", "open")
  /\ UNCHANGED <<matching, drivers, word, window, memory, found, config,
                 starts, thread, history>>

\* pcie_init_outbound takes the address as it is.
Outbound == IF hasAddress THEN "RC" ELSE "elsewhere"

\* ICC_Wait_For_Peer: any value but WAIT_PATTERN is taken for the handshake.
WaitForPeer ==
  /\ At("EP", "wait") /\ word["EP"] # "WAIT"
  /\ window' = Outbound
  /\ torn' = (At("RC", "address") /\ ~hasAddress)
  /\ Goto("EP", "clear")
  /\ UNCHANGED <<matching, drivers, word, hasAddress, memory, found, config,
                 starts, thread, early, erased>>

\* A mutant of WaitClear: the handshake stays where it is.
WaitClear_Kept ==
  /\ At("EP", "clear")
  /\ Goto("EP", "open")
  /\ UNCHANGED <<matching, drivers, handshake, memory, found, config, starts,
                 thread, history>>

WaitClear ==
  /\ At("EP", "clear")
  /\ word' = [word EXCEPT !["EP"] = "WAIT"]
  /\ Goto("EP", "open")
  /\ UNCHANGED <<matching, drivers, hasAddress, window, memory, found, config,
                 starts, thread, history>>
-----------------------------------------------------------------------------
\* poll_notify_peer waits until the peer has taken the last notification, and
\* for as long as it takes.  Through a window that leads elsewhere nothing
\* arrives.
Reaches(n) == n = "RC" \/ window = "RC"
MayNotify(n) == Reaches(n) => word[Peer(n)] = "WAIT"
NotifyPeer(n) ==
  /\ MayNotify(n)
  /\ word' = IF Reaches(n) THEN [word EXCEPT ![Peer(n)] = "WAKE_UP"] ELSE word

OpenChannels(n) ==
  /\ At(n, "open")
  /\ shared' = [shared EXCEPT ![n] = IF @ = "INIT" THEN "OPEN" ELSE "ORPHAN"]
  /\ Goto(n, "notify")
  /\ UNCHANGED <<matching, drivers, handshake, block, fifo, found, config,
                 starts, thread, history>>

\* The peer is notified and the data thread started.
StartThread(n) ==
  /\ At(n, "notify") /\ NotifyPeer(n)
  /\ Goto(n, "up")
  /\ thread' = [thread EXCEPT ![n].pc = "call"]
  /\ UNCHANGED <<matching, drivers, hasAddress, window, memory, found, config,
                 starts, history>>
-----------------------------------------------------------------------------
(***************************************************************************)
(* Stop_ICC_Sample and ICC_Sample_dev_exit.                                *)
(***************************************************************************)
\* A mutant of Wakes: the channel is closed before its tasks are looked for.
Wakes_Closed(n) == ThreadAt(n, "asleep") /\ shared'[n] = "OPEN"

\* The tasks ICC_Finalize wakes up: those of an open end point.  Of an orphan
\* it finds no FIFOs: the memory that led to them was erased.
Wakes(n) == ThreadAt(n, "asleep") /\ shared[n] = "OPEN"

Wake(n, woken) == thread' = IF woken THEN [thread EXCEPT ![n].pc = "again"] ELSE thread

Finalize(n) ==
  /\ Up(n)
  /\ shared' = [shared EXCEPT ![n] = "UNINIT"]
  /\ Wake(n, Wakes(n))
  /\ Goto(n, IF shared[n] = "ORPHAN" THEN "astray" ELSE "finalize")
  /\ UNCHANGED <<matching, drivers, handshake, block, fifo, found, config,
                 starts, history>>

FinalizeNotify(n) ==
  /\ At(n, "finalize") /\ NotifyPeer(n)
  /\ config' = [config EXCEPT ![n] = FALSE]
  /\ Goto(n, "leaving")
  /\ UNCHANGED <<matching, drivers, hasAddress, window, memory, found, starts,
                 thread, history>>

Blocked(n) == ThreadAt(n, "asleep") \/ (ThreadAt(n, "notify") /\ ~MayNotify(n))

\* The code of the sample is unmapped after msleep(100): long enough for a data
\* thread that can run, which nothing else waits for.
Unload(n) ==
  /\ At(n, "leaving") /\ (ThreadAt(n, "none") \/ Blocked(n))
  /\ Goto(n, "absent")
  /\ UNCHANGED <<matching, drivers, handshake, memory, found, config, starts,
                 thread, history>>
-----------------------------------------------------------------------------
(***************************************************************************)
(* poll_thread_fn with ICC_Remote_Event_Handler.                           *)
(***************************************************************************)
\* A mutant of Noticed: any value is an event.
Noticed_Any(n) == word[n] # "WAIT"

Noticed(n) == word[n] = "WAKE_UP"

Poll(n) ==
  /\ driver[n] = "bound" /\ Noticed(n)
  /\ word' = [word EXCEPT ![n] = "WAIT"]
  /\ Wake(n, ThreadAt(n, "asleep") /\ config[n] /\ Initialized(n))
  /\ UNCHANGED <<matching, drivers, hasAddress, window, memory, found, config,
                 sample, starts, history>>
-----------------------------------------------------------------------------
(***************************************************************************)
(* ICC_Data_kthread, whose calls wait forever: EP sends and receives, RC   *)
(* receives and sends.  The status of the second call decides.             *)
(***************************************************************************)
\* A mutant of ThreadAfter: RC sends without having received.
ThreadAfter_Unasked(n, ok) ==
  IF ~ok \/ ~Up(n) THEN NoThread(n) ELSE [op |-> "send", pc |-> "call"]

ThreadAfter(n, ok) ==
  IF thread[n].op = FirstCall(n) THEN [op |-> OtherCall(thread[n].op), pc |-> "call"]
  ELSE IF ok /\ Up(n) THEN [op |-> FirstCall(n), pc |-> "call"]
  ELSE NoThread(n)

ThreadReturn(n, ok) == thread' = [thread EXCEPT ![n] = ThreadAfter(n, ok)]

Served(n) == IF thread[n].op = "send" THEN fifo[n] < Slots ELSE fifo[Peer(n)] > 0

Transfer(n) ==
  fifo' = IF thread[n].op = "send" THEN [fifo EXCEPT ![n] = @ + 1]
                                   ELSE [fifo EXCEPT ![Peer(n)] = @ - 1]

ThreadGoto(n, place) == thread' = [thread EXCEPT ![n].pc = place]

\* The end of a call's checks, or of a wait: the call fails, the message is
\* moved, or the task sleeps.
Attempt(n, refused) ==
  /\ \/ refused /\ ThreadReturn(n, FALSE) /\ UNCHANGED fifo
     \/ ~refused /\ Served(n) /\ Transfer(n) /\ ThreadGoto(n, "notify")
     \/ ~refused /\ ~Served(n) /\ ThreadGoto(n, "asleep") /\ UNCHANGED fifo
  /\ UNCHANGED <<matching, drivers, handshake, block, shared, found, config,
                 sample, starts, history>>

Call(n) ==
  /\ ThreadAt(n, "call") /\ shared[n] # "ORPHAN"
  /\ Attempt(n, ~config[n] \/ ~EndpointOpen(n))

\* The call of an orphan follows the pointers that were erased.
CallOrphan(n) ==
  /\ ThreadAt(n, "call") /\ shared[n] = "ORPHAN"
  /\ thread' = [thread EXCEPT ![n] = NoThread(n)]
  /\ Goto(n, "astray")
  /\ UNCHANGED <<matching, drivers, handshake, memory, found, config, starts,
                 history>>

Again(n) == ThreadAt(n, "again") /\ Attempt(n, ~Initialized(n))

ThreadNotify(n) ==
  /\ ThreadAt(n, "notify") /\ ~At(n, "absent") /\ NotifyPeer(n)
  /\ ThreadReturn(n, TRUE)
  /\ UNCHANGED <<matching, drivers, hasAddress, window, memory, found, config,
                 sample, starts, history>>
-----------------------------------------------------------------------------
Handshaking == Alive \/ AliveAddress \/ WaitForPeer \/ WaitClear
Starting(n) == Initialize(n) \/ OpenChannels(n) \/ StartThread(n)
Stopping(n) == FinalizeNotify(n) \/ Unload(n)
Threads(n) == Poll(n) \/ Call(n) \/ CallOrphan(n) \/ Again(n) \/ ThreadNotify(n)
Operator(n) == LoadDriver(n) \/ RemoveDriver(n) \/ LoadSample(n) \/ Finalize(n)

Next ==
  \/ Relocate \/ RelocateThis \/ RelocatePointers \/ Handshaking
  \/ \E n \in Nodes : Operator(n) \/ Starting(n) \/ Stopping(n) \/ Threads(n)

\* The kernel schedules every thread; nobody has to load or remove a module.
\* EP's start waits in a loop that sleeps, so it runs again and again.
Fairness ==
  /\ WF_vars(Relocate \/ RelocateThis \/ RelocatePointers)
  /\ WF_vars(WaitForPeer \/ WaitClear) /\ WF_vars(Alive \/ AliveAddress)
  /\ \A n \in Nodes : WF_vars(Starting(n)) /\ WF_vars(Poll(n))

Spec == Init /\ [][Next]_vars
FairSpec == Spec /\ Fairness
-----------------------------------------------------------------------------
(***************************************************************************)
(* Properties.                                                             *)
(***************************************************************************)
Words == {"WAIT", "WAKE_UP", "BAR"}
Addresses == Nowhere .. MaxLoads

\* Every variable holds a value of its kind; only EP's word is ever used for
\* the handshake and a FIFO never holds more than it has room for.
TypeOK ==
  /\ driver \in [Nodes -> {"absent", "bound", "unbound"}]
  /\ word["EP"] \in Words /\ word["RC"] \in Words \ {"BAR"}
  /\ window \in {"unset", "RC", "elsewhere"}
  /\ block \in [this : Addresses, pointers : Addresses] /\ found \in Addresses
  /\ shared \in [Nodes -> {"UNINIT", "INIT", "OPEN", "ORPHAN"}]
  /\ config \in [Nodes -> BOOLEAN] /\ fifo \in [Nodes -> 0 .. Slots]
  /\ thread \in [Nodes -> [pc : {"none", "call", "asleep", "again", "notify"},
                           op : {"send", "recv"}]]
  /\ \A n \in Nodes : Up(n) => config[n] /\ driver[n] = "bound"

\* RC follows wrong pointers only when its module was loaded, or its node
\* initialized, before EP had finished its relocation (there may still be the
\* configuration of an earlier load in the memory), or when EP's module was
\* loaded again or relocated the configuration under it: the addresses it
\* searches for, translates and uses belong together otherwise, whatever the
\* order of the loads.
PointersRight == At("RC", "astray") /\ matching => early \/ "RC" \in erased

Connected == sample["EP"] \in {"clear", "open", "notify", "up", "finalize"}

\* Once EP has seen its peer its outbound window leads to it, except when it
\* looked between RC's two stores: what wakes ICC_Wait_For_Peer may be an
\* ordinary notification or the remains of an earlier handshake, and the
\* address behind it is RC's all the same.
WindowRight == Connected => window = "RC" \/ torn

\* The handshake, which the poll thread does not take for a notification and
\* which blocks every ICC_Notify_Peer of RC, is left in EP's word only when RC
\* announces itself a second time to an EP that does not wait for it.
HandshakeLeftOver ==
  word["EP"] = "BAR" /\ sample["EP"] \in {"open", "notify", "up"} => starts["RC"] > 1

\* When the sample's code is unmapped its data thread has ended or is inside
\* ICC_Notify_Peer of a peer that does not poll; it sleeps on the wait queue
\* only when EP has relocated its configuration over this node's state.
NobodyAsleep ==
  \A n \in Nodes : At(n, "absent") /\ ThreadAt(n, "asleep") => n \in erased

\* Until EP starts a second time the data threads take turns: at most one
\* message is under way in both directions together, so ICC_Msg_Send never
\* waits for room.
TakeTurns == starts["EP"] = 1 => fifo["EP"] + fifo["RC"] <= 1

\* An EP that waits while RC's handshake is in its word gets to know its peer:
\* the poll thread, which polls the same word, does not take it away.
HandshakeTaken == (word["EP"] = "BAR" /\ At("EP", "wait")) ~> At("EP", "open")
=============================================================================
