-------------------------- MODULE LinuxPair_proofs --------------------------
(***************************************************************************)
(* What LinuxPair promises, for FIFOs of any size, however often the ICC   *)
(* module and the sample of either node are loaded and removed.            *)
(*                                                                         *)
(* The inductive invariant PairInv says what the place of each sample (the *)
(* statement of Start_ICC_Sample or Stop_ICC_Sample it has reached) means  *)
(* for the node: what the shared state must be there unless EP relocated   *)
(* its configuration over it, whether a data thread can exist, which parts *)
(* of the handshake RC has written, which addresses belong together and    *)
(* which thread may send.  One lemma per part takes each step of the model *)
(* in turn; steps that touch no variable of the part are taken together.   *)
(***************************************************************************)
EXTENDS LinuxPair, TLAPS
-----------------------------------------------------------------------------
(***************************************************************************)
(* The inductive invariant.                                                *)
(***************************************************************************)
Places == [n \in Nodes |->
  IF n = "EP"
  THEN {"absent", "relocate", "this", "pointers", "initialize", "wait", "clear",
        "open", "notify", "up", "finalize", "leaving"}
  ELSE {"absent", "initialize", "astray", "alive", "address",
        "open", "notify", "up", "finalize", "leaving"}]

\* The kinds of values, and where each sample can be.
Kinds ==
  /\ matching \in BOOLEAN
  /\ driver \in [Nodes -> {"absent", "bound", "unbound"}]
  /\ loads \in [Nodes -> 0 .. MaxLoads] /\ starts \in [Nodes -> Nat]
  /\ word \in [Nodes -> Words] /\ word["RC"] # "BAR"
  /\ hasAddress \in BOOLEAN /\ window \in {"unset", "RC", "elsewhere"}
  /\ block \in [this : Addresses, pointers : Addresses] /\ found \in Addresses
  /\ shared \in [Nodes -> {"UNINIT", "INIT", "OPEN", "ORPHAN"}]
  /\ config \in [Nodes -> BOOLEAN] /\ fifo \in [Nodes -> 0 .. Slots]
  /\ sample \in [Nodes -> Places["EP"] \union Places["RC"]]
  /\ \A n \in Nodes : sample[n] \in Places[n]
  /\ thread \in [Nodes -> [pc : {"none", "call", "asleep", "again", "notify"},
                           op : {"send", "recv"}]]
  /\ early \in BOOLEAN /\ torn \in BOOLEAN /\ erased \subseteq Nodes

\* Between ICC_Initialize and ICC_OPEN_Channel; with its channels open; in
\* use, that is from ICC_Initialize to ICC_Finalize.
Entering == {"wait", "clear", "alive", "address", "open"}
Entered == {"notify", "up"}
InUse == Entering \union Entered \union {"finalize"}

\* What the sample's place says of its node.
Lives ==
  \A n \in Nodes :
    /\ config[n] <=> sample[n] \in InUse \union {"astray"}
    /\ sample[n] # "absent" => driver[n] # "absent"
    /\ sample[n] \in InUse => driver[n] = "bound"
    /\ shared[n] = "INIT" => sample[n] \in Entering
    /\ shared[n] = "OPEN" => sample[n] \in Entered
    /\ shared[n] = "ORPHAN" =>
         n \in erased /\ sample[n] \in Entered \union {"astray"}
    /\ sample[n] \in Entering /\ shared[n] # "INIT" => n \in erased
    /\ sample[n] \in Entered /\ shared[n] # "OPEN" => n \in erased
    /\ n = "EP" => shared[n] # "ORPHAN" /\ driver[n] # "unbound"
    /\ sample["EP"] \in Entering => shared["EP"] = "INIT"
    /\ sample["EP"] \in Entered => shared["EP"] = "OPEN"

\* A data thread was started by the sample, which may be gone.
ThreadsOK ==
  \A n \in Nodes :
    /\ thread[n].pc # "none" =>
         sample[n] \in {"up", "finalize", "leaving", "absent", "astray"}
    /\ thread[n].pc = "none" => thread[n].op = FirstCall(n)
    /\ thread[n].pc = "asleep" => shared[n] = "OPEN" \/ n \in erased

\* RC stores its address before it notifies, and announces itself before that.
Unannounced == starts["RC"] = 0 \/ sample["RC"] \in {"initialize", "alive"}
HandshakeOK ==
  /\ word["EP"] # "WAIT" => hasAddress \/ At("RC", "address")
  /\ sample["RC"] \in {"open", "notify", "up", "finalize", "leaving"} => hasAddress
  /\ ~ThreadAt("RC", "none") => hasAddress
  /\ starts["RC"] = 0 => At("RC", "absent") /\ ThreadAt("RC", "none")
  /\ starts["RC"] <= 1 /\ Unannounced =>
       /\ word["EP"] = "WAIT" /\ ThreadAt("RC", "none")
       /\ sample["EP"] \notin {"clear", "open", "notify", "up"}

\* The addresses that belong together.
PointersOK ==
  /\ block.pointers <= loads["EP"] /\ block.this <= loads["EP"]
  /\ block.pointers = loads["EP"] => block.this = loads["EP"] /\ loads["EP"] > 0
  /\ driver["EP"] # "absent" => loads["EP"] > 0
  /\ At("EP", "pointers") => block.this = loads["EP"]
  /\ driver["RC"] = "unbound" => found = Nowhere
  /\ driver["RC"] # "absent" /\ ~early => found = loads["EP"] /\ loads["EP"] > 0

\* The right to send goes round: a node has it behind a receive, and EP when
\* it starts.
Turn(n) ==
  IF \/ /\ thread[n].op = "send" /\ thread[n].pc \in {"call", "asleep", "again"}
        /\ shared[n] = "OPEN"
     \/ thread[n].op = "recv" /\ thread[n].pc = "notify"
  THEN 1 ELSE 0
Turns == Turn("EP") + Turn("RC") + fifo["EP"] + fifo["RC"]

BeforeThread ==
  \/ starts["EP"] = 0
  \/ sample["EP"] \in {"relocate", "this", "pointers", "initialize", "wait",
                       "clear", "open", "notify"}
TurnsOK ==
  /\ starts["EP"] = 0 => At("EP", "absent") /\ ThreadAt("EP", "none")
  /\ starts["EP"] <= 1 => Turns <= IF BeforeThread THEN 0 ELSE 1

PairInv ==
  /\ Kinds /\ Lives /\ ThreadsOK /\ HandshakeOK /\ PointersOK /\ TurnsOK
  /\ WindowRight /\ HandshakeLeftOver /\ PointersRight

-----------------------------------------------------------------------------
\* Every step keeps every variable in its kind, and every sample in the
\* places of its node: EP never runs into wrong pointers.
LEMMA KindsStep == PairInv /\ [Next]_vars => Kinds'
<1> SUFFICES ASSUME Kinds, Lives, [Next]_vars PROVE Kinds'
  BY DEF PairInv
<1> USE PairAssumption DEF Nodes, At, Goto, ThreadAt, Up, drivers, handshake, memory, history,
      Kinds, Lives, Places, Words, Addresses, FirstCall, OtherCall, NoThread, Peer, Null, Nowhere, Entered, InUse
<1>1. ASSUME Relocate PROVE Kinds'
  BY <1>1 DEF Relocate
<1>2. ASSUME RelocateThis PROVE Kinds'
  BY <1>2 DEF RelocateThis
<1>3. ASSUME RelocatePointers PROVE Kinds'
  BY <1>3 DEF RelocatePointers
<1>4. ASSUME Alive PROVE Kinds'
  BY <1>4 DEF Alive
<1>5. ASSUME AliveAddress PROVE Kinds'
  BY <1>5 DEF AliveAddress
<1>6. ASSUME WaitForPeer PROVE Kinds'
  BY <1>6 DEF WaitForPeer, Outbound
<1>7. ASSUME WaitClear PROVE Kinds'
  BY <1>7 DEF WaitClear
<1>8. ASSUME NEW n \in Nodes, LoadDriver(n) PROVE Kinds'
  <2>1. CASE n = "EP"
    BY <1>8, <2>1 DEF LoadDriver, StartPolling
  <2>2. CASE n = "RC"
    BY <1>8, <2>2 DEF LoadDriver, StartPolling
  <2> QED
    BY <2>1, <2>2
<1>9. ASSUME NEW n \in Nodes, RemoveDriver(n) PROVE Kinds'
  BY <1>9 DEF RemoveDriver
<1>10. ASSUME NEW n \in Nodes, LoadSample(n) PROVE Kinds'
  BY <1>10 DEF LoadSample
<1>11. ASSUME NEW n \in Nodes, Finalize(n) PROVE Kinds'
  BY <1>11 DEF Finalize, Wake, Wakes
<1>12. ASSUME NEW n \in Nodes, Initialize(n) PROVE Kinds'
  <2>1. config' \in [Nodes -> BOOLEAN]
    BY <1>12 DEF Initialize
  <2>2. early' \in BOOLEAN
    BY <1>12 DEF Initialize
  <2>3. shared' \in [Nodes -> {"UNINIT", "INIT", "OPEN", "ORPHAN"}]
    BY <1>12 DEF Initialize
  <2>4. fifo' \in [Nodes -> 0 .. Slots]
    BY <1>12 DEF Initialize
  <2>5. erased' \subseteq Nodes
    BY <1>12 DEF Initialize
  <2>6. \E place \in Places[n] : sample' = [sample EXCEPT ![n] = place]
    <3>1. CASE Taken(n)
      BY <1>12, <3>1 DEF Initialize, AfterInitialize
    <3>2. CASE ~Taken(n)
      BY <1>12, <3>2 DEF Initialize, Taken
    <3> QED
      BY <3>1, <3>2
  <2>7. UNCHANGED <<matching, driver, loads, starts, word, hasAddress, window,
                    block, found, thread, torn>>
    BY <1>12 DEF Initialize
  <2> QED
    BY <2>1, <2>2, <2>3, <2>4, <2>5, <2>6, <2>7
<1>13. ASSUME NEW n \in Nodes, OpenChannels(n) PROVE Kinds'
  BY <1>13 DEF OpenChannels
<1>14. ASSUME NEW n \in Nodes, StartThread(n) PROVE Kinds'
  BY <1>14 DEF StartThread, NotifyPeer, MayNotify, Reaches
<1>15. ASSUME NEW n \in Nodes, FinalizeNotify(n) PROVE Kinds'
  BY <1>15 DEF FinalizeNotify, NotifyPeer, MayNotify, Reaches
<1>16. ASSUME NEW n \in Nodes, Unload(n) PROVE Kinds'
  BY <1>16 DEF Unload, Blocked, MayNotify, Reaches
<1>17. ASSUME NEW n \in Nodes, Poll(n) PROVE Kinds'
  BY <1>17 DEF Poll, Wake, Noticed
<1>18. ASSUME NEW n \in Nodes, Call(n) PROVE Kinds'
  BY <1>18 DEF Call, Attempt, ThreadReturn, ThreadAfter, ThreadGoto, Served, Transfer
<1>19. ASSUME NEW n \in Nodes, CallOrphan(n) PROVE Kinds'
  BY <1>19 DEF CallOrphan
<1>20. ASSUME NEW n \in Nodes, Again(n) PROVE Kinds'
  BY <1>20 DEF Again, Attempt, ThreadReturn, ThreadAfter, ThreadGoto, Served, Transfer
<1>21. ASSUME NEW n \in Nodes, ThreadNotify(n) PROVE Kinds'
  BY <1>21 DEF ThreadNotify, NotifyPeer, MayNotify, Reaches, ThreadReturn, ThreadAfter
<1>22. CASE UNCHANGED vars
  BY <1>22 DEF vars
<1> QED
  BY <1>1, <1>2, <1>3, <1>4, <1>5, <1>6, <1>7, <1>8, <1>9, <1>10, <1>11, <1>12, <1>13, <1>14, <1>15, <1>16, <1>17, <1>18, <1>19, <1>20, <1>21, <1>22
  DEF Next, Handshaking, Starting, Stopping, Threads, Operator

\* What the place of a sample says of its node is kept: the step that
\* changes ICC_Initialized or the channel state is the one that moves the
\* sample, or RelocatePointers, which records the node in erased.
LEMMA LivesStep == PairInv /\ [Next]_vars => Lives'
<1> SUFFICES ASSUME Kinds, Lives, ThreadsOK, PointersOK, [Next]_vars PROVE Lives'
  BY DEF PairInv
<1> USE PairAssumption DEF Nodes, At, Goto, ThreadAt, Up, drivers, handshake, memory, history,
      Kinds, Lives, ThreadsOK, Places, Entering, Entered, InUse, Initialized, EndpointOpen, FirstCall, OtherCall, NoThread, Peer
<1>1. ASSUME Relocate PROVE Lives'
  BY <1>1 DEF Relocate
<1>2. ASSUME RelocateThis PROVE Lives'
  BY <1>2 DEF RelocateThis
<1>3. ASSUME RelocatePointers PROVE Lives'
  BY <1>3 DEF RelocatePointers
<1>4. ASSUME Alive PROVE Lives'
  BY <1>4 DEF Alive
<1>5. ASSUME AliveAddress PROVE Lives'
  BY <1>5 DEF AliveAddress
<1>6. ASSUME WaitForPeer PROVE Lives'
  BY <1>6 DEF WaitForPeer, Outbound
<1>7. ASSUME WaitClear PROVE Lives'
  BY <1>7 DEF WaitClear
<1>8. ASSUME NEW n \in Nodes, LoadDriver(n) PROVE Lives'
  BY <1>8 DEF LoadDriver, StartPolling
<1>9. ASSUME NEW n \in Nodes, RemoveDriver(n) PROVE Lives'
  BY <1>9 DEF RemoveDriver
<1>10. ASSUME NEW n \in Nodes, LoadSample(n) PROVE Lives'
  BY <1>10 DEF LoadSample
<1>11. ASSUME NEW n \in Nodes, Finalize(n) PROVE Lives'
  BY <1>11 DEF Finalize, Wake, Wakes
<1>12. ASSUME NEW n \in Nodes, Initialize(n) PROVE Lives'
  <2>1. CASE Taken(n) /\ n = "EP"
    BY <1>12, <2>1 DEF Initialize, Taken, AfterInitialize, Translated
  <2>2. CASE Taken(n) /\ n = "RC"
    <3>1. driver["RC"] = "bound" /\ UNCHANGED driver
      BY <1>12, <2>2 DEF Initialize, Taken, Translated, Null, Nowhere, PointersOK
    <3>2. /\ config' = [config EXCEPT !["RC"] = TRUE]
          /\ shared' = [shared EXCEPT !["RC"] = "INIT"]
          /\ sample' = [sample EXCEPT !["RC"] = "alive"] /\ erased' = erased \ {"RC"}
      BY <1>12, <2>2 DEF Initialize, AfterInitialize
    <3> QED
      BY <3>1, <3>2
  <2>3. CASE ~Taken(n)
    <3>1. n = "RC"
      BY <2>3 DEF Taken
    <3> QED
      BY <1>12, <2>3, <3>1 DEF Initialize, Taken, Translated
  <2> QED
    BY <2>1, <2>2, <2>3
<1>13. ASSUME NEW n \in Nodes, OpenChannels(n) PROVE Lives'
  BY <1>13 DEF OpenChannels
<1>14. ASSUME NEW n \in Nodes, StartThread(n) PROVE Lives'
  BY <1>14 DEF StartThread, NotifyPeer, MayNotify, Reaches
<1>15. ASSUME NEW n \in Nodes, FinalizeNotify(n) PROVE Lives'
  BY <1>15 DEF FinalizeNotify, NotifyPeer, MayNotify, Reaches
<1>16. ASSUME NEW n \in Nodes, Unload(n) PROVE Lives'
  BY <1>16 DEF Unload, Blocked, MayNotify, Reaches
<1>17. ASSUME NEW n \in Nodes, CallOrphan(n) PROVE Lives'
  BY <1>17 DEF CallOrphan
<1>18. ASSUME NEW n \in Nodes, Poll(n) \/ Call(n) \/ Again(n) \/ ThreadNotify(n)
      PROVE Lives'
  <2>1. UNCHANGED <<config, sample, driver, shared, erased>>
    BY <1>18 DEF Poll, Call, Again, ThreadNotify, Attempt
  <2> QED
    BY <2>1
<1>19. CASE UNCHANGED vars
  BY <1>19 DEF vars
<1> HIDE DEF Nodes, At, Goto, ThreadAt, Up, drivers, handshake, memory, history,
      Kinds, Lives, ThreadsOK, Places, Entering, Entered, InUse, Initialized, EndpointOpen, FirstCall, OtherCall, NoThread, Peer
<1>20. ASSUME Handshaking PROVE Lives'
  BY <1>4, <1>5, <1>6, <1>7, <1>20 DEF Handshaking
<1>21. ASSUME NEW n \in Nodes, Operator(n) PROVE Lives'
  BY <1>8, <1>9, <1>10, <1>11, <1>21 DEF Operator
<1>22. ASSUME NEW n \in Nodes, Starting(n) \/ Stopping(n) PROVE Lives'
  BY <1>12, <1>13, <1>14, <1>15, <1>16, <1>22 DEF Starting, Stopping
<1>23. ASSUME NEW n \in Nodes, Threads(n) PROVE Lives'
  BY <1>17, <1>18, <1>23 DEF Threads
<1> QED
  BY <1>1, <1>2, <1>3, <1>19, <1>20, <1>21, <1>22, <1>23 DEF Next

\* A data thread exists only behind StartThread, and sleeps only while its
\* channel is open: ICC_Finalize wakes what sleeps on an open end point.
LEMMA ThreadsOKStep == PairInv /\ [Next]_vars => ThreadsOK'
<1> SUFFICES ASSUME Kinds, Lives, ThreadsOK, [Next]_vars PROVE ThreadsOK'
  BY DEF PairInv
<1> USE PairAssumption DEF Nodes, At, Goto, ThreadAt, Up, drivers, handshake, memory, history,
      Kinds, Lives, ThreadsOK, Places, Entering, Entered, InUse, Initialized, EndpointOpen, FirstCall, OtherCall, NoThread, Peer
<1>1. ASSUME Relocate PROVE ThreadsOK'
  BY <1>1 DEF Relocate
<1>2. ASSUME RelocateThis PROVE ThreadsOK'
  BY <1>2 DEF RelocateThis
<1>3. ASSUME RelocatePointers PROVE ThreadsOK'
  BY <1>3 DEF RelocatePointers
<1>4. ASSUME Alive PROVE ThreadsOK'
  BY <1>4 DEF Alive
<1>5. ASSUME AliveAddress PROVE ThreadsOK'
  BY <1>5 DEF AliveAddress
<1>6. ASSUME WaitForPeer PROVE ThreadsOK'
  BY <1>6 DEF WaitForPeer, Outbound
<1>7. ASSUME WaitClear PROVE ThreadsOK'
  BY <1>7 DEF WaitClear
<1>8. ASSUME NEW n \in Nodes, LoadSample(n) PROVE ThreadsOK'
  BY <1>8 DEF LoadSample
<1>9. ASSUME NEW n \in Nodes, Finalize(n) PROVE ThreadsOK'
  BY <1>9 DEF Finalize, Wake, Wakes
<1>10. ASSUME NEW n \in Nodes, Initialize(n) PROVE ThreadsOK'
  BY <1>10 DEF Initialize, Taken, AfterInitialize, Translated
<1>11. ASSUME NEW n \in Nodes, OpenChannels(n) PROVE ThreadsOK'
  BY <1>11 DEF OpenChannels
<1>12. ASSUME NEW n \in Nodes, StartThread(n) PROVE ThreadsOK'
  BY <1>12 DEF StartThread, NotifyPeer, MayNotify, Reaches
<1>13. ASSUME NEW n \in Nodes, FinalizeNotify(n) PROVE ThreadsOK'
  BY <1>13 DEF FinalizeNotify, NotifyPeer, MayNotify, Reaches
<1>14. ASSUME NEW n \in Nodes, Unload(n) PROVE ThreadsOK'
  BY <1>14 DEF Unload, Blocked, MayNotify, Reaches
<1>15. ASSUME NEW n \in Nodes, Poll(n) PROVE ThreadsOK'
  BY <1>15 DEF Poll, Wake, Noticed
<1>16. ASSUME NEW n \in Nodes, Call(n) PROVE ThreadsOK'
  BY <1>16 DEF Call, Attempt, ThreadReturn, ThreadAfter, ThreadGoto, Served, Transfer
<1>17. ASSUME NEW n \in Nodes, CallOrphan(n) PROVE ThreadsOK'
  BY <1>17 DEF CallOrphan
<1>18. ASSUME NEW n \in Nodes, Again(n) PROVE ThreadsOK'
  BY <1>18 DEF Again, Attempt, ThreadReturn, ThreadAfter, ThreadGoto, Served, Transfer
<1>19. ASSUME NEW n \in Nodes, ThreadNotify(n) PROVE ThreadsOK'
  BY <1>19 DEF ThreadNotify, NotifyPeer, MayNotify, Reaches, ThreadReturn, ThreadAfter
<1>20. ASSUME NEW n \in Nodes, LoadDriver(n) \/ RemoveDriver(n)
      PROVE ThreadsOK'
  BY <1>20 DEF LoadDriver, RemoveDriver
<1>21. CASE UNCHANGED vars
  BY <1>21 DEF vars
<1> QED
  BY <1>1, <1>2, <1>3, <1>4, <1>5, <1>6, <1>7, <1>8, <1>9, <1>10, <1>11, <1>12, <1>13, <1>14, <1>15, <1>16, <1>17, <1>18, <1>19, <1>20, <1>21
  DEF Next, Handshaking, Starting, Stopping, Threads, Operator

\* RC announces itself after it was loaded, stores the address before its
\* sample goes on, and nothing else puts a value into the word of EP.
LEMMA HandshakeOKStep == PairInv /\ [Next]_vars => HandshakeOK'
<1> SUFFICES ASSUME Kinds, ThreadsOK, HandshakeOK, [Next]_vars PROVE HandshakeOK'
  BY DEF PairInv
<1> USE PairAssumption DEF Nodes, At, Goto, ThreadAt, Up, drivers, handshake, memory, history,
      Kinds, ThreadsOK, HandshakeOK, Places, Words, Unannounced, Peer, NoThread, FirstCall, OtherCall
<1>1. ASSUME Relocate PROVE HandshakeOK'
  BY <1>1 DEF Relocate
<1>2. ASSUME RelocateThis PROVE HandshakeOK'
  BY <1>2 DEF RelocateThis
<1>3. ASSUME RelocatePointers PROVE HandshakeOK'
  BY <1>3 DEF RelocatePointers
<1>4. ASSUME Alive PROVE HandshakeOK'
  BY <1>4 DEF Alive
<1>5. ASSUME AliveAddress PROVE HandshakeOK'
  BY <1>5 DEF AliveAddress
<1>6. ASSUME WaitForPeer PROVE HandshakeOK'
  BY <1>6 DEF WaitForPeer, Outbound
<1>7. ASSUME WaitClear PROVE HandshakeOK'
  BY <1>7 DEF WaitClear
<1>8. ASSUME NEW n \in Nodes, LoadDriver(n) PROVE HandshakeOK'
  BY <1>8 DEF LoadDriver, StartPolling
<1>9. ASSUME NEW n \in Nodes, LoadSample(n) PROVE HandshakeOK'
  BY <1>9 DEF LoadSample
<1>10. ASSUME NEW n \in Nodes, Finalize(n) PROVE HandshakeOK'
  BY <1>10 DEF Finalize, Wake, Wakes
<1>11. ASSUME NEW n \in Nodes, Initialize(n) PROVE HandshakeOK'
  BY <1>11 DEF Initialize, Taken, AfterInitialize, Translated
<1>12. ASSUME NEW n \in Nodes, OpenChannels(n) PROVE HandshakeOK'
  BY <1>12 DEF OpenChannels
<1>13. ASSUME NEW n \in Nodes, StartThread(n) PROVE HandshakeOK'
  BY <1>13 DEF StartThread, NotifyPeer, MayNotify, Reaches
<1>14. ASSUME NEW n \in Nodes, FinalizeNotify(n) PROVE HandshakeOK'
  BY <1>14 DEF FinalizeNotify, NotifyPeer, MayNotify, Reaches
<1>15. ASSUME NEW n \in Nodes, Unload(n) PROVE HandshakeOK'
  BY <1>15 DEF Unload, Blocked, MayNotify, Reaches
<1>16. ASSUME NEW n \in Nodes, Poll(n) PROVE HandshakeOK'
  BY <1>16 DEF Poll, Wake, Noticed
<1>17. ASSUME NEW n \in Nodes, Call(n) PROVE HandshakeOK'
  BY <1>17 DEF Call, Attempt, ThreadReturn, ThreadAfter, ThreadGoto, Served, Transfer
<1>18. ASSUME NEW n \in Nodes, CallOrphan(n) PROVE HandshakeOK'
  BY <1>18 DEF CallOrphan
<1>19. ASSUME NEW n \in Nodes, Again(n) PROVE HandshakeOK'
  BY <1>19 DEF Again, Attempt, ThreadReturn, ThreadAfter, ThreadGoto, Served, Transfer
<1>20. ASSUME NEW n \in Nodes, ThreadNotify(n) PROVE HandshakeOK'
  BY <1>20 DEF ThreadNotify, NotifyPeer, MayNotify, Reaches, ThreadReturn, ThreadAfter
<1>21. ASSUME NEW n \in Nodes, RemoveDriver(n)
      PROVE HandshakeOK'
  BY <1>21 DEF RemoveDriver
<1>22. CASE UNCHANGED vars
  BY <1>22 DEF vars
<1> QED
  BY <1>1, <1>2, <1>3, <1>4, <1>5, <1>6, <1>7, <1>8, <1>9, <1>10, <1>11, <1>12, <1>13, <1>14, <1>15, <1>16, <1>17, <1>18, <1>19, <1>20, <1>21, <1>22
  DEF Next, Handshaking, Starting, Stopping, Threads, Operator

\* Only the load of EP that runs the relocation makes addresses valid, in
\* the order This_Ptr, pointers; what RC found is of the load it found it in.
LEMMA PointersOKStep == PairInv /\ [Next]_vars => PointersOK'
<1> SUFFICES ASSUME Kinds, Lives, PointersOK, [Next]_vars PROVE PointersOK'
  BY DEF PairInv
<1> USE PairAssumption DEF Nodes, At, Goto, ThreadAt, Up, drivers, handshake, memory, history,
      Kinds, Lives, PointersOK, Places, Addresses, NoBlock, Whole, Null, Nowhere
<1>1. ASSUME Relocate PROVE PointersOK'
  BY <1>1 DEF Relocate
<1>2. ASSUME RelocateThis PROVE PointersOK'
  BY <1>2 DEF RelocateThis
<1>3. ASSUME RelocatePointers PROVE PointersOK'
  BY <1>3 DEF RelocatePointers
<1>4. ASSUME Alive PROVE PointersOK'
  BY <1>4 DEF Alive
<1>5. ASSUME AliveAddress PROVE PointersOK'
  BY <1>5 DEF AliveAddress
<1>6. ASSUME WaitForPeer PROVE PointersOK'
  BY <1>6 DEF WaitForPeer, Outbound
<1>7. ASSUME WaitClear PROVE PointersOK'
  BY <1>7 DEF WaitClear
<1>8. ASSUME NEW n \in Nodes, LoadDriver(n) PROVE PointersOK'
  <2>1. CASE n = "EP"
    <3>1. driver["EP"] = "absent" /\ loads["EP"] \in Nat /\ loads'["EP"] = loads["EP"] + 1
      BY <1>8, <2>1 DEF LoadDriver
    <3>2. sample["EP"] = "absent" /\ UNCHANGED <<block, found, sample>> /\ driver'["RC"] = driver["RC"]
      BY <1>8, <2>1 DEF LoadDriver
    <3>3. early' = (early \/ driver["RC"] = "bound") /\ driver' \in [Nodes -> {"absent", "bound", "unbound"}]
      BY <1>8, <2>1 DEF LoadDriver
    <3>4. ~early' => driver'["RC"] = "absent"
      <4>1. driver["RC"] = "unbound" /\ ~early => found = -1 /\ found = loads["EP"]
        OBVIOUS
      <4>2. driver["RC"] # "unbound" \/ early
        BY <3>1, <4>1
      <4>3. driver["RC"] \in {"absent", "bound", "unbound"}
        OBVIOUS
      <4> HIDE DEF Kinds, Lives, PointersOK
      <4> QED
        BY <3>2, <3>3, <4>2, <4>3
    <3> QED
      BY <3>1, <3>2, <3>3, <3>4
  <2>2. CASE n = "RC"
    <3>1. UNCHANGED <<block, sample>> /\ loads'["EP"] = loads["EP"] /\ driver'["EP"] = driver["EP"]
      BY <1>8, <2>2 DEF LoadDriver
    <3>2. found' = block.this /\ early' = ~Whole
      BY <1>8, <2>2 DEF LoadDriver
    <3>3. driver'["RC"] = "unbound" => block.this = Nowhere
      BY <1>8, <2>2 DEF LoadDriver
    <3> QED
      BY <3>1, <3>2, <3>3
  <2> QED
    BY <2>1, <2>2
<1>9. ASSUME NEW n \in Nodes, RemoveDriver(n) PROVE PointersOK'
  BY <1>9 DEF RemoveDriver
<1>10. ASSUME NEW n \in Nodes, LoadSample(n) PROVE PointersOK'
  BY <1>10 DEF LoadSample
<1>11. ASSUME NEW n \in Nodes, Finalize(n) PROVE PointersOK'
  BY <1>11 DEF Finalize, Wake, Wakes
<1>12. ASSUME NEW n \in Nodes, Initialize(n) PROVE PointersOK'
  BY <1>12 DEF Initialize, Taken, AfterInitialize, Translated
<1>13. ASSUME NEW n \in Nodes, OpenChannels(n) PROVE PointersOK'
  BY <1>13 DEF OpenChannels
<1>14. ASSUME NEW n \in Nodes, StartThread(n) PROVE PointersOK'
  BY <1>14 DEF StartThread, NotifyPeer, MayNotify, Reaches
<1>15. ASSUME NEW n \in Nodes, FinalizeNotify(n) PROVE PointersOK'
  BY <1>15 DEF FinalizeNotify, NotifyPeer, MayNotify, Reaches
<1>16. ASSUME NEW n \in Nodes, Unload(n) PROVE PointersOK'
  BY <1>16 DEF Unload, Blocked, MayNotify, Reaches
<1>17. ASSUME NEW n \in Nodes, CallOrphan(n) PROVE PointersOK'
  BY <1>17 DEF CallOrphan
<1>18. ASSUME NEW n \in Nodes, Poll(n) \/ Call(n) \/ Again(n) \/ ThreadNotify(n)
      PROVE PointersOK'
  BY <1>18 DEF Poll, Call, Again, ThreadNotify, Attempt
<1>19. CASE UNCHANGED vars
  BY <1>19 DEF vars
<1> QED
  BY <1>1, <1>2, <1>3, <1>4, <1>5, <1>6, <1>7, <1>8, <1>9, <1>10, <1>11, <1>12, <1>13, <1>14, <1>15, <1>16, <1>17, <1>18, <1>19
  DEF Next, Handshaking, Starting, Stopping, Threads, Operator

\* The right to send is handed on: a send gives it to the message, a receive
\* takes it from there, and a call that fails gives none away.
LEMMA TurnsOKStep == PairInv /\ [Next]_vars => TurnsOK'
<1> SUFFICES ASSUME Kinds, Lives, ThreadsOK, TurnsOK, [Next]_vars PROVE TurnsOK'
  BY DEF PairInv
<1> USE PairAssumption DEF Nodes, At, Goto, ThreadAt, Up, drivers, handshake, memory, history,
      Kinds, Lives, ThreadsOK, TurnsOK, Places, Turns, Turn, BeforeThread, NoThread, FirstCall, OtherCall, Peer, Initialized, EndpointOpen, Entering, Entered, InUse
<1>1. ASSUME Relocate PROVE TurnsOK'
  BY <1>1 DEF Relocate
<1>2. ASSUME RelocateThis PROVE TurnsOK'
  BY <1>2 DEF RelocateThis
<1>3. ASSUME RelocatePointers PROVE TurnsOK'
  BY <1>3 DEF RelocatePointers
<1>4. ASSUME Alive PROVE TurnsOK'
  BY <1>4 DEF Alive
<1>5. ASSUME AliveAddress PROVE TurnsOK'
  BY <1>5 DEF AliveAddress
<1>6. ASSUME WaitForPeer PROVE TurnsOK'
  BY <1>6 DEF WaitForPeer, Outbound
<1>7. ASSUME WaitClear PROVE TurnsOK'
  BY <1>7 DEF WaitClear
<1>8. ASSUME NEW n \in Nodes, LoadSample(n) PROVE TurnsOK'
  BY <1>8 DEF LoadSample
<1>9. ASSUME NEW n \in Nodes, Finalize(n) PROVE TurnsOK'
  BY <1>9 DEF Finalize, Wake, Wakes
<1>10. ASSUME NEW n \in Nodes, Initialize(n) PROVE TurnsOK'
  BY <1>10 DEF Initialize, Taken, AfterInitialize, Translated
<1>11. ASSUME NEW n \in Nodes, OpenChannels(n) PROVE TurnsOK'
  BY <1>11 DEF OpenChannels
<1>12. ASSUME NEW n \in Nodes, StartThread(n) PROVE TurnsOK'
  BY <1>12 DEF StartThread, NotifyPeer, MayNotify, Reaches
<1>13. ASSUME NEW n \in Nodes, FinalizeNotify(n) PROVE TurnsOK'
  BY <1>13 DEF FinalizeNotify, NotifyPeer, MayNotify, Reaches
<1>14. ASSUME NEW n \in Nodes, Unload(n) PROVE TurnsOK'
  BY <1>14 DEF Unload, Blocked, MayNotify, Reaches
<1>15. ASSUME NEW n \in Nodes, Poll(n) PROVE TurnsOK'
  BY <1>15 DEF Poll, Wake, Noticed
<1>16. ASSUME NEW n \in Nodes, Call(n) PROVE TurnsOK'
  BY <1>16 DEF Call, Attempt, ThreadReturn, ThreadAfter, ThreadGoto, Served, Transfer
<1>17. ASSUME NEW n \in Nodes, CallOrphan(n) PROVE TurnsOK'
  BY <1>17 DEF CallOrphan
<1>18. ASSUME NEW n \in Nodes, Again(n) PROVE TurnsOK'
  BY <1>18 DEF Again, Attempt, ThreadReturn, ThreadAfter, ThreadGoto, Served, Transfer
<1>19. ASSUME NEW n \in Nodes, ThreadNotify(n) PROVE TurnsOK'
  BY <1>19 DEF ThreadNotify, NotifyPeer, MayNotify, Reaches, ThreadReturn, ThreadAfter
<1>20. ASSUME NEW n \in Nodes, LoadDriver(n) \/ RemoveDriver(n)
      PROVE TurnsOK'
  BY <1>20 DEF LoadDriver, RemoveDriver
<1>21. CASE UNCHANGED vars
  BY <1>21 DEF vars
<1> QED
  BY <1>1, <1>2, <1>3, <1>4, <1>5, <1>6, <1>7, <1>8, <1>9, <1>10, <1>11, <1>12, <1>13, <1>14, <1>15, <1>16, <1>17, <1>18, <1>19, <1>20, <1>21
  DEF Next, Handshaking, Starting, Stopping, Threads, Operator

\* EP sets its window where it takes the handshake, and nowhere else.
LEMMA WindowRightStep == PairInv /\ [Next]_vars => WindowRight'
<1> SUFFICES ASSUME Kinds, HandshakeOK, WindowRight, [Next]_vars PROVE WindowRight'
  BY DEF PairInv
<1> USE PairAssumption DEF Nodes, At, Goto, ThreadAt, Up, drivers, handshake, memory, history,
      Kinds, HandshakeOK, WindowRight, Places, Connected
<1>1. ASSUME Relocate PROVE WindowRight'
  BY <1>1 DEF Relocate
<1>2. ASSUME RelocateThis PROVE WindowRight'
  BY <1>2 DEF RelocateThis
<1>3. ASSUME RelocatePointers PROVE WindowRight'
  BY <1>3 DEF RelocatePointers
<1>4. ASSUME Alive PROVE WindowRight'
  BY <1>4 DEF Alive
<1>5. ASSUME AliveAddress PROVE WindowRight'
  BY <1>5 DEF AliveAddress
<1>6. ASSUME WaitForPeer PROVE WindowRight'
  BY <1>6 DEF WaitForPeer, Outbound
<1>7. ASSUME WaitClear PROVE WindowRight'
  BY <1>7 DEF WaitClear
<1>8. ASSUME NEW n \in Nodes, LoadSample(n) PROVE WindowRight'
  BY <1>8 DEF LoadSample
<1>9. ASSUME NEW n \in Nodes, Finalize(n) PROVE WindowRight'
  BY <1>9 DEF Finalize, Wake, Wakes
<1>10. ASSUME NEW n \in Nodes, Initialize(n) PROVE WindowRight'
  BY <1>10 DEF Initialize, Taken, AfterInitialize, Translated
<1>11. ASSUME NEW n \in Nodes, OpenChannels(n) PROVE WindowRight'
  BY <1>11 DEF OpenChannels
<1>12. ASSUME NEW n \in Nodes, StartThread(n) PROVE WindowRight'
  BY <1>12 DEF StartThread, NotifyPeer, MayNotify, Reaches
<1>13. ASSUME NEW n \in Nodes, FinalizeNotify(n) PROVE WindowRight'
  BY <1>13 DEF FinalizeNotify, NotifyPeer, MayNotify, Reaches
<1>14. ASSUME NEW n \in Nodes, Unload(n) PROVE WindowRight'
  BY <1>14 DEF Unload, Blocked, MayNotify, Reaches
<1>15. ASSUME NEW n \in Nodes, CallOrphan(n) PROVE WindowRight'
  BY <1>15 DEF CallOrphan
<1>16. ASSUME NEW n \in Nodes, LoadDriver(n) \/ RemoveDriver(n) \/ Poll(n) \/ Call(n) \/ Again(n) \/ ThreadNotify(n)
      PROVE WindowRight'
  BY <1>16 DEF LoadDriver, RemoveDriver, Poll, Call, Again, ThreadNotify, Attempt
<1>17. CASE UNCHANGED vars
  BY <1>17 DEF vars
<1> QED
  BY <1>1, <1>2, <1>3, <1>4, <1>5, <1>6, <1>7, <1>8, <1>9, <1>10, <1>11, <1>12, <1>13, <1>14, <1>15, <1>16, <1>17
  DEF Next, Handshaking, Starting, Stopping, Threads, Operator

\* RC writes the handshake where EP waits for it, or it writes it again.
LEMMA HandshakeLeftOverStep == PairInv /\ [Next]_vars => HandshakeLeftOver'
<1> SUFFICES ASSUME Kinds, HandshakeOK, HandshakeLeftOver, [Next]_vars PROVE HandshakeLeftOver'
  BY DEF PairInv
<1> USE PairAssumption DEF Nodes, At, Goto, ThreadAt, Up, drivers, handshake, memory, history,
      Kinds, HandshakeOK, HandshakeLeftOver, Places, Unannounced, Peer
<1>1. ASSUME Relocate PROVE HandshakeLeftOver'
  BY <1>1 DEF Relocate
<1>2. ASSUME RelocateThis PROVE HandshakeLeftOver'
  BY <1>2 DEF RelocateThis
<1>3. ASSUME RelocatePointers PROVE HandshakeLeftOver'
  BY <1>3 DEF RelocatePointers
<1>4. ASSUME Alive PROVE HandshakeLeftOver'
  BY <1>4 DEF Alive
<1>5. ASSUME AliveAddress PROVE HandshakeLeftOver'
  BY <1>5 DEF AliveAddress
<1>6. ASSUME WaitForPeer PROVE HandshakeLeftOver'
  BY <1>6 DEF WaitForPeer, Outbound
<1>7. ASSUME WaitClear PROVE HandshakeLeftOver'
  BY <1>7 DEF WaitClear
<1>8. ASSUME NEW n \in Nodes, LoadDriver(n) PROVE HandshakeLeftOver'
  BY <1>8 DEF LoadDriver, StartPolling
<1>9. ASSUME NEW n \in Nodes, LoadSample(n) PROVE HandshakeLeftOver'
  BY <1>9 DEF LoadSample
<1>10. ASSUME NEW n \in Nodes, Finalize(n) PROVE HandshakeLeftOver'
  BY <1>10 DEF Finalize, Wake, Wakes
<1>11. ASSUME NEW n \in Nodes, Initialize(n) PROVE HandshakeLeftOver'
  BY <1>11 DEF Initialize, Taken, AfterInitialize, Translated
<1>12. ASSUME NEW n \in Nodes, OpenChannels(n) PROVE HandshakeLeftOver'
  BY <1>12 DEF OpenChannels
<1>13. ASSUME NEW n \in Nodes, StartThread(n) PROVE HandshakeLeftOver'
  BY <1>13 DEF StartThread, NotifyPeer, MayNotify, Reaches
<1>14. ASSUME NEW n \in Nodes, FinalizeNotify(n) PROVE HandshakeLeftOver'
  BY <1>14 DEF FinalizeNotify, NotifyPeer, MayNotify, Reaches
<1>15. ASSUME NEW n \in Nodes, Unload(n) PROVE HandshakeLeftOver'
  BY <1>15 DEF Unload, Blocked, MayNotify, Reaches
<1>16. ASSUME NEW n \in Nodes, Poll(n) PROVE HandshakeLeftOver'
  BY <1>16 DEF Poll, Wake, Noticed
<1>17. ASSUME NEW n \in Nodes, CallOrphan(n) PROVE HandshakeLeftOver'
  BY <1>17 DEF CallOrphan
<1>18. ASSUME NEW n \in Nodes, ThreadNotify(n) PROVE HandshakeLeftOver'
  BY <1>18 DEF ThreadNotify, NotifyPeer, MayNotify, Reaches, ThreadReturn, ThreadAfter
<1>19. ASSUME NEW n \in Nodes, RemoveDriver(n) \/ Call(n) \/ Again(n)
      PROVE HandshakeLeftOver'
  BY <1>19 DEF RemoveDriver, Call, Again, Attempt
<1>20. CASE UNCHANGED vars
  BY <1>20 DEF vars
<1> QED
  BY <1>1, <1>2, <1>3, <1>4, <1>5, <1>6, <1>7, <1>8, <1>9, <1>10, <1>11, <1>12, <1>13, <1>14, <1>15, <1>16, <1>17, <1>18, <1>19, <1>20
  DEF Next, Handshaking, Starting, Stopping, Threads, Operator

\* RC runs into wrong pointers at ICC_Initialize, or in a call on an end
\* point whose state was erased.
LEMMA PointersRightStep == PairInv /\ [Next]_vars => PointersRight'
<1> SUFFICES ASSUME Kinds, Lives, PointersOK, PointersRight, [Next]_vars PROVE PointersRight'
  BY DEF PairInv
<1> USE PairAssumption DEF Nodes, At, Goto, ThreadAt, Up, drivers, handshake, memory, history,
      Kinds, Lives, PointersOK, PointersRight, Places, Addresses, Whole, Null, Nowhere, Entering, Entered, InUse
<1>1. ASSUME Relocate PROVE PointersRight'
  BY <1>1 DEF Relocate
<1>2. ASSUME RelocateThis PROVE PointersRight'
  BY <1>2 DEF RelocateThis
<1>3. ASSUME RelocatePointers PROVE PointersRight'
  BY <1>3 DEF RelocatePointers
<1>4. ASSUME Alive PROVE PointersRight'
  BY <1>4 DEF Alive
<1>5. ASSUME AliveAddress PROVE PointersRight'
  BY <1>5 DEF AliveAddress
<1>6. ASSUME WaitForPeer PROVE PointersRight'
  BY <1>6 DEF WaitForPeer, Outbound
<1>7. ASSUME WaitClear PROVE PointersRight'
  BY <1>7 DEF WaitClear
<1>8. ASSUME NEW n \in Nodes, LoadDriver(n) PROVE PointersRight'
  BY <1>8 DEF LoadDriver, StartPolling
<1>9. ASSUME NEW n \in Nodes, LoadSample(n) PROVE PointersRight'
  BY <1>9 DEF LoadSample
<1>10. ASSUME NEW n \in Nodes, Finalize(n) PROVE PointersRight'
  BY <1>10 DEF Finalize, Wake, Wakes
<1>11. ASSUME NEW n \in Nodes, Initialize(n) PROVE PointersRight'
  <2>1. CASE Taken(n) /\ n = "EP"
    BY <1>11, <2>1 DEF Initialize, Taken, AfterInitialize, Translated
  <2>2. CASE Taken(n) /\ n = "RC"
    BY <1>11, <2>2 DEF Initialize, Taken, AfterInitialize, Translated
  <2>3. CASE ~Taken(n)
    <3>1. n = "RC"
      BY <2>3 DEF Taken
    <3>2. sample["RC"] = "initialize" /\ early' = (early \/ ~Whole) /\ UNCHANGED matching
      BY <1>11, <2>3, <3>1 DEF Initialize
    <3>3. matching /\ ~early => block.pointers # loads["EP"]
      BY <2>3, <3>1, <3>2 DEF Taken, Translated
    <3> QED
      BY <3>2, <3>3
  <2> QED
    BY <2>1, <2>2, <2>3
<1>12. ASSUME NEW n \in Nodes, OpenChannels(n) PROVE PointersRight'
  BY <1>12 DEF OpenChannels
<1>13. ASSUME NEW n \in Nodes, StartThread(n) PROVE PointersRight'
  BY <1>13 DEF StartThread, NotifyPeer, MayNotify, Reaches
<1>14. ASSUME NEW n \in Nodes, FinalizeNotify(n) PROVE PointersRight'
  BY <1>14 DEF FinalizeNotify, NotifyPeer, MayNotify, Reaches
<1>15. ASSUME NEW n \in Nodes, Unload(n) PROVE PointersRight'
  BY <1>15 DEF Unload, Blocked, MayNotify, Reaches
<1>16. ASSUME NEW n \in Nodes, CallOrphan(n) PROVE PointersRight'
  BY <1>16 DEF CallOrphan
<1>17. ASSUME NEW n \in Nodes, RemoveDriver(n) \/ Poll(n) \/ Call(n) \/ Again(n) \/ ThreadNotify(n)
      PROVE PointersRight'
  BY <1>17 DEF RemoveDriver, Poll, Call, Again, ThreadNotify, Attempt
<1>18. CASE UNCHANGED vars
  BY <1>18 DEF vars
<1> QED
  BY <1>1, <1>2, <1>3, <1>4, <1>5, <1>6, <1>7, <1>8, <1>9, <1>10, <1>11, <1>12, <1>13, <1>14, <1>15, <1>16, <1>17, <1>18
  DEF Next, Handshaking, Starting, Stopping, Threads, Operator
-----------------------------------------------------------------------------
\* At the start nothing is loaded.
LEMMA InitPairInv == Init => PairInv
<1> SUFFICES ASSUME Init PROVE PairInv
  OBVIOUS
<1> USE PairAssumption DEF Init, Nodes, At, ThreadAt, NoThread, FirstCall, NoBlock, Null, Nowhere
<1>1. Kinds
  <2>1. /\ block \in [this : Addresses, pointers : Addresses] /\ found \in Addresses
        /\ loads \in [Nodes -> 0 .. MaxLoads] /\ fifo \in [Nodes -> 0 .. Slots]
    BY DEF Addresses
  <2>2. thread \in [Nodes -> [pc : {"none", "call", "asleep", "again", "notify"},
                              op : {"send", "recv"}]]
    OBVIOUS
  <2>3. sample \in [Nodes -> Places["EP"] \union Places["RC"]] /\ \A n \in Nodes : sample[n] \in Places[n]
    BY DEF Places
  <2> QED
    BY <2>1, <2>2, <2>3 DEF Kinds, Words
<1>2. Lives /\ ThreadsOK
  BY DEF Lives, ThreadsOK, Entering, Entered, InUse
<1>3. HandshakeOK /\ PointersOK
  BY DEF HandshakeOK, PointersOK, Unannounced
<1>4. TurnsOK
  BY DEF TurnsOK, Turns, Turn, BeforeThread
<1>5. WindowRight /\ HandshakeLeftOver /\ PointersRight
  BY DEF WindowRight, HandshakeLeftOver, PointersRight, Connected
<1> QED
  BY <1>1, <1>2, <1>3, <1>4, <1>5 DEF PairInv

\* Every behaviour keeps the invariant.
LEMMA PairInvariant == Spec => []PairInv
<1>1. PairInv /\ [Next]_vars => PairInv'
  BY KindsStep, LivesStep, ThreadsOKStep, HandshakeOKStep, PointersOKStep,
     TurnsOKStep, WindowRightStep, HandshakeLeftOverStep, PointersRightStep
  DEF PairInv
<1> QED
  BY <1>1, InitPairInv, PTL DEF Spec

\* Every variable holds a value of its kind, the word RC polls never holds
\* the handshake, no FIFO holds more than it has room for, and a sample that
\* is up has an initialized node behind a driver bound to its device.
THEOREM LinuxTypeCorrect == Spec => []TypeOK
<1>1. PairInv => TypeOK
  BY DEF PairInv, Kinds, Lives, TypeOK, Up, At, InUse, Entered, Nodes
<1> QED
  BY <1>1, PairInvariant, PTL

\* RC follows wrong pointers only when it looked, or initialized its node,
\* before EP had finished its relocation, or when EP was loaded again or
\* relocated under it (ICC_Phys_To_Virt, ICC_Config_Check).
THEOREM AddressesBelongTogether == Spec => []PointersRight
  BY PairInvariant, PTL DEF PairInv

\* Once EP has taken the handshake its outbound window leads to RC, except
\* when it read the handshake between RC's two stores (ICC_Wait_For_Peer,
\* ICC_Notify_Peer_Alive).
THEOREM WindowLeadsToPeer == Spec => []WindowRight
  BY PairInvariant, PTL DEF PairInv

\* The handshake stays in the word of an EP that is connected only when RC's
\* sample was loaded a second time.
THEOREM LeftOverBySecondStart == Spec => []HandshakeLeftOver
  BY PairInvariant, PTL DEF PairInv

\* A data thread sleeps behind the unmapped code of its sample only when EP
\* relocated its configuration over the node: ICC_Finalize wakes it otherwise.
THEOREM FinalizeWakesThread == Spec => []NobodyAsleep
<1>1. PairInv => NobodyAsleep
  BY DEF PairInv, Lives, ThreadsOK, NobodyAsleep, At, ThreadAt, Entered, Nodes
<1> QED
  BY <1>1, PairInvariant, PTL

\* Until EP starts a second time at most one message is under way in both
\* directions together: the threads of ICC_Linux_Sample.c take turns.
THEOREM ThreadsTakeTurns == Spec => []TakeTurns
<1>1. PairInv => TakeTurns
  <2>1. SUFFICES ASSUME Kinds, TurnsOK, starts["EP"] = 1
                 PROVE fifo["EP"] + fifo["RC"] <= 1
    BY DEF PairInv, TakeTurns
  <2>2. fifo["EP"] \in Nat /\ fifo["RC"] \in Nat
    BY <2>1, PairAssumption DEF Kinds, Nodes
  <2>3. Turns <= 1
    BY <2>1, <2>2 DEF TurnsOK, Turns, Turn
  <2> QED
    BY <2>2, <2>3 DEF Turns, Turn
<1> QED
  BY <1>1, PairInvariant, PTL
=============================================================================
