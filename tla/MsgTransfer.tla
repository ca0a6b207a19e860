---------------------------- MODULE MsgTransfer ----------------------------
(***************************************************************************)
(* One direction of a channel with everything around its FIFO: the calls   *)
(* of ICC_Msg_Send on the transmitting core and of ICC_Msg_Recv on the     *)
(* receiving core with their three kinds of timeout, the wait queues, the  *)
(* signal and acknowledge counters, the notification between the cores and *)
(* the event handler each core runs when it is notified.                   *)
(*                                                                         *)
(* A side is a core: "tx" the transmitting one, "rx" the receiving one.    *)
(* One action is one access to shared state or one operating system call,  *)
(* except that an ICC_FIFO_* call is one action (IccFifo looks inside).    *)
(* Loads and stores take effect in program order.  The node stays          *)
(* initialized and the end points open.                                    *)
(***************************************************************************)
EXTENDS FifoOps, Sequences

CONSTANTS
  Senders,    \* tasks of the transmitting core
  Receivers,  \* tasks of the receiving core
  MsgSizes,   \* sizes of the messages sent
  Timeouts,   \* timeout_val of the calls: "zero", "timed", "forever"
  RxOps,      \* rx_operation of ICC_Msg_Recv: "normal", "peek"
  Polling,    \* ICC_USE_POLLING: notifications are a word the peer polls
  MaxSends    \* bound: calls of ICC_Msg_Send

ASSUME TransferAssumption ==
  /\ Senders \intersect Receivers = {}
  /\ MsgSizes \subseteq Nat \ {0}
  /\ \A m \in MsgSizes : RealSize(m) < FifoSize
  /\ Timeouts \subseteq {"zero", "timed", "forever"}
  /\ RxOps \subseteq {"normal", "peek"}
  /\ Polling \in BOOLEAN /\ MaxSends \in Nat

Tasks == Senders \union Receivers
Sides == {"tx", "rx"}
Side(t) == IF t \in Senders THEN "tx" ELSE "rx"
Peer(side) == IF side = "tx" THEN "rx" ELSE "tx"
TasksOf(side) == IF side = "tx" THEN Senders ELSE Receivers

VARIABLES
  head, tail,    \* ICC_Fifo_Ram_t.head and tail
  msgs,          \* sizes in the headers that are in the ring, oldest first
  pendingSize,   \* ICC_Fifo_Ram_t.pending_send_msg_size
  sig, ack,      \* what each side was signalled and acknowledged: for "rx"
                 \* wr[remote] and wr[local], for "tx" rd[remote] and rd[local]
  notify,        \* a notification to this side is pending
  terminate,     \* ping_poll.terminate_communication of this side
  hpc,           \* ICC_Remote_Event_Handler of this side
  osTimeout,     \* ICC_Fifo_Os_Ram_t.timeout of this side is not zero
  osEvent,       \* ICC_Fifo_Os_Ram_t.event_type of this side
  sem,           \* fifo_lock of this side: the task that holds it, or NoTask
  waiting,       \* tasks on the wait queues that were not woken up
  task,          \* every task: where it is, and the locals of its call
  sends          \* how many calls of ICC_Msg_Send were made

fifo == <<head, tail, msgs, pendingSize>>
signalling == <<sig, ack, notify, terminate, hpc>>
os == <<osTimeout, osEvent, waiting>>
vars == <<head, tail, msgs, pendingSize, sig, ack, notify, terminate, hpc,
          osTimeout, osEvent, sem, waiting, task, sends>>

NoTask == "none"

\* A task outside the two calls.  In a call: size, timeout and op are its
\* arguments, alarm is the timer of its wait, snap is current_status of
\* ICC_OS_Wait_Event and hdr is msg_header.
Idle == [pc |-> "idle", size |-> 0, timeout |-> "zero", op |-> "none",
         alarm |-> "off", snap |-> 0, hdr |-> 0]

Init ==
  /\ head = 0 /\ tail = 0 /\ msgs = <<>> /\ pendingSize = 0
  /\ sig = [s \in Sides |-> 0] /\ ack = [s \in Sides |-> 0]
  /\ notify = [s \in Sides |-> FALSE] /\ terminate = [s \in Sides |-> FALSE]
  /\ hpc = [s \in Sides |-> "idle"]
  /\ osTimeout = [s \in Sides |-> FALSE] /\ osEvent = [s \in Sides |-> "ISR"]
  /\ sem = [s \in Sides |-> NoTask] /\ waiting = {}
  /\ task = [t \in Tasks |-> Idle] /\ sends = 0

\* Task t is at `place', goes on at `place', returns to its caller.
At(t, place) == task[t].pc = place
Goto(t, place) == task' = [task EXCEPT ![t].pc = place]
Return(t) == task' = [task EXCEPT ![t] = Idle]
-----------------------------------------------------------------------------
(***************************************************************************)
(* The start of the calls.  Their checks of the arguments, of the end      *)
(* point and of the node are passed.                                       *)
(***************************************************************************)

\* What a sender and a receiver check first and after every wait.
Fits(size) == MsgFits(head, tail, size)
MoreThanHeader == PendingBytes(head, tail) > HeaderSize
Served(t) == IF t \in Senders THEN Fits(task[t].size) ELSE MoreThanHeader

Enter(t, place, args) == task' = [task EXCEPT ![t] = [args EXCEPT !.pc = place]]
SetRelAlarm(t) == osTimeout' = [osTimeout EXCEPT ![Side(t)] = TRUE]

\* Behind a check that failed: ICC_ERR_FULL or ICC_ERR_EMPTY at once, or the
\* wait, with ICC_OS_Set_Rel_Alarm once per call and before its first wait.
GiveUpOrWait(t, args) ==
  CASE args.timeout = "zero" -> Return(t) /\ UNCHANGED osTimeout
    [] args.timeout = "timed" -> Enter(t, "wait", args) /\ SetRelAlarm(t)
    [] args.timeout = "forever" -> Enter(t, "wait", args) /\ UNCHANGED osTimeout

SendCall(t, size, timeout) ==
  LET args == [Idle EXCEPT !.size = size, !.timeout = timeout, !.op = "send"]
  IN
  /\ At(t, "idle") /\ sends < MaxSends
  /\ Enter(t, IF Fits(size) THEN "lock" ELSE "set_pending", args)
  /\ sends' = sends + 1
  /\ UNCHANGED <<fifo, signalling, os, sem>>

RecvCall(t, timeout, op) ==
  LET args == [Idle EXCEPT !.timeout = timeout, !.op = op]
  IN
  /\ At(t, "idle")
  /\ \/ MoreThanHeader /\ Enter(t, "lock", args) /\ UNCHANGED osTimeout
     \/ ~MoreThanHeader /\ GiveUpOrWait(t, args)
  /\ UNCHANGED <<fifo, signalling, osEvent, waiting, sem, sends>>

\* A mutant of SetPending: the size waited for is not published.
SetPending_Forgotten(t) ==
  /\ At(t, "set_pending")
  /\ GiveUpOrWait(t, task[t])
  /\ UNCHANGED <<fifo, signalling, osEvent, waiting, sem, sends>>

\* The sender tells its event handler which size it waits for.  The size stays
\* when the call returns ICC_ERR_FULL.
SetPending(t) ==
  /\ At(t, "set_pending")
  /\ pendingSize' = task[t].size
  /\ GiveUpOrWait(t, task[t])
  /\ UNCHANGED <<head, tail, msgs, signalling, osEvent, waiting, sem, sends>>
-----------------------------------------------------------------------------
(***************************************************************************)
(* ICC_OS_Wait_Event: a wait with a timer when an alarm was set, and       *)
(* without one otherwise.  wait_event_interruptible(_timeout) puts the     *)
(* task on the queue, evaluates the condition and sleeps until it is woken *)
(* up or its timer expires, again and again.  No signals reach the task.   *)
(***************************************************************************)
WaitEvent(t) ==
  /\ At(t, "wait")
  /\ task' = [task EXCEPT
       ![t].pc = "enqueue",
       ![t].alarm = IF osTimeout[Side(t)] THEN "running" ELSE "off",
       ![t].snap = ack[Side(t)]]
  /\ UNCHANGED <<fifo, signalling, os, sem, sends>>

Enqueue(t) ==
  /\ At(t, "enqueue")
  /\ waiting' = waiting \union {t}
  /\ Goto(t, "evaluate")
  /\ UNCHANGED <<fifo, signalling, osTimeout, osEvent, sem, sends>>

\* A mutant of WaitCondition: the state of the FIFO is not part of it.
WaitCondition_SignalsOnly(t) == task[t].snap # sig[Side(t)]

\* A sender looks at the published size, not at the size of its message.
WaitCondition(t) ==
  \/ task[t].snap # sig[Side(t)]
  \/ IF t \in Senders THEN Fits(pendingSize) ELSE MoreThanHeader

\* The task leaves the queue and records why; the alarm is used up.
LeaveQueue(t, event) ==
  /\ waiting' = waiting \ {t}
  /\ osEvent' = [osEvent EXCEPT ![Side(t)] = event]
  /\ osTimeout' = [osTimeout EXCEPT ![Side(t)] =
                     IF task[t].alarm = "off" THEN @ ELSE FALSE]
  /\ task' = [task EXCEPT ![t].pc = "again", ![t].alarm = "off",
                          ![t].snap = 0]

Evaluate(t) ==
  /\ At(t, "evaluate")
  /\ \/ WaitCondition(t) /\ LeaveQueue(t, "ISR")
     \/ ~WaitCondition(t) /\ task[t].alarm = "expired" /\ LeaveQueue(t, "ALM")
     \/ /\ ~WaitCondition(t) /\ task[t].alarm # "expired"
        /\ Goto(t, "asleep")
        /\ UNCHANGED os
  /\ UNCHANGED <<fifo, signalling, sem, sends>>

\* The task runs again after a wake-up.
WakeUp(t) ==
  /\ At(t, "asleep") /\ t \notin waiting
  /\ Goto(t, "enqueue")
  /\ UNCHANGED <<fifo, signalling, os, sem, sends>>

\* The task runs again because its timer expired.
Expire(t) ==
  /\ At(t, "asleep") /\ task[t].alarm = "running"
  /\ task' = [task EXCEPT ![t].pc = "enqueue", ![t].alarm = "expired"]
  /\ UNCHANGED <<fifo, signalling, os, sem, sends>>

\* ICC_OS_Get_Event, for a call with a timeout: ICC_ERR_TIMEOUT.
AlarmCame(t) == task[t].timeout = "timed" /\ osEvent[Side(t)] = "ALM"

\* A mutant of Again: the wake-up is taken for granted.
Again_NoRecheck(t) ==
  /\ At(t, "again")
  /\ \/ AlarmCame(t) /\ Return(t)
     \/ /\ ~AlarmCame(t)
        /\ Goto(t, IF t \in Senders THEN "reset_pending" ELSE "lock")
  /\ UNCHANGED <<fifo, signalling, os, sem, sends>>

\* The end of the wait loop.  A sender that timed out leaves its pending size.
Again(t) ==
  /\ At(t, "again")
  /\ \/ AlarmCame(t) /\ Return(t)
     \/ /\ ~AlarmCame(t) /\ Served(t)
        /\ Goto(t, IF t \in Senders THEN "reset_pending" ELSE "lock")
     \/ ~AlarmCame(t) /\ ~Served(t) /\ Goto(t, "wait")
  /\ UNCHANGED <<fifo, signalling, os, sem, sends>>

ResetPending(t) ==
  /\ At(t, "reset_pending")
  /\ pendingSize' = 0
  /\ Goto(t, "lock")
  /\ UNCHANGED <<head, tail, msgs, signalling, os, sem, sends>>
-----------------------------------------------------------------------------
(***************************************************************************)
(* The transfer itself, between ICC_OS_Get_Semaphore and                   *)
(* ICC_OS_Release_Semaphore.                                               *)
(***************************************************************************)

\* down_trylock: a call that finds the semaphore taken returns an error.
GetSemaphore(t) ==
  /\ At(t, "lock")
  /\ \/ /\ sem[Side(t)] = NoTask
        /\ sem' = [sem EXCEPT ![Side(t)] = t]
        /\ Goto(t, CASE task[t].op = "send"   -> "push_header"
                     [] task[t].op = "normal" -> "pop_header"
                     [] task[t].op = "peek"   -> "peek")
     \/ /\ sem[Side(t)] # NoTask
        /\ Return(t)
        /\ UNCHANGED sem
  /\ UNCHANGED <<fifo, signalling, os, sends>>

Release(t) == sem' = [sem EXCEPT ![Side(t)] = NoTask]

\* An ICC_FIFO_* call found too few bytes: ICC_ERR_FIFO_EMPTY.
FailEmpty(t) == Return(t) /\ Release(t) /\ UNCHANGED <<head, msgs>>

PushHeader(t) ==
  /\ At(t, "push_header")
  /\ tail' = TailAfter(head, tail, HeaderSize, 0)
  /\ msgs' = Append(msgs, task[t].size)
  /\ Goto(t, "push")
  /\ UNCHANGED <<head, pendingSize, signalling, os, sem, sends>>

Push(t) ==
  /\ At(t, "push")
  /\ tail' = TailAfter(head, tail, task[t].size, Padding(task[t].size))
  /\ Goto(t, "signal")
  /\ UNCHANGED <<head, msgs, pendingSize, signalling, os, sem, sends>>

PopHeader(t) ==
  /\ At(t, "pop_header")
  /\ \/ HeaderSize > PendingBytes(head, tail) /\ FailEmpty(t)
     \/ /\ HeaderSize <= PendingBytes(head, tail) /\ msgs # <<>>
        /\ task' = [task EXCEPT ![t].pc = "pop", ![t].hdr = Head(msgs)]
        /\ head' = HeadAfter(head, tail, HeaderSize, 0)
        /\ msgs' = Tail(msgs)
        /\ UNCHANGED sem
  /\ UNCHANGED <<tail, pendingSize, signalling, os, sends>>

\* ICC_FIFO_Pop into a buffer that takes the whole message.
Pop(t) ==
  /\ At(t, "pop")
  /\ \/ task[t].hdr > PendingBytes(head, tail) /\ FailEmpty(t)
     \/ /\ task[t].hdr <= PendingBytes(head, tail)
        /\ head' = HeadAfter(head, tail, task[t].hdr, Padding(task[t].hdr))
        /\ Goto(t, "signal")
        /\ UNCHANGED <<msgs, sem>>
  /\ UNCHANGED <<tail, pendingSize, signalling, os, sends>>

\* A peek changes nothing in the FIFO and signals nothing.
PeekMsg(t) ==
  LET there == /\ msgs # <<>>
               /\ HeaderSize + Head(msgs) <= PendingBytes(head, tail)
  IN
  /\ At(t, "peek")
  /\ \/ ~there /\ FailEmpty(t)
     \/ there /\ Goto(t, "unlock") /\ UNCHANGED <<head, msgs, sem>>
  /\ UNCHANGED <<tail, pendingSize, signalling, os, sends>>

\* ICC_FIFO_Msg_Wr_Sig by a sender, ICC_FIFO_Msg_Rd_Sig by a receiver.
Signal(t) ==
  /\ At(t, "signal")
  /\ sig' = [sig EXCEPT ![Peer(Side(t))] = @ + 1]
  /\ Goto(t, "notify")
  /\ UNCHANGED <<fifo, ack, notify, terminate, hpc, os, sem, sends>>

Raise(side) == notify' = [notify EXCEPT ![side] = TRUE]

\* ICC_Notify_Peer.  An interrupt is triggered at once.  The polled word is
\* written when the peer has taken the last notification; the wait for it can
\* end with an error, and the call then returns with the semaphore.
NotifyPeer(t) ==
  /\ At(t, "notify")
  /\ \/ ~Polling /\ Raise(Peer(Side(t))) /\ Goto(t, "unlock")
     \/ /\ Polling /\ ~terminate[Side(t)] /\ ~notify[Peer(Side(t))]
        /\ Goto(t, "write_word")
        /\ UNCHANGED notify
     \/ Polling /\ terminate[Side(t)] /\ Return(t) /\ UNCHANGED notify
  /\ UNCHANGED <<fifo, sig, ack, terminate, hpc, os, sem, sends>>

WriteWord(t) ==
  /\ At(t, "write_word")
  /\ Raise(Peer(Side(t)))
  /\ Goto(t, "unlock")
  /\ UNCHANGED <<fifo, sig, ack, terminate, hpc, os, sem, sends>>

ReleaseSemaphore(t) ==
  /\ At(t, "unlock")
  /\ Release(t)
  /\ Return(t)
  /\ UNCHANGED <<fifo, signalling, os, sends>>
-----------------------------------------------------------------------------
(***************************************************************************)
(* ICC_Remote_Event_Handler of a side, run by its interrupt or by its poll *)
(* thread: what it does for this FIFO.                                     *)
(***************************************************************************)
HandlerAt(side, place) == hpc[side] = place
HandlerGoto(side, place) == hpc' = [hpc EXCEPT ![side] = place]

\* ICC_Clear_Notify_From_Peer comes first.
HandlerStart(side) ==
  /\ HandlerAt(side, "idle") /\ notify[side]
  /\ notify' = [notify EXCEPT ![side] = FALSE]
  /\ HandlerGoto(side, "scan")
  /\ UNCHANGED <<fifo, sig, ack, terminate, os, sem, task, sends>>

\* The receiving side wakes its tasks up for every message, the transmitting
\* side when the size waited for has room.
WakesUp(side) == side = "rx" \/ (pendingSize # 0 /\ Fits(pendingSize))

\* While a signal is not acknowledged: ICC_OS_Set_Event.  All FIFOs of a core
\* share one wait queue.
HandlerScan(side) ==
  /\ HandlerAt(side, "scan")
  /\ \/ /\ sig[side] # ack[side]
        /\ waiting' = IF WakesUp(side) THEN waiting \ TasksOf(side) ELSE waiting
        /\ HandlerGoto(side, "ack")
     \/ /\ sig[side] = ack[side]
        /\ HandlerGoto(side, "idle")
        /\ UNCHANGED waiting
  /\ UNCHANGED <<fifo, sig, ack, notify, terminate, osTimeout, osEvent, sem,
                 task, sends>>

\* A mutant of HandlerAck: one signal is handled per notification.
HandlerAck_IfNotWhile(side) ==
  /\ HandlerAt(side, "ack")
  /\ ack' = [ack EXCEPT ![side] = @ + 1]
  /\ HandlerGoto(side, "idle")
  /\ UNCHANGED <<fifo, sig, notify, terminate, os, sem, task, sends>>

\* ICC_FIFO_Msg_Wr_Ack, ICC_FIFO_Msg_Rd_Ack; the scan goes on.
HandlerAck(side) ==
  /\ HandlerAt(side, "ack")
  /\ ack' = [ack EXCEPT ![side] = @ + 1]
  /\ HandlerGoto(side, "scan")
  /\ UNCHANGED <<fifo, sig, notify, terminate, os, sem, task, sends>>

\* shmem_poll_exit: the calls that wait for the peer are ended.
Terminate(side) ==
  /\ Polling /\ ~terminate[side]
  /\ terminate' = [terminate EXCEPT ![side] = TRUE]
  /\ UNCHANGED <<fifo, sig, ack, notify, hpc, os, sem, task, sends>>
-----------------------------------------------------------------------------
\* What a task does between its call and its return.
Step(t) ==
  \/ SetPending(t)
  \/ WaitEvent(t) \/ Enqueue(t) \/ Evaluate(t) \/ WakeUp(t) \/ Expire(t)
  \/ Again(t) \/ ResetPending(t) \/ GetSemaphore(t)
  \/ PushHeader(t) \/ Push(t) \/ PopHeader(t) \/ Pop(t) \/ PeekMsg(t)
  \/ Signal(t) \/ NotifyPeer(t) \/ WriteWord(t) \/ ReleaseSemaphore(t)

Handler(side) ==
  HandlerStart(side) \/ HandlerScan(side) \/ HandlerAck(side)

Next ==
  \/ \E t \in Senders, m \in MsgSizes, to \in Timeouts : SendCall(t, m, to)
  \/ \E t \in Receivers, to \in Timeouts, op \in RxOps : RecvCall(t, to, op)
  \/ \E t \in Tasks : Step(t)
  \/ \E side \in Sides : Handler(side) \/ Terminate(side)

Spec == Init /\ [][Next]_vars

\* A call that was begun runs on, interrupts and poll threads are served, and
\* the receiving application keeps receiving (ICC_Linux_Sample.c does so in a
\* loop).  No sender has to call.
Fairness ==
  /\ \A t \in Tasks : WF_vars(Step(t))
  /\ \A side \in Sides : WF_vars(Handler(side))
  /\ \A t \in Receivers :
       SF_vars(\E to \in Timeouts : RecvCall(t, to, "normal"))

FairSpec == Spec /\ Fairness
-----------------------------------------------------------------------------
(***************************************************************************)
(* Properties.                                                             *)
(***************************************************************************)
Places == {"idle", "set_pending", "wait", "enqueue", "evaluate", "asleep",
           "again", "reset_pending", "lock",
           "push_header", "push", "pop_header", "pop", "peek", "signal",
           "notify", "write_word", "unlock"}

\* The variables hold what the code can store in them; a handler never
\* acknowledges what was not signalled.
TypeOK ==
  /\ head \in Index /\ tail \in Index /\ msgs \in Seq(MsgSizes)
  /\ pendingSize \in MsgSizes \union {0}
  /\ sig \in [Sides -> Nat] /\ ack \in [Sides -> Nat]
  /\ \A side \in Sides : ack[side] <= sig[side]
  /\ notify \in [Sides -> BOOLEAN] /\ terminate \in [Sides -> BOOLEAN]
  /\ hpc \in [Sides -> {"idle", "scan", "ack"}]
  /\ osTimeout \in [Sides -> BOOLEAN] /\ osEvent \in [Sides -> {"ALM", "ISR"}]
  /\ sem \in [Sides -> Tasks \union {NoTask}] /\ waiting \subseteq Tasks
  /\ task \in [Tasks -> [pc: Places, size: MsgSizes \union {0},
                         timeout: {"zero", "timed", "forever"},
                         op: {"none", "send", "normal", "peek"},
                         alarm: {"off", "running", "expired"}, snap: Nat,
                         hdr: MsgSizes \union {0}]]
  /\ sends \in 0 .. MaxSends

\* "at this point there is enough space available": whichever way a sender got
\* past its waits, its message has room when it is pushed.  ICC_FIFO_Push does
\* not look again.
RoomChecked ==
  \A t \in Senders : task[t].pc \in {"lock", "push_header"} =>
    Fits(task[t].size)

\* "at this point there is a message pending".
MessagePending ==
  \A t \in Receivers : task[t].pc \in {"lock", "pop_header", "peek"} =>
    MoreThanHeader

\* A signal that is not yet acknowledged is on its way to the handler: the
\* notification is pending, the handler is still scanning, or the task that
\* signalled has yet to notify.
NothingMissed ==
  \A side \in Sides : sig[side] # ack[side] =>
    \/ notify[side] \/ hpc[side] # "idle"
    \/ \E t \in TasksOf(Peer(side)) : task[t].pc \in {"notify", "write_word"}
    \/ terminate[Peer(side)]

\* How many signals will still make the handler look for tasks to wake up.
EventsAhead(side) ==
  sig[side] - ack[side] - (IF hpc[side] = "ack" THEN 1 ELSE 0)

\* No lost wake-up: a task sleeps on although it could be served only while
\* an event is ahead or the peer, in the middle of a transfer, has yet to
\* signal.
WakeupAhead ==
  \A t \in Tasks : At(t, "asleep") /\ t \in waiting /\ Served(t) =>
    \/ EventsAhead(Side(t)) > 0
    \/ \E p \in TasksOf(Peer(Side(t))) : task[p].pc \in {"push", "pop", "signal"}

\* A call with a timeout never sleeps without a timer: "in micro seconds =
\* the timeout value".
TimedWaitEnds ==
  \A t \in Tasks : At(t, "asleep") /\ task[t].timeout = "timed" =>
    task[t].alarm = "running"

\* A blocked sender is served as long as the peer keeps receiving: every call
\* of ICC_Msg_Send returns.
SendReturns == \A t \in Senders : ~At(t, "idle") ~> At(t, "idle")

\* What was sent is received, whatever the mix of waiting and polling calls.
MessagesDrain == msgs # <<>> ~> msgs = <<>>
============================================================================
