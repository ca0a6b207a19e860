------------------------- MODULE MsgTransfer_proofs -------------------------
(***************************************************************************)
(* Proofs about MsgTransfer for any timeouts, interrupts and polling, every *)
(* size of ring and message: first for any number of sending and receiving *)
(* tasks, then for one on each side.                                       *)
(***************************************************************************)
EXTENDS MsgTransfer, FifoOps_proofs, SequenceTheorems

-----------------------------------------------------------------------------
(***************************************************************************)
(* What holds however many tasks share a FIFO.  The indexes are not part   *)
(* of it: they leave the ring when two senders pass the same check.        *)
(***************************************************************************)
Calls == [pc: Places, size: MsgSizes \union {0},
          timeout: {"zero", "timed", "forever"},
          op: {"none", "send", "normal", "peek"},
          alarm: {"off", "running", "expired"}, snap: Nat,
          hdr: MsgSizes \union {0}]

\* Everything but the indexes keeps its type, and a handler that is about to
\* acknowledge has something to acknowledge.
SharedOK ==
  /\ msgs \in Seq(MsgSizes)
  /\ pendingSize \in MsgSizes \union {0}
  /\ sem \in [Sides -> Tasks \union {NoTask}]
  /\ sends \in 0 .. MaxSends

SignalsOK ==
  /\ sig \in [Sides -> Nat] /\ ack \in [Sides -> Nat]
  /\ notify \in [Sides -> BOOLEAN] /\ terminate \in [Sides -> BOOLEAN]
  /\ hpc \in [Sides -> {"idle", "scan", "ack"}]
  /\ \A side \in Sides : /\ ack[side] <= sig[side]
                         /\ hpc[side] = "ack" => ack[side] < sig[side]

WaitsOK ==
  /\ osTimeout \in [Sides -> BOOLEAN] /\ osEvent \in [Sides -> {"ALM", "ISR"}]
  /\ waiting \subseteq Tasks

TasksOK == task \in [Tasks -> Calls]

\* A call has arguments, and only a call of ICC_Msg_Send pushes.
ArgsOK ==
  \A t \in Tasks :
    /\ ~At(t, "idle") => task[t].op # "none"
    /\ task[t].op = "send" => task[t].size \in MsgSizes
    /\ At(t, "push_header") => task[t].op = "send"

Base == SharedOK /\ SignalsOK /\ WaitsOK /\ TasksOK /\ ArgsOK

\* The sides of the tasks.
LEMMA SideFacts ==
  /\ \A t \in Tasks : Side(t) \in Sides /\ Peer(Side(t)) \in Sides
  /\ \A side \in Sides : Peer(side) \in Sides /\ Peer(Peer(side)) = side
  /\ \A t \in Senders : t \in Tasks /\ t \notin Receivers /\ Side(t) = "tx"
  /\ \A t \in Receivers : t \in Tasks /\ t \notin Senders /\ Side(t) = "rx"
  /\ TasksOf("tx") = Senders /\ TasksOf("rx") = Receivers
  /\ Peer("tx") = "rx" /\ Peer("rx") = "tx"
BY TransferAssumption DEF Side, Peer, Sides, Tasks, TasksOf

LEMMA InitBase == Init => Base
<1> SUFFICES ASSUME Init PROVE Base
  OBVIOUS
<1>1. SharedOK
  BY TransferAssumption, EmptySeq DEF Init, SharedOK
<1>2. SignalsOK
  BY DEF Init, SignalsOK
<1>3. WaitsOK
  BY DEF Init, WaitsOK
<1>4. TasksOK /\ ArgsOK
  BY DEF Init, TasksOK, ArgsOK, At, Idle, Calls, Places
<1>. QED  BY <1>1, <1>2, <1>3, <1>4 DEF Base

\* One task's record changes.
LEMMA TaskChanged ==
  ASSUME TasksOK, NEW t \in Tasks, NEW r \in Calls, task' = [task EXCEPT ![t] = r]
  PROVE  /\ TasksOK' /\ task'[t] = r
         /\ \A u \in Tasks : u # t => task'[u] = task[u]
BY DEF TasksOK

LEMMA CallRecords ==
  /\ Idle \in Calls
  /\ \A r \in Calls, p \in Places :
       /\ [r EXCEPT !.pc = p] \in Calls
       /\ [r EXCEPT !.pc = p].pc = p
       /\ [r EXCEPT !.pc = p].op = r.op /\ [r EXCEPT !.pc = p].size = r.size
       /\ [r EXCEPT !.pc = p].hdr = r.hdr
BY DEF Calls, Idle, Places

\* Task t goes on at p with its arguments and its header; it returns.
Moves(t, p) ==
  /\ TasksOK'
  /\ task'[t].pc = p /\ task'[t].op = task[t].op
  /\ task'[t].size = task[t].size /\ task'[t].hdr = task[t].hdr
  /\ \A u \in Tasks : u # t => task'[u] = task[u]

Returns(t) ==
  /\ TasksOK' /\ task'[t] = Idle
  /\ \A u \in Tasks : u # t => task'[u] = task[u]

LEMMA TaskGoes ==
  ASSUME TasksOK, NEW t \in Tasks
  PROVE  /\ \A p \in Places : Goto(t, p) => Moves(t, p)
         /\ Return(t) => Returns(t)
<1>1. task[t] \in Calls
  BY DEF TasksOK
<1>2. ASSUME NEW p \in Places, Goto(t, p)
      PROVE  Moves(t, p)
  <2> DEFINE r == [task[t] EXCEPT !.pc = p]
  <2>1. task' = [task EXCEPT ![t] = r]
    BY <1>1, <1>2 DEF TasksOK, Goto
  <2>2. /\ r \in Calls /\ r.pc = p /\ r.op = task[t].op
        /\ r.size = task[t].size /\ r.hdr = task[t].hdr
    BY <1>1, CallRecords
  <2> HIDE DEF r
  <2>3. TasksOK' /\ task'[t] = r /\ \A u \in Tasks : u # t => task'[u] = task[u]
    BY <2>1, <2>2, TaskChanged
  <2>. QED  BY <2>2, <2>3 DEF Moves
<1>3. ASSUME Return(t)
      PROVE  Returns(t)
  BY <1>3, CallRecords, TaskChanged DEF Return, Returns
<1>. QED  BY <1>2, <1>3

\* The call enters its wait or gives up.
LEMMA EntersWait ==
  ASSUME TasksOK, NEW t \in Tasks, NEW args \in Calls,
         \/ Return(t)
         \/ task' = [task EXCEPT ![t] = [args EXCEPT !.pc = "wait"]]
  PROVE  \/ Returns(t)
         \/ /\ TasksOK' /\ task'[t].pc = "wait" /\ task'[t].op = args.op
            /\ task'[t].size = args.size /\ task'[t].hdr = args.hdr
            /\ \A u \in Tasks : u # t => task'[u] = task[u]
<1> DEFINE r == [args EXCEPT !.pc = "wait"]
<1>1. /\ r \in Calls /\ r.pc = "wait" /\ r.op = args.op /\ r.size = args.size
      /\ r.hdr = args.hdr
  <2>1. "wait" \in Places
    BY DEF Places
  <2>. QED  BY <2>1, CallRecords, Zenon
<1>2. Return(t) \/ task' = [task EXCEPT ![t] = r]
  OBVIOUS
<1> HIDE DEF r
<1>3. CASE Return(t)
  BY <1>3, TaskGoes
<1>4. CASE task' = [task EXCEPT ![t] = r]
  BY <1>1, <1>4, TaskChanged
<1>. QED  BY <1>2, <1>3, <1>4
-----------------------------------------------------------------------------
(***************************************************************************)
(* Where each step takes its task.                                         *)
(***************************************************************************)
LEMMA WaitMoves ==
  ASSUME Base, NEW t \in Tasks
  PROVE  /\ SetPending(t) => Returns(t) \/ Moves(t, "wait")
         /\ WaitEvent(t) => Moves(t, "enqueue")
         /\ Enqueue(t) => Moves(t, "evaluate")
         /\ Evaluate(t) => Moves(t, "again") \/ Moves(t, "asleep")
         /\ WakeUp(t) => Moves(t, "enqueue")
         /\ Expire(t) => Moves(t, "enqueue")
<1>1. TasksOK /\ task[t] \in Calls /\ SignalsOK
  BY DEF Base, TasksOK
<1>2. ASSUME SetPending(t)
      PROVE  Returns(t) \/ Moves(t, "wait")
  <2>1. task[t].timeout \in {"zero", "timed", "forever"}
    BY <1>1 DEF Calls
  <2>2. \/ Return(t)
        \/ task' = [task EXCEPT ![t] = [task[t] EXCEPT !.pc = "wait"]]
    BY <1>2, <2>1 DEF SetPending, GiveUpOrWait, Enter
  <2>. QED  BY <1>1, <2>2, EntersWait DEF Moves
<1>3. ASSUME WaitEvent(t)
      PROVE  Moves(t, "enqueue")
  <2> DEFINE alarm == IF osTimeout[Side(t)] THEN "running" ELSE "off"
             r == [task[t] EXCEPT !.pc = "enqueue", !.alarm = alarm,
                                  !.snap = ack[Side(t)]]
  <2>1. task' = [task EXCEPT ![t] = r]
    BY <1>1, <1>3 DEF WaitEvent, TasksOK
  <2>2. ack[Side(t)] \in Nat
    BY <1>1, SideFacts DEF SignalsOK
  <2>3. alarm \in {"running", "off"}
    OBVIOUS
  <2> HIDE DEF alarm
  <2>4. /\ r \in Calls /\ r.pc = "enqueue" /\ r.op = task[t].op
        /\ r.size = task[t].size /\ r.hdr = task[t].hdr
    <3>1. task[t] \in Calls
      BY <1>1
    <3>. QED  BY ONLY <2>2, <2>3, <3>1 DEF Calls, Places
  <2> HIDE DEF r
  <2>. QED  BY <1>1, <2>1, <2>4, TaskChanged DEF Moves
<1>4. ASSUME Enqueue(t)
      PROVE  Moves(t, "evaluate")
  BY <1>1, <1>4, TaskGoes DEF Enqueue, Places
<1>5. ASSUME NEW event, LeaveQueue(t, event)
      PROVE  Moves(t, "again")
  <2> DEFINE r == [task[t] EXCEPT !.pc = "again", !.alarm = "off", !.snap = 0]
  <2>1. task' = [task EXCEPT ![t] = r]
    BY <1>1, <1>5 DEF LeaveQueue, TasksOK
  <2>2. /\ r \in Calls /\ r.pc = "again" /\ r.op = task[t].op
        /\ r.size = task[t].size /\ r.hdr = task[t].hdr
    <3>1. task[t] \in Calls
      BY <1>1
    <3>. QED  BY ONLY <3>1 DEF Calls, Places
  <2> HIDE DEF r
  <2>. QED  BY <1>1, <2>1, <2>2, TaskChanged DEF Moves
<1>6. ASSUME Evaluate(t)
      PROVE  Moves(t, "again") \/ Moves(t, "asleep")
  BY <1>1, <1>5, <1>6, TaskGoes DEF Evaluate, Places
<1>7. ASSUME WakeUp(t)
      PROVE  Moves(t, "enqueue")
  BY <1>1, <1>7, TaskGoes DEF WakeUp, Places
<1>8. ASSUME Expire(t)
      PROVE  Moves(t, "enqueue")
  <2> DEFINE r == [task[t] EXCEPT !.pc = "enqueue", !.alarm = "expired"]
  <2>1. task' = [task EXCEPT ![t] = r]
    BY <1>1, <1>8 DEF Expire, TasksOK
  <2>2. /\ r \in Calls /\ r.pc = "enqueue" /\ r.op = task[t].op
        /\ r.size = task[t].size /\ r.hdr = task[t].hdr
    <3>1. task[t] \in Calls
      BY <1>1
    <3>. QED  BY ONLY <3>1 DEF Calls, Places
  <2> HIDE DEF r
  <2>. QED  BY <1>1, <2>1, <2>2, TaskChanged DEF Moves
<1>. QED  BY <1>2, <1>3, <1>4, <1>6, <1>7, <1>8

LEMMA LoopMoves ==
  ASSUME Base, NEW t \in Tasks
  PROVE  /\ Again(t) =>
              \/ Returns(t) \/ Moves(t, "wait")
              \/ Served(t) /\ Moves(t, IF t \in Senders THEN "reset_pending"
                                                        ELSE "lock")
         /\ ResetPending(t) => Moves(t, "lock")
         /\ GetSemaphore(t) =>
              \/ Returns(t)
              \/ task[t].op = "send" /\ Moves(t, "push_header")
              \/ task[t].op = "normal" /\ Moves(t, "pop_header")
              \/ task[t].op = "peek" /\ Moves(t, "peek")
              \/ task[t].op = "none"
<1>1. TasksOK /\ task[t] \in Calls
  BY DEF Base, TasksOK
<1>2. task[t].op \in {"none", "send", "normal", "peek"}
  BY <1>1 DEF Calls
<1>3. ASSUME Again(t)
      PROVE  \/ Returns(t) \/ Moves(t, "wait")
             \/ Served(t) /\ Moves(t, IF t \in Senders THEN "reset_pending"
                                                       ELSE "lock")
  BY <1>1, <1>3, TaskGoes DEF Again, Places
<1>4. ASSUME ResetPending(t)
      PROVE  Moves(t, "lock")
  BY <1>1, <1>4, TaskGoes DEF ResetPending, Places
<1>5. ASSUME GetSemaphore(t)
      PROVE  \/ Returns(t)
             \/ task[t].op = "send" /\ Moves(t, "push_header")
             \/ task[t].op = "normal" /\ Moves(t, "pop_header")
             \/ task[t].op = "peek" /\ Moves(t, "peek")
             \/ task[t].op = "none"
  BY <1>1, <1>2, <1>5, TaskGoes DEF GetSemaphore, Places
<1>. QED  BY <1>3, <1>4, <1>5

LEMMA TransferMoves ==
  ASSUME Base, NEW t \in Tasks
  PROVE  /\ PushHeader(t) => Moves(t, "push")
         /\ Push(t) => Moves(t, "signal")
         /\ Pop(t) => Returns(t) \/ Moves(t, "signal")
         /\ PeekMsg(t) => Returns(t) \/ Moves(t, "unlock")
         /\ Signal(t) => Moves(t, "notify")
         /\ NotifyPeer(t) => Returns(t) \/ Moves(t, "unlock") \/ Moves(t, "write_word")
         /\ WriteWord(t) => Moves(t, "unlock")
         /\ ReleaseSemaphore(t) => Returns(t)
<1>1. TasksOK
  BY DEF Base
<1>2. {"push", "signal", "unlock", "notify", "write_word"} \subseteq Places
  BY DEF Places
<1>. QED  BY <1>1, <1>2, TaskGoes DEF PushHeader, Push, Pop, PeekMsg, FailEmpty,
          Signal, NotifyPeer, WriteWord, ReleaseSemaphore

\* A header popped is the size of the message that was due.
LEMMA PopHeaderMoves ==
  ASSUME Base, NEW t \in Tasks, PopHeader(t)
  PROVE  \/ /\ HeaderSize > PendingBytes(head, tail) /\ FailEmpty(t) /\ Returns(t)
         \/ /\ HeaderSize <= PendingBytes(head, tail) /\ msgs # <<>>
            /\ TasksOK' /\ task'[t].pc = "pop" /\ task'[t].op = task[t].op
            /\ task'[t].size = task[t].size /\ task'[t].hdr = Head(msgs)
            /\ \A u \in Tasks : u # t => task'[u] = task[u]
            /\ head' = HeadAfter(head, tail, HeaderSize, 0) /\ msgs' = Tail(msgs)
<1>1. TasksOK /\ task[t] \in Calls /\ msgs \in Seq(MsgSizes)
  BY DEF Base, TasksOK, SharedOK
<1>2. ASSUME HeaderSize > PendingBytes(head, tail), FailEmpty(t)
      PROVE  Returns(t)
  BY <1>1, <1>2, TaskGoes DEF FailEmpty
<1>3. ASSUME msgs # <<>>,
             task' = [task EXCEPT ![t].pc = "pop", ![t].hdr = Head(msgs)]
      PROVE  /\ TasksOK' /\ task'[t].pc = "pop" /\ task'[t].op = task[t].op
             /\ task'[t].size = task[t].size /\ task'[t].hdr = Head(msgs)
             /\ \A u \in Tasks : u # t => task'[u] = task[u]
  <2> DEFINE m == Head(msgs)
             r == [task[t] EXCEPT !.pc = "pop", !.hdr = m]
  <2>1. m \in MsgSizes
    BY <1>1, <1>3, HeadTailProperties
  <2>2. task' = [task EXCEPT ![t] = r]
    BY <1>1, <1>3 DEF TasksOK
  <2> HIDE DEF m
  <2>3. /\ r \in Calls /\ r.pc = "pop" /\ r.op = task[t].op
        /\ r.size = task[t].size /\ r.hdr = m
    BY <1>1, <2>1 DEF Calls, Places
  <2> HIDE DEF r
  <2>4. TasksOK' /\ task'[t] = r /\ \A u \in Tasks : u # t => task'[u] = task[u]
    BY <1>1, <2>2, <2>3, TaskChanged
  <2>. QED  BY <2>3, <2>4 DEF m
<1>. QED  BY <1>2, <1>3 DEF PopHeader

LEMMA CallMoves ==
  ASSUME Base, NEW t \in Tasks
  PROVE  /\ \A m \in MsgSizes, to \in Timeouts : SendCall(t, m, to) =>
              /\ TasksOK' /\ task'[t].pc = IF Fits(m) THEN "lock" ELSE "set_pending"
              /\ task'[t].op = "send" /\ task'[t].size = m
              /\ \A u \in Tasks : u # t => task'[u] = task[u]
         /\ \A to \in Timeouts, op \in RxOps : RecvCall(t, to, op) =>
              \/ Returns(t)
              \/ /\ TasksOK'
                 /\ \/ task'[t].pc = "lock" /\ MoreThanHeader
                    \/ task'[t].pc = "wait"
                 /\ task'[t].op = op
                 /\ \A u \in Tasks : u # t => task'[u] = task[u]
<1>1. TasksOK
  BY DEF Base
<1>2. ASSUME NEW m \in MsgSizes, NEW to \in Timeouts, SendCall(t, m, to)
      PROVE  /\ TasksOK' /\ task'[t].pc = IF Fits(m) THEN "lock" ELSE "set_pending"
             /\ task'[t].op = "send" /\ task'[t].size = m
             /\ \A u \in Tasks : u # t => task'[u] = task[u]
  <2> DEFINE p == IF Fits(m) THEN "lock" ELSE "set_pending"
             args == [Idle EXCEPT !.size = m, !.timeout = to, !.op = "send"]
             r == [args EXCEPT !.pc = p]
  <2>1. task' = [task EXCEPT ![t] = r]
    BY <1>2 DEF SendCall, Enter
  <2>2. to \in {"zero", "timed", "forever"} /\ p \in Places
    BY TransferAssumption DEF Places
  <2> HIDE DEF p
  <2>3. r \in Calls /\ r.pc = p /\ r.op = "send" /\ r.size = m
    BY <2>2 DEF Calls, Idle
  <2> HIDE DEF r
  <2>. QED  BY <1>1, <2>1, <2>3, TaskChanged DEF p
<1>3. ASSUME NEW to \in Timeouts, NEW op \in RxOps, RecvCall(t, to, op)
      PROVE  \/ Returns(t)
             \/ /\ TasksOK'
                /\ \/ task'[t].pc = "lock" /\ MoreThanHeader
                   \/ task'[t].pc = "wait"
                /\ task'[t].op = op
                /\ \A u \in Tasks : u # t => task'[u] = task[u]
  <2> DEFINE args == [Idle EXCEPT !.timeout = to, !.op = op]
             r == [args EXCEPT !.pc = "lock"]
  <2>1. /\ to \in {"zero", "timed", "forever"} /\ op \in {"normal", "peek"}
        /\ "lock" \in Places /\ "wait" \in Places
    BY TransferAssumption DEF Places
  <2>2. \/ MoreThanHeader /\ task' = [task EXCEPT ![t] = r]
        \/ Return(t)
        \/ task' = [task EXCEPT ![t] = [args EXCEPT !.pc = "wait"]]
    BY <1>3, <2>1 DEF RecvCall, GiveUpOrWait, Enter, Idle
  <2>3. args \in Calls /\ args.op = op
    BY <2>1 DEF Calls, Idle, Places
  <2> HIDE DEF args
  <2>4. r \in Calls /\ r.pc = "lock" /\ r.op = op
    BY <2>1, <2>3, CallRecords
  <2> HIDE DEF r
  <2>5. CASE MoreThanHeader /\ task' = [task EXCEPT ![t] = r]
    BY <1>1, <2>4, <2>5, TaskChanged
  <2>6. CASE \/ Return(t)
             \/ task' = [task EXCEPT ![t] = [args EXCEPT !.pc = "wait"]]
    BY <1>1, <2>3, <2>6, EntersWait
  <2>. QED  BY <2>2, <2>5, <2>6
<1>. QED  BY <1>2, <1>3
-----------------------------------------------------------------------------
(***************************************************************************)
(* Base is inductive.                                                      *)
(***************************************************************************)
LEMMA ArgsStay ==
  ASSUME Base, NEW t \in Tasks,
         \/ Returns(t)
         \/ /\ ~At(t, "idle")
            /\ \E p \in Places \ {"push_header"} : Moves(t, p)
         \/ task[t].op = "send" /\ Moves(t, "push_header")
  PROVE  TasksOK' /\ ArgsOK'
<1>1. ArgsOK
  BY DEF Base
<1>2. CASE Returns(t)
  BY <1>1, <1>2 DEF Returns, ArgsOK, At, Idle
<1>3. ASSUME NEW p, Moves(t, p), task[t].op # "none",
             p = "push_header" => task[t].op = "send"
      PROVE  TasksOK' /\ ArgsOK'
  BY <1>1, <1>3 DEF Moves, ArgsOK, At
<1>4. ~At(t, "idle") => task[t].op # "none"
  BY <1>1 DEF ArgsOK
<1>. QED  BY <1>2, <1>3, <1>4

LEMMA WaitSteps ==
  ASSUME Base, NEW t \in Tasks,
         \/ SetPending(t) \/ WaitEvent(t) \/ Enqueue(t) \/ Evaluate(t)
         \/ WakeUp(t) \/ Expire(t)
  PROVE  Base'
<1>1. /\ SharedOK /\ SignalsOK /\ WaitsOK /\ TasksOK
      /\ Side(t) \in Sides /\ task[t] \in Calls
  BY SideFacts DEF Base, TasksOK
<1>2. TasksOK' /\ ArgsOK'
  <2>1. ~At(t, "idle")
    BY DEF SetPending, WaitEvent, Enqueue, Evaluate, WakeUp, Expire, At
  <2>2. {"wait", "enqueue", "evaluate", "again", "asleep"}
          \subseteq Places \ {"push_header"}
    BY DEF Places
  <2>. QED  BY <2>1, <2>2, WaitMoves, ArgsStay
<1>3. UNCHANGED <<signalling, msgs, sem, sends>>
  BY DEF SetPending, WaitEvent, Enqueue, Evaluate, WakeUp, Expire, fifo
<1>4. /\ pendingSize' = pendingSize
         \/ pendingSize' \in MsgSizes \union {0}
  BY <1>1 DEF SetPending, WaitEvent, Enqueue, Evaluate, WakeUp, Expire, fifo,
              Calls
<1>5. SharedOK' /\ SignalsOK'
  BY <1>1, <1>3, <1>4 DEF SharedOK, SignalsOK, signalling
<1>6. WaitsOK'
  <2>1. CASE SetPending(t)
    BY <1>1, <2>1 DEF SetPending, GiveUpOrWait, SetRelAlarm, WaitsOK, Calls
  <2>2. CASE Enqueue(t)
    BY <1>1, <2>2 DEF Enqueue, WaitsOK
  <2>3. CASE Evaluate(t)
    BY <1>1, <2>3 DEF Evaluate, LeaveQueue, os, WaitsOK
  <2>4. CASE WaitEvent(t) \/ WakeUp(t) \/ Expire(t)
    BY <1>1, <2>4 DEF WaitEvent, WakeUp, Expire, os, WaitsOK
  <2>. QED  BY <2>1, <2>2, <2>3, <2>4
<1>. QED  BY <1>2, <1>5, <1>6 DEF Base

LEMMA LoopSteps ==
  ASSUME Base, NEW t \in Tasks, Again(t) \/ ResetPending(t) \/ GetSemaphore(t)
  PROVE  Base'
<1>1. /\ SharedOK /\ SignalsOK /\ WaitsOK /\ ArgsOK /\ Side(t) \in Sides
  BY SideFacts DEF Base
<1>2. TasksOK' /\ ArgsOK'
  <2>1. ~At(t, "idle") /\ task[t].op # "none"
    BY <1>1 DEF Again, ResetPending, GetSemaphore, At, ArgsOK
  <2>2. {"wait", "reset_pending", "lock", "pop_header", "peek"}
          \subseteq Places \ {"push_header"}
    BY DEF Places
  <2>. QED  BY <2>1, <2>2, LoopMoves, ArgsStay
<1>3. UNCHANGED <<signalling, os, msgs, sends>>
  BY DEF Again, ResetPending, GetSemaphore, fifo
<1>4. pendingSize' \in MsgSizes \union {0}
  BY <1>1 DEF Again, ResetPending, GetSemaphore, fifo, SharedOK
<1>5. sem' \in [Sides -> Tasks \union {NoTask}]
  BY <1>1 DEF Again, ResetPending, GetSemaphore, SharedOK
<1>. QED  BY <1>1, <1>2, <1>3, <1>4, <1>5
          DEF Base, SharedOK, SignalsOK, WaitsOK, signalling, os

LEMMA TransferSteps ==
  ASSUME Base, NEW t \in Tasks,
         PushHeader(t) \/ Push(t) \/ PopHeader(t) \/ Pop(t) \/ PeekMsg(t)
  PROVE  Base'
<1>1. /\ SharedOK /\ SignalsOK /\ WaitsOK /\ ArgsOK /\ Side(t) \in Sides
      /\ msgs \in Seq(MsgSizes)
  BY SideFacts DEF Base, SharedOK
<1>2. TasksOK' /\ ArgsOK'
  <2>1. CASE PopHeader(t)
    <3>1. task[t].op # "none"
      BY <1>1, <2>1 DEF PopHeader, At, ArgsOK
    <3>2. CASE Returns(t)
      BY <3>2, ArgsStay
    <3>3. CASE /\ TasksOK' /\ task'[t].pc = "pop" /\ task'[t].op = task[t].op
               /\ task'[t].size = task[t].size
               /\ \A u \in Tasks : u # t => task'[u] = task[u]
      BY <1>1, <3>1, <3>3 DEF ArgsOK, At
    <3>. QED  BY <2>1, <3>2, <3>3, PopHeaderMoves
  <2>2. CASE PushHeader(t) \/ Push(t) \/ Pop(t) \/ PeekMsg(t)
    <3>1. ~At(t, "idle")
      BY <2>2 DEF PushHeader, Push, Pop, PeekMsg, At
    <3>2. {"push", "signal", "unlock"} \subseteq Places \ {"push_header"}
      BY DEF Places
    <3>. QED  BY <2>2, <3>1, <3>2, TransferMoves, ArgsStay
  <2>. QED  BY <2>1, <2>2
<1>3. UNCHANGED <<signalling, os, pendingSize, sends>>
  BY DEF PushHeader, Push, PopHeader, Pop, PeekMsg
<1>4. msgs' \in Seq(MsgSizes)
  <2>1. CASE PushHeader(t)
    <3>1. task[t].size \in MsgSizes
      BY <1>1, <2>1 DEF PushHeader, ArgsOK
    <3>2. msgs' = Append(msgs, task[t].size)
      BY <2>1 DEF PushHeader
    <3>. QED  BY <1>1, <3>1, <3>2, AppendProperties
  <2>2. CASE PopHeader(t)
    <3>1. msgs' = msgs \/ (msgs # <<>> /\ msgs' = Tail(msgs))
      BY <2>2 DEF PopHeader, FailEmpty
    <3>. QED  BY <1>1, <3>1, HeadTailProperties
  <2>3. CASE Push(t) \/ Pop(t) \/ PeekMsg(t)
    BY <1>1, <2>3 DEF Push, Pop, PeekMsg, FailEmpty
  <2>. QED  BY <2>1, <2>2, <2>3
<1>5. sem' \in [Sides -> Tasks \union {NoTask}]
  BY <1>1 DEF PushHeader, Push, PopHeader, Pop, PeekMsg, FailEmpty, Release,
              SharedOK
<1>. QED  BY <1>1, <1>2, <1>3, <1>4, <1>5
          DEF Base, SharedOK, SignalsOK, WaitsOK, signalling, os

LEMMA SignalSteps ==
  ASSUME Base, NEW t \in Tasks,
         Signal(t) \/ NotifyPeer(t) \/ WriteWord(t) \/ ReleaseSemaphore(t)
  PROVE  Base'
<1>1. /\ SharedOK /\ SignalsOK /\ WaitsOK /\ ArgsOK
      /\ Side(t) \in Sides /\ Peer(Side(t)) \in Sides
  BY SideFacts DEF Base
<1>2. TasksOK' /\ ArgsOK'
  <2>1. ~At(t, "idle")
    BY DEF Signal, NotifyPeer, WriteWord, ReleaseSemaphore, At
  <2>2. {"notify", "unlock", "write_word"} \subseteq Places \ {"push_header"}
    BY DEF Places
  <2>. QED  BY <2>1, <2>2, TransferMoves, ArgsStay
<1>3. UNCHANGED <<fifo, os, sends, ack, terminate, hpc>>
  BY DEF Signal, NotifyPeer, WriteWord, ReleaseSemaphore, signalling
<1>4. sem' \in [Sides -> Tasks \union {NoTask}]
  BY <1>1 DEF Signal, NotifyPeer, WriteWord, ReleaseSemaphore, Release, SharedOK
<1>5. SignalsOK'
  <2>1. CASE Signal(t)
    <3>1. /\ sig' = [sig EXCEPT ![Peer(Side(t))] = @ + 1]
          /\ UNCHANGED <<notify, ack, terminate, hpc>>
      BY <2>1 DEF Signal
    <3>2. sig' \in [Sides -> Nat] /\ \A side \in Sides : sig'[side] >= sig[side]
      BY <1>1, <3>1 DEF SignalsOK
    <3>. QED  BY <1>1, <3>1, <3>2 DEF SignalsOK
  <2>2. CASE NotifyPeer(t) \/ WriteWord(t) \/ ReleaseSemaphore(t)
    <3>1. sig' = sig /\ notify' \in [Sides -> BOOLEAN]
      BY <1>1, <2>2 DEF NotifyPeer, WriteWord, ReleaseSemaphore, Raise,
                        signalling, SignalsOK
    <3>. QED  BY <1>1, <1>3, <3>1 DEF SignalsOK
  <2>. QED  BY <2>1, <2>2
<1>. QED  BY <1>1, <1>2, <1>3, <1>4, <1>5 DEF Base, SharedOK, WaitsOK, fifo, os

LEMMA CallSteps ==
  ASSUME Base,
         \/ \E t \in Senders, m \in MsgSizes, to \in Timeouts : SendCall(t, m, to)
         \/ \E t \in Receivers, to \in Timeouts, op \in RxOps : RecvCall(t, to, op)
  PROVE  Base'
<1>1. /\ SharedOK /\ SignalsOK /\ WaitsOK /\ ArgsOK
  BY DEF Base
<1>2. ASSUME NEW t \in Senders, NEW m \in MsgSizes, NEW to \in Timeouts,
             SendCall(t, m, to)
      PROVE  Base'
  <2>1. t \in Tasks
    BY SideFacts
  <2>2. /\ TasksOK' /\ task'[t].pc \in {"lock", "set_pending"}
        /\ task'[t].op = "send" /\ task'[t].size = m
        /\ \A u \in Tasks : u # t => task'[u] = task[u]
    BY <1>2, <2>1, CallMoves
  <2>3. ArgsOK'
    BY <1>1, <2>2 DEF ArgsOK, At
  <2>4. UNCHANGED <<fifo, signalling, os, sem>> /\ sends' = sends + 1 /\ sends < MaxSends
    BY <1>2, Zenon DEF SendCall
  <2>5. sends' \in 0 .. MaxSends
    <3>1. MaxSends \in Nat /\ sends \in 0 .. MaxSends
      BY <1>1, TransferAssumption DEF SharedOK
    <3>. QED  BY ONLY <2>4, <3>1
  <2>. QED  BY <1>1, <2>2, <2>3, <2>4, <2>5
            DEF Base, SharedOK, SignalsOK, WaitsOK, fifo, signalling, os
<1>3. ASSUME NEW t \in Receivers, NEW to \in Timeouts, NEW op \in RxOps,
             RecvCall(t, to, op)
      PROVE  Base'
  <2>1. t \in Tasks /\ Side(t) \in Sides
    BY SideFacts
  <2>2. \/ Returns(t)
        \/ /\ TasksOK' /\ task'[t].pc \in {"lock", "wait"} /\ task'[t].op = op
           /\ \A u \in Tasks : u # t => task'[u] = task[u]
    BY <1>3, <2>1, CallMoves
  <2>3. TasksOK' /\ ArgsOK'
    <3>1. op \in {"normal", "peek"}
      BY TransferAssumption
    <3>. QED  BY <1>1, <2>1, <2>2, <3>1, ArgsStay DEF ArgsOK, At
  <2>4. /\ UNCHANGED <<fifo, signalling, osEvent, waiting, sem, sends>>
        /\ osTimeout' = osTimeout \/ SetRelAlarm(t)
    <3> DEFINE args == [Idle EXCEPT !.timeout = to, !.op = op]
    <3>1. args.timeout \in {"zero", "timed", "forever"}
      BY TransferAssumption DEF Idle
    <3>2. /\ osTimeout' = osTimeout \/ GiveUpOrWait(t, args)
          /\ UNCHANGED <<fifo, signalling, osEvent, waiting, sem, sends>>
      BY <1>3, Zenon DEF RecvCall
    <3> HIDE DEF args
    <3>. QED  BY <3>1, <3>2 DEF GiveUpOrWait
  <2>5. WaitsOK'
    BY <1>1, <2>1, <2>4 DEF WaitsOK, SetRelAlarm
  <2>. QED  BY <1>1, <2>3, <2>4, <2>5
            DEF Base, SharedOK, SignalsOK, fifo, signalling
<1>. QED  BY <1>2, <1>3

LEMMA HandlerSteps ==
  ASSUME Base, NEW side \in Sides, Handler(side) \/ Terminate(side)
  PROVE  Base'
<1>1. SharedOK /\ SignalsOK /\ WaitsOK /\ TasksOK /\ ArgsOK
  BY DEF Base
<1>2. UNCHANGED <<fifo, sem, task, sends>>
  BY DEF Handler, HandlerStart, HandlerScan, HandlerAck, Terminate
<1>3. TasksOK' /\ ArgsOK'
  BY <1>1, <1>2 DEF TasksOK, ArgsOK, At
<1>4. WaitsOK'
  BY <1>1 DEF Handler, HandlerStart, HandlerScan, HandlerAck, Terminate, WaitsOK, os
<1>5. SignalsOK'
  <2>1. CASE HandlerStart(side)
    BY <1>1, <2>1 DEF HandlerStart, HandlerAt, HandlerGoto, SignalsOK
  <2>2. CASE HandlerScan(side)
    BY <1>1, <2>2 DEF HandlerScan, HandlerAt, HandlerGoto, SignalsOK
  <2>3. CASE HandlerAck(side)
    BY <1>1, <2>3 DEF HandlerAck, HandlerAt, HandlerGoto, SignalsOK
  <2>4. CASE Terminate(side)
    BY <1>1, <2>4 DEF Terminate, SignalsOK
  <2>. QED  BY <2>1, <2>2, <2>3, <2>4 DEF Handler
<1>. QED  BY <1>1, <1>2, <1>3, <1>4, <1>5 DEF Base, SharedOK, fifo

LEMMA BaseStep == Base /\ [Next]_vars => Base'
<1> SUFFICES ASSUME Base, [Next]_vars PROVE Base'
  OBVIOUS
<1>1. ASSUME NEW t \in Tasks, Step(t)
      PROVE  Base'
  BY <1>1, WaitSteps, LoopSteps, TransferSteps, SignalSteps DEF Step
<1>2. CASE UNCHANGED vars
  BY <1>2 DEF vars, Base, SharedOK, SignalsOK, WaitsOK, TasksOK, ArgsOK, At
<1>. QED  BY <1>1, <1>2, CallSteps, HandlerSteps DEF Next
-----------------------------------------------------------------------------
(***************************************************************************)
(* No signal is missed.                                                    *)
(***************************************************************************)
Notifying(t) == task[t].pc \in {"notify", "write_word"}

\* Only steps of the notification take a task away from it.
LEMMA OthersNotify ==
  ASSUME Base, NEW t \in Tasks, Step(t),
         ~(Signal(t) \/ NotifyPeer(t) \/ WriteWord(t))
  PROVE  /\ UNCHANGED <<signalling>>
         /\ \A u \in Tasks : Notifying(u) => Notifying(u)'
<1>1. UNCHANGED signalling
  BY DEF Step, SetPending, WaitEvent, Enqueue, Evaluate, WakeUp, Expire, Again,
         ResetPending, GetSemaphore, PushHeader, Push, PopHeader, Pop, PeekMsg,
         ReleaseSemaphore
<1>2. ~Notifying(t)
  BY DEF Step, SetPending, WaitEvent, Enqueue, Evaluate, WakeUp, Expire, Again,
         ResetPending, GetSemaphore, PushHeader, Push, PopHeader, Pop, PeekMsg,
         ReleaseSemaphore, At, Notifying
<1>3. task[t].op # "none"
  <2>1. ~At(t, "idle")
    BY DEF Step, SetPending, WaitEvent, Enqueue, Evaluate, WakeUp, Expire, Again,
           ResetPending, GetSemaphore, PushHeader, Push, PopHeader, Pop, PeekMsg,
           ReleaseSemaphore, At
  <2>. QED  BY <2>1 DEF Base, ArgsOK
<1>4. \A u \in Tasks : u # t => task'[u] = task[u]
  BY <1>3, WaitMoves, LoopMoves, TransferMoves, PopHeaderMoves
     DEF Step, Moves, Returns
<1>5. ASSUME NEW u \in Tasks, Notifying(u)
      PROVE  Notifying(u)'
  BY <1>2, <1>4, <1>5 DEF Notifying
<1>. QED  BY <1>1, <1>5

LEMMA MissedStep ==
  ASSUME Base, NothingMissed, [Next]_vars
  PROVE  NothingMissed'
<1> USE DEF NothingMissed, Notifying
<1>0. /\ SignalsOK
      /\ \A side \in Sides : /\ Peer(side) \in Sides /\ Peer(Peer(side)) = side
                             /\ TasksOf(side) \subseteq Tasks
      /\ \A t \in Tasks : /\ Side(t) \in Sides
                          /\ \A side \in Sides : t \in TasksOf(side) <=> Side(t) = side
  <2>1. \A t \in Tasks, side \in Sides : t \in TasksOf(side) <=> Side(t) = side
    BY SideFacts DEF Sides, Tasks
  <2>2. TasksOf("tx") \subseteq Tasks /\ TasksOf("rx") \subseteq Tasks
    BY SideFacts DEF Tasks
  <2>. QED  BY <2>1, <2>2, SideFacts DEF Base, Sides
<1>1. ASSUME UNCHANGED signalling,
             \A u \in Tasks : Notifying(u) => Notifying(u)'
      PROVE  NothingMissed'
  BY <1>0, <1>1 DEF signalling, TasksOf
<1>2. ASSUME NEW t \in Tasks, Signal(t)
      PROVE  NothingMissed'
  <2>1. /\ sig' = [sig EXCEPT ![Peer(Side(t))] = @ + 1]
        /\ UNCHANGED <<ack, notify, terminate, hpc>> /\ task[t].pc = "signal"
    BY <1>2 DEF Signal, At
  <2>2. /\ task'[t].pc = "notify"
        /\ \A u \in Tasks : u # t => task'[u] = task[u]
    BY <1>2, TransferMoves DEF Moves
  <2>3. ASSUME NEW side \in Sides, sig'[side] # ack'[side]
        PROVE  \/ notify'[side] \/ hpc'[side] # "idle"
               \/ \E u \in TasksOf(Peer(side)) : task'[u].pc \in {"notify", "write_word"}
               \/ terminate'[Peer(side)]
    <3>1. CASE side = Peer(Side(t))
      <4>1. t \in TasksOf(Peer(side))
        BY <1>0, <3>1
      <4>. QED  BY <2>2, <4>1
    <3>2. CASE side # Peer(Side(t))
      <4>1. sig[side] # ack[side]
        BY <1>0, <2>1, <2>3, <3>2 DEF SignalsOK
      <4>2. \A u \in Tasks : task[u].pc \in {"notify", "write_word"} =>
              task'[u].pc \in {"notify", "write_word"}
        BY <2>1, <2>2
      <4>3. \A u \in TasksOf(Peer(side)) : u \in Tasks
        BY <1>0
      <4>. QED  BY <2>1, <4>1, <4>2, <4>3
    <3>. QED  BY <3>1, <3>2
  <2>. QED  BY <2>3 DEF TasksOf
<1>3. ASSUME NEW t \in Tasks, NotifyPeer(t) \/ WriteWord(t)
      PROVE  NothingMissed'
  <2>1. UNCHANGED <<sig, ack, terminate, hpc>>
    BY <1>3 DEF NotifyPeer, WriteWord
  <2>2. \A u \in Tasks : u # t => task'[u] = task[u]
    BY <1>3, TransferMoves DEF Moves, Returns
  <2>3. /\ \A side \in Sides : notify[side] => notify'[side]
        /\ \/ notify'[Peer(Side(t))] \/ terminate[Side(t)]
           \/ task'[t].pc = "write_word"
    <3>1. CASE WriteWord(t) \/ (NotifyPeer(t) /\ Raise(Peer(Side(t))))
      BY <1>0, <3>1 DEF WriteWord, Raise, SignalsOK
    <3>2. CASE NotifyPeer(t) /\ Goto(t, "write_word") /\ UNCHANGED notify
      <4>1. task'[t].pc = "write_word"
        BY <3>2, TaskGoes DEF Base, Moves, Places
      <4>. QED  BY <3>2, <4>1
    <3>3. CASE NotifyPeer(t) /\ terminate[Side(t)] /\ UNCHANGED notify
      BY <3>3
    <3>. QED  BY <1>3, <3>1, <3>2, <3>3 DEF NotifyPeer
  <2>4. ASSUME NEW side \in Sides, sig'[side] # ack'[side]
        PROVE  \/ notify'[side] \/ hpc'[side] # "idle"
               \/ \E u \in TasksOf(Peer(side)) : task'[u].pc \in {"notify", "write_word"}
               \/ terminate'[Peer(side)]
    <3>1. ASSUME NEW u \in TasksOf(Peer(side)), task[u].pc \in {"notify", "write_word"}
          PROVE  \/ notify'[side] \/ terminate'[Peer(side)]
                 \/ task'[u].pc \in {"notify", "write_word"}
      <4>1. CASE u = t
        <5>1. Side(t) = Peer(side) /\ Peer(Side(t)) = side
          BY <1>0, <4>1
        <5>. QED  BY <2>1, <2>3, <4>1, <5>1
      <4>2. CASE u # t
        <5>1. u \in Tasks
          BY <1>0
        <5>. QED  BY <2>2, <3>1, <4>2, <5>1
      <4>. QED  BY <4>1, <4>2
    <3>. QED  BY <2>1, <2>3, <2>4, <3>1
  <2>. QED  BY <2>4 DEF TasksOf
<1>4. ASSUME NEW s \in Sides, Handler(s) \/ Terminate(s)
      PROVE  NothingMissed'
  <2>1. UNCHANGED <<task, sig>>
    BY <1>4 DEF Handler, HandlerStart, HandlerScan, HandlerAck, Terminate
  <2>2. CASE HandlerStart(s)
    <3>1. /\ \A side \in Sides : side # s => notify'[side] = notify[side]
          /\ hpc'[s] = "scan" /\ \A side \in Sides : side # s => hpc'[side] = hpc[side]
          /\ UNCHANGED <<ack, terminate>>
      BY <1>0, <2>2 DEF HandlerStart, HandlerGoto, SignalsOK
    <3>. QED  BY <2>1, <3>1 DEF TasksOf
  <2>3. CASE HandlerScan(s)
    <3>1. /\ UNCHANGED <<ack, notify, terminate>>
          /\ \A side \in Sides : side # s => hpc'[side] = hpc[side]
          /\ hpc'[s] = "ack" \/ (hpc'[s] = "idle" /\ sig[s] = ack[s])
      BY <1>0, <2>3 DEF HandlerScan, HandlerGoto, SignalsOK
    <3>. QED  BY <2>1, <3>1 DEF TasksOf
  <2>4. CASE HandlerAck(s)
    <3>1. /\ UNCHANGED <<notify, terminate>> /\ hpc'[s] = "scan"
          /\ \A side \in Sides : side # s =>
               hpc'[side] = hpc[side] /\ ack'[side] = ack[side]
      BY <1>0, <2>4 DEF HandlerAck, HandlerGoto, SignalsOK
    <3>. QED  BY <2>1, <3>1 DEF TasksOf
  <2>5. CASE Terminate(s)
    <3>1. /\ UNCHANGED <<ack, notify, hpc>>
          /\ \A side \in Sides : terminate[side] => terminate'[side]
      BY <1>0, <2>5 DEF Terminate, SignalsOK
    <3>. QED  BY <1>0, <2>1, <3>1 DEF TasksOf
  <2>. QED  BY <1>4, <2>2, <2>3, <2>4, <2>5 DEF Handler
<1>5. ASSUME NEW t \in Tasks, Step(t)
      PROVE  NothingMissed'
  BY <1>1, <1>2, <1>3, <1>5, OthersNotify
<1>6. ASSUME NEW t \in Tasks, At(t, "idle"), UNCHANGED signalling,
             \A u \in Tasks : u # t => task'[u] = task[u]
      PROVE  NothingMissed'
  BY <1>1, <1>6 DEF At
<1>7. ASSUME NEW t \in Senders, NEW m \in MsgSizes, NEW to \in Timeouts,
             SendCall(t, m, to)
      PROVE  NothingMissed'
  <2>1. At(t, "idle") /\ UNCHANGED signalling
    BY <1>7, Zenon DEF SendCall
  <2>. QED  BY <1>6, <1>7, <2>1, SideFacts, CallMoves
<1>8. ASSUME NEW t \in Receivers, NEW to \in Timeouts, NEW op \in RxOps,
             RecvCall(t, to, op)
      PROVE  NothingMissed'
  <2>1. At(t, "idle") /\ UNCHANGED signalling
    BY <1>8, Zenon DEF RecvCall
  <2>. QED  BY <1>6, <1>8, <2>1, SideFacts, CallMoves DEF Returns
<1>9. CASE UNCHANGED vars
  BY <1>1, <1>9 DEF vars, signalling
<1>. QED  BY <1>4, <1>5, <1>7, <1>8, <1>9 DEF Next

\* Whatever the number of tasks and however their calls overlap, a signal that
\* was not acknowledged is on its way to the event handler.
THEOREM SignalsArrive == Spec => []NothingMissed
<1>1. Init => NothingMissed
  BY DEF Init, NothingMissed
<1>2. Base /\ NothingMissed /\ [Next]_vars => NothingMissed'
  BY MissedStep
<1>. QED  BY <1>1, <1>2, InitBase, BaseStep, PTL DEF Spec
-----------------------------------------------------------------------------
(***************************************************************************)
(* One task that sends and one that receives.  ICC_Msg_Send checks for     *)
(* room, and ICC_Msg_Recv for a message, before it takes fifo_lock: with a *)
(* second task in the same call, what was checked may be gone when the     *)
(* semaphore is held.  The theorems below have this as a hypothesis.       *)
(***************************************************************************)
Sender == CHOOSE t \in Senders : TRUE
Receiver == CHOOSE t \in Receivers : TRUE

OneTaskEach == Senders = {Sender} /\ Receivers = {Receiver}
-----------------------------------------------------------------------------
(***************************************************************************)
(* How far a sequence of messages reaches.                                 *)
(***************************************************************************)

\* at[i] is where the i-th message of m starts, at[Len(m) + 1] its end.
Follows(at, m) ==
  /\ \A i \in 1 .. Len(m) : at[i + 1] = at[i] + RealSize(m[i])
  /\ \A i, j \in 1 .. Len(m) + 1 : i <= j => at[i] <= at[j]

\* Messages m laid one behind the other from position a on end at b.
Extent(m, a, b) ==
  \E at \in [1 .. Len(m) + 1 -> Nat] :
    Follows(at, m) /\ at[1] = a /\ at[Len(m) + 1] = b

LEMMA SizeFacts ==
  ASSUME NEW len \in MsgSizes
  PROVE  /\ len \in Nat /\ len > 0 /\ Padding(len) \in Nat
         /\ Padding(len) \in 0 .. Alignment - 1
         /\ RealSize(len) = HeaderSize + len + Padding(len)
         /\ RealSize(len) \in Nat /\ Aligned(RealSize(len))
         /\ RealSize(len) > HeaderSize
         /\ HeaderSize \in Nat /\ HeaderSize > 0
<1>1. len \in Nat /\ len > 0
  BY TransferAssumption
<1>2. /\ Padding(len) \in 0 .. Alignment - 1
      /\ RealSize(len) = HeaderSize + len + Padding(len)
      /\ RealSize(len) \in Nat /\ Aligned(RealSize(len))
  BY <1>1, PaddingProperties
<1>3. HeaderSize \in Nat /\ HeaderSize > 0 /\ Alignment \in Nat
  BY FifoAssumption
<1>. QED  BY <1>1, <1>2, <1>3

LEMMA NoExtent ==
  ASSUME NEW a \in Nat, NEW b
  PROVE  Extent(<<>>, a, b) <=> a = b
<1>1. Len(<<>>) = 0
  OBVIOUS
<1>2. ASSUME Extent(<<>>, a, b)
      PROVE  a = b
  BY <1>1, <1>2 DEF Extent
<1>3. ASSUME a = b
      PROVE  Extent(<<>>, a, b)
  <2> DEFINE at == [i \in 1 .. 0 + 1 |-> a]
  <2>1. /\ at \in [1 .. 0 + 1 -> Nat] /\ at[1] = a /\ at[0 + 1] = b
        /\ \A i, j \in 1 .. 0 + 1 : i <= j => at[i] <= at[j]
    BY <1>3
  <2> HIDE DEF at
  <2>2. Follows(at, <<>>)
    BY <1>1, <2>1 DEF Follows
  <2>. QED  BY <1>1, <2>1, <2>2 DEF Extent
<1>. QED  BY <1>2, <1>3

LEMMA FollowsFacts ==
  ASSUME NEW m \in Seq(MsgSizes), NEW at \in [1 .. Len(m) + 1 -> Nat],
         Follows(at, m)
  PROVE  /\ \A i \in 1 .. Len(m) + 1 :
              at[i] \in Nat /\ at[1] <= at[i] /\ at[i] <= at[Len(m) + 1]
         /\ \A i \in 1 .. Len(m) + 1 : \A j \in 1 .. Len(m) + 1 :
              i <= j => at[i] <= at[j]
         /\ \A i \in 1 .. Len(m) : at[i + 1] = at[i] + RealSize(m[i])
<1> DEFINE n == Len(m)
<1>1. n \in Nat
  OBVIOUS
<1>2. /\ at \in [1 .. n + 1 -> Nat]
      /\ \A i \in 1 .. n + 1 : \A j \in 1 .. n + 1 : i <= j => at[i] <= at[j]
      /\ \A i \in 1 .. n : at[i + 1] = at[i] + RealSize(m[i])
  BY DEF Follows
<1> HIDE DEF n
<1>3. ASSUME NEW i \in 1 .. n + 1
      PROVE  at[i] \in Nat /\ at[1] <= at[i] /\ at[i] <= at[n + 1]
  <2>1. 1 \in 1 .. n + 1 /\ n + 1 \in 1 .. n + 1 /\ 1 <= i /\ i <= n + 1
    BY <1>1
  <2>. QED  BY <1>2, <2>1
<1>. QED  BY <1>2, <1>3 DEF n

LEMMA ExtentFacts ==
  ASSUME NEW m \in Seq(MsgSizes), m # <<>>, NEW a, NEW b, Extent(m, a, b)
  PROVE  /\ a \in Nat /\ b \in Nat /\ Len(m) \in Nat \ {0}
         /\ Head(m) \in MsgSizes /\ m[Len(m)] \in MsgSizes
         /\ a + RealSize(Head(m)) <= b
         /\ a + RealSize(m[Len(m)]) <= b
         /\ Len(m) = 1 => Head(m) = m[Len(m)] /\ b = a + RealSize(Head(m))
         /\ Len(m) # 1 => a + RealSize(Head(m)) + RealSize(m[Len(m)]) <= b
<1> DEFINE n == Len(m)
<1>1. n \in Nat /\ n >= 1 /\ n \in Nat \ {0}
  BY EmptySeq
<1>2. PICK at \in [1 .. n + 1 -> Nat] :
        Follows(at, m) /\ at[1] = a /\ at[n + 1] = b
  BY DEF Extent
<1>3. Head(m) = m[1] /\ m[1] \in MsgSizes /\ m[n] \in MsgSizes
  BY <1>1
<1>4. /\ at[1 + 1] = at[1] + RealSize(m[1])
      /\ at[n + 1] = at[n] + RealSize(m[n])
      /\ at[1] <= at[n] /\ at[1 + 1] <= at[n + 1]
      /\ n # 1 => at[1 + 1] <= at[n]
  <2>1. /\ \A i \in 1 .. n + 1 : \A j \in 1 .. n + 1 :
             i <= j => at[i] <= at[j]
        /\ \A i \in 1 .. n : at[i + 1] = at[i] + RealSize(m[i])
    BY <1>2, FollowsFacts
  <2> HIDE DEF n
  <2>2. /\ 1 \in 1 .. n /\ n \in 1 .. n /\ n \in 1 .. n + 1 /\ 1 \in 1 .. n + 1
        /\ 1 + 1 \in 1 .. n + 1 /\ n + 1 \in 1 .. n + 1 /\ 1 <= n
        /\ 1 + 1 <= n + 1
        /\ n # 1 => 1 + 1 <= n
    BY ONLY <1>1
  <2>3. /\ at[1 + 1] = at[1] + RealSize(m[1])
        /\ at[n + 1] = at[n] + RealSize(m[n])
    BY ONLY <2>1, <2>2, Zenon
  <2>4. /\ at[1] <= at[n] /\ at[1 + 1] <= at[n + 1]
        /\ n # 1 => at[1 + 1] <= at[n]
    BY ONLY <2>1, <2>2, Zenon
  <2>. QED  BY <2>3, <2>4
<1>5. /\ RealSize(m[1]) \in Nat /\ RealSize(m[n]) \in Nat
      /\ at[1] \in Nat /\ at[1 + 1] \in Nat /\ at[n] \in Nat /\ at[n + 1] \in Nat
  <2>1. RealSize(m[1]) \in Nat /\ RealSize(m[n]) \in Nat
    BY <1>3, SizeFacts
  <2>2. \A i \in 1 .. n + 1 : at[i] \in Nat
    BY <1>2, FollowsFacts
  <2>. QED  BY <1>1, <2>1, <2>2
<1> HIDE DEF n
<1>6. n = 1 => Head(m) = m[n] /\ b = a + RealSize(Head(m))
  BY <1>2, <1>3, <1>4
<1>7. /\ a + RealSize(Head(m)) <= b /\ a + RealSize(m[n]) <= b
      /\ n # 1 => a + RealSize(Head(m)) + RealSize(m[n]) <= b
  <2> DEFINE first == RealSize(m[1])
             final == RealSize(m[n])
             x == at[1 + 1]
             y == at[n]
  <2>1. /\ first \in Nat /\ final \in Nat /\ a \in Nat /\ x \in Nat
        /\ y \in Nat /\ b \in Nat
        /\ x = a + first /\ b = y + final /\ a <= y /\ x <= b
        /\ n # 1 => x <= y
    BY <1>2, <1>4, <1>5
  <2> HIDE DEF first, final, x, y
  <2>2. a + first <= b /\ a + final <= b /\ n # 1 => a + first + final <= b
    BY ONLY <2>1
  <2>3. a + first <= b /\ a + final <= b
    BY ONLY <2>1
  <2>. QED  BY <1>3, <2>1, <2>2, <2>3 DEF first, final
<1>. QED  BY <1>1, <1>2, <1>3, <1>5, <1>6, <1>7 DEF n

\* A message more at the end.
LEMMA ExtentAppend ==
  ASSUME NEW m \in Seq(MsgSizes), NEW len \in MsgSizes, NEW a, NEW b,
         Extent(m, a, b)
  PROVE  Extent(Append(m, len), a, b + RealSize(len))
<1> DEFINE n == Len(m)
           m2 == Append(m, len)
<1>1. n \in Nat
  OBVIOUS
<1>2. PICK at \in [1 .. n + 1 -> Nat] :
        Follows(at, m) /\ at[1] = a /\ at[n + 1] = b
  BY DEF Extent
<1>3. /\ m2 \in Seq(MsgSizes) /\ Len(m2) = n + 1
      /\ \A i \in 1 .. n : m2[i] = m[i]
      /\ m2[n + 1] = len
  BY AppendProperties
<1>4. RealSize(len) \in Nat
  BY SizeFacts
<1> DEFINE end == at[n + 1] + RealSize(len)
           at2 == [i \in 1 .. n + 2 |-> IF i = n + 2 THEN end ELSE at[i]]
<1>5. end \in Nat /\ \A i \in 1 .. n + 1 : at[i] \in Nat /\ at[i] <= end
  <2>1. \A i \in 1 .. n + 1 : at[i] \in Nat /\ at[i] <= at[n + 1]
    BY <1>2, FollowsFacts
  <2>2. n + 1 \in 1 .. n + 1
    BY <1>1
  <2> HIDE DEF n
  <2>. QED  BY <1>4, <2>1, <2>2
<1> HIDE DEF n, m2, end
<1>6. /\ at2 \in [1 .. n + 2 -> Nat]
      /\ \A i \in 1 .. n + 1 : at2[i] = at[i]
      /\ at2[n + 2] = end
  BY <1>1, <1>5
<1> HIDE DEF at2
<1>7. ASSUME NEW i \in 1 .. n + 1
      PROVE  at2[i + 1] = at2[i] + RealSize(m2[i])
  <2>1. CASE i = n + 1
    <3>1. i + 1 = n + 2
      BY <1>1, <2>1
    <3>. QED  BY <1>3, <1>6, <2>1, <3>1 DEF end
  <2>2. CASE i # n + 1
    <3>1. i \in 1 .. n /\ i + 1 \in 1 .. n + 1 /\ i \in 1 .. n + 1
      BY <1>1, <2>2
    <3>2. at[i + 1] = at[i] + RealSize(m[i])
      BY <1>2, <3>1 DEF Follows, n
    <3>. QED  BY <1>3, <1>6, <3>1, <3>2
  <2>. QED  BY <2>1, <2>2
<1>8. ASSUME NEW i \in 1 .. n + 2, NEW j \in 1 .. n + 2, i <= j
      PROVE  at2[i] <= at2[j]
  <2>1. CASE j = n + 2
    <3>1. at2[i] \in Nat /\ (i = n + 2 \/ i \in 1 .. n + 1)
      BY <1>1, <1>6
    <3>. QED  BY <1>5, <1>6, <2>1, <3>1
  <2>2. CASE j # n + 2
    <3>1. i \in 1 .. n + 1 /\ j \in 1 .. n + 1
      BY <1>1, <1>8, <2>2
    <3>2. at[i] <= at[j]
      BY <1>2, <1>8, <3>1 DEF Follows, n
    <3>. QED  BY <1>6, <3>1, <3>2
  <2>. QED  BY <2>1, <2>2
<1>9. Len(m2) + 1 = n + 2 /\ Len(m2) = n + 1
  BY <1>1, <1>3
<1>10. Follows(at2, m2)
  BY <1>7, <1>8, <1>9 DEF Follows
<1>11. at2 \in [1 .. Len(m2) + 1 -> Nat] /\ at2[1] = a
       /\ at2[Len(m2) + 1] = b + RealSize(len)
  BY <1>1, <1>2, <1>6, <1>9 DEF end
<1>12. Extent(m2, a, b + RealSize(len))
  BY <1>10, <1>11 DEF Extent
<1>. QED  BY <1>12 DEF m2

\* The first message is taken off.
LEMMA ExtentTail ==
  ASSUME NEW m \in Seq(MsgSizes), m # <<>>, NEW a, NEW b, Extent(m, a, b)
  PROVE  Extent(Tail(m), a + RealSize(Head(m)), b)
<1> DEFINE n == Len(m)
           m2 == Tail(m)
<1>1. n \in Nat /\ n >= 1 /\ Head(m) = m[1]
  BY EmptySeq
<1>2. PICK at \in [1 .. n + 1 -> Nat] :
        Follows(at, m) /\ at[1] = a /\ at[n + 1] = b
  BY DEF Extent
<1>3. /\ m2 \in Seq(MsgSizes) /\ Len(m2) = n - 1
      /\ \A i \in 1 .. Len(m2) : m2[i] = m[i + 1]
  BY HeadTailProperties
<1> HIDE DEF n, m2
<1> DEFINE at2 == [i \in 1 .. n |-> at[i + 1]]
<1>4. at2 \in [1 .. n -> Nat] /\ \A i \in 1 .. n : at2[i] = at[i + 1]
  BY <1>1, <1>2
<1> HIDE DEF at2
<1>5. Len(m2) + 1 = n
  BY <1>1, <1>3
<1>6. ASSUME NEW i \in 1 .. Len(m2)
      PROVE  at2[i + 1] = at2[i] + RealSize(m2[i])
  <2>1. i \in 1 .. n /\ i + 1 \in 1 .. n
    BY <1>1, <1>3
  <2>2. at[(i + 1) + 1] = at[i + 1] + RealSize(m[i + 1])
    BY <1>2, <2>1 DEF Follows, n
  <2>. QED  BY <1>3, <1>4, <2>1, <2>2
<1>7. ASSUME NEW i \in 1 .. n, NEW j \in 1 .. n, i <= j
      PROVE  at2[i] <= at2[j]
  <2>1. i + 1 \in 1 .. n + 1 /\ j + 1 \in 1 .. n + 1 /\ i + 1 <= j + 1
    BY <1>1, <1>7
  <2>2. at[i + 1] <= at[j + 1]
    BY <1>2, <2>1 DEF Follows, n
  <2>. QED  BY <1>4, <2>2
<1>8. Follows(at2, m2)
  BY <1>5, <1>6, <1>7 DEF Follows
<1>9. at2[1] = a + RealSize(Head(m)) /\ at2[n] = b
  <2>1. 1 \in 1 .. n /\ n \in 1 .. n
    BY <1>1
  <2>2. at[1 + 1] = at[1] + RealSize(m[1])
    BY <1>2, <2>1 DEF Follows, n
  <2>. QED  BY <1>1, <1>2, <1>4, <2>1, <2>2
<1>10. Extent(m2, a + RealSize(Head(m)), b)
  BY <1>4, <1>5, <1>8, <1>9 DEF Extent
<1>. QED  BY <1>10 DEF m2

\* The ring has moved on by k bytes.
LEMMA ExtentShift ==
  ASSUME NEW m \in Seq(MsgSizes), NEW a, NEW b, NEW k \in Nat,
         Extent(m, a, b), k <= a
  PROVE  Extent(m, a - k, b - k)
<1> DEFINE n == Len(m)
<1>1. n \in Nat
  OBVIOUS
<1>2. PICK at \in [1 .. n + 1 -> Nat] :
        Follows(at, m) /\ at[1] = a /\ at[n + 1] = b
  BY DEF Extent
<1>3. \A i \in 1 .. n : m[i] \in MsgSizes
  OBVIOUS
<1> HIDE DEF n
<1> DEFINE at2 == [i \in 1 .. n + 1 |-> at[i] - k]
<1>4. \A i \in 1 .. n + 1 : at[i] \in Nat /\ k <= at[i] /\ at[i] - k \in Nat
  <2>1. \A i \in 1 .. n + 1 : at[i] \in Nat /\ a <= at[i]
    BY <1>2, FollowsFacts DEF n
  <2>2. 1 \in 1 .. n + 1 /\ a \in Nat
    BY <1>1, <1>2
  <2>. QED  BY <2>1, <2>2
<1>5. at2 \in [1 .. n + 1 -> Nat] /\ \A i \in 1 .. n + 1 : at2[i] = at[i] - k
  BY <1>4
<1> HIDE DEF at2
<1>6. ASSUME NEW i \in 1 .. n
      PROVE  at2[i + 1] = at2[i] + RealSize(m[i])
  <2>1. i \in 1 .. n + 1 /\ i + 1 \in 1 .. n + 1
    BY <1>1
  <2>2. at[i + 1] = at[i] + RealSize(m[i])
    BY <1>2 DEF Follows, n
  <2>3. RealSize(m[i]) \in Nat
    BY <1>3, SizeFacts
  <2>. QED  BY <1>4, <1>5, <2>1, <2>2, <2>3
<1>7. ASSUME NEW i \in 1 .. n + 1, NEW j \in 1 .. n + 1, i <= j
      PROVE  at2[i] <= at2[j]
  <2>1. at[i] <= at[j]
    BY <1>2, <1>7 DEF Follows, n
  <2>. QED  BY <1>4, <1>5, <2>1
<1>8. Follows(at2, m)
  BY <1>6, <1>7 DEF Follows, n
<1>9. at2[1] = a - k /\ at2[n + 1] = b - k
  BY <1>1, <1>2, <1>5
<1>. QED  BY <1>5, <1>8, <1>9 DEF Extent, n
-----------------------------------------------------------------------------
(***************************************************************************)
(* The ring and the messages in it.                                        *)
(***************************************************************************)

\* With read index h and write index t, the ring holds `rest' bytes of the
\* message being popped and then messages m; the last `due' bytes of the last
\* of them are not yet written.
Holds(h, t, m, rest, due) ==
  /\ h \in Index /\ t \in Index /\ rest \in Nat /\ due \in Nat
  /\ Aligned(h + rest) /\ Aligned(t + due)
  /\ Extent(m, rest, PendingBytes(h, t) + due)
  /\ due # 0 => /\ Room(h, t, due)
                /\ m # <<>> /\ RealSize(m[Len(m)]) = HeaderSize + due

\* An index that goes round the ring stays aligned.
LEMMA AlignedRound ==
  ASSUME NEW x \in Int, NEW y \in Int, NEW rest \in Int, Aligned(x + rest),
         y = x \/ y = x - FifoSize
  PROVE  Aligned(y + rest)
<1>1. CASE y = x
  BY <1>1
<1>2. CASE y = x - FifoSize
  <2>1. x + rest \in Int /\ FifoSize \in Int
    BY FifoAssumption
  <2>2. Aligned((x + rest) - FifoSize)
    BY <2>1, AlignedSum, AlignedFifoSize, Zenon
  <2>3. y + rest = (x + rest) - FifoSize
    BY <1>2, <2>1
  <2>. QED  BY <2>2, <2>3
<1>. QED  BY <1>1, <1>2

\* ICC_FIFO_Push_Header of a message that fits.
LEMMA HeaderPushed ==
  ASSUME NEW h, NEW t, NEW m \in Seq(MsgSizes), NEW rest, NEW len \in MsgSizes,
         Holds(h, t, m, rest, 0), MsgFits(h, t, len)
  PROVE  LET t2 == TailAfter(h, t, HeaderSize, 0) IN
         /\ Holds(h, t2, Append(m, len), rest, len + Padding(len))
         /\ PendingBytes(h, t2) > PendingBytes(h, t)
<1> DEFINE t2 == TailAfter(h, t, HeaderSize, 0)
           due == len + Padding(len)
           p == PendingBytes(h, t)
           size == RealSize(len)
<1>1. /\ h \in Index /\ t \in Index /\ rest \in Nat /\ Aligned(h + rest)
      /\ Aligned(t + 0) /\ Extent(m, rest, p + 0)
  BY DEF Holds
<1>2. /\ h \in Int /\ t \in Int /\ p \in Int /\ t + 0 = t /\ p + 0 = p
  BY <1>1, Occupied, FifoAssumption DEF Index
<1>3. /\ size = HeaderSize + due /\ due \in Nat /\ size \in Nat /\ len \in Nat
      /\ HeaderSize \in Nat /\ HeaderSize > 0 /\ Aligned(size)
  BY SizeFacts
<1>4. Room(h, t, size)
  BY <1>1, <1>2, <1>3, FitsHasRoom
<1> HIDE DEF due, p, size
<1>5. Room(h, t, HeaderSize + 0) /\ Room(h, t2, due)
  BY <1>1, <1>3, <1>4, RoomForTheRest
<1>6. /\ t2 \in Index /\ PendingBytes(h, t2) = p + HeaderSize + 0
      /\ t2 = t + HeaderSize + 0 \/ t2 = t + HeaderSize + 0 - FifoSize
  <2>1. ~WrappedAround(h, t) /\ t + HeaderSize <= FifoSize =>
          t + HeaderSize + 0 <= FifoSize
    BY <1>2, <1>3
  <2>. QED  BY <1>1, <1>3, <1>5, <2>1, TailAdvances DEF p
<1> HIDE DEF t2
<1>7. t2 \in Int /\ FifoSize \in Int
  BY <1>6, FifoAssumption DEF Index
<1>8. Aligned(t2 + due)
  <2>1. Aligned(t + size)
    BY <1>1, <1>2, <1>3, AlignedSum
  <2> DEFINE x == t + HeaderSize + 0
  <2>2. x + due = t + size /\ x \in Int /\ due \in Int
    BY <1>2, <1>3
  <2>3. t2 = x \/ t2 = x - FifoSize
    BY <1>2, <1>3, <1>6, <1>7
  <2> HIDE DEF x
  <2>4. Aligned(x + due)
    BY <2>1, <2>2
  <2>. QED  BY ONLY <1>7, <2>2, <2>3, <2>4, AlignedRound, Zenon
<1>9. Extent(Append(m, len), rest, PendingBytes(h, t2) + due)
  <2>1. Extent(Append(m, len), rest, p + size)
    BY <1>1, <1>2, ExtentAppend DEF size
  <2>2. PendingBytes(h, t2) + due = p + size
    BY <1>2, <1>3, <1>6
  <2>. QED  BY <2>1, <2>2
<1>10. LET m2 == Append(m, len) IN
       m2 # <<>> /\ RealSize(m2[Len(m2)]) = HeaderSize + due
  BY <1>3, AppendProperties DEF size
<1>11. PendingBytes(h, t2) > p
  BY <1>2, <1>3, <1>6
<1>. QED  BY <1>1, <1>3, <1>5, <1>6, <1>8, <1>9, <1>10, <1>11 DEF Holds, t2, due, p

\* ICC_FIFO_Push of the payload.
LEMMA PayloadPushed ==
  ASSUME NEW h, NEW t, NEW m \in Seq(MsgSizes), NEW rest, NEW len \in MsgSizes,
         Holds(h, t, m, rest, len + Padding(len))
  PROVE  LET t2 == TailAfter(h, t, len, Padding(len)) IN
         /\ Holds(h, t2, m, rest, 0)
         /\ PendingBytes(h, t2) > PendingBytes(h, t)
<1> DEFINE pad == Padding(len)
           t2 == TailAfter(h, t, len, pad)
           p == PendingBytes(h, t)
<1>1. /\ len \in Nat /\ len > 0 /\ pad \in Nat /\ pad \in 0 .. Alignment - 1
      /\ len + pad # 0 /\ len + pad \in Nat
  BY SizeFacts
<1>2. /\ h \in Index /\ t \in Index /\ rest \in Nat /\ Aligned(h + rest)
      /\ Aligned(t + (len + pad)) /\ Extent(m, rest, p + (len + pad))
      /\ Room(h, t, len + pad)
  BY <1>1 DEF Holds
<1>0. p \in 0 .. FifoSize
  BY <1>2, Occupied
<1> HIDE DEF pad, p
<1>3. /\ t \in Int /\ p \in Int /\ FifoSize \in Int
      /\ t + (len + pad) = t + len + pad /\ t + len + pad \in Int
  BY <1>0, <1>1, <1>2, FifoAssumption DEF Index
<1>4. ASSUME t + len <= FifoSize
      PROVE  t + len + pad <= FifoSize
  <2>1. (t + len + pad) - pad <= FifoSize
    BY <1>1, <1>3, <1>4
  <2>2. Aligned(t + len + pad)
    BY <1>2, <1>3
  <2>. QED  BY ONLY <1>1, <1>3, <2>1, <2>2, AlignedFifoSize, PaddingStaysInside, Zenon
<1>5. /\ t2 \in Index /\ PendingBytes(h, t2) = p + len + pad
      /\ t2 = t + len + pad \/ t2 = t + len + pad - FifoSize
  BY <1>1, <1>2, <1>4, TailAdvances DEF p
<1> HIDE DEF t2
<1>6. t2 \in Int
  BY <1>5, FifoAssumption DEF Index
<1>7. Aligned(t2 + 0)
  <2> DEFINE x == t + len + pad
  <2>1. x + 0 = t + (len + pad) /\ x \in Int /\ 0 \in Int
    BY <1>3
  <2>2. t2 = x \/ t2 = x - FifoSize
    BY <1>1, <1>3, <1>5, <1>6
  <2> HIDE DEF x
  <2>3. Aligned(x + 0)
    BY <1>2, <2>1
  <2>. QED  BY ONLY <1>6, <2>1, <2>2, <2>3, AlignedRound, Zenon
<1>8. Extent(m, rest, PendingBytes(h, t2) + 0)
  <2>1. PendingBytes(h, t2) + 0 = p + (len + pad)
    BY <1>1, <1>3, <1>5
  <2>. QED  BY <1>2, <2>1
<1>9. PendingBytes(h, t2) > p
  BY <1>1, <1>3, <1>5
<1>. QED  BY <1>2, <1>5, <1>7, <1>8, <1>9 DEF Holds, t2, p, pad

\* Nothing that was refused or found comes undone while the reader moves on.
Freed(h, t, h2) ==
  \A len \in MsgSizes : MsgFits(h, t, len) => MsgFits(h2, t, len)

\* ICC_FIFO_Pop_Header where more than a header is pending: a whole message is.
LEMMA HeaderPopped ==
  ASSUME NEW h, NEW t, NEW m \in Seq(MsgSizes), NEW due,
         Holds(h, t, m, 0, due), PendingBytes(h, t) > HeaderSize
  PROVE  LET h2 == HeadAfter(h, t, HeaderSize, 0)
             len == Head(m)
         IN  /\ m # <<>> /\ len \in MsgSizes
             /\ Holds(h2, t, Tail(m), len + Padding(len), due)
             /\ Freed(h, t, h2)
<1> DEFINE h2 == HeadAfter(h, t, HeaderSize, 0)
           len == Head(m)
           size == RealSize(len)
           p == PendingBytes(h, t)
           final == RealSize(m[Len(m)])
<1>1. /\ h \in Index /\ t \in Index /\ due \in Nat /\ Aligned(h + 0)
      /\ Aligned(t + due) /\ Extent(m, 0, p + due)
      /\ due # 0 => Room(h, t, due) /\ m # <<>> /\ final = HeaderSize + due
  BY DEF Holds
<1>2. /\ h \in Int /\ p \in Nat /\ FifoSize \in Int /\ HeaderSize \in Nat
      /\ HeaderSize > 0 /\ p > HeaderSize /\ h + 0 = h
  BY <1>1, Occupied, FifoAssumption DEF Index
<1> HIDE DEF p
<1>3. m # <<>>
  <2> SUFFICES ASSUME m = <<>> PROVE FALSE
    OBVIOUS
  <2>1. due = 0
    BY <1>1
  <2>2. 0 = p + due
    BY <1>1, NoExtent
  <2>. QED  BY <1>2, <2>1, <2>2
<1>4. /\ len \in MsgSizes /\ m[Len(m)] \in MsgSizes
      /\ 0 + size <= p + due /\ Len(m) \in Nat \ {0}
      /\ Len(m) = 1 => size = final /\ p + due = 0 + size
      /\ Len(m) # 1 => 0 + size + final <= p + due
  BY <1>1, <1>3, ExtentFacts
<1>5. /\ size = HeaderSize + (len + Padding(len)) /\ len + Padding(len) \in Nat
      /\ size \in Nat /\ final \in Nat /\ Aligned(size)
  <2>1. /\ len \in Nat /\ Padding(len) \in Nat
        /\ size = HeaderSize + len + Padding(len)
        /\ size \in Nat /\ Aligned(size)
    BY <1>4, SizeFacts
  <2>2. final \in Nat
    BY <1>4, SizeFacts
  <2>. HIDE DEF len, size, final, h2
  <2>. QED  BY <1>2, <2>1, <2>2
<1> HIDE DEF len, size, final, h2
<1>6. /\ size <= p
      /\ due # 0 => Len(m) # 1
  BY <1>1, <1>2, <1>4, <1>5
<1>7. /\ h2 \in Index /\ PendingBytes(h2, t) = p - HeaderSize - 0
      /\ FreeBytes(h2, t) = FreeBytes(h, t) + HeaderSize + 0
      /\ h2 = h + HeaderSize + 0 \/ h2 = h + HeaderSize + 0 - FifoSize
      /\ ~WrappedAround(h, t) => ~WrappedAround(h2, t)
  <2>1. HeaderSize + 0 <= PendingBytes(h, t)
    BY <1>2 DEF p
  <2>2. h + HeaderSize <= FifoSize => h + HeaderSize + 0 <= FifoSize
    BY <1>2
  <2>. QED  BY <1>1, <1>2, <2>1, <2>2, HeadAdvances DEF h2, p
<1>8. h2 \in Int
  BY <1>7, FifoAssumption DEF Index
<1>9. Aligned(h2 + (len + Padding(len)))
  <2> DEFINE rest == len + Padding(len)
  <2>1. rest \in Int /\ size \in Int /\ h + HeaderSize + 0 \in Int
        /\ h + size = (h + HeaderSize + 0) + rest
    BY <1>2, <1>5
  <2> HIDE DEF rest
  <2>2. Aligned(h + size)
    BY <1>1, <1>2, <1>5, <2>1, AlignedSum
  <2> DEFINE x == h + HeaderSize + 0
  <2>3. h2 = x \/ h2 = x - FifoSize
    BY <1>2, <1>7, <1>8
  <2>4. x \in Int /\ Aligned(x + rest)
    BY <2>1, <2>2
  <2> HIDE DEF x
  <2>5. Aligned(h2 + rest)
    BY ONLY <1>8, <2>1, <2>3, <2>4, AlignedRound, Zenon
  <2>. QED  BY <2>5 DEF rest
<1>10. Extent(Tail(m), len + Padding(len), PendingBytes(h2, t) + due)
  <2>1. Extent(Tail(m), 0 + size, p + due)
    BY <1>1, <1>3, ExtentTail DEF size, len
  <2>2. Tail(m) \in Seq(MsgSizes)
    BY <1>3, HeadTailProperties
  <2>3. HeaderSize <= 0 + size
    BY <1>2, <1>5
  <2>4. Extent(Tail(m), (0 + size) - HeaderSize, (p + due) - HeaderSize)
    BY ONLY <1>2, <2>1, <2>2, <2>3, ExtentShift, Zenon
  <2>5. /\ (0 + size) - HeaderSize = len + Padding(len)
        /\ (p + due) - HeaderSize = PendingBytes(h2, t) + due
    <3> DEFINE rest == len + Padding(len)
    <3>1. size = HeaderSize + rest /\ rest \in Nat /\ due \in Nat
      BY <1>1, <1>5
    <3> HIDE DEF rest
    <3>2. (0 + size) - HeaderSize = rest
      BY <1>2, <3>1
    <3>3. (p + due) - HeaderSize = PendingBytes(h2, t) + due
      BY <1>2, <1>7, <3>1
    <3>. QED  BY <3>2, <3>3 DEF rest
  <2>. QED  BY <2>4, <2>5
<1>11. FreeBytes(h2, t) > FreeBytes(h, t)
  <2>1. FreeBytes(h, t) \in 0 .. FifoSize
    BY <1>1, Occupied
  <2>. QED  BY <1>2, <1>7, <2>1
<1>12. Freed(h, t, h2)
  BY <1>1, <1>7, <1>11, ReadingMakesRoom, SizeFacts DEF Freed
<1>13. ASSUME due # 0
       PROVE  /\ Room(h2, t, due) /\ Tail(m) # <<>>
              /\ RealSize(Tail(m)[Len(Tail(m))]) = HeaderSize + due
  <2>1. Room(h2, t, due)
    BY <1>1, <1>7, <1>11, <1>13, ReadingMakesRoom
  <2>2. /\ Tail(m) \in Seq(MsgSizes) /\ Len(Tail(m)) = Len(m) - 1
        /\ \A i \in 1 .. Len(Tail(m)) : Tail(m)[i] = m[i + 1]
    BY <1>3, HeadTailProperties
  <2> DEFINE n == Len(m)
  <2> HIDE DEF n
  <2>0. n \in Nat /\ n # 0 /\ n # 1
    BY <1>4, <1>6, <1>13 DEF n
  <2>3. n - 1 \in 1 .. n - 1 /\ (n - 1) + 1 = n /\ n - 1 # 0
    BY ONLY <2>0
  <2>4. Tail(m)[Len(Tail(m))] = m[Len(m)]
    BY <2>2, <2>3 DEF n
  <2>5. Tail(m) # <<>>
    BY <2>2, <2>3, EmptySeq DEF n
  <2>. QED  BY <1>1, <1>13, <2>1, <2>4, <2>5 DEF final
<1>. QED  BY <1>1, <1>3, <1>4, <1>5, <1>7, <1>9, <1>10, <1>12, <1>13
          DEF Holds, h2, len

\* ICC_FIFO_Pop of the payload: it is there.
LEMMA PayloadPopped ==
  ASSUME NEW h, NEW t, NEW m \in Seq(MsgSizes), NEW len \in MsgSizes, NEW due,
         Holds(h, t, m, len + Padding(len), due)
  PROVE  LET h2 == HeadAfter(h, t, len, Padding(len)) IN
         /\ len <= PendingBytes(h, t)
         /\ Holds(h2, t, m, 0, due)
         /\ Freed(h, t, h2)
<1> DEFINE pad == Padding(len)
           h2 == HeadAfter(h, t, len, pad)
           p == PendingBytes(h, t)
           rest == len + pad
           final == RealSize(m[Len(m)])
<1>1. /\ len \in Nat /\ len > 0 /\ pad \in Nat /\ pad \in 0 .. Alignment - 1
      /\ rest \in Nat
  BY SizeFacts
<1>2. /\ h \in Index /\ t \in Index /\ due \in Nat /\ Aligned(h + rest)
      /\ Aligned(t + due) /\ Extent(m, rest, p + due)
      /\ due # 0 => Room(h, t, due) /\ m # <<>> /\ final = HeaderSize + due
  BY DEF Holds
<1>0. p \in 0 .. FifoSize
  BY <1>2, Occupied
<1> HIDE DEF p, final, pad
<1>3. /\ h \in Int /\ p \in Nat /\ FifoSize \in Int /\ HeaderSize \in Nat
      /\ h + rest = h + len + pad /\ h + len + pad \in Int
  <2>1. h \in Int /\ p \in Nat /\ FifoSize \in Int /\ HeaderSize \in Nat
    BY <1>0, <1>2, FifoAssumption DEF Index
  <2>. QED  BY ONLY <1>1, <2>1
<1>4. rest <= p
  <2>1. CASE m = <<>>
    <3>1. due = 0 /\ rest = p + due
      BY <1>1, <1>2, <2>1, NoExtent
    <3>. QED  BY <1>3, <3>1
  <2>2. CASE m # <<>>
    <3>1. rest + final <= p + due /\ final \in Nat
      <4>1. m[Len(m)] \in MsgSizes /\ rest + final <= p + due
        BY <1>2, <2>2, ExtentFacts DEF final
      <4>. QED  BY <4>1, SizeFacts DEF final
    <3>2. due = 0 \/ final = HeaderSize + due
      BY <1>2
    <3> HIDE DEF rest
    <3>. QED  BY ONLY <1>1, <1>2, <1>3, <3>1, <3>2
  <2>. QED  BY <2>1, <2>2
<1>5. len <= p /\ len + pad <= p
  BY <1>1, <1>3, <1>4
<1> HIDE DEF pad
<1>6. ASSUME h + len <= FifoSize
      PROVE  h + len + pad <= FifoSize
  <2>1. (h + len + pad) - pad <= FifoSize
    BY <1>1, <1>3, <1>6
  <2>2. Aligned(h + len + pad)
    BY <1>2, <1>3
  <2>. QED  BY ONLY <1>1, <1>3, <2>1, <2>2, AlignedFifoSize, PaddingStaysInside, Zenon
<1>7. /\ h2 \in Index /\ PendingBytes(h2, t) = p - len - pad
      /\ FreeBytes(h2, t) = FreeBytes(h, t) + len + pad
      /\ h2 = h + len + pad \/ h2 = h + len + pad - FifoSize
      /\ ~WrappedAround(h, t) => ~WrappedAround(h2, t)
  BY <1>1, <1>2, <1>5, <1>6, HeadAdvances DEF p
<1> HIDE DEF h2
<1>8. h2 \in Int
  BY <1>7, FifoAssumption DEF Index
<1>9. Aligned(h2 + 0)
  <2> DEFINE x == h + len + pad
  <2>1. x + 0 = h + rest /\ x \in Int /\ 0 \in Int
    BY <1>3
  <2>2. h2 = x \/ h2 = x - FifoSize
    BY <1>1, <1>3, <1>7, <1>8
  <2> HIDE DEF x, rest
  <2>3. Aligned(x + 0)
    BY <1>2, <2>1
  <2>. QED  BY ONLY <1>8, <2>1, <2>2, <2>3, AlignedRound, Zenon
<1>10. Extent(m, 0, PendingBytes(h2, t) + due)
  <2>1. Extent(m, rest - rest, (p + due) - rest)
    <3>1. rest <= rest
      BY <1>1
    <3> HIDE DEF rest
    <3>. QED  BY ONLY m \in Seq(MsgSizes), <1>1, <1>2, <3>1, ExtentShift, Zenon
  <2>2. rest - rest = 0 /\ (p + due) - rest = PendingBytes(h2, t) + due
    BY <1>1, <1>2, <1>3, <1>7
  <2>. QED  BY <2>1, <2>2
<1>11. FreeBytes(h2, t) > FreeBytes(h, t)
  <2>1. FreeBytes(h, t) \in 0 .. FifoSize
    BY <1>2, Occupied
  <2>. QED  BY <1>1, <1>3, <1>7, <2>1
<1>12. Freed(h, t, h2) /\ (due # 0 => Room(h2, t, due))
  BY <1>2, <1>7, <1>11, ReadingMakesRoom, SizeFacts DEF Freed
<1>. QED  BY <1>2, <1>5, <1>7, <1>9, <1>10, <1>12 DEF Holds, h2, p, pad, final
-----------------------------------------------------------------------------
(***************************************************************************)
(* The inductive invariant.                                                *)
(***************************************************************************)

\* What the sender has yet to write of the message it has begun, and the
\* receiver yet to read of the one it has begun.
WriteRest ==
  IF At(Sender, "push") THEN task[Sender].size + Padding(task[Sender].size) ELSE 0

ReadRest ==
  IF At(Receiver, "pop") THEN task[Receiver].hdr + Padding(task[Receiver].hdr) ELSE 0

RingOK == Holds(head, tail, msgs, ReadRest, WriteRest)

SenderPlaces == Places \ {"pop_header", "pop", "peek"}
ReceiverPlaces == Places \ {"set_pending", "reset_pending", "push_header", "push"}

\* From its check on, the sender's message has room; while it waits, the event
\* handler knows for which size.
SenderOK ==
  /\ task[Sender].pc \in SenderPlaces
  /\ ~At(Sender, "idle") => task[Sender].op = "send"
  /\ task[Sender].pc \in {"reset_pending", "lock", "push_header"} =>
       Fits(task[Sender].size)
  /\ task[Sender].pc \in {"wait", "enqueue", "evaluate", "asleep", "again",
                          "reset_pending"} =>
       pendingSize = task[Sender].size

\* From its check on, the receiver has a message.
ReceiverOK ==
  /\ task[Receiver].pc \in ReceiverPlaces
  /\ ~At(Receiver, "idle") => task[Receiver].op \in {"normal", "peek"}
  /\ task[Receiver].pc \in {"lock", "pop_header", "peek"} => MoreThanHeader
  /\ At(Receiver, "pop") => task[Receiver].hdr \in MsgSizes

\* Neither side is forgotten asleep.
RxAwake ==
  At(Receiver, "asleep") /\ Receiver \in waiting /\ MoreThanHeader =>
    EventsAhead("rx") > 0 \/ task[Sender].pc \in {"push", "signal"}

TxAwake ==
  At(Sender, "asleep") /\ Sender \in waiting /\ Fits(task[Sender].size) =>
    EventsAhead("tx") > 0 \/ task[Receiver].pc \in {"pop", "signal"}

PairInv ==
  /\ OneTaskEach
  /\ Base /\ RingOK /\ SenderOK /\ ReceiverOK /\ RxAwake /\ TxAwake

LEMMA PairFacts ==
  ASSUME PairInv
  PROVE
  /\ Senders = {Sender} /\ Receivers = {Receiver} /\ Tasks = {Sender, Receiver}
  /\ Sender # Receiver /\ Sender \in Tasks /\ Receiver \in Tasks
  /\ Sender \in Senders /\ Receiver \in Receivers /\ Receiver \notin Senders
  /\ Side(Sender) = "tx" /\ Side(Receiver) = "rx"
  /\ "tx" \in Sides /\ "rx" \in Sides
  /\ Peer("tx") = "rx" /\ Peer("rx") = "tx"
  /\ TasksOf("tx") = {Sender} /\ TasksOf("rx") = {Receiver}
BY TransferAssumption DEF PairInv, OneTaskEach, Tasks, Side, Sides, Peer, TasksOf

\* What Base says of a task in a call.
LEMMA PairArgs ==
  ASSUME PairInv
  PROVE  /\ task[Sender] \in Calls /\ task[Receiver] \in Calls
         /\ ~At(Sender, "idle") => task[Sender].size \in MsgSizes
         /\ msgs \in Seq(MsgSizes) /\ pendingSize \in MsgSizes \union {0}
         /\ waiting \subseteq Tasks
         /\ head \in Index /\ tail \in Index
BY PairFacts DEF PairInv, Base, TasksOK, ArgsOK, SharedOK, WaitsOK, SenderOK,
                 RingOK, Holds

LEMMA InitPair == OneTaskEach /\ Init => PairInv
<1> SUFFICES ASSUME OneTaskEach, Init PROVE PairInv
  OBVIOUS
<1>1. Base
  BY InitBase
<1>2. task[Sender] = Idle /\ task[Receiver] = Idle
  BY DEF Init, OneTaskEach, Tasks
<1>3. Idle.pc = "idle"
  BY DEF Idle
<1>4. Holds(0, 0, <<>>, 0, 0)
  <2>1. 0 \in Index /\ Aligned(0 + 0) /\ PendingBytes(0, 0) = 0
    BY FifoAssumption DEF Index, Aligned, PendingBytes, WrappedAround
  <2>2. Extent(<<>>, 0, PendingBytes(0, 0) + 0)
    BY <2>1, NoExtent
  <2>. QED  BY <2>1, <2>2 DEF Holds
<1>5. RingOK
  <2>1. head = 0 /\ tail = 0 /\ msgs = <<>>
    BY DEF Init
  <2>2. ReadRest = 0 /\ WriteRest = 0
    BY <1>2, <1>3 DEF ReadRest, WriteRest, At
  <2>. QED  BY <1>4, <2>1, <2>2 DEF RingOK
<1>. QED  BY <1>1, <1>2, <1>3, <1>5
          DEF PairInv, SenderOK, ReceiverOK, RxAwake, TxAwake, At,
              SenderPlaces, ReceiverPlaces, Places
-----------------------------------------------------------------------------
(***************************************************************************)
(* Steps that leave the ring and the signals alone.                        *)
(***************************************************************************)

\* The receiver's part of the invariant does not notice them in the sender.
SenderQuiet ==
  /\ UNCHANGED <<head, tail, msgs, sig, ack, hpc>>
  /\ task'[Receiver] = task[Receiver]
  /\ Receiver \in waiting' <=> Receiver \in waiting
  /\ task[Sender].pc \notin {"push", "signal"} /\ task'[Sender].pc # "push"

LEMMA SenderQuietly ==
  ASSUME PairInv, SenderQuiet
  PROVE  RingOK' /\ ReceiverOK' /\ RxAwake'
<1>1. RingOK'
  <2>1. ReadRest' = ReadRest /\ WriteRest' = WriteRest
    BY DEF SenderQuiet, ReadRest, WriteRest, At
  <2>. QED  BY <2>1 DEF SenderQuiet, PairInv, RingOK
<1>2. ReceiverOK'
  BY DEF SenderQuiet, PairInv, ReceiverOK, MoreThanHeader, At
<1>3. RxAwake'
  BY DEF SenderQuiet, PairInv, RxAwake, MoreThanHeader, At, EventsAhead
<1>. QED  BY <1>1, <1>2, <1>3

\* Nor the sender's part in the receiver.
ReceiverQuiet ==
  /\ UNCHANGED <<head, tail, msgs, pendingSize, sig, ack, hpc>>
  /\ task'[Sender] = task[Sender]
  /\ Sender \in waiting' <=> Sender \in waiting
  /\ task[Receiver].pc \notin {"pop", "signal"} /\ task'[Receiver].pc # "pop"

LEMMA ReceiverQuietly ==
  ASSUME PairInv, ReceiverQuiet
  PROVE  RingOK' /\ SenderOK' /\ TxAwake'
<1>1. RingOK'
  <2>1. ReadRest' = ReadRest /\ WriteRest' = WriteRest
    BY DEF ReceiverQuiet, ReadRest, WriteRest, At
  <2>. QED  BY <2>1 DEF ReceiverQuiet, PairInv, RingOK
<1>2. SenderOK'
  BY DEF ReceiverQuiet, PairInv, SenderOK, Fits, At
<1>3. TxAwake'
  BY DEF ReceiverQuiet, PairInv, TxAwake, Fits, At, EventsAhead
<1>. QED  BY <1>1, <1>2, <1>3

\* The sender in its wait loop, at the semaphore and when it notifies.
LEMMA SenderWaits ==
  ASSUME PairInv,
         \/ SetPending(Sender) \/ WaitEvent(Sender) \/ Enqueue(Sender)
         \/ Evaluate(Sender) \/ WakeUp(Sender) \/ Expire(Sender)
         \/ Again(Sender) \/ ResetPending(Sender) \/ GetSemaphore(Sender)
         \/ NotifyPeer(Sender) \/ WriteWord(Sender) \/ ReleaseSemaphore(Sender)
  PROVE  SenderQuiet /\ SenderOK' /\ TxAwake'
<1> DEFINE S == Sender
<1>0. /\ Base /\ SenderOK /\ S \in Tasks /\ S \in Senders /\ Receiver \in Tasks
      /\ Receiver # S /\ Side(S) = "tx"
      /\ task[S].size \in MsgSizes \/ At(S, "idle")
  BY PairFacts, PairArgs DEF PairInv
<1>1. Idle.pc = "idle"
  BY DEF Idle
<1> HIDE DEF S
<1>2. UNCHANGED <<head, tail, msgs, sig, ack, hpc>>
  BY DEF SetPending, WaitEvent, Enqueue, Evaluate, WakeUp, Expire, Again,
         ResetPending, GetSemaphore, NotifyPeer, WriteWord, ReleaseSemaphore,
         fifo, signalling, S
<1>3. Receiver \in waiting' <=> Receiver \in waiting
  BY <1>0 DEF SetPending, WaitEvent, Enqueue, Evaluate, WakeUp, Expire, Again,
         ResetPending, GetSemaphore, NotifyPeer, WriteWord, ReleaseSemaphore,
         LeaveQueue, os, S
<1> DEFINE Elsewhere == task'[Receiver] = task[Receiver] /\ SenderOK' /\ TxAwake'
                        /\ task[S].pc \notin {"push", "signal"}
                        /\ task'[S].pc # "push"
           Stays(p) == task'[S].pc = p /\ task'[S].op = task[S].op
                       /\ task'[S].size = task[S].size
                       /\ task'[Receiver] = task[Receiver]
<1> SUFFICES Elsewhere
  BY <1>2, <1>3 DEF SenderQuiet, S
<1>4. /\ Returns(S) => task'[S].pc = "idle" /\ task'[Receiver] = task[Receiver]
      /\ \A p : Moves(S, p) => Stays(p)
  BY <1>0, <1>1 DEF Returns, Moves
<1>5. Fits(task[S].size) /\ task'[S].size = task[S].size => Fits(task[S].size)'
  BY <1>2 DEF Fits
<1>6. ASSUME task'[S].pc = "idle", task'[Receiver] = task[Receiver],
             task[S].pc \notin {"push", "signal"}
      PROVE  Elsewhere
  BY <1>6 DEF SenderOK, TxAwake, At, SenderPlaces, Places, S
<1>7. CASE SetPending(S)
  <2>1. At(S, "set_pending") /\ pendingSize' = task[S].size
    BY <1>7 DEF SetPending
  <2>2. Returns(S) \/ Moves(S, "wait")
    BY <1>0, <1>7, WaitMoves
  <2>3. CASE Stays("wait")
    BY <1>0, <2>1, <2>3 DEF SenderOK, TxAwake, At, SenderPlaces, Places, S
  <2>. QED  BY <1>4, <1>6, <2>1, <2>2, <2>3 DEF At
<1>8. CASE WaitEvent(S) \/ Enqueue(S) \/ WakeUp(S) \/ Expire(S)
  <2>1. /\ task[S].pc \in {"wait", "enqueue", "asleep"} /\ pendingSize' = pendingSize
    BY <1>8 DEF WaitEvent, Enqueue, WakeUp, Expire, At, fifo
  <2>2. Stays("enqueue") \/ Stays("evaluate")
    BY <1>0, <1>4, <1>8, WaitMoves, Zenon
  <2>. QED  BY <1>0, <2>1, <2>2 DEF SenderOK, TxAwake, At, SenderPlaces, Places, S
<1>9. CASE Evaluate(S)
  <2>1. At(S, "evaluate") /\ pendingSize' = pendingSize
    BY <1>9 DEF Evaluate, fifo
  <2>2. \/ Stays("again")
        \/ Stays("asleep") /\ ~WaitCondition(S)
    <3>1. CASE ~WaitCondition(S)
      BY <1>0, <1>4, <1>9, <3>1, WaitMoves, Zenon
    <3>2. CASE WaitCondition(S)
      <4>1. task' = [task EXCEPT ![S].pc = "again", ![S].alarm = "off", ![S].snap = 0]
        BY <1>9, <3>2 DEF Evaluate, LeaveQueue
      <4>2. task'[S].pc # "asleep"
        BY <1>0, <4>1 DEF Base, TasksOK, Calls
      <4>3. Stays("again") \/ Stays("asleep")
        BY <1>0, <1>4, <1>9, WaitMoves, Zenon
      <4>. QED  BY <4>2, <4>3
    <3>. QED  BY <3>1, <3>2
  <2>3. ASSUME Stays("asleep"), ~WaitCondition(S)
        PROVE  Elsewhere
    <3>1. ~Fits(pendingSize) /\ pendingSize = task[S].size
      BY <1>0, <2>1, <2>3 DEF WaitCondition, SenderOK, At, S
    <3>2. ~Fits(task[S].size)'
      BY <1>2, <2>3, <3>1 DEF Fits
    <3>. QED  BY <1>0, <2>1, <2>3, <3>1, <3>2
              DEF SenderOK, TxAwake, At, SenderPlaces, Places, S
  <2>4. ASSUME Stays("again")
        PROVE  Elsewhere
    BY <1>0, <2>1, <2>4 DEF SenderOK, TxAwake, At, SenderPlaces, Places, S
  <2>. QED  BY <2>2, <2>3, <2>4
<1>10. CASE Again(S)
  <2>1. At(S, "again") /\ pendingSize' = pendingSize
    BY <1>10 DEF Again, fifo
  <2>2. \/ Returns(S) \/ Stays("wait")
        \/ Fits(task[S].size) /\ Stays("reset_pending")
    <3>1. \/ Returns(S) \/ Moves(S, "wait")
          \/ Served(S) /\ Moves(S, "reset_pending")
      BY <1>0, <1>10, LoopMoves
    <3>. QED  BY <1>0, <1>4, <3>1 DEF Served
  <2>3. ASSUME Stays("wait")
        PROVE  Elsewhere
    BY <1>0, <2>1, <2>3 DEF SenderOK, TxAwake, At, SenderPlaces, Places, S
  <2>4. ASSUME Fits(task[S].size), Stays("reset_pending")
        PROVE  Elsewhere
    BY <1>0, <1>5, <2>1, <2>4 DEF SenderOK, TxAwake, At, SenderPlaces, Places, S
  <2>. QED  BY <1>4, <1>6, <2>1, <2>2, <2>3, <2>4 DEF At
<1>11. CASE ResetPending(S)
  <2>1. At(S, "reset_pending") /\ Fits(task[S].size)
    BY <1>0, <1>11 DEF ResetPending, SenderOK, At, S
  <2>2. Stays("lock")
    BY <1>0, <1>4, <1>11, LoopMoves, Zenon
  <2>. QED  BY <1>0, <1>5, <2>1, <2>2
            DEF SenderOK, TxAwake, At, SenderPlaces, Places, S
<1>12. CASE GetSemaphore(S)
  <2>1. At(S, "lock") /\ Fits(task[S].size) /\ task[S].op = "send"
    BY <1>0, <1>12 DEF GetSemaphore, SenderOK, At, S
  <2>2. Returns(S) \/ Stays("push_header")
    BY <1>0, <1>4, <1>12, <2>1, LoopMoves
  <2>3. ASSUME Stays("push_header")
        PROVE  Elsewhere
    BY <1>0, <1>5, <2>1, <2>3 DEF SenderOK, TxAwake, At, SenderPlaces, Places, S
  <2>. QED  BY <1>4, <1>6, <2>1, <2>2, <2>3 DEF At
<1>13. CASE NotifyPeer(S) \/ WriteWord(S) \/ ReleaseSemaphore(S)
  <2>1. task[S].pc \in {"notify", "write_word", "unlock"}
    BY <1>13 DEF NotifyPeer, WriteWord, ReleaseSemaphore, At
  <2>2. Returns(S) \/ Stays("unlock") \/ Stays("write_word")
    BY <1>0, <1>4, <1>13, TransferMoves, Zenon
  <2>3. ASSUME Stays("unlock") \/ Stays("write_word")
        PROVE  Elsewhere
    BY <1>0, <2>1, <2>3 DEF SenderOK, TxAwake, At, SenderPlaces, Places, S
  <2>. QED  BY <1>4, <1>6, <2>1, <2>2, <2>3
<1>. QED  BY <1>7, <1>8, <1>9, <1>10, <1>11, <1>12, <1>13 DEF S

\* The receiver in its wait loop, at the semaphore, peeking and notifying.
LEMMA ReceiverWaits ==
  ASSUME PairInv,
         \/ WaitEvent(Receiver) \/ Enqueue(Receiver) \/ Evaluate(Receiver)
         \/ WakeUp(Receiver) \/ Expire(Receiver) \/ Again(Receiver)
         \/ GetSemaphore(Receiver) \/ PeekMsg(Receiver)
         \/ NotifyPeer(Receiver) \/ WriteWord(Receiver) \/ ReleaseSemaphore(Receiver)
  PROVE  ReceiverQuiet /\ ReceiverOK' /\ RxAwake'
<1> DEFINE R == Receiver
<1>0. /\ Base /\ ReceiverOK /\ R \in Tasks /\ R \notin Senders /\ Sender \in Tasks
      /\ Sender # R /\ Side(R) = "rx"
  BY PairFacts DEF PairInv
<1>1. Idle.pc = "idle"
  BY DEF Idle
<1> HIDE DEF R
<1>2. UNCHANGED <<head, tail, msgs, pendingSize, sig, ack, hpc>>
  BY DEF WaitEvent, Enqueue, Evaluate, WakeUp, Expire, Again, GetSemaphore,
         PeekMsg, FailEmpty, NotifyPeer, WriteWord, ReleaseSemaphore,
         fifo, signalling, R
<1>3. Sender \in waiting' <=> Sender \in waiting
  BY <1>0 DEF WaitEvent, Enqueue, Evaluate, WakeUp, Expire, Again, GetSemaphore,
         PeekMsg, NotifyPeer, WriteWord, ReleaseSemaphore, LeaveQueue, os, R
<1> DEFINE Elsewhere == task'[Sender] = task[Sender] /\ ReceiverOK' /\ RxAwake'
                        /\ task[R].pc \notin {"pop", "signal"}
                        /\ task'[R].pc # "pop"
           Stays(p) == task'[R].pc = p /\ task'[R].op = task[R].op
                       /\ task'[Sender] = task[Sender]
<1> SUFFICES Elsewhere
  BY <1>2, <1>3 DEF ReceiverQuiet, R
<1>4. /\ Returns(R) => task'[R].pc = "idle" /\ task'[Sender] = task[Sender]
      /\ \A p : Moves(R, p) => Stays(p)
  BY <1>0, <1>1 DEF Returns, Moves
<1>5. MoreThanHeader <=> MoreThanHeader'
  BY <1>2 DEF MoreThanHeader
<1>6. ASSUME task'[R].pc = "idle", task'[Sender] = task[Sender],
             task[R].pc \notin {"pop", "signal"}
      PROVE  Elsewhere
  BY <1>6 DEF ReceiverOK, RxAwake, At, ReceiverPlaces, Places, R
<1>7. CASE WaitEvent(R) \/ Enqueue(R) \/ WakeUp(R) \/ Expire(R)
  <2>1. task[R].pc \in {"wait", "enqueue", "asleep"}
    BY <1>7 DEF WaitEvent, Enqueue, WakeUp, Expire, At
  <2>2. Stays("enqueue") \/ Stays("evaluate")
    BY <1>0, <1>4, <1>7, WaitMoves, Zenon
  <2>. QED  BY <1>0, <2>1, <2>2 DEF ReceiverOK, RxAwake, At, ReceiverPlaces, Places, R
<1>8. CASE Evaluate(R)
  <2>1. At(R, "evaluate")
    BY <1>8 DEF Evaluate
  <2>2. \/ Stays("again")
        \/ Stays("asleep") /\ ~WaitCondition(R)
    <3>1. CASE ~WaitCondition(R)
      BY <1>0, <1>4, <1>8, <3>1, WaitMoves, Zenon
    <3>2. CASE WaitCondition(R)
      <4>1. task' = [task EXCEPT ![R].pc = "again", ![R].alarm = "off", ![R].snap = 0]
        BY <1>8, <3>2 DEF Evaluate, LeaveQueue
      <4>2. task'[R].pc # "asleep"
        BY <1>0, <4>1 DEF Base, TasksOK, Calls
      <4>3. Stays("again") \/ Stays("asleep")
        BY <1>0, <1>4, <1>8, WaitMoves, Zenon
      <4>. QED  BY <4>2, <4>3
    <3>. QED  BY <3>1, <3>2
  <2>3. ASSUME Stays("asleep"), ~WaitCondition(R)
        PROVE  Elsewhere
    <3>1. ~MoreThanHeader'
      BY <1>0, <1>5, <2>3 DEF WaitCondition
    <3>. QED  BY <1>0, <2>1, <2>3, <3>1
              DEF ReceiverOK, RxAwake, At, ReceiverPlaces, Places, R
  <2>4. ASSUME Stays("again")
        PROVE  Elsewhere
    BY <1>0, <2>1, <2>4 DEF ReceiverOK, RxAwake, At, ReceiverPlaces, Places, R
  <2>. QED  BY <2>2, <2>3, <2>4
<1>9. CASE Again(R)
  <2>1. At(R, "again")
    BY <1>9 DEF Again
  <2>2. \/ Returns(R) \/ Stays("wait")
        \/ MoreThanHeader /\ Stays("lock")
    <3>1. \/ Returns(R) \/ Moves(R, "wait")
          \/ Served(R) /\ Moves(R, "lock")
      BY <1>0, <1>9, LoopMoves
    <3>. QED  BY <1>0, <1>4, <3>1 DEF Served
  <2>3. ASSUME Stays("wait")
        PROVE  Elsewhere
    BY <1>0, <2>1, <2>3 DEF ReceiverOK, RxAwake, At, ReceiverPlaces, Places, R
  <2>4. ASSUME MoreThanHeader, Stays("lock")
        PROVE  Elsewhere
    BY <1>0, <1>5, <2>1, <2>4 DEF ReceiverOK, RxAwake, At, ReceiverPlaces, Places, R
  <2>. QED  BY <1>4, <1>6, <2>1, <2>2, <2>3, <2>4 DEF At
<1>10. CASE GetSemaphore(R)
  <2>1. At(R, "lock") /\ MoreThanHeader /\ task[R].op \in {"normal", "peek"}
    BY <1>0, <1>10 DEF GetSemaphore, ReceiverOK, At, R
  <2>2. Returns(R) \/ Stays("pop_header") \/ Stays("peek")
    BY <1>0, <1>4, <1>10, <2>1, LoopMoves
  <2>3. ASSUME Stays("pop_header") \/ Stays("peek")
        PROVE  Elsewhere
    BY <1>0, <1>5, <2>1, <2>3 DEF ReceiverOK, RxAwake, At, ReceiverPlaces, Places, R
  <2>. QED  BY <1>4, <1>6, <2>1, <2>2, <2>3 DEF At
<1>11. CASE PeekMsg(R) \/ NotifyPeer(R) \/ WriteWord(R) \/ ReleaseSemaphore(R)
  <2>1. task[R].pc \in {"peek", "notify", "write_word", "unlock"}
    BY <1>11 DEF PeekMsg, NotifyPeer, WriteWord, ReleaseSemaphore, At
  <2>2. Returns(R) \/ Stays("unlock") \/ Stays("write_word")
    BY <1>0, <1>4, <1>11, TransferMoves, Zenon
  <2>3. ASSUME Stays("unlock") \/ Stays("write_word")
        PROVE  Elsewhere
    BY <1>0, <2>1, <2>3 DEF ReceiverOK, RxAwake, At, ReceiverPlaces, Places, R
  <2>. QED  BY <1>4, <1>6, <2>1, <2>2, <2>3
<1>. QED  BY <1>7, <1>8, <1>9, <1>10, <1>11 DEF R
-----------------------------------------------------------------------------
(***************************************************************************)
(* The four moves of the indexes, and the signals that follow them.        *)
(***************************************************************************)
\* More bytes are pending than before.
LEMMA MorePending ==
  ASSUME head \in Index, tail \in Index, head' = head, tail' \in Index,
         PendingBytes(head, tail') > PendingBytes(head, tail)
  PROVE  MoreThanHeader => MoreThanHeader'
<1> DEFINE p == PendingBytes(head, tail)
           p2 == PendingBytes(head, tail')
<1>1. p \in 0 .. FifoSize /\ p2 \in 0 .. FifoSize
  BY Occupied
<1>2. (MoreThanHeader <=> p > HeaderSize) /\ (MoreThanHeader' <=> p2 > HeaderSize)
  BY DEF MoreThanHeader
<1>3. HeaderSize \in Nat /\ FifoSize \in Nat
  BY FifoAssumption
<1> HIDE DEF p, p2
<1>4. p2 > p
  BY DEF p, p2
<1>. QED  BY ONLY <1>1, <1>2, <1>3, <1>4

LEMMA HeaderWritten ==
  ASSUME PairInv, PushHeader(Sender)
  PROVE  RingOK' /\ SenderOK' /\ ReceiverOK' /\ RxAwake' /\ TxAwake'
<1> DEFINE size == task[Sender].size
           t2 == TailAfter(head, tail, HeaderSize, 0)
<1>0. /\ Base /\ RingOK /\ SenderOK /\ ReceiverOK
      /\ Sender \in Tasks /\ Receiver \in Tasks /\ Receiver # Sender
  BY PairFacts DEF PairInv
<1>1. /\ At(Sender, "push_header") /\ tail' = t2 /\ msgs' = Append(msgs, size)
      /\ UNCHANGED <<head, sig, ack, hpc, waiting>>
  BY DEF PushHeader, signalling, os
<1>2. /\ task'[Sender].pc = "push" /\ task'[Sender].op = task[Sender].op
      /\ task'[Sender].size = size /\ task'[Receiver] = task[Receiver]
  BY <1>0, TransferMoves DEF Moves
<1>3. /\ size \in MsgSizes /\ msgs \in Seq(MsgSizes) /\ MsgFits(head, tail, size)
  BY <1>0, <1>1, PairArgs DEF SenderOK, At, Fits
<1>4. Holds(head, tail, msgs, ReadRest, 0)
  <2>1. WriteRest = 0
    BY <1>1 DEF WriteRest, At
  <2>. QED  BY <1>0, <2>1 DEF RingOK
<1>5. /\ Holds(head, t2, Append(msgs, size), ReadRest, size + Padding(size))
      /\ PendingBytes(head, t2) > PendingBytes(head, tail)
  BY <1>3, <1>4, HeaderPushed
<1>6. ReadRest' = ReadRest /\ WriteRest' = size + Padding(size)
  BY <1>2 DEF ReadRest, WriteRest, At
<1>7. RingOK'
  BY <1>1, <1>5, <1>6 DEF RingOK
<1>8. MoreThanHeader => MoreThanHeader'
  <2>1. head \in Index /\ tail \in Index /\ tail' \in Index
    BY <1>1, <1>5, PairArgs DEF Holds
  <2>. QED  BY <1>1, <1>5, <2>1, MorePending
<1>9. SenderOK' /\ RxAwake' /\ TxAwake'
  BY <1>0, <1>1, <1>2 DEF SenderOK, RxAwake, TxAwake, At, SenderPlaces, Places
<1>10. ReceiverOK'
  BY <1>0, <1>2, <1>8 DEF ReceiverOK, At
<1>. QED  BY <1>7, <1>9, <1>10

LEMMA PayloadWritten ==
  ASSUME PairInv, Push(Sender)
  PROVE  RingOK' /\ SenderOK' /\ ReceiverOK' /\ RxAwake' /\ TxAwake'
<1> DEFINE size == task[Sender].size
           t2 == TailAfter(head, tail, size, Padding(size))
<1>0. /\ Base /\ RingOK /\ SenderOK /\ ReceiverOK
      /\ Sender \in Tasks /\ Receiver \in Tasks /\ Receiver # Sender
  BY PairFacts DEF PairInv
<1>1. /\ At(Sender, "push") /\ tail' = t2
      /\ UNCHANGED <<head, msgs, sig, ack, hpc, waiting>>
  BY DEF Push, signalling, os
<1>2. /\ task'[Sender].pc = "signal" /\ task'[Sender].op = task[Sender].op
      /\ task'[Receiver] = task[Receiver]
  BY <1>0, TransferMoves DEF Moves
<1>3. size \in MsgSizes /\ msgs \in Seq(MsgSizes)
  BY <1>0, <1>1, PairArgs DEF At
<1>4. Holds(head, tail, msgs, ReadRest, size + Padding(size))
  <2>1. WriteRest = size + Padding(size)
    BY <1>1 DEF WriteRest
  <2>. QED  BY <1>0, <2>1 DEF RingOK
<1>5. /\ Holds(head, t2, msgs, ReadRest, 0)
      /\ PendingBytes(head, t2) > PendingBytes(head, tail)
  BY <1>3, <1>4, PayloadPushed
<1>6. ReadRest' = ReadRest /\ WriteRest' = 0
  BY <1>2 DEF ReadRest, WriteRest, At
<1>7. RingOK'
  BY <1>1, <1>5, <1>6 DEF RingOK
<1>8. MoreThanHeader => MoreThanHeader'
  <2>1. head \in Index /\ tail \in Index /\ tail' \in Index
    BY <1>1, <1>5, PairArgs DEF Holds
  <2>. QED  BY <1>1, <1>5, <2>1, MorePending
<1>9. SenderOK' /\ RxAwake' /\ TxAwake'
  BY <1>0, <1>1, <1>2 DEF SenderOK, RxAwake, TxAwake, At, SenderPlaces, Places
<1>10. ReceiverOK'
  BY <1>0, <1>2, <1>8 DEF ReceiverOK, At
<1>. QED  BY <1>7, <1>9, <1>10

LEMMA HeaderRead ==
  ASSUME PairInv, PopHeader(Receiver)
  PROVE  RingOK' /\ SenderOK' /\ ReceiverOK' /\ RxAwake' /\ TxAwake'
<1> DEFINE h2 == HeadAfter(head, tail, HeaderSize, 0)
           len == Head(msgs)
<1>0. /\ Base /\ RingOK /\ SenderOK /\ ReceiverOK
      /\ Sender \in Tasks /\ Receiver \in Tasks /\ Receiver # Sender
  BY PairFacts DEF PairInv
<1>1. /\ At(Receiver, "pop_header") /\ MoreThanHeader
      /\ UNCHANGED <<tail, pendingSize, sig, ack, hpc, waiting>>
  BY <1>0 DEF PopHeader, signalling, os, ReceiverOK, At
<1>2. ~(HeaderSize > PendingBytes(head, tail))
  <2>1. HeaderSize \in Nat /\ PendingBytes(head, tail) \in 0 .. FifoSize /\ FifoSize \in Nat
    BY FifoAssumption, PairArgs, Occupied
  <2>. QED  BY <1>1, <2>1 DEF MoreThanHeader
<1>3. /\ head' = h2 /\ msgs' = Tail(msgs)
      /\ task'[Receiver].pc = "pop" /\ task'[Receiver].op = task[Receiver].op
      /\ task'[Receiver].hdr = len /\ task'[Sender] = task[Sender]
  BY <1>0, <1>2, PopHeaderMoves
<1>4. Holds(head, tail, msgs, 0, WriteRest)
  <2>1. ReadRest = 0
    BY <1>1 DEF ReadRest, At
  <2>. QED  BY <1>0, <2>1 DEF RingOK
<1>5. /\ len \in MsgSizes /\ Freed(head, tail, h2)
      /\ Holds(h2, tail, Tail(msgs), len + Padding(len), WriteRest)
  <2>1. msgs \in Seq(MsgSizes) /\ PendingBytes(head, tail) > HeaderSize
    BY <1>1, PairArgs DEF MoreThanHeader
  <2>. QED  BY <1>4, <2>1, HeaderPopped
<1>6. ReadRest' = len + Padding(len) /\ WriteRest' = WriteRest
  BY <1>3 DEF ReadRest, WriteRest, At
<1>7. RingOK'
  BY <1>1, <1>3, <1>5, <1>6 DEF RingOK
<1>8. SenderOK'
  BY <1>0, <1>1, <1>3, <1>5, PairArgs DEF SenderOK, Fits, Freed, At
<1>9. ReceiverOK' /\ RxAwake' /\ TxAwake'
  BY <1>0, <1>1, <1>3, <1>5
     DEF ReceiverOK, RxAwake, TxAwake, At, ReceiverPlaces, Places
<1>. QED  BY <1>7, <1>8, <1>9

LEMMA PayloadRead ==
  ASSUME PairInv, Pop(Receiver)
  PROVE  RingOK' /\ SenderOK' /\ ReceiverOK' /\ RxAwake' /\ TxAwake'
<1> DEFINE len == task[Receiver].hdr
           h2 == HeadAfter(head, tail, len, Padding(len))
<1>0. /\ Base /\ RingOK /\ SenderOK /\ ReceiverOK
      /\ Sender \in Tasks /\ Receiver \in Tasks /\ Receiver # Sender
  BY PairFacts DEF PairInv
<1>1. /\ At(Receiver, "pop") /\ len \in MsgSizes
      /\ UNCHANGED <<tail, pendingSize, sig, ack, hpc, waiting>>
  BY <1>0 DEF Pop, signalling, os, ReceiverOK, At
<1>2. Holds(head, tail, msgs, len + Padding(len), WriteRest)
  <2>1. ReadRest = len + Padding(len)
    BY <1>1 DEF ReadRest
  <2>. QED  BY <1>0, <2>1 DEF RingOK
<1>3. /\ len <= PendingBytes(head, tail) /\ Freed(head, tail, h2)
      /\ Holds(h2, tail, msgs, 0, WriteRest)
  BY <1>1, <1>2, PairArgs, PayloadPopped
<1>4. ~(len > PendingBytes(head, tail))
  <2>1. len \in Nat /\ PendingBytes(head, tail) \in 0 .. FifoSize /\ FifoSize \in Nat
    BY <1>1, SizeFacts, FifoAssumption, PairArgs, Occupied
  <2>. QED  BY <1>3, <2>1
<1>5. head' = h2 /\ UNCHANGED msgs /\ Goto(Receiver, "signal")
  BY <1>4 DEF Pop
<1>6. /\ task'[Receiver].pc = "signal" /\ task'[Receiver].op = task[Receiver].op
      /\ task'[Sender] = task[Sender]
  <2>1. Moves(Receiver, "signal")
    <3>1. "signal" \in Places
      BY DEF Places
    <3>. QED  BY <1>0, <1>5, <3>1, TaskGoes, Zenon DEF Base
  <2>. QED  BY <1>0, <2>1 DEF Moves
<1>7. ReadRest' = 0 /\ WriteRest' = WriteRest
  BY <1>6 DEF ReadRest, WriteRest, At
<1>8. RingOK'
  BY <1>1, <1>3, <1>5, <1>7 DEF RingOK
<1>9. SenderOK'
  BY <1>0, <1>1, <1>3, <1>5, <1>6, PairArgs DEF SenderOK, Fits, Freed, At
<1>10. ReceiverOK' /\ RxAwake' /\ TxAwake'
  BY <1>0, <1>1, <1>6 DEF ReceiverOK, RxAwake, TxAwake, At, ReceiverPlaces, Places
<1>. QED  BY <1>8, <1>9, <1>10

\* The number of events ahead is never negative.
LEMMA EventsCounted ==
  ASSUME Base, NEW side \in Sides
  PROVE  /\ sig[side] \in Nat /\ ack[side] \in Nat /\ EventsAhead(side) \in Nat
         /\ EventsAhead(side) =
              sig[side] - ack[side] - (IF hpc[side] = "ack" THEN 1 ELSE 0)
<1>1. /\ sig[side] \in Nat /\ ack[side] \in Nat /\ ack[side] <= sig[side]
      /\ hpc[side] = "ack" => ack[side] < sig[side]
  BY DEF Base, SignalsOK
<1>. QED  BY <1>1 DEF EventsAhead

LEMMA SignalGiven ==
  ASSUME PairInv, NEW t \in Tasks, Signal(t)
  PROVE  RingOK' /\ SenderOK' /\ ReceiverOK' /\ RxAwake' /\ TxAwake'
<1>0. Base /\ RingOK /\ SenderOK /\ ReceiverOK /\ RxAwake /\ TxAwake
  BY DEF PairInv
<1>1. /\ At(t, "signal") /\ sig' = [sig EXCEPT ![Peer(Side(t))] = @ + 1]
      /\ UNCHANGED <<head, tail, msgs, pendingSize, ack, hpc, waiting>>
  BY DEF Signal, fifo, os
<1>2. /\ task'[t].pc = "notify" /\ task'[t].op = task[t].op
      /\ task'[t].size = task[t].size /\ task'[t].hdr = task[t].hdr
      /\ \A u \in Tasks : u # t => task'[u] = task[u]
  BY <1>0, TransferMoves DEF Moves
<1>3. RingOK'
  <2>1. ReadRest' = ReadRest /\ WriteRest' = WriteRest
    BY <1>1, <1>2, PairFacts DEF ReadRest, WriteRest, At
  <2>. QED  BY <1>0, <1>1, <2>1 DEF RingOK
<1>4. SenderOK' /\ ReceiverOK'
  <2>1. (Fits(task[Sender].size) => Fits(task[Sender].size)')
        \/ task'[Sender].pc = "notify"
    BY <1>1, <1>2, PairFacts DEF Fits
  <2>2. MoreThanHeader <=> MoreThanHeader'
    BY <1>1 DEF MoreThanHeader
  <2>3. SenderOK'
    BY <1>0, <1>1, <1>2, <2>1, PairFacts DEF SenderOK, At, SenderPlaces, Places
  <2>4. ReceiverOK'
    BY <1>0, <1>1, <1>2, <2>2, PairFacts DEF ReceiverOK, At, ReceiverPlaces, Places
  <2>. QED  BY <2>3, <2>4
<1>5. RxAwake' /\ TxAwake'
  <2>1. /\ EventsAhead("rx") \in Nat /\ EventsAhead("tx") \in Nat
        /\ sig["rx"] \in Nat /\ sig["tx"] \in Nat
        /\ ack["rx"] \in Nat /\ ack["tx"] \in Nat
    BY <1>0, EventsCounted, PairFacts
  <2>2. CASE t = Sender
    <3>1. sig'["rx"] = sig["rx"] + 1 /\ sig'["tx"] = sig["tx"]
      BY <1>0, <1>1, <2>2, PairFacts DEF Base, SignalsOK
    <3>2. EventsAhead("rx")' > 0
      BY <1>1, <2>1, <3>1 DEF EventsAhead
    <3>3. task'[Sender].pc = "notify"
      BY <1>2, <2>2
    <3>. QED  BY <3>2, <3>3 DEF RxAwake, TxAwake, At
  <2>3. CASE t = Receiver
    <3>1. sig'["tx"] = sig["tx"] + 1 /\ sig'["rx"] = sig["rx"]
      BY <1>0, <1>1, <2>3, PairFacts DEF Base, SignalsOK
    <3>2. EventsAhead("tx")' > 0
      BY <1>1, <2>1, <3>1 DEF EventsAhead
    <3>3. task'[Receiver].pc = "notify"
      BY <1>2, <2>3
    <3>. QED  BY <3>2, <3>3 DEF RxAwake, TxAwake, At
  <2>. QED  BY <2>2, <2>3, PairFacts
<1>. QED  BY <1>3, <1>4, <1>5
-----------------------------------------------------------------------------
(***************************************************************************)
(* The event handlers, the calls, and every step.                          *)
(***************************************************************************)

\* A handler's step keeps the number of events ahead, except where it scans a
\* signal: there it wakes up whoever can be served.
LEMMA HandlerMoves ==
  ASSUME PairInv, NEW side \in Sides, Handler(side) \/ Terminate(side)
  PROVE  RingOK' /\ SenderOK' /\ ReceiverOK' /\ RxAwake' /\ TxAwake'
<1>0. /\ Base /\ RingOK /\ SenderOK /\ ReceiverOK /\ RxAwake /\ TxAwake
      /\ SignalsOK
  BY DEF PairInv, Base
<1>1. UNCHANGED <<head, tail, msgs, pendingSize, task, sig>>
  BY DEF Handler, HandlerStart, HandlerScan, HandlerAck, Terminate, fifo
<1>2. RingOK' /\ SenderOK' /\ ReceiverOK'
  <2>1. ReadRest' = ReadRest /\ WriteRest' = WriteRest
    BY <1>1 DEF ReadRest, WriteRest, At
  <2>2. RingOK'
    BY <1>0, <1>1, <2>1 DEF RingOK
  <2>. QED  BY <1>0, <1>1, <2>2 DEF SenderOK, ReceiverOK, At, Fits, MoreThanHeader
<1>3. \A u \in Tasks : u \in waiting' => u \in waiting
  BY <1>0 DEF Handler, HandlerStart, HandlerScan, HandlerAck, Terminate, os
<1>4. \A s \in Sides : \/ EventsAhead(s)' = EventsAhead(s)
                       \/ s = side /\ HandlerScan(s) /\ sig[s] # ack[s]
  <2>1. ASSUME NEW s \in Sides, s # side \/ ~HandlerScan(s) \/ sig[s] = ack[s]
        PROVE  EventsAhead(s)' = EventsAhead(s)
    <3>1. sig[s] \in Nat /\ ack[s] \in Nat /\ hpc[s] \in {"idle", "scan", "ack"}
      BY <1>0 DEF SignalsOK
    <3>2. CASE HandlerStart(side)
      BY <1>0, <1>1, <3>1, <3>2
         DEF HandlerStart, HandlerAt, HandlerGoto, EventsAhead, SignalsOK
    <3>3. CASE HandlerScan(side)
      <4>1. \/ hpc'[s] = hpc[s]
            \/ hpc[s] = "scan" /\ hpc'[s] = "idle"
        BY <1>0, <2>1, <3>3 DEF HandlerScan, HandlerAt, HandlerGoto, SignalsOK
      <4>2. ack' = ack
        BY <3>3 DEF HandlerScan
      <4>. QED  BY <1>1, <3>1, <4>1, <4>2 DEF EventsAhead
    <3>4. CASE HandlerAck(side)
      <4>1. \/ hpc'[s] = hpc[s] /\ ack'[s] = ack[s]
            \/ hpc[s] = "ack" /\ hpc'[s] = "scan" /\ ack'[s] = ack[s] + 1
        BY <1>0, <3>4 DEF HandlerAck, HandlerAt, HandlerGoto, SignalsOK
      <4>. QED  BY <1>1, <3>1, <4>1 DEF EventsAhead
    <3>5. CASE Terminate(side)
      BY <1>1, <3>5 DEF Terminate, EventsAhead
    <3>. QED  BY <3>2, <3>3, <3>4, <3>5 DEF Handler
  <2>. QED  BY <2>1
<1>5. RxAwake'
  <2>1. CASE EventsAhead("rx")' = EventsAhead("rx")
    BY <1>0, <1>1, <1>3, <2>1, PairFacts DEF RxAwake, At, MoreThanHeader
  <2>2. CASE HandlerScan("rx") /\ sig["rx"] # ack["rx"]
    <3>1. Receiver \notin waiting'
      BY <2>2, PairFacts DEF HandlerScan, WakesUp
    <3>. QED  BY <3>1 DEF RxAwake
  <2>. QED  BY <1>4, <2>1, <2>2, PairFacts
<1>6. TxAwake'
  <2>1. CASE EventsAhead("tx")' = EventsAhead("tx")
    BY <1>0, <1>1, <1>3, <2>1, PairFacts DEF TxAwake, At, Fits
  <2>2. CASE HandlerScan("tx") /\ sig["tx"] # ack["tx"]
    <3>1. ASSUME At(Sender, "asleep"), Fits(task[Sender].size)
          PROVE  Sender \notin waiting'
      <4>1. pendingSize = task[Sender].size /\ pendingSize \in MsgSizes
        BY <1>0, <3>1, PairArgs DEF SenderOK, At
      <4>2. pendingSize # 0
        BY <4>1, SizeFacts
      <4>. QED  BY <2>2, <3>1, <4>1, <4>2, PairFacts DEF HandlerScan, WakesUp
    <3>. QED  BY <1>1, <3>1 DEF TxAwake, At, Fits
  <2>. QED  BY <1>4, <2>1, <2>2, PairFacts
<1>. QED  BY <1>2, <1>5, <1>6

LEMMA SenderCalls ==
  ASSUME PairInv, NEW size \in MsgSizes, NEW to \in Timeouts,
         SendCall(Sender, size, to)
  PROVE  SenderQuiet /\ SenderOK' /\ TxAwake'
<1>0. Base /\ Sender \in Tasks /\ Receiver \in Tasks /\ Receiver # Sender
  BY PairFacts DEF PairInv
<1>1. At(Sender, "idle") /\ UNCHANGED <<fifo, signalling, os>>
  BY Zenon DEF SendCall
<1>2. UNCHANGED <<head, tail, msgs, pendingSize, sig, ack, hpc, waiting>>
  BY <1>1 DEF fifo, signalling, os
<1>3. /\ task'[Sender].pc = IF Fits(size) THEN "lock" ELSE "set_pending"
      /\ task'[Sender].op = "send" /\ task'[Sender].size = size
      /\ task'[Receiver] = task[Receiver]
  BY <1>0, CallMoves
<1>4. SenderQuiet
  BY <1>1, <1>2, <1>3 DEF SenderQuiet, At
<1>5. SenderOK'
  <2>1. task'[Sender].pc = "lock" => Fits(task[Sender].size)'
    BY <1>2, <1>3 DEF Fits
  <2>. QED  BY <1>3, <2>1 DEF SenderOK, At, SenderPlaces, Places
<1>6. TxAwake'
  BY <1>3 DEF TxAwake, At
<1>. QED  BY <1>4, <1>5, <1>6

LEMMA ReceiverCalls ==
  ASSUME PairInv, NEW to \in Timeouts, NEW op \in RxOps,
         RecvCall(Receiver, to, op)
  PROVE  ReceiverQuiet /\ ReceiverOK' /\ RxAwake'
<1>0. /\ Base /\ Sender \in Tasks /\ Receiver \in Tasks /\ Receiver # Sender
      /\ op \in {"normal", "peek"}
  BY PairFacts, TransferAssumption DEF PairInv
<1>1. At(Receiver, "idle") /\ UNCHANGED <<fifo, signalling, waiting>>
  BY Zenon DEF RecvCall
<1>2. UNCHANGED <<head, tail, msgs, pendingSize, sig, ack, hpc, waiting>>
  BY <1>1 DEF fifo, signalling
<1>3. /\ \/ task'[Receiver].pc = "idle"
         \/ /\ task'[Receiver].op = op
            /\ \/ task'[Receiver].pc = "lock" /\ MoreThanHeader
               \/ task'[Receiver].pc = "wait"
      /\ task'[Sender] = task[Sender]
  <2>1. Idle.pc = "idle"
    BY DEF Idle
  <2>. QED  BY <1>0, <2>1, CallMoves DEF Returns
<1>4. ReceiverQuiet
  BY <1>1, <1>2, <1>3 DEF ReceiverQuiet, At
<1>5. ReceiverOK'
  <2>1. MoreThanHeader <=> MoreThanHeader'
    BY <1>2 DEF MoreThanHeader
  <2>. QED  BY <1>0, <1>3, <2>1 DEF ReceiverOK, At, ReceiverPlaces, Places
<1>6. RxAwake'
  BY <1>3 DEF RxAwake, At
<1>. QED  BY <1>4, <1>5, <1>6

LEMMA PairStep == PairInv /\ [Next]_vars => PairInv'
<1> SUFFICES ASSUME PairInv, [Next]_vars PROVE PairInv'
  OBVIOUS
<1>0. Base' /\ Base
  BY BaseStep DEF PairInv
<1> SUFFICES RingOK' /\ SenderOK' /\ ReceiverOK' /\ RxAwake' /\ TxAwake'
  BY <1>0 DEF PairInv, OneTaskEach
<1>1. ASSUME NEW m \in MsgSizes, NEW to \in Timeouts, SendCall(Sender, m, to)
      PROVE  RingOK' /\ SenderOK' /\ ReceiverOK' /\ RxAwake' /\ TxAwake'
  BY <1>1, SenderCalls, SenderQuietly
<1>2. ASSUME NEW to \in Timeouts, NEW op \in RxOps, RecvCall(Receiver, to, op)
      PROVE  RingOK' /\ SenderOK' /\ ReceiverOK' /\ RxAwake' /\ TxAwake'
  BY <1>2, ReceiverCalls, ReceiverQuietly
<1>3. CASE Step(Sender)
  <2>1. ~PopHeader(Sender) /\ ~Pop(Sender) /\ ~PeekMsg(Sender)
    BY DEF PairInv, SenderOK, SenderPlaces, PopHeader, Pop, PeekMsg, At
  <2>2. CASE Signal(Sender)
    BY <2>2, SignalGiven, PairFacts
  <2>3. CASE PushHeader(Sender)
    BY <2>3, HeaderWritten
  <2>4. CASE Push(Sender)
    BY <2>4, PayloadWritten
  <2>. QED  BY <1>3, <2>1, <2>2, <2>3, <2>4, SenderWaits, SenderQuietly DEF Step
<1>4. CASE Step(Receiver)
  <2>1. /\ ~SetPending(Receiver) /\ ~ResetPending(Receiver)
        /\ ~PushHeader(Receiver) /\ ~Push(Receiver)
    BY DEF PairInv, ReceiverOK, ReceiverPlaces, SetPending, ResetPending,
           PushHeader, Push, At
  <2>2. CASE Signal(Receiver)
    BY <2>2, SignalGiven, PairFacts
  <2>3. CASE PopHeader(Receiver)
    BY <2>3, HeaderRead
  <2>4. CASE Pop(Receiver)
    BY <2>4, PayloadRead
  <2>. QED  BY <1>4, <2>1, <2>2, <2>3, <2>4, ReceiverWaits, ReceiverQuietly DEF Step
<1>5. ASSUME NEW side \in Sides, Handler(side) \/ Terminate(side)
      PROVE  RingOK' /\ SenderOK' /\ ReceiverOK' /\ RxAwake' /\ TxAwake'
  BY <1>5, HandlerMoves
<1>6. CASE UNCHANGED vars
  <2>1. UNCHANGED <<head, tail, msgs, pendingSize, sig, ack, hpc, task, waiting>>
    BY <1>6 DEF vars
  <2>2. ReadRest' = ReadRest /\ WriteRest' = WriteRest
    BY <2>1 DEF ReadRest, WriteRest, At
  <2>3. RingOK'
    BY <2>1, <2>2 DEF PairInv, RingOK
  <2>. QED  BY <2>1, <2>3 DEF PairInv, SenderOK, ReceiverOK, RxAwake, TxAwake,
                              At, Fits, MoreThanHeader, EventsAhead
<1>7. CASE Next
  <2>1. ASSUME NEW t \in Tasks, Step(t)
        PROVE  Step(Sender) \/ Step(Receiver)
    <3>1. t = Sender \/ t = Receiver
      BY PairFacts
    <3>. QED  BY <2>1, <3>1
  <2>2. ASSUME NEW t \in Senders, NEW m \in MsgSizes, NEW to \in Timeouts,
               SendCall(t, m, to)
        PROVE  RingOK' /\ SenderOK' /\ ReceiverOK' /\ RxAwake' /\ TxAwake'
    <3>1. t = Sender
      BY PairFacts
    <3>2. SendCall(Sender, m, to)
      BY ONLY <2>2, <3>1
    <3>. QED  BY <1>1, <3>2
  <2>3. ASSUME NEW t \in Receivers, NEW to \in Timeouts, NEW op \in RxOps,
               RecvCall(t, to, op)
        PROVE  RingOK' /\ SenderOK' /\ ReceiverOK' /\ RxAwake' /\ TxAwake'
    <3>1. t = Receiver
      BY PairFacts
    <3>2. RecvCall(Receiver, to, op)
      BY ONLY <2>3, <3>1
    <3>. QED  BY <1>2, <3>2
  <2>. QED  BY <1>3, <1>4, <1>5, <1>7, <2>1, <2>2, <2>3 DEF Next
<1>. QED  BY <1>6, <1>7

LEMMA PairInvariant == OneTaskEach /\ Spec => []PairInv
BY InitPair, PairStep, PTL DEF Spec
-----------------------------------------------------------------------------
(***************************************************************************)
(* The theorems.                                                           *)
(***************************************************************************)

\* With one task on each side the indexes stay in the ring, and everything
\* else keeps its type.
THEOREM PairTypeCorrect == OneTaskEach /\ Spec => []TypeOK
<1>1. PairInv => TypeOK
  BY PairArgs DEF PairInv, Base, SharedOK, SignalsOK, WaitsOK, TasksOK, Calls, TypeOK
<1>. QED  BY <1>1, PairInvariant, PTL

\* However the one sender got past its waits, its message has room when
\* ICC_FIFO_Push, which does not look again, stores it.
THEOREM PairRoomChecked == OneTaskEach /\ Spec => []RoomChecked
<1>1. PairInv => RoomChecked
  BY PairFacts DEF PairInv, SenderOK, RoomChecked
<1>. QED  BY <1>1, PairInvariant, PTL

\* However the one receiver got past its waits, a message is there when it pops.
THEOREM PairMessagePending == OneTaskEach /\ Spec => []MessagePending
<1>1. PairInv => MessagePending
  BY PairFacts DEF PairInv, ReceiverOK, MessagePending
<1>. QED  BY <1>1, PairInvariant, PTL

\* With one task on each side no wake-up is lost on either, whatever the order
\* of the wait, the transfer, the signal, the notification and the handler.
THEOREM PairWakeupAhead == OneTaskEach /\ Spec => []WakeupAhead
<1>1. ASSUME PairInv, NEW t \in Tasks, At(t, "asleep"), t \in waiting, Served(t)
      PROVE  \/ EventsAhead(Side(t)) > 0
             \/ \E p \in TasksOf(Peer(Side(t))) : task[p].pc \in {"push", "pop", "signal"}
  <2>1. CASE t = Sender
    <3>1. EventsAhead("tx") > 0 \/ task[Receiver].pc \in {"pop", "signal"}
      BY <1>1, <2>1, PairFacts DEF PairInv, TxAwake, Served
    <3>2. Side(t) = "tx" /\ Receiver \in TasksOf(Peer(Side(t)))
      BY <1>1, <2>1, PairFacts
    <3>. QED  BY <3>1, <3>2
  <2>2. CASE t = Receiver
    <3>1. EventsAhead("rx") > 0 \/ task[Sender].pc \in {"push", "signal"}
      BY <1>1, <2>2, PairFacts DEF PairInv, RxAwake, Served
    <3>2. Side(t) = "rx" /\ Sender \in TasksOf(Peer(Side(t)))
      BY <1>1, <2>2, PairFacts
    <3>. QED  BY <3>1, <3>2
  <2>. QED  BY <1>1, <2>1, <2>2, PairFacts
<1>2. PairInv => WakeupAhead
  BY <1>1 DEF WakeupAhead
<1>. QED  BY <1>2, PairInvariant, PTL
=============================================================================
