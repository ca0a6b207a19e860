------------------------------ MODULE Heartbeat ------------------------------
(***************************************************************************)
(* The heartbeat: on each node a task sends a number to its peer, waits    *)
(* for the same number from it, and goes on to the next.  A number that is *)
(* late or wrong ends the run in ERROR, and the task starts another run    *)
(* under the next run id, for which it drops the messages of other runs.   *)
(* A second task ends the heartbeat and then the node.  The two ports      *)
(* differ in how they start and end a run, and share the loop.             *)
(*                                                                         *)
(* The channel is a sequence of messages in each direction, and a call of  *)
(* ICC_Msg_Send or ICC_Msg_Recv as much of it as can make a run fail:      *)
(* room, messages, the end point, the signals that the event handler skips *)
(* while the heartbeat is down, and a timer that is good for one wait.     *)
(* The rate alarm only sets rate_cond, behind a wait that ends by its own  *)
(* timeout: what matters of it is whether it is still armed at the end.    *)
(***************************************************************************)
EXTENDS Integers, Sequences

CONSTANTS
  Stoppable,  \* the nodes whose sample is stopped
  Shared,     \* another channel, always open, shares the wait queue
  Capacity,   \* messages of the heartbeat that fit in a FIFO
  ValRange,   \* the numbers, 32 bits in the code, are modulo this
  MaxRuns     \* bound: the runs of a node

Nodes == {"A", "B"}
Peer(n) == IF n = "A" THEN "B" ELSE "A"
Tasks == {"hb", "stop"}

ASSUME HeartbeatAssumption ==
  /\ Stoppable \subseteq Nodes /\ Shared \in BOOLEAN
  /\ Capacity \in Nat \ {0} /\ ValRange \in Nat \ {0} /\ MaxRuns \in Nat \ {0}

VARIABLES
  port,      \* which of the two ports both nodes run
  node,      \* (*ICC_Initialized)[node]
  config,    \* ICC_Config_Ptr of the node is set
  state,     \* ICC_Heartbeat_State
  timer,     \* the rate alarm is armed
  endpoint,  \* endpoint_state of the heartbeat's channel
  queue,     \* the messages on their way to a node
  unacked,   \* a message was signalled to the node and not acknowledged
  threadOn,  \* thread_on
  run,       \* runID of the heartbeat task
  val,       \* crt_msg.val
  rcv,       \* rcv_msg
  alarm,     \* the call in progress has its timer running
  woken,     \* its task enters the wait or was woken up: it will look
  at,        \* where each task of a node is
  crt,       \* crt_state of the ICC_Heartbeat_Finalize in progress
  \* History: a timeout or an end has happened; the nodes on which
  \* Stop_ICC_Sample met a run in progress.
  \* How many of the messages that the run of a node found are still there.
  disturbed, raced, left

node_vars == <<port, node, config, endpoint>>
chan_vars == <<queue, unacked>>
msg_vars == <<run, val, rcv, alarm, woken, left>>
stop_vars == <<threadOn, crt>>
vars == <<node_vars, state, timer, chan_vars, stop_vars, msg_vars, at, disturbed,
          raced>>

NoMsg == [run |-> 0, val |-> 0]

Init ==
  /\ port \in {"s32v234", "sac58r"}
  /\ node = [n \in Nodes |-> "INIT"] /\ config = [n \in Nodes |-> TRUE]
  /\ state = [n \in Nodes |-> "UNINIT"] /\ timer = [n \in Nodes |-> FALSE]
  /\ endpoint = [n \in Nodes |-> "CLOSED"]
  /\ queue = [n \in Nodes |-> <<>>] /\ unacked = [n \in Nodes |-> FALSE]
  /\ threadOn = [n \in Nodes |-> TRUE]
  /\ run = [n \in Nodes |-> 1] /\ val = [n \in Nodes |-> 0]
  /\ rcv = [n \in Nodes |-> NoMsg] /\ alarm = [n \in Nodes |-> FALSE]
  /\ woken = [n \in Nodes |-> FALSE]
  /\ at = [n \in Nodes |-> [hb |-> "round", stop |-> "idle"]]
  /\ crt = [n \in Nodes |-> [t \in Tasks |-> "UNINIT"]]
  /\ disturbed = FALSE /\ raced = {} /\ left = [n \in Nodes |-> 0]

At(n, t, place) == at[n][t] = place
Goto(n, t, place) == at' = [at EXCEPT ![n][t] = place]
S32v == port = "s32v234"
Running(n) == state[n] = "RUNNING"
Set(n, s) == state' = [state EXCEPT ![n] = s]

\* ICC_HEARTBEAT_CHECK_ERR_CODE of a call that failed.
Fail(n) == Set(n, "ERROR")
-----------------------------------------------------------------------------
(***************************************************************************)
(* ICC_Heartbeat_Initialize.                                               *)
(***************************************************************************)

\* The thread of the sample starts another run, or it is over.
Round(n) ==
  /\ At(n, "hb", "round")
  /\ Goto(n, "hb", IF threadOn[n] /\ run[n] <= MaxRuns THEN "initialize"
                                                       ELSE "over")
  /\ UNCHANGED <<node_vars, state, timer, chan_vars, stop_vars, msg_vars,
                 disturbed, raced>>

\* The checks, which are the same in both ports: a heartbeat in ERROR can be
\* initialized.
Accepted(n) ==
  config[n] /\ node[n] = "INIT" /\ state[n] \in {"UNINIT", "ERROR"}

\* The checks and ICC_Open_Channel; the sample calls ICC_Heartbeat_Runnable
\* whatever the outcome.  ICC_Config_Ptr is dereferenced in front of all.
Initialize(n) ==
  LET opens == Accepted(n) /\ endpoint[n] = "CLOSED"
  IN
  /\ At(n, "hb", "initialize")
  /\ Goto(n, "hb", IF ~config[n] THEN "oops"
                   ELSE IF ~opens THEN "runnable"
                   ELSE IF S32v THEN "resync" ELSE "ready")
  /\ endpoint' = [endpoint EXCEPT ![n] = IF opens THEN "OPEN" ELSE @]
  /\ state' = [state EXCEPT ![n] = IF Accepted(n) /\ ~opens THEN "ERROR" ELSE @]
  /\ UNCHANGED <<port, node, config, timer, chan_vars, stop_vars, msg_vars,
                 disturbed, raced>>

\* A mutant of OtherRun: messages of this very run are dropped as well.
OtherRun_Any(n) == queue[n] # <<>>

\* ICC_Msg_Recv with ICC_RX_PEEK_MSG shows a message of another run.
OtherRun(n) == queue[n] # <<>> /\ Head(queue[n]).run # run[n]

\* A mutant of Resync: it drops one message and is done.
Resync_Once(n) ==
  /\ At(n, "hb", "resync")
  /\ queue' = [queue EXCEPT ![n] = IF OtherRun(n) THEN Tail(@) ELSE @]
  /\ left' = [left EXCEPT ![n] = Len(queue'[n])]
  /\ Goto(n, "hb", "ready")
  /\ UNCHANGED <<node_vars, state, timer, unacked, stop_vars, run, val, rcv,
                 alarm, woken, disturbed, raced>>

\* One pass of the loop that removes the messages of another run.  A channel
\* that the other task has closed ends it without ERROR.
Resync(n) ==
  LET drops == endpoint[n] = "OPEN" /\ OtherRun(n)
  IN
  /\ At(n, "hb", "resync")
  /\ \/ /\ drops
        /\ queue' = [queue EXCEPT ![n] = Tail(@)]
        /\ UNCHANGED <<at, left>>
     \/ /\ ~drops
        /\ left' = [left EXCEPT ![n] =
             IF endpoint[n] = "OPEN" THEN Len(queue[n]) ELSE 0]
        /\ Goto(n, "hb", IF endpoint[n] = "OPEN" THEN "ready" ELSE "runnable")
        /\ UNCHANGED queue
  /\ UNCHANGED <<node_vars, state, timer, unacked, stop_vars, run, val, rcv,
                 alarm, woken, disturbed, raced>>

Ready(n) ==
  /\ At(n, "hb", "ready")
  /\ Set(n, "INIT")
  /\ Goto(n, "hb", "runnable")
  /\ UNCHANGED <<node_vars, timer, chan_vars, stop_vars, msg_vars, disturbed,
                 raced>>
-----------------------------------------------------------------------------
(***************************************************************************)
(* ICC_Heartbeat_Runnable.                                                 *)
(***************************************************************************)

\* The call returns: the sample for S32V234 ends the heartbeat and starts
\* again, the one for SAC58R has one run only.
AfterRun == IF S32v THEN "check" ELSE "over"

Runnable(n) ==
  /\ At(n, "hb", "runnable")
  /\ Goto(n, "hb",
       IF ~config[n] THEN "oops"
       ELSE IF node[n] = "INIT" /\ state[n] = "INIT" THEN "start"
       ELSE AfterRun)
  /\ UNCHANGED <<node_vars, state, timer, chan_vars, stop_vars, msg_vars,
                 disturbed, raced>>

Start(n) ==
  /\ At(n, "hb", "start")
  /\ Set(n, "RUNNING")
  /\ Goto(n, "hb", "arm")
  /\ UNCHANGED <<node_vars, timer, chan_vars, stop_vars, msg_vars, disturbed,
                 raced>>

\* ICC_OS_Set_Recurrent_Rel_Alarm.
Arm(n) ==
  /\ At(n, "hb", "arm")
  /\ timer' = [timer EXCEPT ![n] = TRUE]
  /\ Goto(n, "hb", "rate")
  /\ UNCHANGED <<node_vars, state, chan_vars, stop_vars, msg_vars, disturbed,
                 raced>>

\* ICC_OS_Wait_Rate_Event, which ends by its timeout, among three checks.
Rate(n) ==
  /\ At(n, "hb", "rate")
  /\ Goto(n, "hb", IF Running(n) THEN "send" ELSE AfterRun)
  /\ UNCHANGED <<node_vars, state, timer, chan_vars, stop_vars, msg_vars,
                 disturbed, raced>>

-----------------------------------------------------------------------------
(***************************************************************************)
(* Its ICC_Msg_Send and ICC_Msg_Recv, with the timeout of txrx_timeout.    *)
(***************************************************************************)
Room(n) == Len(queue[Peer(n)]) < Capacity

\* ICC_OS_Wait_Event is entered, with its timer, and looks at its condition.
Enter(n, place) ==
  /\ alarm' = [alarm EXCEPT ![n] = TRUE] /\ woken' = [woken EXCEPT ![n] = TRUE]
  /\ Goto(n, "hb", place)

\* The call leaves its wait, if it was in it.
Leave(n) ==
  /\ alarm' = [alarm EXCEPT ![n] = FALSE] /\ woken' = [woken EXCEPT ![n] = FALSE]

\* ICC_OS_Set_Event on the wait queue: a task that waits will look.
Waiting(n) == at[n].hb \in {"blocked", "wait"}
Wake(n) == woken' = [woken EXCEPT ![n] = Waiting(n)]

\* The push, and the check behind the send.
Push(n) ==
  LET p == Peer(n)
  IN
  /\ queue' = [queue EXCEPT ![p] = Append(@, [run |-> run[n], val |-> val[n]])]
  /\ unacked' = [unacked EXCEPT ![p] = TRUE]
  /\ Leave(n) /\ Goto(n, "hb", IF Running(n) THEN "recv" ELSE AfterRun)

Send(n) ==
  /\ At(n, "hb", "send")
  /\ \/ /\ endpoint[n] = "CLOSED" /\ Fail(n) /\ Goto(n, "hb", AfterRun)
        /\ UNCHANGED <<queue, unacked, alarm, woken>>
     \/ endpoint[n] = "OPEN" /\ Room(n) /\ Push(n) /\ UNCHANGED state
     \/ /\ endpoint[n] = "OPEN" /\ ~Room(n) /\ Enter(n, "blocked")
        /\ UNCHANGED <<state, queue, unacked>>
  /\ UNCHANGED <<node_vars, timer, stop_vars, run, val, rcv, left, disturbed,
                 raced>>

\* ICC_Msg_Recv takes a message that is there.
Take(n) ==
  /\ queue[n] # <<>>
  /\ rcv' = [rcv EXCEPT ![n] = Head(queue[n])]
  /\ queue' = [queue EXCEPT ![n] = Tail(@)]
  /\ left' = [left EXCEPT ![n] = IF @ > 0 THEN @ - 1 ELSE 0]
  /\ Leave(n) /\ Goto(n, "hb", "compare")

Recv(n) ==
  /\ At(n, "hb", "recv")
  /\ \/ /\ endpoint[n] = "CLOSED" /\ Fail(n) /\ Goto(n, "hb", AfterRun)
        /\ UNCHANGED <<queue, rcv, alarm, woken, left>>
     \/ endpoint[n] = "OPEN" /\ Take(n) /\ UNCHANGED state
     \/ /\ endpoint[n] = "OPEN" /\ queue[n] = <<>> /\ Enter(n, "wait")
        /\ UNCHANGED <<state, queue, rcv, left>>
  /\ UNCHANGED <<node_vars, timer, unacked, stop_vars, run, val, disturbed,
                 raced>>

\* What a call that waits is waiting for.
Served(n) == IF At(n, "hb", "wait") THEN queue[n] # <<>> ELSE Room(n)

\* A mutant of WaitEnds: the state of the node is not looked at.
WaitEnds_Forever(n) == Served(n) \/ (S32v /\ At(n, "hb", "wait") /\ unacked[n])

\* The condition of ICC_OS_Wait_Event.  For SAC58R a signal counts from the
\* snapshot on, so that what a call waits for can go unseen.
WaitEnds(n) ==
  node[n] = "UNINIT" \/ Served(n) \/ (S32v /\ At(n, "hb", "wait") /\ unacked[n])
MayMiss(n) == ~S32v /\ node[n] = "INIT"

\* A task that looks finds nothing, and sleeps (on).
Sleep(n) ==
  /\ Waiting(n) /\ woken[n]
  /\ ~WaitEnds(n) \/ MayMiss(n)
  /\ woken' = [woken EXCEPT ![n] = FALSE]
  /\ UNCHANGED <<node_vars, state, timer, chan_vars, stop_vars, run, val, rcv,
                 alarm, left, at, disturbed, raced>>

\* A wait that ends, and what the loops of ICC_Msg_Send and ICC_Msg_Recv make of
\* it: a call that is not served waits again, with the alarm used up.  (The peer's
\* signals that it received are not counted, and may always be there.)
Woken(n) ==
  /\ Waiting(n) /\ (woken[n] \/ alarm[n])
  /\ \/ /\ WaitEnds(n) /\ node[n] = "UNINIT"
        /\ Leave(n) /\ Goto(n, "hb", AfterRun)
        /\ UNCHANGED <<chan_vars, rcv, left>>
     \/ /\ node[n] = "INIT" /\ At(n, "hb", "wait") /\ Take(n)
        /\ UNCHANGED unacked
     \/ /\ node[n] = "INIT" /\ At(n, "hb", "blocked") /\ Room(n) /\ Push(n)
        /\ UNCHANGED <<rcv, left>>
     \/ /\ node[n] = "INIT" /\ ~Served(n) /\ S32v
        /\ At(n, "hb", "wait") => unacked[n]
        /\ alarm' = [alarm EXCEPT ![n] = FALSE]
        /\ woken' = [woken EXCEPT ![n] = TRUE]
        /\ UNCHANGED <<chan_vars, rcv, left, at>>
  /\ UNCHANGED <<node_vars, state, timer, stop_vars, run, val, disturbed, raced>>

TimeOut(n) ==
  /\ Waiting(n) /\ alarm[n]
  /\ ~WaitEnds(n) \/ MayMiss(n)
  /\ Leave(n) /\ Goto(n, "hb", AfterRun)
  /\ Fail(n) /\ disturbed' = TRUE
  /\ UNCHANGED <<node_vars, timer, chan_vars, stop_vars, run, val, rcv, left,
                 raced>>

\* A message of the SAC58R port is its number, which starts at 0; the other
\* port's starts at 1.  Here both start at 0.
Mine(n) == rcv[n].run = run[n] /\ rcv[n].val = val[n]

Compare(n) ==
  /\ At(n, "hb", "compare")
  /\ rcv' = [rcv EXCEPT ![n] = NoMsg]
  /\ \/ /\ ~Running(n) /\ Goto(n, "hb", AfterRun)
        /\ UNCHANGED <<state, val>>
     \/ /\ Running(n) /\ Mine(n)
        /\ val' = [val EXCEPT ![n] = (@ + 1) % ValRange]
        /\ Goto(n, "hb", "rate")
        /\ UNCHANGED state
     \/ /\ Running(n) /\ ~Mine(n)
        /\ Fail(n) /\ Goto(n, "hb", AfterRun)
        /\ UNCHANGED val
  /\ UNCHANGED <<node_vars, timer, chan_vars, stop_vars, run, alarm, woken, left,
                 disturbed, raced>>
-----------------------------------------------------------------------------
(***************************************************************************)
(* ICC_Heartbeat_Finalize, by the heartbeat's thread or by Stop_ICC_Sample.*)
(***************************************************************************)

\* The thread goes on to its next run, which starts with the first number;
\* Stop_ICC_Sample gives up on an error.
Finished(n, t, ok) ==
  /\ Goto(n, t, IF t = "hb" THEN "round" ELSE IF ok THEN "node" ELSE "failed")
  /\ run' = IF t = "hb" THEN [run EXCEPT ![n] = @ + 1] ELSE run
  /\ val' = IF t = "hb" THEN [val EXCEPT ![n] = 0] ELSE val
  /\ left' = IF t = "hb" THEN [left EXCEPT ![n] = 0] ELSE left
  /\ crt' = [crt EXCEPT ![n][t] = "UNINIT"]

FinalizeCheck(n, t) ==
  /\ At(n, t, "check")
  /\ \/ /\ ~config[n] /\ Goto(n, t, "oops")
        /\ UNCHANGED <<crt, run, val, left, raced>>
     \/ /\ config[n] /\ (node[n] = "UNINIT" \/ state[n] = "UNINIT")
        /\ Finished(n, t, FALSE)
        /\ UNCHANGED raced
     \/ /\ config[n] /\ node[n] = "INIT" /\ state[n] # "UNINIT"
        /\ crt' = [crt EXCEPT ![n][t] = state[n]]
        /\ raced' = IF t = "stop" /\ at[n].hb \notin {"round", "over"}
                    THEN raced \union {n} ELSE raced
        /\ Goto(n, t, "set")
        /\ UNCHANGED <<run, val, left>>
  /\ UNCHANGED <<node_vars, state, timer, chan_vars, threadOn, rcv, alarm, woken,
                 disturbed>>

\* A mutant of Cancels: as in the older port, where ERROR keeps its alarm.
Cancels_RunningOnly(s) == s = "RUNNING"

Cancels(s) == s = "RUNNING" \/ (S32v /\ s = "ERROR")

\* ICC_OS_Cancel_Recurrent_Alarm, with its error when the alarm was armed.
CancelAlarm(n) == timer' = [timer EXCEPT ![n] = FALSE]
CancelFails(n) == timer[n]

\* UNINIT and the alarm.  Only the older port looks at the error: it goes to
\* ERROR, and leaves the channel open.
FinalizeSet(n, t) ==
  LET busy == ~S32v /\ CancelFails(n)
  IN
  /\ At(n, t, "set")
  /\ disturbed' = TRUE
  /\ \/ Cancels(crt[n][t]) /\ CancelAlarm(n)
     \/ ~Cancels(crt[n][t]) /\ UNCHANGED timer
  /\ \/ Cancels(crt[n][t]) /\ busy /\ Fail(n) /\ Finished(n, t, FALSE)
        /\ UNCHANGED woken
     \/ /\ ~(Cancels(crt[n][t]) /\ busy) /\ Set(n, "UNINIT") /\ Goto(n, t, "close")
        /\ IF Cancels(crt[n][t]) THEN Wake(n) ELSE UNCHANGED woken
        /\ UNCHANGED <<crt, run, val, left>>
  /\ UNCHANGED <<node_vars, chan_vars, threadOn, rcv, alarm, raced>>

\* ICC_Close_Channel.
FinalizeClose(n, t) ==
  /\ At(n, t, "close")
  /\ \/ /\ endpoint[n] = "OPEN"
        /\ endpoint' = [endpoint EXCEPT ![n] = "CLOSED"]
        /\ Finished(n, t, TRUE)
        /\ UNCHANGED state
     \/ /\ endpoint[n] = "CLOSED"
        /\ Fail(n) /\ Finished(n, t, FALSE)
        /\ UNCHANGED endpoint
  /\ UNCHANGED <<port, node, config, timer, queue, unacked, threadOn, rcv,
                 alarm, woken, disturbed, raced>>

\* Stop_ICC_Sample; the older one has no thread_on.
Stop(n) ==
  /\ At(n, "stop", "idle") /\ n \in Stoppable
  /\ threadOn' = [threadOn EXCEPT ![n] = IF S32v THEN FALSE ELSE @]
  /\ Goto(n, "stop", "check")
  /\ UNCHANGED <<node_vars, state, timer, chan_vars, msg_vars, crt, disturbed,
                 raced>>

\* ICC_Finalize of the node: the mark, and behind it the wake-ups, of the channels
\* that are open.
StopNode(n) ==
  /\ At(n, "stop", "node")
  /\ node' = [node EXCEPT ![n] = "UNINIT"]
  /\ endpoint' = [endpoint EXCEPT ![n] = "CLOSED"]
  /\ IF Shared \/ endpoint[n] = "OPEN" THEN Wake(n) ELSE UNCHANGED woken
  /\ Goto(n, "stop", "config")
  /\ UNCHANGED <<port, config, state, timer, queue, unacked, stop_vars, run, val,
                 rcv, alarm, left, disturbed, raced>>

StopConfig(n) ==
  /\ At(n, "stop", "config")
  /\ config' = [config EXCEPT ![n] = FALSE]
  /\ Goto(n, "stop", "done")
  /\ UNCHANGED <<port, node, endpoint, state, timer, chan_vars, stop_vars,
                 msg_vars, disturbed, raced>>
-----------------------------------------------------------------------------
\* ICC_Remote_Event_Handler, at any notification: the other channels and the
\* nodes notify as well.  It skips the channel while the heartbeat is down.
Handler(n) ==
  /\ node[n] = "INIT"
  /\ \/ /\ unacked[n] /\ state[n] \in {"INIT", "RUNNING"}
        /\ unacked' = [unacked EXCEPT ![n] = FALSE]
     \/ Shared /\ UNCHANGED unacked
     \/ At(n, "hb", "blocked") /\ Room(n) /\ UNCHANGED unacked
  /\ Wake(n)
  /\ UNCHANGED <<node_vars, state, timer, queue, stop_vars, run, val, rcv, alarm,
                 left, at, disturbed, raced>>
-----------------------------------------------------------------------------
Thread(n) ==
  \/ Round(n) \/ Initialize(n) \/ Resync(n) \/ Ready(n)
  \/ Runnable(n) \/ Start(n) \/ Arm(n) \/ Rate(n)
  \/ Send(n) \/ Recv(n) \/ Sleep(n) \/ Woken(n) \/ TimeOut(n)
  \/ Compare(n)

Finalize(n, t) == FinalizeCheck(n, t) \/ FinalizeSet(n, t) \/ FinalizeClose(n, t)

Stopper(n) == Stop(n) \/ StopNode(n) \/ StopConfig(n)

Next ==
  \E n \in Nodes :
    \/ Thread(n) \/ Stopper(n) \/ Handler(n)
    \/ \E t \in Tasks : Finalize(n, t)

\* The tasks are scheduled and the timers expire; nothing is asked of the event
\* handler.  Whether and when the sample is stopped is open.
Fairness ==
  \A n \in Nodes :
    /\ WF_vars(Thread(n) \/ Finalize(n, "hb"))
    /\ WF_vars(Finalize(n, "stop") \/ StopNode(n) \/ StopConfig(n))

Spec == Init /\ [][Next]_vars
FairSpec == Spec /\ Fairness
-----------------------------------------------------------------------------
(***************************************************************************)
(* Properties.                                                             *)
(***************************************************************************)

\* The variables hold what the code can store in them, a FIFO no more than
\* fits, and a timer runs for no call but one that waits.
TypeOK ==
  /\ \A n \in Nodes :
       /\ node[n] \in {"INIT", "UNINIT"} /\ endpoint[n] \in {"OPEN", "CLOSED"}
       /\ state[n] \in {"UNINIT", "INIT", "RUNNING", "ERROR"}
       /\ timer[n] \in BOOLEAN /\ unacked[n] \in BOOLEAN
       /\ alarm[n] \/ woken[n] => Waiting(n)
       /\ Len(queue[n]) <= Capacity
       /\ val[n] \in 0 .. ValRange - 1 /\ run[n] \in 1 .. MaxRuns + 1

\* A run fails over a wrong number only after a timeout, or after a heartbeat
\* was ended: nodes that start at any time find each other's first message.
NoFalseAlarm ==
  \A n \in Nodes :
    At(n, "hb", "compare") /\ Running(n) /\ ~Mine(n) => disturbed

\* A run that goes to work has emptied the FIFO of what earlier runs of the peer
\* left in it: the messages it found are those of the same run or a later one.
OldRunsDropped ==
  S32v => \A n \in Nodes : \A i \in 1 .. left[n] : queue[n][i].run >= run[n]

\* No alarm outlives its heartbeat (it would run on in a module that is gone),
\* unless the heartbeat was ended while its run was in progress.
TimerCancelled ==
  S32v => \A n \in Nodes :
    state[n] = "UNINIT" /\ timer[n] => n \in raced

\* When a node that can be stopped has been finalized, its heartbeat task leaves
\* the call it is in, if another channel is open on the node that shares the wait
\* queue, as in the sample: the heartbeat's own is closed by then, so that
\* ICC_Finalize does not wake its task up.
FinalizedRunEnds ==
  Shared =>
    \A n \in Stoppable :
      At(n, "stop", "done") ~> at[n].hb \in {"over", "oops", "round"}
==============================================================================
