-------------------------- MODULE Heartbeat_proofs --------------------------
(***************************************************************************)
(* Proofs about Heartbeat, for every capacity of the FIFOs, range of the   *)
(* numbers, bound on the runs and choice of the nodes that are stopped.    *)
(*                                                                         *)
(* HeartbeatInv is inductive: Kinds says what the variables hold, RunsOK   *)
(* when a run counts and a timer runs, StopOK how far Stop_ICC_Sample is,  *)
(* TimerOK where the rate alarm can be armed, QueueOK that the run ids in  *)
(* a FIFO only grow, and NumbersOK that the numbers in it lead from the    *)
(* one a node expects to the one its peer sends next, until a timeout or   *)
(* an end.  One lemma for each part shows that every step keeps it.        *)
(***************************************************************************)
EXTENDS Heartbeat, SequenceTheorems, TLAPS
-----------------------------------------------------------------------------
(***************************************************************************)
(* The inductive invariant.                                                *)
(***************************************************************************)
States == {"UNINIT", "INIT", "RUNNING", "ERROR"}
Vals == 0 .. ValRange - 1
Messages == [run : Nat, val : Vals]
HbPlaces == {"round", "initialize", "resync", "ready", "runnable", "start",
             "arm", "rate", "send", "blocked", "recv", "wait", "compare", "check", "set",
             "close", "over", "oops"}
StopPlaces == {"idle", "check", "set", "close", "node", "config", "done", "failed"}
Places == [hb : HbPlaces, stop : StopPlaces]

\* The kinds of values.
Kinds ==
  /\ port \in {"s32v234", "sac58r"}
  /\ node \in [Nodes -> {"INIT", "UNINIT"}] /\ config \in [Nodes -> BOOLEAN]
  /\ state \in [Nodes -> States] /\ timer \in [Nodes -> BOOLEAN]
  /\ endpoint \in [Nodes -> {"OPEN", "CLOSED"}]
  /\ queue \in [Nodes -> Seq(Messages)] /\ unacked \in [Nodes -> BOOLEAN]
  /\ threadOn \in [Nodes -> BOOLEAN] /\ run \in [Nodes -> 1 .. MaxRuns + 1]
  /\ val \in [Nodes -> Vals] /\ rcv \in [Nodes -> Messages]
  /\ alarm \in [Nodes -> BOOLEAN] /\ woken \in [Nodes -> BOOLEAN] /\ at \in [Nodes -> Places]
  /\ crt \in [Nodes -> [Tasks -> States]]
  /\ disturbed \in BOOLEAN /\ raced \subseteq Nodes /\ left \in [Nodes -> Nat]

\* A run is counted when it is over; a timer runs for a call that waits; no
\* FIFO holds more than fits.
RunsOK ==
  \A n \in Nodes :
    /\ at[n].hb \notin {"round", "over"} => run[n] <= MaxRuns
    /\ alarm[n] \/ woken[n] => Waiting(n)
    /\ Len(queue[n]) <= Capacity

\* Stop_ICC_Sample clears thread_on before it ends the heartbeat, and marks the
\* node and its configuration behind that.  When it met no run in progress there
\* will be none.
Stopped == {"set", "close", "node", "config", "done"}
StopOK ==
  \A n \in Nodes :
    /\ S32v /\ ~At(n, "stop", "idle") => ~threadOn[n]
    /\ node[n] = "UNINIT" => at[n].stop \in {"config", "done"}
    /\ ~config[n] => At(n, "stop", "done")
    /\ S32v /\ at[n].stop \in Stopped /\ n \notin raced => at[n].hb \in {"round", "over"}

\* The rate alarm belongs to a run that is on its way to ICC_Heartbeat_Finalize.
Armed == {"rate", "send", "blocked", "recv", "wait", "compare", "check", "set"}
TimerOK ==
  S32v =>
    \A n \in Nodes : n \notin raced =>
      /\ At(n, "hb", "arm") => Running(n)
      /\ timer[n] => /\ at[n].hb \in Armed /\ state[n] \in {"RUNNING", "ERROR"}
                     /\ At(n, "hb", "set") => crt[n]["hb"] \in {"RUNNING", "ERROR"}

\* The runs in a FIFO only grow towards its end, and the peer's is the last of
\* them; of those that a run found when it went to work none is older.
Growing(q, last) ==
  /\ \A i, j \in 1 .. Len(q) : i <= j => q[i].run <= q[j].run
  /\ \A i \in 1 .. Len(q) : q[i].run <= last
NoOlder(q, k, r) == \A i \in 1 .. k : q[i].run >= r
Early == {"round", "initialize", "resync"}
QueueOK ==
  \A n \in Nodes :
    /\ Growing(queue[n], run[Peer(n)])
    /\ left[n] <= Len(queue[n])
    /\ at[n].hb \in Early => left[n] = 0
    /\ S32v => NoOlder(queue[n], left[n], run[n])

\* While nothing has timed out or ended each node is in its first run, which
\* nothing has kept from going on.
Before == {"round", "initialize", "over"}
Between == {"resync", "ready"}
Initialized == {"runnable", "start"}
Beating == {"arm", "rate", "send", "blocked", "recv", "wait", "compare"}
FirstRun ==
  \A n \in Nodes :
    /\ run[n] = 1 /\ node[n] = "INIT" /\ config[n]
    /\ at[n].stop \in {"idle", "check", "set", "failed"}
    /\ \/ at[n].hb \in Before /\ state[n] = "UNINIT" /\ endpoint[n] = "CLOSED"
       \/ at[n].hb \in Between /\ state[n] = "UNINIT" /\ endpoint[n] = "OPEN"
       \/ at[n].hb \in Initialized /\ state[n] = "INIT" /\ endpoint[n] = "OPEN"
       \/ at[n].hb \in Beating /\ state[n] = "RUNNING" /\ endpoint[n] = "OPEN"

\* The number a node sends next, and the one of the message it takes next.
Succ(v) == (v + 1) % ValRange
Sends(n) == IF at[n].hb \in {"recv", "wait", "compare"} THEN Succ(val[n]) ELSE val[n]
Expects(n) == IF At(n, "hb", "compare") THEN Succ(val[n]) ELSE val[n]

\* The numbers of the messages under way lead from the one that is expected to
\* the one that is sent next.
Chain(q, first, next) ==
  /\ \A i \in 1 .. Len(q) : q[i].run = 1
  /\ q = <<>> => first = next
  /\ q # <<>> => q[1].val = first /\ Succ(q[Len(q)].val) = next
  /\ \A i \in 1 .. Len(q) - 1 : q[i + 1].val = Succ(q[i].val)
Numbers ==
  \A n \in Nodes :
    /\ Chain(queue[n], Expects(n), Sends(Peer(n)))
    /\ At(n, "hb", "compare") => Mine(n)
NumbersOK == ~disturbed => FirstRun /\ Numbers

HeartbeatInv ==
  Kinds /\ RunsOK /\ StopOK /\ TimerOK /\ QueueOK /\ NumbersOK

-----------------------------------------------------------------------------
(***************************************************************************)
(* Lemmas about the FIFOs.                                                 *)
(***************************************************************************)
\* The head of a queue that is not empty is one of its messages.
LEMMA HeadTail ==
  ASSUME NEW S, NEW q \in Seq(S), q # <<>>
  PROVE  /\ Len(q) \in Nat \ {0} /\ Head(q) = q[1] /\ Head(q) \in S
         /\ Tail(q) \in Seq(S) /\ Len(Tail(q)) = Len(q) - 1
         /\ \A i \in 1 .. Len(Tail(q)) : Tail(q)[i] = q[i + 1]
  OBVIOUS

\* What a node appends is of the run it is in.
LEMMA GrowingAppend ==
  ASSUME NEW S, NEW q \in Seq(S), NEW m \in S, Growing(q, m.run), m.run \in Nat
  PROVE  Growing(Append(q, m), m.run)
  BY DEF Growing

\* What is left behind the head of a FIFO still grows, and a last run that only
\* gets later is still the last.
LEMMA GrowingTail ==
  ASSUME NEW S, NEW q \in Seq(S), q # <<>>, NEW last, Growing(q, last)
  PROVE  Growing(Tail(q), last)
  BY HeadTail DEF Growing

LEMMA GrowingLater ==
  ASSUME NEW q \in Seq(Messages), NEW last \in Nat, NEW later \in Nat, last <= later, Growing(q, last)
  PROVE  Growing(q, later)
<1>1. \A i \in 1 .. Len(q) : q[i].run \in Nat
  <2>1. \A i \in 1 .. Len(q) : q[i] \in Messages
    OBVIOUS
  <2> QED
    BY <2>1 DEF Messages
<1> QED
  BY <1>1 DEF Growing

\* Of the first k messages none is older: nor is one when another is appended,
\* or the first of them is taken.
LEMMA NoOlderAppend ==
  ASSUME NEW S, NEW q \in Seq(S), NEW m \in S, NEW k \in Nat, k <= Len(q), NEW r, NoOlder(q, k, r)
  PROVE  NoOlder(Append(q, m), k, r)
  BY DEF NoOlder

LEMMA NoOlderTail ==
  ASSUME NEW S, NEW q \in Seq(S), q # <<>>, NEW k \in Nat \ {0}, k <= Len(q), NEW r, NoOlder(q, k, r)
  PROVE  NoOlder(Tail(q), k - 1, r)
  BY HeadTail DEF NoOlder

\* When the oldest message is of run r, none is older.
LEMMA NoOlderHead ==
  ASSUME NEW q \in Seq(Messages), NEW last, Growing(q, last), NEW r \in Nat,
         q # <<>> => Head(q).run = r
  PROVE  NoOlder(q, Len(q), r)
<1>1. CASE q = <<>>
  BY <1>1 DEF NoOlder
<1>2. CASE q # <<>>
  <2>1. q[1].run = r /\ 1 \in 1 .. Len(q)
    BY <1>2, HeadTail
  <2> QED
    BY <2>1 DEF Growing, NoOlder
<1> QED
  BY <1>1, <1>2

\* A message is appended with the number that is sent next ...
LEMMA ChainAppend ==
  ASSUME NEW q \in Seq(Messages), NEW first, NEW v \in Vals, Chain(q, first, v)
  PROVE  Chain(Append(q, [run |-> 1, val |-> v]), first, Succ(v))
<1> DEFINE m == [run |-> 1, val |-> v]
           a == Append(q, m)
<1>1. m \in Messages /\ m.run = 1 /\ m.val = v
  BY DEF Messages
<1>2. /\ a \in Seq(Messages) /\ Len(a) = Len(q) + 1 /\ a[Len(q) + 1] = m /\ a # <<>>
      /\ \A i \in 1 .. Len(q) : a[i] = q[i]
  BY <1>1
<1> SUFFICES Chain(a, first, Succ(v))
  BY DEF a, m
<1> HIDE DEF m, a
<1>3. CASE q = <<>>
  BY <1>1, <1>2, <1>3 DEF Chain
<1>4. CASE q # <<>>
  <2>1. Len(q) \in Nat \ {0}
    BY <1>4, HeadTail
  <2>2. \A i \in 1 .. Len(a) : a[i].run = 1
    BY <1>1, <1>2, <2>1 DEF Chain
  <2>3. a[1].val = first
    BY <1>2, <1>4, <2>1 DEF Chain
  <2>4. \A i \in 1 .. Len(a) - 1 : a[i + 1].val = Succ(a[i].val)
    <3>1. a[Len(q) + 1].val = Succ(a[Len(q)].val)
      BY <1>1, <1>2, <1>4, <2>1 DEF Chain
    <3>2. \A i \in 1 .. Len(q) - 1 : a[i + 1].val = Succ(a[i].val)
      BY <1>2, <2>1 DEF Chain
    <3> QED
      BY <1>2, <2>1, <3>1, <3>2
  <2>5. Succ(a[Len(a)].val) = Succ(v)
    BY <1>1, <1>2
  <2> QED
    BY <1>2, <2>2, <2>3, <2>4, <2>5 DEF Chain
<1> QED
  BY <1>3, <1>4

\* ... and taken with the one that is expected.
LEMMA ChainTail ==
  ASSUME NEW q \in Seq(Messages), q # <<>>, NEW first, NEW next, Chain(q, first, next)
  PROVE  /\ Head(q).run = 1 /\ Head(q).val = first
         /\ Chain(Tail(q), Succ(first), next)
<1>1. Len(q) \in Nat \ {0} /\ Len(Tail(q)) = Len(q) - 1 /\ Tail(q) \in Seq(Messages) /\ Head(q) = q[1]
  BY HeadTail
<1>2. \A i \in 1 .. Len(Tail(q)) : Tail(q)[i] = q[i + 1]
  BY HeadTail
<1>3. Head(q).run = 1 /\ Head(q).val = first
  BY <1>1 DEF Chain
<1>4. CASE Tail(q) = <<>>
  <2>0. Len(<<>>) = 0
    BY EmptySeq
  <2>1. Len(Tail(q)) = 0
    BY <1>4, <2>0, Zenon
  <2>3. Len(q) = 1
    <3>1. Len(q) - 1 = 0
      BY <1>1, <2>1, Zenon
    <3>2. Len(q) \in Nat
      BY <1>1, Zenon
    <3> QED
      BY <3>1, <3>2
  <2>4. q # <<>> => q[1].val = first /\ Succ(q[Len(q)].val) = next
    BY DEF Chain
  <2>2. Succ(first) = next
    BY <2>3, <2>4
  <2> QED
    BY <1>3, <1>4, <2>2 DEF Chain
<1>5. CASE Tail(q) # <<>>
  <2>1. Len(Tail(q)) \in Nat \ {0}
    BY <1>1, <1>5, EmptySeq
  <2>2. Tail(q)[1].val = Succ(first) /\ Tail(q)[Len(Tail(q))] = q[Len(q)]
    BY <1>1, <1>2, <2>1 DEF Chain
  <2>3. \A i \in 1 .. Len(Tail(q)) : Tail(q)[i].run = 1
    BY <1>1, <1>2 DEF Chain
  <2>4. \A i \in 1 .. Len(Tail(q)) - 1 : Tail(q)[i + 1].val = Succ(Tail(q)[i].val)
    BY <1>1, <1>2 DEF Chain
  <2>5. q # <<>> => Succ(q[Len(q)].val) = next
    BY DEF Chain
  <2> QED
    BY <1>3, <1>5, <2>2, <2>3, <2>4, <2>5 DEF Chain
<1> QED
  BY <1>4, <1>5

-----------------------------------------------------------------------------
\* A task goes from one of its places to another.
LEMMA GotoPlaces ==
  ASSUME at \in [Nodes -> Places], NEW n \in Nodes
  PROVE  /\ \A place \in HbPlaces : Goto(n, "hb", place) => at' \in [Nodes -> Places]
         /\ \A place \in StopPlaces : Goto(n, "stop", place) => at' \in [Nodes -> Places]
  BY DEF Goto, Places

\* What a receive takes is of the right kind.
LEMMA TakeKinds ==
  ASSUME Kinds, NEW n \in Nodes, Take(n)
  PROVE  /\ queue' \in [Nodes -> Seq(Messages)] /\ rcv' \in [Nodes -> Messages]
         /\ alarm' \in [Nodes -> BOOLEAN] /\ woken' \in [Nodes -> BOOLEAN] /\ left' \in [Nodes -> Nat]
         /\ at' \in [Nodes -> Places]
<1>1. queue[n] \in Seq(Messages) /\ queue[n] # <<>>
  BY DEF Kinds, Take
<1>2. Head(queue[n]) \in Messages /\ Tail(queue[n]) \in Seq(Messages)
  BY <1>1, HeadTail
<1>3. queue' \in [Nodes -> Seq(Messages)] /\ rcv' \in [Nodes -> Messages]
  BY <1>2 DEF Kinds, Take
<1>4. alarm' \in [Nodes -> BOOLEAN] /\ woken' \in [Nodes -> BOOLEAN] /\ left' \in [Nodes -> Nat]
  BY DEF Kinds, Take, Leave
<1>5. at' \in [Nodes -> Places]
  BY GotoPlaces DEF Kinds, Take, HbPlaces
<1> QED
  BY <1>3, <1>4, <1>5

\* What a send pushes is of the right kind.
LEMMA PushKinds ==
  ASSUME Kinds, NEW n \in Nodes, Push(n)
  PROVE  /\ queue' \in [Nodes -> Seq(Messages)] /\ unacked' \in [Nodes -> BOOLEAN]
         /\ alarm' \in [Nodes -> BOOLEAN] /\ woken' \in [Nodes -> BOOLEAN]
         /\ at' \in [Nodes -> Places]
<1>1. [run |-> run[n], val |-> val[n]] \in Messages
  BY HeartbeatAssumption DEF Kinds, Messages
<1>2. Peer(n) \in Nodes
  BY DEF Peer, Nodes
<1>3. Append(queue[Peer(n)], [run |-> run[n], val |-> val[n]]) \in Seq(Messages)
  BY <1>1, <1>2 DEF Kinds
<1>4. queue' \in [Nodes -> Seq(Messages)] /\ unacked' \in [Nodes -> BOOLEAN]
  BY <1>2, <1>3 DEF Kinds, Push
<1>5. alarm' \in [Nodes -> BOOLEAN] /\ woken' \in [Nodes -> BOOLEAN]
  BY DEF Kinds, Push, Leave
<1>6. at' \in [Nodes -> Places]
  BY GotoPlaces DEF Kinds, Push, AfterRun, HbPlaces
<1> QED
  BY <1>4, <1>5, <1>6

\* The end of a run leaves every variable in its kind.
LEMMA FinishedKinds ==
  ASSUME Kinds, RunsOK, NEW n \in Nodes, NEW t \in Tasks, NEW ok, Finished(n, t, ok),
         t = "hb" => at[n].hb \notin {"round", "over"}
  PROVE  /\ run' \in [Nodes -> 1 .. MaxRuns + 1] /\ val' \in [Nodes -> Vals]
         /\ left' \in [Nodes -> Nat] /\ crt' \in [Nodes -> [Tasks -> States]]
         /\ at' \in [Nodes -> Places]
<1>1. run' \in [Nodes -> 1 .. MaxRuns + 1]
  <2>1. CASE t = "hb"
    <3>1. run[n] + 1 \in 1 .. MaxRuns + 1
      BY <2>1, HeartbeatAssumption DEF Kinds, RunsOK
    <3> QED
      BY <2>1, <3>1 DEF Kinds, Finished
  <2>2. CASE t # "hb"
    BY <2>2 DEF Kinds, Finished
  <2> QED
    BY <2>1, <2>2
<1>2. val' \in [Nodes -> Vals]
  BY HeartbeatAssumption DEF Kinds, Finished, Vals
<1>3. left' \in [Nodes -> Nat]
  BY DEF Kinds, Finished
<1>4. crt' \in [Nodes -> [Tasks -> States]]
  <2>1. [crt[n] EXCEPT ![t] = "UNINIT"] \in [Tasks -> States]
    BY DEF Kinds, States
  <2> QED
    BY <2>1 DEF Kinds, Finished
<1>5. at' \in [Nodes -> Places]
  BY GotoPlaces DEF Kinds, Finished, HbPlaces, StopPlaces, Tasks
<1> QED
  BY <1>1, <1>2, <1>3, <1>4, <1>5

\* Every step keeps every variable in its kind.
LEMMA KindsStep == HeartbeatInv /\ [Next]_vars => Kinds'
<1> SUFFICES ASSUME Kinds, RunsOK, StopOK, [Next]_vars PROVE Kinds'
  BY DEF HeartbeatInv
<1> USE HeartbeatAssumption DEF Nodes, Peer, Tasks, At, node_vars, chan_vars, msg_vars, stop_vars
<1>0. at \in [Nodes -> Places]
  BY DEF Kinds
<1>a. /\ state \in [Nodes -> States] /\ timer \in [Nodes -> BOOLEAN]
      /\ endpoint \in [Nodes -> {"OPEN", "CLOSED"}]
  BY DEF Kinds
<1>b. queue \in [Nodes -> Seq(Messages)]
  BY DEF Kinds
<1>c. crt \in [Nodes -> [Tasks -> States]]
  BY DEF Kinds
<1>1. ASSUME NEW n \in Nodes, Round(n) PROVE Kinds'
  <2>1. at' \in [Nodes -> Places]
    BY <1>0, <1>1, GotoPlaces DEF Round, HbPlaces
  <2> QED
    BY <1>1, <2>1 DEF Kinds, Round
<1>2. ASSUME NEW n \in Nodes, Initialize(n) PROVE Kinds'
  <2>1. at' \in [Nodes -> Places]
    BY <1>0, <1>2, GotoPlaces DEF Initialize, HbPlaces
  <2>2. endpoint' \in [Nodes -> {"OPEN", "CLOSED"}]
    BY <1>2 DEF Initialize, Kinds
  <2>3. state' \in [Nodes -> States]
    BY <1>2 DEF Initialize, Kinds, States
  <2> QED
    BY <1>2, <2>1, <2>2, <2>3 DEF Kinds, Initialize
<1>3. ASSUME NEW n \in Nodes, Resync(n) PROVE Kinds'
  <2>1. queue' \in [Nodes -> Seq(Messages)]
    <3>1. queue[n] \in Seq(Messages) /\ (OtherRun(n) => Tail(queue[n]) \in Seq(Messages))
      BY HeadTail DEF Kinds, OtherRun
    <3>2. \/ UNCHANGED queue
          \/ OtherRun(n) /\ queue' = [queue EXCEPT ![n] = Tail(queue[n])]
      BY <1>3 DEF Resync
    <3> QED
      BY <1>b, <3>1, <3>2
  <2>2. left' \in [Nodes -> Nat]
    BY <1>3 DEF Resync, Kinds
  <2>3. at' \in [Nodes -> Places]
    BY <1>0, <1>3, GotoPlaces DEF Resync, HbPlaces
  <2> QED
    BY <1>3, <2>1, <2>2, <2>3 DEF Kinds, Resync
<1>4. ASSUME NEW n \in Nodes, Ready(n) PROVE Kinds'
  <2>1. state' \in [Nodes -> States]
    BY <1>4 DEF Ready, Set, Kinds, States
  <2>2. at' \in [Nodes -> Places]
    BY <1>0, <1>4, GotoPlaces DEF Ready, HbPlaces
  <2> QED
    BY <1>4, <2>1, <2>2 DEF Kinds, Ready
<1>5. ASSUME NEW n \in Nodes, Runnable(n) PROVE Kinds'
  <2>1. at' \in [Nodes -> Places]
    BY <1>0, <1>5, GotoPlaces DEF Runnable, AfterRun, HbPlaces
  <2> QED
    BY <1>5, <2>1 DEF Kinds, Runnable
<1>6. ASSUME NEW n \in Nodes, Start(n) PROVE Kinds'
  <2>1. state' \in [Nodes -> States]
    BY <1>6 DEF Start, Set, Kinds, States
  <2>2. at' \in [Nodes -> Places]
    BY <1>0, <1>6, GotoPlaces DEF Start, HbPlaces
  <2> QED
    BY <1>6, <2>1, <2>2 DEF Kinds, Start
<1>7. ASSUME NEW n \in Nodes, Arm(n) PROVE Kinds'
  <2>1. timer' \in [Nodes -> BOOLEAN]
    BY <1>7 DEF Arm, Kinds
  <2>2. at' \in [Nodes -> Places]
    BY <1>0, <1>7, GotoPlaces DEF Arm, HbPlaces
  <2> QED
    BY <1>7, <2>1, <2>2 DEF Kinds, Arm
<1>8. ASSUME NEW n \in Nodes, Rate(n) PROVE Kinds'
  <2>1. at' \in [Nodes -> Places]
    BY <1>0, <1>8, GotoPlaces DEF Rate, AfterRun, HbPlaces
  <2> QED
    BY <1>8, <2>1 DEF Kinds, Rate
<1>e. ASSUME NEW n \in Nodes, NEW v \in BOOLEAN,
             NEW x \in [Nodes -> BOOLEAN], NEW y, y = x \/ y = [x EXCEPT ![n] = v]
      PROVE  y \in [Nodes -> BOOLEAN]
  BY <1>e
<1>d. alarm \in [Nodes -> BOOLEAN] /\ woken \in [Nodes -> BOOLEAN] /\ unacked \in [Nodes -> BOOLEAN]
  BY DEF Kinds
<1>w. ASSUME NEW n \in Nodes, Wake(n) PROVE woken' \in [Nodes -> BOOLEAN]
  <2>1. Waiting(n) \in BOOLEAN
    BY DEF Waiting
  <2> QED
    BY <1>w, <1>d, <2>1 DEF Wake
<1>9. ASSUME NEW n \in Nodes, Send(n) PROVE Kinds'
  <2>0. UNCHANGED <<node_vars, timer, stop_vars, run, val, rcv, left, disturbed, raced>>
    BY <1>9 DEF Send
  <2>1. CASE Push(n) /\ UNCHANGED state
    BY <2>0, <2>1, PushKinds DEF Kinds
  <2>2. CASE ~(Push(n) /\ UNCHANGED state)
    <3>1. state' \in [Nodes -> States]
      BY <1>9, <1>a, <2>2 DEF Send, Fail, Set, States
    <3>2. UNCHANGED <<queue, unacked>>
      BY <1>9, <2>2 DEF Send
    <3>3. \/ UNCHANGED <<alarm, woken>>
          \/ alarm' = [alarm EXCEPT ![n] = TRUE] /\ woken' = [woken EXCEPT ![n] = TRUE]
      BY <1>9, <2>2 DEF Send, Enter
    <3>4. alarm' \in [Nodes -> BOOLEAN] /\ woken' \in [Nodes -> BOOLEAN]
      <4>1. CASE UNCHANGED <<alarm, woken>>
        BY <1>d, <4>1
      <4>2. CASE alarm' = [alarm EXCEPT ![n] = TRUE] /\ woken' = [woken EXCEPT ![n] = TRUE]
        <5>1. alarm' \in [Nodes -> BOOLEAN]
          BY <1>d, <4>2
        <5>2. woken' \in [Nodes -> BOOLEAN]
          BY <1>d, <4>2
        <5> QED
          BY <5>1, <5>2
      <4> QED
        BY <3>3, <4>1, <4>2
    <3>5. at' \in [Nodes -> Places]
      BY <1>0, <1>9, <2>2, GotoPlaces DEF Send, Enter, AfterRun, HbPlaces
    <3> QED
      BY <2>0, <3>1, <3>2, <3>4, <3>5 DEF Kinds
  <2> QED
    BY <2>1, <2>2
<1>10. ASSUME NEW n \in Nodes, Sleep(n) PROVE Kinds'
  <2>1. woken' \in [Nodes -> BOOLEAN]
    BY <1>10, <1>d DEF Sleep
  <2> QED
    BY <1>10, <2>1 DEF Kinds, Sleep
<1>11. ASSUME NEW n \in Nodes, Recv(n) PROVE Kinds'
  <2>0. UNCHANGED <<node_vars, timer, unacked, stop_vars, run, val, disturbed, raced>>
    BY <1>11 DEF Recv
  <2>1. CASE Take(n) /\ UNCHANGED state
    BY <2>0, <2>1, TakeKinds DEF Kinds
  <2>2. CASE ~(Take(n) /\ UNCHANGED state)
    <3>1. state' \in [Nodes -> States]
      BY <1>11, <1>a, <2>2 DEF Recv, Fail, Set, States
    <3>2. UNCHANGED <<queue, rcv, left>>
      BY <1>11, <2>2 DEF Recv
    <3>3. \/ UNCHANGED <<alarm, woken>>
          \/ alarm' = [alarm EXCEPT ![n] = TRUE] /\ woken' = [woken EXCEPT ![n] = TRUE]
      BY <1>11, <2>2 DEF Recv, Enter
    <3>4. alarm' \in [Nodes -> BOOLEAN] /\ woken' \in [Nodes -> BOOLEAN]
      <4>1. CASE UNCHANGED <<alarm, woken>>
        BY <1>d, <4>1
      <4>2. CASE alarm' = [alarm EXCEPT ![n] = TRUE] /\ woken' = [woken EXCEPT ![n] = TRUE]
        <5>1. alarm' \in [Nodes -> BOOLEAN]
          BY <1>d, <4>2
        <5>2. woken' \in [Nodes -> BOOLEAN]
          BY <1>d, <4>2
        <5> QED
          BY <5>1, <5>2
      <4> QED
        BY <3>3, <4>1, <4>2
    <3>5. at' \in [Nodes -> Places]
      BY <1>0, <1>11, <2>2, GotoPlaces DEF Recv, Enter, AfterRun, HbPlaces
    <3> QED
      BY <2>0, <3>1, <3>2, <3>4, <3>5 DEF Kinds
  <2> QED
    BY <2>1, <2>2
<1>12. ASSUME NEW n \in Nodes, Woken(n) PROVE Kinds'
  <2>0. UNCHANGED <<node_vars, state, timer, stop_vars, run, val, disturbed, raced>>
    BY <1>12 DEF Woken
  <2>1. CASE Take(n) /\ UNCHANGED unacked
    BY <2>0, <2>1, TakeKinds DEF Kinds
  <2>2. CASE Push(n) /\ UNCHANGED <<rcv, left>>
    BY <2>0, <2>2, PushKinds DEF Kinds
  <2>3. CASE ~(Take(n) /\ UNCHANGED unacked) /\ ~(Push(n) /\ UNCHANGED <<rcv, left>>)
    <3>1. UNCHANGED <<chan_vars, rcv, left>>
      BY <1>12, <2>3 DEF Woken
    <3>2. alarm' = [alarm EXCEPT ![n] = FALSE] /\ \E v \in BOOLEAN : woken' = [woken EXCEPT ![n] = v]
      BY <1>12, <2>3 DEF Woken, Leave
    <3>3. alarm' \in [Nodes -> BOOLEAN] /\ woken' \in [Nodes -> BOOLEAN]
      BY <1>d, <3>2
    <3>4. at' \in [Nodes -> Places]
      BY <1>0, <1>12, <2>3, GotoPlaces DEF Woken, AfterRun, HbPlaces
    <3> QED
      BY <2>0, <3>1, <3>3, <3>4 DEF Kinds
  <2> QED
    BY <2>1, <2>2, <2>3
<1>13. ASSUME NEW n \in Nodes, TimeOut(n) PROVE Kinds'
  <2>1. alarm' \in [Nodes -> BOOLEAN] /\ woken' \in [Nodes -> BOOLEAN]
    BY <1>13, <1>d DEF TimeOut, Leave
  <2>2. state' \in [Nodes -> States]
    BY <1>13, <1>a DEF TimeOut, Fail, Set, States
  <2>3. disturbed' \in BOOLEAN
    BY <1>13 DEF TimeOut
  <2>4. at' \in [Nodes -> Places]
    BY <1>0, <1>13, GotoPlaces DEF TimeOut, AfterRun, HbPlaces
  <2> QED
    BY <1>13, <2>1, <2>2, <2>3, <2>4 DEF Kinds, TimeOut
<1>14. ASSUME NEW n \in Nodes, Compare(n) PROVE Kinds'
  <2>1. rcv' \in [Nodes -> Messages]
    <3>1. NoMsg \in Messages
      BY DEF NoMsg, Messages, Vals
    <3> QED
      BY <1>14, <3>1 DEF Compare, Kinds
  <2>2. state' \in [Nodes -> States]
    BY <1>14 DEF Compare, Fail, Set, Kinds, States
  <2>3. val' \in [Nodes -> Vals]
    <3>1. val' = val \/ val' = [val EXCEPT ![n] = (val[n] + 1) % ValRange]
      BY <1>14 DEF Compare
    <3>2. val \in [Nodes -> Vals]
      BY DEF Kinds
    <3>3. val[n] \in Nat /\ ValRange \in Nat \ {0}
      BY <3>2, HeartbeatAssumption DEF Vals
    <3>4. (val[n] + 1) % ValRange \in Vals
      BY <3>3 DEF Vals
    <3> QED
      BY <3>1, <3>2, <3>4
  <2>4. at' \in [Nodes -> Places]
    BY <1>0, <1>14, GotoPlaces DEF Compare, AfterRun, HbPlaces
  <2> QED
    BY <1>14, <2>1, <2>2, <2>3, <2>4 DEF Kinds, Compare
<1>15. ASSUME NEW n \in Nodes, FinalizeCheck(n, "hb") PROVE Kinds'
  <2>3. raced' \subseteq Nodes
    BY <1>15 DEF FinalizeCheck, Kinds
  <2>1. CASE \E ok \in BOOLEAN : Finished(n, "hb", ok)
    <3>1. UNCHANGED <<node_vars, state, timer, chan_vars, threadOn, rcv, alarm, woken, disturbed>>
      BY <1>15 DEF FinalizeCheck
    <3>2. At(n, "hb", "check")
      BY <1>15 DEF FinalizeCheck
    <3> QED
      BY <2>1, <2>3, <3>1, <3>2, FinishedKinds DEF Kinds
  <2>2. CASE ~\E ok \in BOOLEAN : Finished(n, "hb", ok)
    <3>1. UNCHANGED <<run, val, left>>
      BY <1>15, <2>2 DEF FinalizeCheck
    <3>2. crt' \in [Nodes -> [Tasks -> States]]
      <4>1. [crt[n] EXCEPT !["hb"] = state[n]] \in [Tasks -> States]
        BY DEF Kinds
      <4>2. crt' \in {crt, [crt EXCEPT ![n] = [crt[n] EXCEPT !["hb"] = state[n]]]}
        BY <1>15, <2>2 DEF FinalizeCheck
      <4> QED
        BY <1>c, <4>1, <4>2
    <3>3. at' \in [Nodes -> Places]
      BY <1>0, <1>15, <2>2, GotoPlaces DEF FinalizeCheck, HbPlaces, StopPlaces
    <3> QED
      BY <1>15, <2>3, <3>1, <3>2, <3>3 DEF Kinds, FinalizeCheck
  <2> QED
    BY <2>1, <2>2
<1>16. ASSUME NEW n \in Nodes, FinalizeCheck(n, "stop") PROVE Kinds'
  <2>3. raced' \subseteq Nodes
    <3>1. raced' \in {raced, raced \union {n}}
      BY <1>16 DEF FinalizeCheck
    <3> QED
      BY <3>1 DEF Kinds
  <2>1. CASE \E ok \in BOOLEAN : Finished(n, "stop", ok)
    <3>1. UNCHANGED <<node_vars, state, timer, chan_vars, threadOn, rcv, alarm, woken, disturbed>>
      BY <1>16 DEF FinalizeCheck
    <3>2. At(n, "stop", "check")
      BY <1>16 DEF FinalizeCheck
    <3> QED
      BY <2>1, <2>3, <3>1, <3>2, FinishedKinds DEF Kinds
  <2>2. CASE ~\E ok \in BOOLEAN : Finished(n, "stop", ok)
    <3>1. UNCHANGED <<run, val, left>>
      BY <1>16, <2>2 DEF FinalizeCheck
    <3>2. crt' \in [Nodes -> [Tasks -> States]]
      <4>1. [crt[n] EXCEPT !["stop"] = state[n]] \in [Tasks -> States]
        BY DEF Kinds
      <4>2. crt' \in {crt, [crt EXCEPT ![n] = [crt[n] EXCEPT !["stop"] = state[n]]]}
        BY <1>16, <2>2 DEF FinalizeCheck
      <4> QED
        BY <1>c, <4>1, <4>2
    <3>3. at' \in [Nodes -> Places]
      BY <1>0, <1>16, <2>2, GotoPlaces DEF FinalizeCheck, HbPlaces, StopPlaces, StopOK
    <3> QED
      BY <1>16, <2>3, <3>1, <3>2, <3>3 DEF Kinds, FinalizeCheck
  <2> QED
    BY <2>1, <2>2
<1>17. ASSUME NEW n \in Nodes, FinalizeSet(n, "hb") PROVE Kinds'
  <2>3. state' \in [Nodes -> States]
    BY <1>17, <1>a DEF FinalizeSet, Fail, Set, States
  <2>5. timer' \in [Nodes -> BOOLEAN] /\ disturbed' \in BOOLEAN
    BY <1>17, <1>a DEF FinalizeSet, CancelAlarm
  <2>4. UNCHANGED <<node_vars, chan_vars, threadOn, rcv, alarm, raced>> /\ At(n, "hb", "set")
    BY <1>17 DEF FinalizeSet
  <2>6. woken' \in [Nodes -> BOOLEAN]
    BY <1>17, <1>d, <1>w DEF FinalizeSet
  <2>1. CASE Finished(n, "hb", FALSE)
    BY <2>1, <2>3, <2>4, <2>5, <2>6, FinishedKinds DEF Kinds
  <2>2. CASE ~Finished(n, "hb", FALSE)
    <3>1. UNCHANGED <<crt, run, val, left>>
      BY <1>17, <2>2 DEF FinalizeSet
    <3>3. at' \in [Nodes -> Places]
      BY <1>0, <1>17, <2>2, GotoPlaces DEF FinalizeSet, HbPlaces, StopPlaces
    <3> QED
      BY <2>3, <2>4, <2>5, <2>6, <3>1, <3>3 DEF Kinds
  <2> QED
    BY <2>1, <2>2
<1>18. ASSUME NEW n \in Nodes, FinalizeSet(n, "stop") PROVE Kinds'
  <2>3. state' \in [Nodes -> States]
    BY <1>18, <1>a DEF FinalizeSet, Fail, Set, States
  <2>5. timer' \in [Nodes -> BOOLEAN] /\ disturbed' \in BOOLEAN
    BY <1>18, <1>a DEF FinalizeSet, CancelAlarm
  <2>4. UNCHANGED <<node_vars, chan_vars, threadOn, rcv, alarm, raced>> /\ At(n, "stop", "set")
    BY <1>18 DEF FinalizeSet
  <2>6. woken' \in [Nodes -> BOOLEAN]
    BY <1>18, <1>d, <1>w DEF FinalizeSet
  <2>1. CASE Finished(n, "stop", FALSE)
    BY <2>1, <2>3, <2>4, <2>5, <2>6, FinishedKinds DEF Kinds
  <2>2. CASE ~Finished(n, "stop", FALSE)
    <3>1. UNCHANGED <<crt, run, val, left>>
      BY <1>18, <2>2 DEF FinalizeSet
    <3>3. at' \in [Nodes -> Places]
      BY <1>0, <1>18, <2>2, GotoPlaces DEF FinalizeSet, HbPlaces, StopPlaces
    <3> QED
      BY <2>3, <2>4, <2>5, <2>6, <3>1, <3>3 DEF Kinds
  <2> QED
    BY <2>1, <2>2
<1>19. ASSUME NEW n \in Nodes, FinalizeClose(n, "hb") PROVE Kinds'
  <2>1. state' \in [Nodes -> States]
    BY <1>19, <1>a DEF FinalizeClose, Fail, Set, States
  <2>4. endpoint' \in [Nodes -> {"OPEN", "CLOSED"}]
    BY <1>19, <1>a DEF FinalizeClose
  <2>2. /\ UNCHANGED <<port, node, config, timer, queue, unacked, threadOn, rcv, alarm, woken, disturbed, raced>>
        /\ At(n, "hb", "close")
    BY <1>19 DEF FinalizeClose
  <2>3. \E ok \in BOOLEAN : Finished(n, "hb", ok)
    BY <1>19 DEF FinalizeClose
  <2> QED
    BY <2>1, <2>2, <2>3, <2>4, FinishedKinds DEF Kinds
<1>20. ASSUME NEW n \in Nodes, FinalizeClose(n, "stop") PROVE Kinds'
  <2>1. state' \in [Nodes -> States]
    BY <1>20, <1>a DEF FinalizeClose, Fail, Set, States
  <2>4. endpoint' \in [Nodes -> {"OPEN", "CLOSED"}]
    BY <1>20, <1>a DEF FinalizeClose
  <2>2. /\ UNCHANGED <<port, node, config, timer, queue, unacked, threadOn, rcv, alarm, woken, disturbed, raced>>
        /\ At(n, "stop", "close")
    BY <1>20 DEF FinalizeClose
  <2>3. \E ok \in BOOLEAN : Finished(n, "stop", ok)
    BY <1>20 DEF FinalizeClose
  <2> QED
    BY <2>1, <2>2, <2>3, <2>4, FinishedKinds DEF Kinds
<1>21. ASSUME NEW n \in Nodes, Stop(n) PROVE Kinds'
  <2>1. threadOn' \in [Nodes -> BOOLEAN]
    BY <1>21 DEF Stop, Kinds
  <2>2. at' \in [Nodes -> Places]
    BY <1>0, <1>21, GotoPlaces DEF Stop, StopPlaces
  <2> QED
    BY <1>21, <2>1, <2>2 DEF Kinds, Stop
<1>22. ASSUME NEW n \in Nodes, StopNode(n) PROVE Kinds'
  <2>1. node' \in [Nodes -> {"INIT", "UNINIT"}]
    BY <1>22 DEF StopNode, Kinds
  <2>2. endpoint' \in [Nodes -> {"OPEN", "CLOSED"}]
    BY <1>22 DEF StopNode, Kinds
  <2>3. at' \in [Nodes -> Places]
    BY <1>0, <1>22, GotoPlaces DEF StopNode, StopPlaces
  <2>4. woken' \in [Nodes -> BOOLEAN]
    BY <1>22, <1>d, <1>w DEF StopNode
  <2> QED
    BY <1>22, <2>1, <2>2, <2>3, <2>4 DEF Kinds, StopNode
<1>23. ASSUME NEW n \in Nodes, StopConfig(n) PROVE Kinds'
  <2>1. config' \in [Nodes -> BOOLEAN]
    BY <1>23 DEF StopConfig, Kinds
  <2>2. at' \in [Nodes -> Places]
    BY <1>0, <1>23, GotoPlaces DEF StopConfig, StopPlaces
  <2> QED
    BY <1>23, <2>1, <2>2 DEF Kinds, StopConfig
<1>24. ASSUME NEW n \in Nodes, Handler(n) PROVE Kinds'
  <2>1. unacked' \in [Nodes -> BOOLEAN]
    BY <1>24, <1>d DEF Handler
  <2>2. woken' \in [Nodes -> BOOLEAN]
    BY <1>24, <1>w DEF Handler
  <2> QED
    BY <1>24, <2>1, <2>2 DEF Kinds, Handler
<1>25. CASE UNCHANGED vars
  BY <1>25 DEF vars, Kinds
<1> HIDE DEF Nodes, Peer, At, node_vars, chan_vars, msg_vars, stop_vars
<1>26. ASSUME NEW n \in Nodes, Thread(n) PROVE Kinds'
  BY <1>1, <1>2, <1>3, <1>4, <1>5, <1>6, <1>7, <1>8, <1>9, <1>10, <1>11, <1>12, <1>13, <1>14, <1>26 DEF Thread
<1>27. ASSUME NEW n \in Nodes, NEW t \in {"hb", "stop"}, Finalize(n, t) PROVE Kinds'
  BY <1>15, <1>16, <1>17, <1>18, <1>19, <1>20, <1>27 DEF Finalize
<1>28. ASSUME NEW n \in Nodes, Stopper(n) PROVE Kinds'
  BY <1>21, <1>22, <1>23, <1>28 DEF Stopper
<1> QED
  BY <1>24, <1>25, <1>26, <1>27, <1>28 DEF Next, Tasks

\* A wait alone starts its timer and every way out of it stops it; the runs end
\* at their bound.
LEMMA RunsOKStep == HeartbeatInv /\ [Next]_vars => RunsOK'
<1> SUFFICES ASSUME Kinds, RunsOK, [Next]_vars PROVE RunsOK'
  BY DEF HeartbeatInv
<1>p. ASSUME NEW n \in Nodes, Push(n), at[n].hb \in {"send", "blocked"}, Room(n), UNCHANGED run
      PROVE  RunsOK'
  <2> DEFINE p == Peer(n)
             m == [run |-> run[n], val |-> val[n]]
  <2>1. p \in Nodes /\ queue[p] \in Seq(Messages) /\ Len(queue[p]) < Capacity
    BY <1>p DEF Kinds, Room, Peer, Nodes
  <2>2. m \in Messages
    BY HeartbeatAssumption DEF Kinds, Messages
  <2>3. queue' = [queue EXCEPT ![p] = Append(queue[p], m)]
    BY <1>p DEF Push
  <2>4. \A k \in Nodes : Len(queue'[k]) <= Capacity
    BY <2>1, <2>2, <2>3, HeartbeatAssumption DEF Kinds, RunsOK
  <2>5. /\ alarm' = [alarm EXCEPT ![n] = FALSE] /\ woken' = [woken EXCEPT ![n] = FALSE]
        /\ \E place \in {"recv", "check", "over"} : at' = [at EXCEPT ![n]["hb"] = place]
    BY <1>p DEF Push, Leave, Goto, AfterRun
  <2> QED
    BY <1>p, <2>4, <2>5 DEF Kinds, RunsOK, At, Waiting, Places
<1> USE HeartbeatAssumption DEF Nodes, Peer, Tasks, At, Goto, node_vars, chan_vars, msg_vars, stop_vars, Kinds, RunsOK, Places, HbPlaces, StopPlaces, Waiting
<1>1. ASSUME NEW n \in Nodes, Round(n) PROVE RunsOK'
  BY <1>1 DEF Round
<1>2. ASSUME NEW n \in Nodes, Initialize(n) PROVE RunsOK'
  BY <1>2 DEF Initialize, Accepted, S32v
<1>3. ASSUME NEW n \in Nodes, Resync(n) PROVE RunsOK'
  <2>1. UNCHANGED <<run, alarm, woken>> /\ at[n].hb = "resync"
    BY <1>3 DEF Resync
  <2>2. CASE UNCHANGED queue
    <3>1. \E place \in {"ready", "runnable", "resync"} : at' = [at EXCEPT ![n]["hb"] = place]
      BY <1>3, <2>1, <2>2 DEF Resync
    <3> QED
      BY <2>1, <2>2, <3>1
  <2>3. CASE queue' # queue
    <3>1. UNCHANGED at /\ queue[n] # <<>> /\ queue' = [queue EXCEPT ![n] = Tail(queue[n])]
      BY <1>3, <2>3 DEF Resync, OtherRun
    <3>2. queue[n] \in Seq(Messages) /\ Len(Tail(queue[n])) = Len(queue[n]) - 1
      BY <3>1, HeadTail
    <3> QED
      BY <2>1, <3>1, <3>2
  <2> QED
    BY <2>2, <2>3
<1>4. ASSUME NEW n \in Nodes, Ready(n) PROVE RunsOK'
  BY <1>4 DEF Ready, Set
<1>5. ASSUME NEW n \in Nodes, Runnable(n) PROVE RunsOK'
  BY <1>5 DEF Runnable, AfterRun, S32v
<1>6. ASSUME NEW n \in Nodes, Start(n) PROVE RunsOK'
  BY <1>6 DEF Start, Set
<1>7. ASSUME NEW n \in Nodes, Arm(n) PROVE RunsOK'
  BY <1>7 DEF Arm
<1>8. ASSUME NEW n \in Nodes, Rate(n) PROVE RunsOK'
  BY <1>8 DEF Rate, AfterRun, S32v, Running
<1>9. ASSUME NEW n \in Nodes, Send(n) PROVE RunsOK'
  <2>1. UNCHANGED run /\ at[n].hb = "send"
    BY <1>9 DEF Send
  <2>2. CASE Push(n) /\ Room(n)
    BY <1>p, <2>1, <2>2
  <2>3. CASE ~(Push(n) /\ Room(n))
    <3>1. UNCHANGED queue
      BY <1>9, <2>3 DEF Send
    <3>2. \/ UNCHANGED <<alarm, woken>> /\ \E place \in {"check", "over"} : at' = [at EXCEPT ![n]["hb"] = place]
          \/ /\ alarm' = [alarm EXCEPT ![n] = TRUE] /\ woken' = [woken EXCEPT ![n] = TRUE]
             /\ at' = [at EXCEPT ![n]["hb"] = "blocked"]
      BY <1>9, <2>3 DEF Send, Enter, AfterRun
    <3>3. CASE UNCHANGED <<alarm, woken>>
      BY <2>1, <3>1, <3>2, <3>3
    <3>4. CASE at' = [at EXCEPT ![n]["hb"] = "blocked"]
      <4>1. \A m \in Nodes : m # n => alarm'[m] = alarm[m] /\ woken'[m] = woken[m]
        BY <3>2
      <4> QED
        BY <2>1, <3>1, <3>4, <4>1
    <3> QED
      BY <3>2, <3>3, <3>4
  <2> QED
    BY <2>2, <2>3
<1>10. ASSUME NEW n \in Nodes, Sleep(n) PROVE RunsOK'
  BY <1>10 DEF Sleep
<1>t. ASSUME NEW n \in Nodes, Take(n), UNCHANGED run, at[n].hb \in {"recv", "wait"} PROVE RunsOK'
  <2>1. /\ at' = [at EXCEPT ![n]["hb"] = "compare"] /\ alarm' = [alarm EXCEPT ![n] = FALSE]
        /\ woken' = [woken EXCEPT ![n] = FALSE]
        /\ queue' = [queue EXCEPT ![n] = Tail(queue[n])] /\ queue[n] # <<>>
    BY <1>t DEF Take, Leave
  <2>2. queue[n] \in Seq(Messages) /\ Len(Tail(queue[n])) = Len(queue[n]) - 1
    BY <2>1, HeadTail
  <2> QED
    BY <1>t, <2>1, <2>2
<1>11. ASSUME NEW n \in Nodes, Recv(n) PROVE RunsOK'
  <2>1. UNCHANGED run /\ at[n].hb = "recv"
    BY <1>11 DEF Recv
  <2>2. CASE Take(n)
    BY <1>t, <2>1, <2>2
  <2>3. CASE ~Take(n)
    <3>1. UNCHANGED queue
      BY <1>11, <2>3 DEF Recv
    <3>2. \/ UNCHANGED <<alarm, woken>> /\ \E place \in {"check", "over"} : at' = [at EXCEPT ![n]["hb"] = place]
          \/ /\ alarm' = [alarm EXCEPT ![n] = TRUE] /\ woken' = [woken EXCEPT ![n] = TRUE]
             /\ at' = [at EXCEPT ![n]["hb"] = "wait"]
      BY <1>11, <2>3 DEF Recv, Enter, AfterRun
    <3> QED
      BY <2>1, <3>1, <3>2
  <2> QED
    BY <2>2, <2>3
<1>12. ASSUME NEW n \in Nodes, Woken(n) PROVE RunsOK'
  <2>0. UNCHANGED run /\ at[n].hb \in {"blocked", "wait"}
    BY <1>12 DEF Woken
  <2>1. CASE Take(n) /\ at[n].hb = "wait"
    BY <1>t, <2>0, <2>1
  <2>2. CASE Push(n) /\ at[n].hb = "blocked" /\ Room(n)
    BY <1>p, <2>0, <2>2
  <2>3. CASE ~(Take(n) /\ at[n].hb = "wait") /\ ~(Push(n) /\ at[n].hb = "blocked" /\ Room(n))
    <3>1. UNCHANGED queue /\ alarm' = [alarm EXCEPT ![n] = FALSE]
      BY <1>12, <2>3 DEF Woken, Leave
    <3>2. \/ UNCHANGED at /\ woken' = [woken EXCEPT ![n] = TRUE]
          \/ /\ woken' = [woken EXCEPT ![n] = FALSE]
             /\ \E place \in {"check", "over"} : at' = [at EXCEPT ![n]["hb"] = place]
      BY <1>12, <2>3 DEF Woken, Leave, AfterRun
    <3> QED
      BY <2>0, <3>1, <3>2
  <2> QED
    BY <2>1, <2>2, <2>3
<1>13. ASSUME NEW n \in Nodes, TimeOut(n) PROVE RunsOK'
  BY <1>13 DEF TimeOut, Leave, AfterRun, S32v
<1>14. ASSUME NEW n \in Nodes, Compare(n) PROVE RunsOK'
  BY <1>14 DEF Compare, AfterRun, S32v, Fail, Set, Running, Mine
<1>15. ASSUME NEW n \in Nodes, FinalizeCheck(n, "hb") PROVE RunsOK'
  BY <1>15 DEF FinalizeCheck, Finished
<1>16. ASSUME NEW n \in Nodes, FinalizeCheck(n, "stop") PROVE RunsOK'
  BY <1>16 DEF FinalizeCheck, Finished
<1>17. ASSUME NEW n \in Nodes, FinalizeSet(n, "hb") PROVE RunsOK'
  BY <1>17 DEF FinalizeSet, Wake, Finished, Cancels, CancelAlarm, CancelFails, Fail, Set, S32v
<1>18. ASSUME NEW n \in Nodes, FinalizeSet(n, "stop") PROVE RunsOK'
  BY <1>18 DEF FinalizeSet, Wake, Finished, Cancels, CancelAlarm, CancelFails, Fail, Set, S32v
<1>19. ASSUME NEW n \in Nodes, FinalizeClose(n, "hb") PROVE RunsOK'
  BY <1>19 DEF FinalizeClose, Finished, Fail, Set
<1>20. ASSUME NEW n \in Nodes, FinalizeClose(n, "stop") PROVE RunsOK'
  BY <1>20 DEF FinalizeClose, Finished, Fail, Set
<1>21. ASSUME NEW n \in Nodes, Stop(n) PROVE RunsOK'
  BY <1>21 DEF Stop, S32v
<1>22. ASSUME NEW n \in Nodes, StopNode(n) PROVE RunsOK'
  BY <1>22 DEF StopNode, Wake
<1>23. ASSUME NEW n \in Nodes, StopConfig(n) PROVE RunsOK'
  BY <1>23 DEF StopConfig
<1>24. ASSUME NEW n \in Nodes, Handler(n)
      PROVE RunsOK'
  BY <1>24 DEF Handler, Wake
<1>25. CASE UNCHANGED vars
  BY <1>25 DEF vars
<1> HIDE DEF Nodes, Peer, At, Goto, node_vars, chan_vars, msg_vars, stop_vars, Kinds, RunsOK, Places, HbPlaces, StopPlaces, Waiting
<1>26. ASSUME NEW n \in Nodes, Thread(n) PROVE RunsOK'
  BY <1>1, <1>2, <1>3, <1>4, <1>5, <1>6, <1>7, <1>8, <1>9, <1>10, <1>11, <1>12, <1>13, <1>14, <1>26 DEF Thread
<1>27. ASSUME NEW n \in Nodes, NEW t \in {"hb", "stop"}, Finalize(n, t) PROVE RunsOK'
  BY <1>15, <1>16, <1>17, <1>18, <1>19, <1>20, <1>27 DEF Finalize
<1>28. ASSUME NEW n \in Nodes, Stopper(n) PROVE RunsOK'
  BY <1>21, <1>22, <1>23, <1>28 DEF Stopper
<1> QED
  BY <1>24, <1>25, <1>26, <1>27, <1>28 DEF Next, Tasks

\* Stop_ICC_Sample goes on only forwards, and a thread that it found between two
\* runs starts no other.
LEMMA StopOKStep == HeartbeatInv /\ [Next]_vars => StopOK'
<1> SUFFICES ASSUME Kinds, StopOK, [Next]_vars PROVE StopOK'
  BY DEF HeartbeatInv
<1> USE HeartbeatAssumption DEF Nodes, Peer, Tasks, At, Goto, node_vars, chan_vars, msg_vars, stop_vars, Kinds, StopOK, Places, S32v, Stopped, HbPlaces, StopPlaces
<1>1. ASSUME NEW n \in Nodes, Round(n) PROVE StopOK'
  BY <1>1 DEF Round
<1>2. ASSUME NEW n \in Nodes, Initialize(n) PROVE StopOK'
  BY <1>2 DEF Initialize, Accepted
<1>3. ASSUME NEW n \in Nodes, Resync(n) PROVE StopOK'
  BY <1>3 DEF Resync, OtherRun
<1>4. ASSUME NEW n \in Nodes, Ready(n) PROVE StopOK'
  BY <1>4 DEF Ready, Set
<1>5. ASSUME NEW n \in Nodes, Runnable(n) PROVE StopOK'
  BY <1>5 DEF Runnable, AfterRun
<1>6. ASSUME NEW n \in Nodes, Start(n) PROVE StopOK'
  BY <1>6 DEF Start, Set
<1>7. ASSUME NEW n \in Nodes, Arm(n) PROVE StopOK'
  BY <1>7 DEF Arm
<1>8. ASSUME NEW n \in Nodes, Rate(n) PROVE StopOK'
  BY <1>8 DEF Rate, AfterRun, Running
<1>9. ASSUME NEW n \in Nodes, Send(n) PROVE StopOK'
  BY <1>9 DEF Send, Push, Enter, Running, AfterRun, Fail, Set
<1>10. ASSUME NEW n \in Nodes, Sleep(n) PROVE StopOK'
  BY <1>10 DEF Sleep
<1>11. ASSUME NEW n \in Nodes, Recv(n) PROVE StopOK'
  BY <1>11 DEF Recv, Enter, AfterRun, Fail, Set, Take
<1>12. ASSUME NEW n \in Nodes, Woken(n) PROVE StopOK'
  BY <1>12 DEF Woken, Waiting, Push, AfterRun, Take, Running
<1>13. ASSUME NEW n \in Nodes, TimeOut(n) PROVE StopOK'
  BY <1>13 DEF TimeOut, Waiting, AfterRun, Fail, Set
<1>14. ASSUME NEW n \in Nodes, Compare(n) PROVE StopOK'
  BY <1>14 DEF Compare, AfterRun, Fail, Set, Running, Mine
<1>15. ASSUME NEW n \in Nodes, FinalizeCheck(n, "hb") PROVE StopOK'
  BY <1>15 DEF FinalizeCheck, Finished
<1>16. ASSUME NEW n \in Nodes, FinalizeCheck(n, "stop") PROVE StopOK'
  BY <1>16 DEF FinalizeCheck, Finished
<1>17. ASSUME NEW n \in Nodes, FinalizeSet(n, "hb") PROVE StopOK'
  BY <1>17 DEF FinalizeSet, Finished, Cancels, CancelAlarm, CancelFails, Fail, Set
<1>18. ASSUME NEW n \in Nodes, FinalizeSet(n, "stop") PROVE StopOK'
  BY <1>18 DEF FinalizeSet, Finished, Cancels, CancelAlarm, CancelFails, Fail, Set
<1>19. ASSUME NEW n \in Nodes, FinalizeClose(n, "hb") PROVE StopOK'
  BY <1>19 DEF FinalizeClose, Finished, Fail, Set
<1>20. ASSUME NEW n \in Nodes, FinalizeClose(n, "stop") PROVE StopOK'
  BY <1>20 DEF FinalizeClose, Finished, Fail, Set
<1>21. ASSUME NEW n \in Nodes, Stop(n) PROVE StopOK'
  BY <1>21 DEF Stop
<1>22. ASSUME NEW n \in Nodes, StopNode(n) PROVE StopOK'
  BY <1>22 DEF StopNode
<1>23. ASSUME NEW n \in Nodes, StopConfig(n) PROVE StopOK'
  BY <1>23 DEF StopConfig
<1>24. ASSUME NEW n \in Nodes, Handler(n)
      PROVE StopOK'
  BY <1>24 DEF Handler
<1>25. CASE UNCHANGED vars
  BY <1>25 DEF vars
<1> HIDE DEF Nodes, Peer, At, Goto, node_vars, chan_vars, msg_vars, stop_vars, Kinds, StopOK, Places, S32v, Stopped, HbPlaces, StopPlaces
<1>26. ASSUME NEW n \in Nodes, Thread(n) PROVE StopOK'
  BY <1>1, <1>2, <1>3, <1>4, <1>5, <1>6, <1>7, <1>8, <1>9, <1>10, <1>11, <1>12, <1>13, <1>14, <1>26 DEF Thread
<1>27. ASSUME NEW n \in Nodes, NEW t \in {"hb", "stop"}, Finalize(n, t) PROVE StopOK'
  BY <1>15, <1>16, <1>17, <1>18, <1>19, <1>20, <1>27 DEF Finalize
<1>28. ASSUME NEW n \in Nodes, Stopper(n) PROVE StopOK'
  BY <1>21, <1>22, <1>23, <1>28 DEF Stopper
<1> QED
  BY <1>24, <1>25, <1>26, <1>27, <1>28 DEF Next, Tasks

\* The alarm is armed by a run that is RUNNING, and ICC_Heartbeat_Finalize
\* cancels it, RUNNING or ERROR.
LEMMA TimerOKStep == HeartbeatInv /\ [Next]_vars => TimerOK'
<1> SUFFICES ASSUME Kinds, StopOK, TimerOK, [Next]_vars PROVE TimerOK'
  BY DEF HeartbeatInv
<1> USE HeartbeatAssumption DEF Nodes, Peer, Tasks, At, Goto, node_vars, chan_vars, msg_vars, stop_vars, Kinds, StopOK, TimerOK, Places, States, S32v, Stopped, Armed, Running, HbPlaces, StopPlaces
<1>1. ASSUME NEW n \in Nodes, Round(n) PROVE TimerOK'
  BY <1>1 DEF Round
<1>2. ASSUME NEW n \in Nodes, Initialize(n) PROVE TimerOK'
  BY <1>2 DEF Initialize, Accepted
<1>3. ASSUME NEW n \in Nodes, Resync(n) PROVE TimerOK'
  <2>1. UNCHANGED <<port, state, timer, raced, crt>> /\ at[n].hb = "resync"
    BY <1>3 DEF Resync
  <2>2. UNCHANGED at \/ \E place \in {"ready", "runnable"} : at' = [at EXCEPT ![n]["hb"] = place]
    BY <1>3 DEF Resync
  <2> QED
    BY <2>1, <2>2
<1>4. ASSUME NEW n \in Nodes, Ready(n) PROVE TimerOK'
  BY <1>4 DEF Ready, Set
<1>5. ASSUME NEW n \in Nodes, Runnable(n) PROVE TimerOK'
  BY <1>5 DEF Runnable, AfterRun
<1>6. ASSUME NEW n \in Nodes, Start(n) PROVE TimerOK'
  BY <1>6 DEF Start, Set
<1>7. ASSUME NEW n \in Nodes, Arm(n) PROVE TimerOK'
  BY <1>7 DEF Arm
<1>8. ASSUME NEW n \in Nodes, Rate(n) PROVE TimerOK'
  BY <1>8 DEF Rate, AfterRun
<1>9. ASSUME NEW n \in Nodes, Send(n) PROVE TimerOK'
  BY <1>9 DEF Send, Push, Enter, AfterRun, Fail, Set
<1>10. ASSUME NEW n \in Nodes, Sleep(n) PROVE TimerOK'
  BY <1>10 DEF Sleep
<1>11. ASSUME NEW n \in Nodes, Recv(n) PROVE TimerOK'
  BY <1>11 DEF Recv, Enter, AfterRun, Fail, Set, Take
<1>12. ASSUME NEW n \in Nodes, Woken(n) PROVE TimerOK'
  BY <1>12 DEF Woken, Waiting, Push, AfterRun, Take
<1>13. ASSUME NEW n \in Nodes, TimeOut(n) PROVE TimerOK'
  BY <1>13 DEF TimeOut, Waiting, AfterRun, Fail, Set
<1>14. ASSUME NEW n \in Nodes, Compare(n) PROVE TimerOK'
  BY <1>14 DEF Compare, AfterRun, Fail, Set, Mine
<1>15. ASSUME NEW n \in Nodes, FinalizeCheck(n, "hb") PROVE TimerOK'
  BY <1>15 DEF FinalizeCheck, Finished
<1>16. ASSUME NEW n \in Nodes, FinalizeCheck(n, "stop") PROVE TimerOK'
  BY <1>16 DEF FinalizeCheck, Finished
<1>17. ASSUME NEW n \in Nodes, FinalizeSet(n, "hb") PROVE TimerOK'
  BY <1>17 DEF FinalizeSet, Finished, Cancels, CancelAlarm, CancelFails, Fail, Set
<1>18. ASSUME NEW n \in Nodes, FinalizeSet(n, "stop") PROVE TimerOK'
  BY <1>18 DEF FinalizeSet, Finished, Cancels, CancelAlarm, CancelFails, Fail, Set
<1>19. ASSUME NEW n \in Nodes, FinalizeClose(n, "hb") PROVE TimerOK'
  BY <1>19 DEF FinalizeClose, Finished, Fail, Set
<1>20. ASSUME NEW n \in Nodes, FinalizeClose(n, "stop") PROVE TimerOK'
  BY <1>20 DEF FinalizeClose, Finished, Fail, Set
<1>21. ASSUME NEW n \in Nodes, Stop(n) PROVE TimerOK'
  BY <1>21 DEF Stop
<1>22. ASSUME NEW n \in Nodes, StopNode(n) PROVE TimerOK'
  BY <1>22 DEF StopNode
<1>23. ASSUME NEW n \in Nodes, StopConfig(n) PROVE TimerOK'
  BY <1>23 DEF StopConfig
<1>24. ASSUME NEW n \in Nodes, Handler(n)
      PROVE TimerOK'
  BY <1>24 DEF Handler
<1>25. CASE UNCHANGED vars
  BY <1>25 DEF vars
<1> HIDE DEF Nodes, Peer, At, Goto, node_vars, chan_vars, msg_vars, stop_vars, Kinds, StopOK, TimerOK, Places, States, S32v, Stopped, Armed, Running, HbPlaces, StopPlaces
<1>26. ASSUME NEW n \in Nodes, Thread(n) PROVE TimerOK'
  BY <1>1, <1>2, <1>3, <1>4, <1>5, <1>6, <1>7, <1>8, <1>9, <1>10, <1>11, <1>12, <1>13, <1>14, <1>26 DEF Thread
<1>27. ASSUME NEW n \in Nodes, NEW t \in {"hb", "stop"}, Finalize(n, t) PROVE TimerOK'
  BY <1>15, <1>16, <1>17, <1>18, <1>19, <1>20, <1>27 DEF Finalize
<1>28. ASSUME NEW n \in Nodes, Stopper(n) PROVE TimerOK'
  BY <1>21, <1>22, <1>23, <1>28 DEF Stopper
<1> QED
  BY <1>24, <1>25, <1>26, <1>27, <1>28 DEF Next, Tasks

\* The FIFOs grow at their end with the run of the node that sends, and what a
\* run has found there is taken from their head.
LEMMA QueueOKStep == HeartbeatInv /\ [Next]_vars => QueueOK'
<1> SUFFICES ASSUME Kinds, QueueOK, [Next]_vars PROVE QueueOK'
  BY DEF HeartbeatInv
<1>0. /\ at \in [Nodes -> Places] /\ queue \in [Nodes -> Seq(Messages)]
      /\ run \in [Nodes -> Nat] /\ left \in [Nodes -> Nat]
  BY HeartbeatAssumption DEF Kinds
<1>1. ASSUME UNCHANGED <<queue, left, run, port>>,
             \A m \in Nodes : at'[m].hb \in Early => at[m].hb \in Early
      PROVE  QueueOK'
  BY <1>1 DEF QueueOK, S32v
<1>2. ASSUME NEW n \in Nodes, \/ Round(n) \/ Initialize(n) \/ Ready(n) \/ Runnable(n) \/ Start(n)
                              \/ Arm(n) \/ Rate(n) \/ Sleep(n) \/ TimeOut(n) \/ Compare(n)
      PROVE  QueueOK'
  <2>1. UNCHANGED <<queue, left, run, port>>
    BY <1>2 DEF Round, Initialize, Ready, Runnable, Start, Arm, Rate, Sleep, TimeOut, Compare,
                chan_vars, msg_vars, node_vars
  <2>2. /\ at'[n].hb \in Early => at[n].hb \in Early
        /\ \A m \in Nodes : m # n => at'[m] = at[m]
    BY <1>0, <1>2 DEF Round, Initialize, Ready, Runnable, Start, Arm, Rate, Sleep, TimeOut, Compare,
                      Goto, At, AfterRun, Early, Places
  <2> QED
    BY <1>1, <2>1, <2>2
<1>3. ASSUME NEW n \in Nodes, Resync(n) PROVE QueueOK'
  <2>1. UNCHANGED <<run, port>> /\ at[n].hb = "resync" /\ left[n] = 0
    BY <1>3 DEF Resync, node_vars, At, QueueOK, Early
  <2>2. CASE UNCHANGED queue
    <3>1. Len(queue[n]) \in Nat /\ queue[n] \in Seq(Messages)
      BY <1>0
    <3>2. ~(endpoint[n] = "OPEN" /\ OtherRun(n))
      BY <1>0, <1>3, <2>2, HeadTail DEF Resync, OtherRun
    <3>3. /\ left' = [left EXCEPT ![n] = IF endpoint[n] = "OPEN" THEN Len(queue[n]) ELSE 0]
          /\ at' = [at EXCEPT ![n]["hb"] = IF endpoint[n] = "OPEN" THEN "ready" ELSE "runnable"]
      BY <1>3, <3>2 DEF Resync, Goto
    <3>4. NoOlder(queue[n], 0, run[n])
      BY DEF NoOlder
    <3>5. endpoint[n] = "OPEN" => NoOlder(queue[n], Len(queue[n]), run[n])
      <4>1. endpoint[n] = "OPEN" => (queue[n] # <<>> => Head(queue[n]).run = run[n])
        BY <3>2 DEF OtherRun
      <4>2. Growing(queue[n], run[Peer(n)]) /\ run[n] \in Nat
        BY <1>0 DEF QueueOK
      <4> QED
        BY <3>1, <4>1, <4>2, NoOlderHead
    <3>6. left'[n] <= Len(queue[n]) /\ NoOlder(queue[n], left'[n], run[n])
      BY <1>0, <3>1, <3>3, <3>4, <3>5
    <3>7. at'[n].hb \notin Early /\ \A m \in Nodes : m # n => at'[m] = at[m] /\ left'[m] = left[m]
      BY <1>0, <3>3 DEF Early, Places
    <3> QED
      BY <2>1, <2>2, <3>6, <3>7 DEF QueueOK, S32v
  <2>3. CASE queue' = [queue EXCEPT ![n] = Tail(queue[n])] /\ queue[n] # <<>> /\ UNCHANGED <<at, left>>
    <3>1. queue[n] \in Seq(Messages) /\ Tail(queue[n]) \in Seq(Messages)
      BY <1>0, <2>3, HeadTail
    <3>2. Growing(Tail(queue[n]), run[Peer(n)])
      BY <2>3, <3>1, GrowingTail DEF QueueOK
    <3>3. NoOlder(Tail(queue[n]), 0, run[n])
      BY DEF NoOlder
    <3>4. queue'[n] = Tail(queue[n]) /\ \A m \in Nodes : m # n => queue'[m] = queue[m]
      BY <1>0, <2>3
    <3> QED
      BY <2>1, <2>3, <3>1, <3>2, <3>3, <3>4 DEF QueueOK, S32v
  <2> QED
    BY <1>3, <2>2, <2>3 DEF Resync, OtherRun
<1>4. ASSUME NEW n \in Nodes, Push(n), UNCHANGED <<left, run, port>> PROVE QueueOK'
  <2> DEFINE p == Peer(n)
             m == [run |-> run[n], val |-> val[n]]
  <2>1. p \in Nodes /\ Peer(p) = n /\ p # n
    BY DEF Peer, Nodes
  <2>2. m \in Messages /\ m.run = run[n] /\ run[n] \in Nat
    BY <1>0 DEF Messages, Kinds
  <2>3. /\ UNCHANGED <<left, run, port>> /\ queue' = [queue EXCEPT ![p] = Append(queue[p], m)]
    BY <1>4 DEF Push
  <2>4. /\ at'[n].hb \notin Early
        /\ \A k \in Nodes : k # n => at'[k] = at[k]
    BY <1>0, <1>4 DEF Push, Goto, AfterRun, Early, Places
  <2>5. queue[p] \in Seq(Messages) /\ Growing(queue[p], run[n]) /\ left[p] \in Nat /\ left[p] <= Len(queue[p])
    BY <1>0, <2>1 DEF QueueOK
  <2> HIDE DEF m, p
  <2>6. Growing(Append(queue[p], m), run[n])
    BY <2>2, <2>5, GrowingAppend
  <2>7. S32v => NoOlder(Append(queue[p], m), left[p], run[p])
    BY <2>1, <2>2, <2>5, NoOlderAppend DEF QueueOK
  <2>8. Len(Append(queue[p], m)) = Len(queue[p]) + 1
    BY <2>2, <2>5
  <2>9. left[p] <= Len(Append(queue[p], m))
    BY <2>5, <2>8
  <2>10. queue'[p] = Append(queue[p], m) /\ \A k \in Nodes : k # p => queue'[k] = queue[k]
    BY <1>0, <2>1, <2>3
  <2> QED
    BY <2>1, <2>3, <2>4, <2>6, <2>7, <2>9, <2>10 DEF QueueOK, S32v
<1>5. ASSUME NEW n \in Nodes, Take(n), UNCHANGED <<run, port>> PROVE QueueOK'
  <2>1. /\ queue[n] \in Seq(Messages) /\ queue[n] # <<>> /\ left[n] \in Nat /\ left[n] <= Len(queue[n])
        /\ Growing(queue[n], run[Peer(n)])
    BY <1>0, <1>5 DEF Take, QueueOK
  <2>2. Growing(Tail(queue[n]), run[Peer(n)])
    BY <2>1, GrowingTail
  <2> DEFINE k == IF left[n] > 0 THEN left[n] - 1 ELSE 0
  <2>3. k <= Len(Tail(queue[n]))
    <3>1. Len(queue[n]) \in Nat \ {0} /\ Len(Tail(queue[n])) = Len(queue[n]) - 1
      BY <2>1, HeadTail
    <3> QED
      BY <2>1, <3>1
  <2>4. S32v => NoOlder(Tail(queue[n]), k, run[n])
    <3>1. CASE left[n] = 0
      BY <3>1 DEF NoOlder
    <3>2. CASE left[n] # 0
      <4>1. left[n] \in Nat \ {0} /\ k = left[n] - 1
        BY <2>1, <3>2
      <4>2. S32v => NoOlder(queue[n], left[n], run[n])
        BY DEF QueueOK
      <4> HIDE DEF k
      <4> QED
        BY <2>1, <4>1, <4>2, NoOlderTail
    <3> QED
      BY <3>1, <3>2
  <2>5. /\ queue'[n] = Tail(queue[n]) /\ left'[n] = k /\ at'[n].hb = "compare"
        /\ \A m \in Nodes : m # n => queue'[m] = queue[m] /\ left'[m] = left[m] /\ at'[m] = at[m]
    BY <1>0, <1>5 DEF Take, Goto, Places
  <2> HIDE DEF k
  <2> QED
    BY <1>5, <2>2, <2>3, <2>4, <2>5 DEF QueueOK, S32v, Early
<1>6. ASSUME NEW n \in Nodes, Send(n) \/ Recv(n) \/ Woken(n) PROVE QueueOK'
  <2>1. UNCHANGED <<run, port>>
    BY <1>6 DEF Send, Recv, Woken, node_vars
  <2>2. CASE Take(n)
    BY <1>5, <2>1, <2>2
  <2>3. CASE Push(n) /\ UNCHANGED left
    BY <1>4, <2>1, <2>3
  <2>4. CASE ~Take(n) /\ ~(Push(n) /\ UNCHANGED left)
    <3>1. UNCHANGED <<queue, left>>
      BY <1>6, <2>4 DEF Send, Recv, Woken, chan_vars
    <3>2. /\ at'[n].hb \in Early => at[n].hb \in Early
          /\ \A m \in Nodes : m # n => at'[m] = at[m]
      BY <1>0, <1>6, <2>4 DEF Send, Recv, Woken, Enter, Goto, AfterRun, Early, Places
    <3> QED
      BY <1>1, <2>1, <3>1, <3>2
  <2> QED
    BY <2>2, <2>3, <2>4
<1>7. ASSUME NEW n \in Nodes, NEW ok, Finished(n, "hb", ok), UNCHANGED <<queue, port>> PROVE QueueOK'
  <2>1. /\ run'[n] = run[n] + 1 /\ left'[n] = 0
        /\ \A m \in Nodes : m # n => run'[m] = run[m] /\ left'[m] = left[m] /\ at'[m] = at[m]
    BY <1>0, <1>7 DEF Finished, Goto
  <2>2. NoOlder(queue[n], 0, run'[n])
    BY DEF NoOlder
  <2>3. Peer(n) \in Nodes /\ Peer(n) # n /\ Peer(Peer(n)) = n /\ \A m \in Nodes : m \in {n, Peer(n)}
    BY DEF Peer, Nodes
  <2>4. Growing(queue[Peer(n)], run'[n])
    <3>1. Growing(queue[Peer(n)], run[n]) /\ run[n] \in Nat /\ queue[Peer(n)] \in Seq(Messages)
      BY <1>0, <2>3 DEF QueueOK
    <3>2. run'[n] \in Nat /\ run[n] <= run'[n]
      BY <2>1, <3>1
    <3> QED
      BY <3>1, <3>2, GrowingLater
  <2>5. 0 <= Len(queue[n])
    BY <1>0
  <2> QED
    BY <1>7, <2>1, <2>2, <2>3, <2>4, <2>5 DEF QueueOK, S32v
<1>8. ASSUME NEW n \in Nodes, FinalizeCheck(n, "hb") \/ FinalizeSet(n, "hb") \/ FinalizeClose(n, "hb")
      PROVE  QueueOK'
  <2>1. UNCHANGED <<queue, port>>
    BY <1>8 DEF FinalizeCheck, FinalizeSet, FinalizeClose, chan_vars, node_vars
  <2>2. CASE \E ok \in BOOLEAN : Finished(n, "hb", ok)
    BY <1>7, <2>1, <2>2
  <2>3. CASE ~\E ok \in BOOLEAN : Finished(n, "hb", ok)
    <3>1. UNCHANGED <<run, left>>
      BY <1>8, <2>3 DEF FinalizeCheck, FinalizeSet, FinalizeClose
    <3>2. /\ at'[n].hb \notin Early
          /\ \A m \in Nodes : m # n => at'[m] = at[m]
      <4>1. \E place \in {"oops", "set", "close"} : Goto(n, "hb", place)
        BY <1>8, <2>3 DEF FinalizeCheck, FinalizeSet, FinalizeClose
      <4> QED
        BY <1>0, <4>1 DEF Goto, Early, Places
    <3> QED
      BY <1>1, <2>1, <3>1, <3>2
  <2> QED
    BY <2>2, <2>3
<1>9. ASSUME NEW n \in Nodes, \/ FinalizeCheck(n, "stop") \/ FinalizeSet(n, "stop") \/ FinalizeClose(n, "stop")
                              \/ Stop(n) \/ StopNode(n) \/ StopConfig(n) \/ Handler(n)
      PROVE  QueueOK'
  <2>1. UNCHANGED <<queue, left, run, port>>
    BY <1>9 DEF FinalizeCheck, FinalizeSet, FinalizeClose, Finished, Stop, StopNode, StopConfig, Handler,
                chan_vars, node_vars, msg_vars
  <2>2. \A m \in Nodes : at'[m].hb = at[m].hb
    <3>1. UNCHANGED at \/ \E place \in StopPlaces \union {"oops"} : Goto(n, "stop", place)
      BY <1>9 DEF FinalizeCheck, FinalizeSet, FinalizeClose, Finished, Stop, StopNode, StopConfig, Handler,
                  StopPlaces
    <3>2. CASE UNCHANGED at
      BY <3>2
    <3>3. ASSUME NEW place \in StopPlaces \union {"oops"}, Goto(n, "stop", place)
          PROVE  \A m \in Nodes : at'[m].hb = at[m].hb
      BY <1>0, <3>3 DEF Goto, Places
    <3> QED
      BY <3>1, <3>2, <3>3
  <2> QED
    BY <1>1, <2>1, <2>2
<1>10. CASE UNCHANGED vars
  BY <1>1, <1>10 DEF vars, node_vars, chan_vars, msg_vars
<1> QED
  BY <1>2, <1>3, <1>6, <1>8, <1>9, <1>10 DEF Next, Thread, Finalize, Stopper, Tasks

\* Nothing takes back that something has timed out or ended.
LEMMA DisturbedStays == Kinds /\ [Next]_vars /\ disturbed => disturbed'
<1> SUFFICES ASSUME Kinds, [Next]_vars, disturbed PROVE disturbed'
  OBVIOUS
<1>1. ASSUME NEW n \in Nodes, Thread(n) PROVE disturbed'
  BY <1>1 DEF Thread, Round, Initialize, Resync, Ready, Runnable, Start, Arm, Rate, Send, Recv, Sleep,
              Woken, TimeOut, Compare
<1>2. ASSUME NEW n \in Nodes, Stopper(n) \/ Handler(n) PROVE disturbed'
  BY <1>2 DEF Stopper, Stop, StopNode, StopConfig, Handler
<1>3. ASSUME NEW n \in Nodes, NEW t \in Tasks, Finalize(n, t) PROVE disturbed'
  BY <1>3 DEF Finalize, FinalizeCheck, FinalizeSet, FinalizeClose
<1>4. CASE UNCHANGED vars
  BY <1>4 DEF vars
<1> QED
  BY <1>1, <1>2, <1>3, <1>4 DEF Next

\* While nothing has timed out or ended, a send takes the number on to the peer
\* and a receive takes the number that is expected.
LEMMA NumbersOKStep == HeartbeatInv /\ [Next]_vars => NumbersOK'
<1> SUFFICES ASSUME Kinds, NumbersOK, [Next]_vars, ~disturbed' PROVE FirstRun' /\ Numbers'
  BY DEF HeartbeatInv, NumbersOK
<1>0. ~disturbed
  BY DisturbedStays
<1> USE HeartbeatAssumption, <1>0 DEF Nodes, Peer, Tasks, At, Goto, node_vars, chan_vars, msg_vars, stop_vars,
      Kinds, NumbersOK, Numbers, Places, HbPlaces, StopPlaces, FirstRun, Before, Between, Initialized, Beating, Sends, Expects, Mine
<1>t. ASSUME NEW n \in Nodes, Take(n), at[n].hb \in {"recv", "wait"},
             UNCHANGED <<run, node, config, endpoint, val, state>>
      PROVE  FirstRun' /\ Numbers'
  <2> DEFINE p == Peer(n)
  <2>1. p \in Nodes /\ p # n /\ Peer(p) = n /\ run[n] = 1
    OBVIOUS
  <2>2. queue[n] # <<>> /\ queue[n] \in Seq(Messages) /\ Chain(queue[n], val[n], Sends(p))
    BY <1>t DEF Take
  <2>3. /\ Head(queue[n]).run = 1 /\ Head(queue[n]).val = val[n]
        /\ Chain(Tail(queue[n]), Succ(val[n]), Sends(p))
    BY <2>2, ChainTail
  <2>4. /\ rcv'[n] = Head(queue[n]) /\ queue'[n] = Tail(queue[n]) /\ at' = [at EXCEPT ![n]["hb"] = "compare"]
        /\ rcv'[p] = rcv[p] /\ queue'[p] = queue[p]
    BY <1>t, <2>1 DEF Take
  <2>5. at'[n].hb = "compare" /\ at'[n].stop = at[n].stop /\ at'[p] = at[p]
    BY <2>1, <2>4
  <2>6. FirstRun'
    BY <1>t, <2>4
  <2>7. Chain(queue'[n], Expects(n)', Sends(p)') /\ Chain(queue'[p], Expects(p)', Sends(n)')
    BY <1>t, <2>1, <2>3, <2>4, <2>5
  <2>8. Mine(n)' /\ (At(p, "hb", "compare")' => Mine(p)')
    BY <1>t, <2>1, <2>3, <2>4, <2>5
  <2> QED
    BY <2>1, <2>6, <2>7, <2>8
<1>1. ASSUME NEW n \in Nodes, Round(n) PROVE FirstRun' /\ Numbers'
  BY <1>1 DEF Round
<1>2. ASSUME NEW n \in Nodes, Initialize(n) PROVE FirstRun' /\ Numbers'
  <2>1. at[n].hb = "initialize" /\ state[n] = "UNINIT" /\ endpoint[n] = "CLOSED" /\ node[n] = "INIT" /\ config[n]
    BY <1>2 DEF Initialize
  <2>2. /\ endpoint' = [endpoint EXCEPT ![n] = "OPEN"] /\ state' = state
        /\ \E place \in Between : at' = [at EXCEPT ![n]["hb"] = place]
        /\ UNCHANGED <<run, node, config, queue, val, rcv>>
    BY <1>2, <2>1 DEF Initialize, Accepted
  <2> QED
    BY <2>1, <2>2
<1>3. ASSUME NEW n \in Nodes, Resync(n) PROVE FirstRun' /\ Numbers'
  <2>1. at[n].hb = "resync" /\ UNCHANGED <<run, node, config, state, endpoint, val, rcv>>
    BY <1>3 DEF Resync
  <2>2. queue[n] \in Seq(Messages) /\ Chain(queue[n], Expects(n), Sends(Peer(n))) /\ run[n] = 1
    OBVIOUS
  <2>3. queue[n] # <<>> => Head(queue[n]).run = 1
    BY <2>2, ChainTail
  <2>4. ~OtherRun(n) /\ endpoint[n] = "OPEN"
    BY <2>1, <2>2, <2>3 DEF OtherRun
  <2>5. UNCHANGED queue /\ at' = [at EXCEPT ![n]["hb"] = "ready"]
    BY <1>3, <2>4 DEF Resync
  <2> QED
    BY <2>1, <2>5
<1>4. ASSUME NEW n \in Nodes, Ready(n) PROVE FirstRun' /\ Numbers'
  BY <1>4 DEF Ready, Set
<1>5. ASSUME NEW n \in Nodes, Runnable(n) PROVE FirstRun' /\ Numbers'
  BY <1>5 DEF Runnable, AfterRun, S32v
<1>6. ASSUME NEW n \in Nodes, Start(n) PROVE FirstRun' /\ Numbers'
  BY <1>6 DEF Start, Set
<1>7. ASSUME NEW n \in Nodes, Arm(n) PROVE FirstRun' /\ Numbers'
  BY <1>7 DEF Arm
<1>8. ASSUME NEW n \in Nodes, Rate(n) PROVE FirstRun' /\ Numbers'
  BY <1>8 DEF Rate, AfterRun, S32v, Running
<1>p. ASSUME NEW n \in Nodes, Push(n), at[n].hb \in {"send", "blocked"},
             UNCHANGED <<run, node, config, endpoint, val, state, rcv>>
      PROVE  FirstRun' /\ Numbers'
  <2> DEFINE p == Peer(n)
  <2>1. run[n] = 1 /\ val[n] \in Vals /\ state[n] = "RUNNING"
    BY <1>p
  <2>2. p \in Nodes /\ p # n /\ Peer(p) = n
    OBVIOUS
  <2>3. /\ queue' = [queue EXCEPT ![p] = Append(queue[p], [run |-> 1, val |-> val[n]])]
        /\ at' = [at EXCEPT ![n]["hb"] = "recv"]
        /\ UNCHANGED <<run, node, config, state, endpoint, val, rcv>>
    BY <1>p, <2>1 DEF Push, Running
  <2>4. Chain(queue[p], Expects(p), val[n])
    BY <1>p, <2>1, <2>2
  <2>5. Chain(Append(queue[p], [run |-> 1, val |-> val[n]]), Expects(p), Succ(val[n]))
    BY <2>1, <2>2, <2>4, ChainAppend
  <2>6. /\ at'[n].hb = "recv" /\ at'[n].stop = at[n].stop /\ at'[p] = at[p]
        /\ queue'[p] = Append(queue[p], [run |-> 1, val |-> val[n]]) /\ queue'[n] = queue[n]
    BY <2>2, <2>3
  <2>7. FirstRun'
    BY <1>p, <2>1, <2>3
  <2>8. Chain(queue'[p], Expects(p)', Sends(n)') /\ Chain(queue'[n], Expects(n)', Sends(p)')
    BY <1>p, <2>1, <2>2, <2>3, <2>5, <2>6
  <2>9. \A m \in Nodes : m = n \/ m = p
    OBVIOUS
  <2>10. (At(n, "hb", "compare")' => Mine(n)') /\ (At(p, "hb", "compare")' => Mine(p)')
    BY <2>2, <2>3, <2>6
  <2> HIDE DEF Expects, Sends, Mine, At, p
  <2> QED
    BY <2>2, <2>7, <2>8, <2>9, <2>10
<1>9. ASSUME NEW n \in Nodes, Send(n) PROVE FirstRun' /\ Numbers'
  <2>1. endpoint[n] = "OPEN" /\ at[n].hb = "send"
    BY <1>9 DEF Send
  <2>2. UNCHANGED <<run, node, config, endpoint, val, state, rcv>>
    BY <1>9, <2>1 DEF Send
  <2>3. CASE Push(n)
    BY <1>p, <2>1, <2>2, <2>3
  <2>4. CASE ~Push(n)
    <3>1. at' = [at EXCEPT ![n]["hb"] = "blocked"] /\ UNCHANGED queue
      BY <1>9, <2>1, <2>4 DEF Send, Enter
    <3> QED
      BY <2>1, <2>2, <3>1
  <2> QED
    BY <2>3, <2>4
<1>10. ASSUME NEW n \in Nodes, Sleep(n) PROVE FirstRun' /\ Numbers'
  BY <1>10 DEF Sleep
<1>11. ASSUME NEW n \in Nodes, Recv(n) PROVE FirstRun' /\ Numbers'
  <2>1. endpoint[n] = "OPEN" /\ at[n].hb = "recv"
    BY <1>11 DEF Recv
  <2>2. UNCHANGED <<run, node, config, endpoint, val, state>>
    BY <1>11, <2>1 DEF Recv
  <2>3. CASE Take(n)
    BY <1>t, <2>1, <2>2, <2>3
  <2>4. CASE ~Take(n)
    <3>1. at' = [at EXCEPT ![n]["hb"] = "wait"] /\ UNCHANGED <<queue, rcv>>
      BY <1>11, <2>1, <2>4 DEF Recv, Enter
    <3> QED
      BY <2>1, <2>2, <3>1
  <2> QED
    BY <2>3, <2>4
<1>12. ASSUME NEW n \in Nodes, Woken(n) PROVE FirstRun' /\ Numbers'
  <2>1. node[n] = "INIT" /\ at[n].hb \in {"blocked", "wait"} /\ UNCHANGED <<run, node, config, endpoint, val, state>>
    BY <1>12 DEF Woken, Waiting
  <2>2. CASE Take(n) /\ at[n].hb = "wait"
    BY <1>t, <2>1, <2>2
  <2>3. CASE Push(n) /\ at[n].hb = "blocked" /\ UNCHANGED rcv
    BY <1>p, <2>1, <2>3
  <2>4. CASE ~(Take(n) /\ at[n].hb = "wait") /\ ~(Push(n) /\ at[n].hb = "blocked" /\ UNCHANGED rcv)
    <3>1. UNCHANGED <<queue, rcv, at>>
      BY <1>12, <2>1, <2>4 DEF Woken
    <3> QED
      BY <2>1, <3>1
  <2> QED
    BY <2>2, <2>3, <2>4
<1>13. ASSUME NEW n \in Nodes, TimeOut(n) PROVE FirstRun' /\ Numbers'
  BY <1>13 DEF TimeOut
<1>14. ASSUME NEW n \in Nodes, Compare(n) PROVE FirstRun' /\ Numbers'
  <2>1. state[n] = "RUNNING" /\ Mine(n) /\ at[n].hb = "compare"
    BY <1>14 DEF Compare
  <2>2. /\ val' = [val EXCEPT ![n] = Succ(val[n])] /\ at' = [at EXCEPT ![n]["hb"] = "rate"]
        /\ UNCHANGED <<run, node, config, endpoint, queue, state>> /\ rcv' = [rcv EXCEPT ![n] = NoMsg]
    BY <1>14, <2>1 DEF Compare, Running, Succ
  <2>3. Expects(n)' = Expects(n) /\ Sends(n)' = Sends(n)
    BY <2>1, <2>2
  <2>4. Expects(Peer(n))' = Expects(Peer(n)) /\ Sends(Peer(n))' = Sends(Peer(n))
    BY <2>2
  <2>5. FirstRun'
    BY <2>1, <2>2
  <2> HIDE DEF Expects, Sends
  <2> QED
    BY <2>2, <2>3, <2>4, <2>5
<1>15. ASSUME NEW n \in Nodes, FinalizeCheck(n, "hb") PROVE FirstRun' /\ Numbers'
  BY <1>15 DEF FinalizeCheck, Finished
<1>16. ASSUME NEW n \in Nodes, FinalizeCheck(n, "stop") PROVE FirstRun' /\ Numbers'
  BY <1>16 DEF FinalizeCheck, Finished
<1>17. ASSUME NEW n \in Nodes, FinalizeSet(n, "hb") PROVE FirstRun' /\ Numbers'
  BY <1>17 DEF FinalizeSet, Finished, Cancels, CancelAlarm, CancelFails, Fail, Set, S32v
<1>18. ASSUME NEW n \in Nodes, FinalizeSet(n, "stop") PROVE FirstRun' /\ Numbers'
  BY <1>18 DEF FinalizeSet, Finished, Cancels, CancelAlarm, CancelFails, Fail, Set, S32v
<1>19. ASSUME NEW n \in Nodes, FinalizeClose(n, "hb") PROVE FirstRun' /\ Numbers'
  BY <1>19 DEF FinalizeClose, Finished, Fail, Set
<1>20. ASSUME NEW n \in Nodes, FinalizeClose(n, "stop") PROVE FirstRun' /\ Numbers'
  BY <1>20 DEF FinalizeClose, Finished, Fail, Set
<1>21. ASSUME NEW n \in Nodes, Stop(n) PROVE FirstRun' /\ Numbers'
  BY <1>21 DEF Stop, S32v
<1>22. ASSUME NEW n \in Nodes, StopNode(n) PROVE FirstRun' /\ Numbers'
  BY <1>22 DEF StopNode
<1>23. ASSUME NEW n \in Nodes, StopConfig(n) PROVE FirstRun' /\ Numbers'
  BY <1>23 DEF StopConfig
<1>24. ASSUME NEW n \in Nodes, Handler(n) PROVE FirstRun' /\ Numbers'
  BY <1>24 DEF Handler
<1>25. CASE UNCHANGED vars
  BY <1>25 DEF vars
<1> HIDE DEF Nodes, Peer, At, Goto, node_vars, chan_vars, msg_vars, stop_vars, Kinds, NumbersOK, Numbers, Places,
      HbPlaces, StopPlaces, FirstRun, Before, Between, Initialized, Beating, Sends, Expects, Mine
<1>26. ASSUME NEW n \in Nodes, NEW t \in {"hb", "stop"}, Finalize(n, t) PROVE FirstRun' /\ Numbers'
  BY <1>15, <1>16, <1>17, <1>18, <1>19, <1>20, <1>26 DEF Finalize
<1>27. ASSUME NEW n \in Nodes, Thread(n) PROVE FirstRun' /\ Numbers'
  BY <1>1, <1>2, <1>3, <1>4, <1>5, <1>6, <1>7, <1>8, <1>9, <1>10, <1>11, <1>12, <1>13, <1>14, <1>27 DEF Thread
<1>28. ASSUME NEW n \in Nodes, Stopper(n) PROVE FirstRun' /\ Numbers'
  BY <1>21, <1>22, <1>23, <1>28 DEF Stopper
<1> QED
  BY <1>24, <1>25, <1>26, <1>27, <1>28 DEF Next, Tasks

-----------------------------------------------------------------------------
(***************************************************************************)
(* The theorems.                                                           *)
(***************************************************************************)
\* The invariant holds at the start, and in every reachable state.
LEMMA InitHeartbeatInv == Init => HeartbeatInv
<1> SUFFICES ASSUME Init PROVE HeartbeatInv
  OBVIOUS
<1> USE HeartbeatAssumption DEF Init, NoMsg
<1>1. Kinds
  <2>1. 0 \in Vals /\ [run |-> 0, val |-> 0] \in Messages /\ <<>> \in Seq(Messages) /\ 1 \in 1 .. MaxRuns + 1
    BY DEF Vals, Messages
  <2>2. [hb |-> "round", stop |-> "idle"] \in Places /\ "UNINIT" \in States
    BY DEF Places, HbPlaces, StopPlaces, States
  <2>3. crt \in [Nodes -> [Tasks -> States]]
    BY <2>2
  <2> QED
    BY <2>1, <2>2, <2>3 DEF Kinds
<1>2. RunsOK
  BY DEF RunsOK, Nodes, At
<1>3. StopOK
  BY DEF StopOK, Nodes, At, Stopped
<1>4. TimerOK
  BY DEF TimerOK, Nodes, At
<1>5. QueueOK
  BY DEF QueueOK, Nodes, Peer, Growing, NoOlder
<1>6. NumbersOK
  BY DEF NumbersOK, FirstRun, Numbers, Chain, Expects, Sends, Nodes, Peer, At, Before
<1> QED
  BY <1>1, <1>2, <1>3, <1>4, <1>5, <1>6 DEF HeartbeatInv

LEMMA HeartbeatInvariant == Spec => []HeartbeatInv
<1>1. HeartbeatInv /\ [Next]_vars => HeartbeatInv'
  BY KindsStep, RunsOKStep, StopOKStep, TimerOKStep, QueueOKStep, NumbersOKStep DEF HeartbeatInv
<1> QED
  BY <1>1, InitHeartbeatInv, PTL DEF Spec

\* The values of the variables in every reachable state, for every capacity of
\* the FIFOs, range of numbers, bound on the runs and choice of the nodes whose
\* sample is stopped.
THEOREM HeartbeatTypeCorrect == Spec => []TypeOK
<1>1. HeartbeatInv => TypeOK
  BY DEF HeartbeatInv, Kinds, RunsOK, TypeOK, States, Messages, Vals, Nodes
<1> QED
  BY <1>1, HeartbeatInvariant, PTL

\* ICC_Heartbeat_Runnable never goes to ERROR for a wrong number or a wrong run
\* while no call has timed out and no heartbeat has ended: each node takes the
\* numbers in the order its peer sent them, whatever the tasks' interleaving.
THEOREM NoFalseAlarmRaised == Spec => []NoFalseAlarm
<1>1. HeartbeatInv => NoFalseAlarm
  BY DEF HeartbeatInv, NumbersOK, Numbers, NoFalseAlarm
<1> QED
  BY <1>1, HeartbeatInvariant, PTL

\* The loop of ICC_Heartbeat_Initialize that drops the messages of other runs
\* leaves none of an older one for ICC_Heartbeat_Runnable to take.
THEOREM OldRunsAreDropped == Spec => []OldRunsDropped
<1>1. HeartbeatInv => OldRunsDropped
  BY DEF HeartbeatInv, QueueOK, NoOlder, OldRunsDropped, Early, At, Nodes
<1> QED
  BY <1>1, HeartbeatInvariant, PTL

\* In the port for S32V234 ICC_Heartbeat_Finalize leaves no rate alarm behind,
\* however the run ended, unless Stop_ICC_Sample met it at work.
THEOREM TimerNeverOutlives == Spec => []TimerCancelled
<1>1. HeartbeatInv => TimerCancelled
  BY DEF HeartbeatInv, TimerOK, Armed, TimerCancelled, At, Nodes
<1> QED
  BY <1>1, HeartbeatInvariant, PTL
=============================================================================
