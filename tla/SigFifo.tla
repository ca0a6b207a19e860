------------------------------ MODULE SigFifo ------------------------------
(***************************************************************************)
(* A signal queue (ICC_Sig_Fifo.c): the state changes of a channel or of a *)
(* node, queued by the API calls of one core and dequeued by the event     *)
(* handler of the other.  No lock protects it: the writer stores tail and  *)
(* the reader stores head.  When the queue is full the writer overwrites   *)
(* the slot at head and makes it the only one.                             *)
(*                                                                         *)
(* A signal is known by its number in the order of signalling.  One action *)
(* is one load or store of an index or of a slot; they take effect in      *)
(* program order.                                                          *)
(***************************************************************************)
EXTENDS SigQueue

CONSTANT SignalBound  \* bound: how many signals are queued

ASSUME SignalsAssumption ==
  MaxSignals \in Nat \ {0, 1} /\ SignalBound \in Nat

writerVars == <<tail, slots, wpc, wtail, count, fullAt>>
readerVars == <<head, rpc, rsig, delivered>>
vars == <<head, tail, slots, wpc, wtail, rpc, rsig, count, fullAt, delivered,
          raced>>

NoSignal == 0

After(slot) == IF slot = MaxSignals - 1 THEN 0 ELSE slot + 1

\* A mutant of Full: the wrap of tail is forgotten.
Full_IgnoresWrap == tail + 1 = head

Full == (tail + 1) % MaxSignals = head
Empty == head = tail

\* ICC_Sig_Fifo_Init, before the queue is announced to the other core.
Init ==
  /\ head = 0 /\ tail = 0 /\ slots = [i \in Slots |-> NoSignal]
  /\ wpc = "idle" /\ wtail = 0
  /\ rpc = "idle" /\ rsig = NoSignal
  /\ count = 0 /\ fullAt = 0 /\ delivered = <<>> /\ raced = FALSE
-----------------------------------------------------------------------------
(***************************************************************************)
(* ICC_Sig_Fifo_Signal.                                                    *)
(***************************************************************************)
SignalCheck ==
  /\ wpc = "idle" /\ count < SignalBound
  /\ count' = count + 1
  /\ \/ /\ ~Full
        /\ wtail' = tail
        /\ wpc' = "store"
        /\ UNCHANGED <<fullAt, raced>>
     \/ /\ Full
        /\ wpc' = "overwrite"
        /\ fullAt' = count + 1 /\ raced' = (raced \/ rpc # "idle")
        /\ UNCHANGED wtail
  /\ UNCHANGED <<tail, slots, readerVars>>

\* The queue was full: the slot at head is taken.
SignalOverwrite ==
  /\ wpc = "overwrite"
  /\ wtail' = head
  /\ wpc' = "store"
  /\ UNCHANGED <<tail, slots, count, fullAt, raced, readerVars>>

SignalStore ==
  /\ wpc = "store"
  /\ slots' = [slots EXCEPT ![wtail] = count]
  /\ wpc' = "advance"
  /\ UNCHANGED <<tail, wtail, count, fullAt, raced, readerVars>>

SignalAdvance ==
  /\ wpc = "advance"
  /\ tail' = After(wtail)
  /\ wpc' = "idle"
  /\ UNCHANGED <<slots, wtail, count, fullAt, raced, readerVars>>
-----------------------------------------------------------------------------
(***************************************************************************)
(* The loop of ICC_Remote_Event_Handler over one queue.  Between           *)
(* ICC_Sig_Fifo_Empty and the load of head only the writer runs, and the   *)
(* second check of ICC_Sig_Fifo_Dequeue_Signal decides.                    *)
(***************************************************************************)
OverflowUnderway == wpc # "idle" /\ fullAt = count

DequeueCheck ==
  /\ rpc = "idle" /\ ~Empty
  /\ rpc' = "load"
  /\ raced' = (raced \/ OverflowUnderway)
  /\ UNCHANGED <<head, rsig, delivered, writerVars>>

DequeueLoad ==
  /\ rpc = "load"
  /\ rsig' = slots[head]
  /\ rpc' = "advance"
  /\ UNCHANGED <<head, delivered, raced, writerVars>>

\* A mutant of DequeueAdvance: the handler skips to the newest signal.
DequeueAdvance_ToTail ==
  /\ rpc = "advance"
  /\ head' = tail
  /\ delivered' = Append(delivered, rsig)
  /\ rpc' = "idle"
  /\ UNCHANGED <<rsig, raced, writerVars>>

\* The slot is free again, and the call-back is called with the signal.
DequeueAdvance ==
  /\ rpc = "advance"
  /\ head' = After(head)
  /\ delivered' = Append(delivered, rsig)
  /\ rpc' = "idle"
  /\ UNCHANGED <<rsig, raced, writerVars>>
-----------------------------------------------------------------------------
Writer == SignalCheck \/ SignalOverwrite \/ SignalStore \/ SignalAdvance
Reader == DequeueCheck \/ DequeueLoad \/ DequeueAdvance

Next == Writer \/ Reader

\* A call that was begun runs on, and the handler runs while there are
\* signals: every ICC_Sig_Fifo_Signal is followed by ICC_Notify_Peer.
Fairness ==
  /\ WF_vars(SignalOverwrite \/ SignalStore \/ SignalAdvance)
  /\ WF_vars(Reader)

Spec == Init /\ [][Next]_vars
FairSpec == Spec /\ Fairness
-----------------------------------------------------------------------------
(***************************************************************************)
(* Properties.                                                             *)
(***************************************************************************)

\* The indexes stay in the queue, whatever the writer and the reader race for.
TypeOK ==
  /\ head \in Slots /\ tail \in Slots /\ slots \in [Slots -> 0 .. SignalBound]
  /\ wpc \in {"idle", "overwrite", "store", "advance"} /\ wtail \in Slots
  /\ rpc \in {"idle", "load", "advance"} /\ rsig \in 0 .. SignalBound
  /\ count \in 0 .. SignalBound /\ fullAt \in 0 .. count
  /\ delivered \in Seq(0 .. SignalBound) /\ raced \in BOOLEAN

\* What was queued behind the last overflow is delivered in the end.
RecentDelivered ==
  <>[](~raced /\ count = SignalBound => EndsRecent(delivered, SignalBound))
============================================================================
