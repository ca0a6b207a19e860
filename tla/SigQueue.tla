----------------------------- MODULE SigQueue ------------------------------
(***************************************************************************)
(* The state of a signal queue (ICC_Signal_Fifo_Ram_t), the signals that   *)
(* wait in it, and which of them an overflow must not lose.  SigFifo gives *)
(* the steps of its writer and its reader.                                 *)
(***************************************************************************)
EXTENDS Integers, Sequences

CONSTANT MaxSignals  \* ICC_CFG_MAX_SIGNALS

VARIABLES
  head, tail,  \* signal_queue_head, signal_queue_tail
  slots,       \* signals_received
  wpc, wtail,  \* ICC_Sig_Fifo_Signal: next step, its local tail
  rpc, rsig,   \* the handler and ICC_Sig_Fifo_Dequeue_Signal: *signal
  \* History: the number of signals begun, the last one that returned
  \* ICC_ERR_SQ_FULL, the signals handed to the call-backs, and whether the
  \* reader was ever at work during an overflow.
  count, fullAt, delivered, raced

Slots == 0 .. MaxSignals - 1

\* The queued signals, oldest first.
Length == (tail - head) % MaxSignals
Queue == [i \in 1 .. Length |-> slots[(head + i - 1) % MaxSignals]]

\* How many signals were queued: the last one while tail is not stored.
Queued == IF wpc = "idle" THEN count ELSE count - 1

\* How many of the signals up to `last' are behind the last overflow.
Recent(last) == IF last > fullAt THEN last - fullAt ELSE 0

\* A sequence of signals ends with all those behind the last overflow, up to
\* `last', each once and in the order of signalling; the others precede them.
EndsRecent(signals, last) ==
  LET older == Len(signals) - Recent(last) IN
  /\ older >= 0
  /\ \A i \in 1 .. Len(signals) :
       IF i <= older THEN signals[i] <= fullAt
                     ELSE signals[i] = fullAt + (i - older)

\* The signals behind the last ICC_ERR_SQ_FULL are all there: delivered first,
\* then still queued.  Without an overflow these are all signals.
RecentKept == ~raced => EndsRecent(delivered \o Queue, Queued)
============================================================================
