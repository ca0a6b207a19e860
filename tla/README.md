# Verification of the Inter-Core Communication library (icc-linux)

The repository holds NXP's Inter-Core Communication (ICC) library: two cores
(on the S32V234 a Cortex-A53 with Linux and a Cortex-M4 with an RTOS, or two
Linux systems over PCIe) exchange messages over channels in shared memory. This
directory holds TLA+ modules of its protocol code, TLC configurations that check
them on small instances, and proofs checked by TLAPS. Paths below are relative
to `src/release/iccs32v234/`, the current port, or, where they start with
`sac58r:`, to `src/release/iccsac58r/`, the older one. `PROJECT.json` holds, for
every definition, the lines of the source it stands for.

## 1. The system

| Part | Source | State | Operations |
| --- | --- | --- | --- |
| Message FIFO | `code/linux/src/ICC_Fifo.c`, `inc/ICC_Fifo.h` | `head`, `tail`, a ring of bytes, in shared memory | init, push and pop of header and payload, peek, pending, free, fits |
| Message transfer | `ICC_Api.c` (`ICC_Msg_Send`, `ICC_Msg_Recv`), `os/Linux/ICC_Os_Linux.c` | `pending_send_msg_size`, signal and acknowledge counters (shared); wait queue, event type, timeout, semaphore (per core) | send and receive with timeout zero, timed, infinite; wait, wake up, time out |
| Event handler | `ICC_Remote_Event_Handler` | none of its own | acknowledges signals, wakes tasks up, reports channel and node states |
| Notification | `sample/linux_app/ICC_module/ICC_Interrupts.c`, `ICC_Polling.c` | an interrupt line, or a word the peer polls, a poll thread, a terminate flag | notify, clear, handler start, terminate |
| Signal queues | `ICC_Sig_Fifo.c` | `head`, `tail`, slots | signal (with overflow), dequeue |
| Nodes and channels | `ICC_Api.c` (`ICC_Initialize`, `_Finalize`, `_Open_Channel`, `_Close_Channel`, `_Get_Channel_State`) | `ICC_Initialized`, `endpoint_state` (shared), `ICC_Config_Ptr` (per core) | the calls, and the reports to the peer |
| Queries | `ICC_Api.c` | none | free room, pending bytes, size of the next message, channel and node state |
| Heartbeat | `ICC_Heartbeat_*`, rate alarm, the samples' heartbeat thread | state, run id, number, alarm | initialize, run, finalize; compiled out in this release |
| Two Linux systems | `ICC_lib.c`, `ICC_Pcie.c`, `ICC_Polling.c`, `ICC_Relocate.h`, the sample | relocated configuration, outbound window, polled words | relocate, search, handshake, load and remove |
| Sample application | `ICC_Linux_Sample.c`, `ICC_Sample_dev.c` | kernel threads | start, stop, request and reply loop |
| Configuration | `sample/config` | tables | comparison at initialization |
| Older port | `sac58r:` | as above | as above, with other waits and another initialization |
| Platform | registers, caches, device tree | device registers | set-up |

**How the parts interact.** A sender checks that its message fits, pushes header
and payload into the FIFO, advances its signal counter and notifies the peer.
The peer's handler acknowledges the signal and wakes up a receiver; the receiver
checks that more than a header is pending, pops header and payload, advances
*its* counter and notifies back, upon which the sender's handler wakes up a
sender whose published size now fits. All of this runs without a lock across the
cores: each shared word has one writer. Tasks of one core share the wait queue
and a semaphore. Opening, closing, initializing and finalizing store a word,
read the peer's, and queue the combined state as a signal, which the peer's
handler hands to a call-back. With two Linux systems one of them, the end point,
owns the memory: it copies its configuration there, and the root complex finds
the copy by a magic value, takes its pointers and announces itself through the
word the end point polls.

**What is hard.** Two cores interleave between any two accesses; checks are made
before the semaphore is taken; an index is stored several times in one push; the
handler acknowledges an event before a task that should see it is asleep; the
wait's timeout is used up by its first round; a full signal queue is restarted
under its reader; two cores change and read each other's state at the same time;
each end can restart alone, with tasks inside a call; a heartbeat is ended by
another task; and two kernel modules on each of two systems come and go in any
order. `PROJECT.json` lists each of these at its line, with the properties about
it or the reason that there are none.

**What makes each part correct.**

- *FIFO*: no unread byte is overwritten; the indexes alone tell how much is
  pending; the reader is always at the start of a message; each message arrives
  whole, once, in order; an empty FIFO takes any message shorter than the ring;
  the room a sender was told of stays.
- *Transfer*: whoever passes its wait finds the room or the message; no
  notification and no wake-up is lost; a call that waits returns as long as the
  other side goes on; a timed call ends; the semaphore is given back.
- *Signal queue*: signals since the last overflow arrive once and in order.
- *Nodes and channels*: two cores that come up, or open their ends, at the same
  time do not both miss the other; the last report agrees with the truth.
- *Restarts*: nothing is received twice or out of order; the tasks of a node that
  is finalized return; a node that stays up is woken up.
- *Heartbeat*: no run fails over messages of another run; no alarm outlives it;
  a finalized node gets its heartbeat task back while another channel is open.
- *Two Linux systems*: pointers are followed only where they lead somewhere; each
  side reaches the other's word; no code is unmapped under a thread.

## 2. The modules

| Module | Models | Instances | Proofs |
| --- | --- | --- | --- |
| `FifoOps` | the index arithmetic of `ICC_Fifo.c`, as operators of the two indexes | | `FifoOps_proofs` |
| `FifoRing` | the variables of one FIFO and the history of what passed through it, for both views of it | | |
| `MsgQueue` | abstract: a first-in first-out queue of messages | | |
| `IccFifo` | one FIFO, one writer and one reader; a step is one store of `tail` for a payload, or one `ICC_FIFO_*` call; the queries | | |
| `IccFifoAligned` | `IccFifo` with the assumption on truncated receives | `MCIccFifo` | `IccFifo_proofs` |
| `FifoLoads` | the two calls under way on a FIFO, and what the values they loaded must still be worth | | |
| `IccFifoStores` | the same FIFO; a step is one load or store of an index | `MCIccFifoStores` | `IccFifo_proofs` |
| `MsgTransfer` | one direction of a channel with tasks, waits, handlers, notification | `MCMsgTransfer`, `MCMsgTransferLive`, `MCMsgTransferAlarm` | `MsgTransfer_proofs` |
| `NodeRestart` | one direction of a channel whose nodes finalize and initialize again under running calls | `MCNodeRestart`, `MCNodeRestartClosed` | `NodeRestart_proofs` |
| `Sac58rTransfer` | one direction of a channel of the older port, from the first initialization | `MCSac58rTransfer` | `Sac58rTransfer_proofs` |
| `SigQueue` | the variables of a signal queue, and what becomes of recent signals | | |
| `SigFifo` | one signal queue; a step is one load or store | `MCSigFifo` | `ChannelStates_proofs` |
| `ChannelStates` | two nodes and one channel: life cycle, signal queues that are emptied and read, interrupts | `MCChannelStates` | `ChannelStates_proofs` |
| `Heartbeat` | two heartbeats of either port, with the threads of the sample | `MCHeartbeat` | `Heartbeat_proofs` |
| `LinuxPair` | two Linux systems over PCIe: relocation, search, handshake, poll threads, data threads | `MCLinuxPair` | `LinuxPair_proofs` |

`FifoRing`, `FifoLoads` and `SigQueue` hold the state and the properties that
the proofs share with the machines: `IccFifo` and, by way of `FifoLoads`,
`IccFifoStores` extend `FifoRing`, and `SigFifo` extends `SigQueue`. A proof
module takes the state from there and the machine by `INSTANCE`.

`IccFifo`, `IccFifoStores`, `MsgTransfer`, `NodeRestart` and `Sac58rTransfer` all
extend `FifoOps`, so the views of the FIFO compute with the same arithmetic.
`IccFifo` has the stores of `tail` in a push apart, so that its reader runs
between the pieces of a torn payload and between a payload and its padding; the
first theorems of section 5 are about that. It shows that `MsgTransfer` may treat
an `ICC_FIFO_*` call as one action on a list of sizes, as long as no receive
begins between the stores of the message it would get. `IccFifoStores` has headers
and pops apart as well, and each load, for sizes without padding. `ChannelStates`
and `SigFifo` share out the signal queues: in `ChannelStates` a queue is the ring
itself, emptied by two stores and read in three steps, and a signal is one step;
in `SigFifo` one queue, never emptied, overflows store by store. `MsgTransfer`
takes a wait apart into its steps; `NodeRestart` and `Sac58rTransfer` put some of
them together again and add the life cycle around them; `LinuxPair` and
`Heartbeat` stand on top and treat a call as one step, or as one before and one
after its wait.

**From code to model.** An action is named for the call or the step of the call
it models. The common abstractions:

- *Bytes.* In `IccFifo` a byte is `<<n, i>>`, byte `i` of message `n`; header
  fields other than the payload's size are not modelled. In `NodeRestart` the
  ring holds, by index, the message an index belongs to, because an index can
  be set back under a reader. Elsewhere the FIFO is its two indexes and the
  sizes of the messages, or a count.
- *Memory.* The Linux side maps the shared memory uncached
  (`ioremap_nocache`, `ICC_lib.c:111`); loads and stores are taken to take
  effect in program order. No cache maintenance and no reordering by the
  processor is modelled. `IccFifoStores` loads an index once per function, as a
  build that keeps it in a register does; `head` and `tail` are not volatile, so
  that another build may load them twice.
- *Arguments.* Calls with a bad channel, a null pointer or a message larger than
  the FIFO return before they touch shared state and are left out.
- *Counters.* In `MsgTransfer` the signal counters are unbounded: only their
  equality is used, and they never differ by more than the messages in the
  FIFO. A restart sets one of them back, so `NodeRestart` and `Sac58rTransfer`
  count modulo `CounterRange`, a word of the code made small.
- *Buffers.* `IccFifoStores` receives into a buffer that takes every message;
  `IccFifo` has truncated receives and peeks.

In `IccFifo` `Push`, `PushRest` and `PushPadding` are the up to three stores of
`tail` in one `ICC_FIFO_Push`; `written` counts the bytes stored so far. Two more
of the code's stores are not apart there: a header's (`ICC_Fifo.c:179`), because a
receive begins only when *more* than a header is pending, and those of `head` in a
pop, which only make room, bit by bit, for the writer.

`MsgTransfer` keeps every place in `ICC_OS_Wait_Event` where the code can be
overtaken: entry into the queue, evaluation of the condition (which also reads
the FIFO), sleep, wake-up, timer. The handler's loop over channels is one scan,
since there is one channel; its acknowledge is a step of its own. `Terminate` is
`shmem_poll_exit`, which releases a task that is waiting for the polled word.

`ICC_Initialize` empties its core's two signal queues under a peer that may be
anywhere in its handler: `EmptyChannelHead` to `EmptyNodeTail` in `ChannelStates`
are the stores of `ICC_Sig_Fifo.c:86`-`87`, and `DequeueCheck`, `DequeueLoad` and
`DequeueStore` the peer's check of the queue, its load of `head` with the signal, and
its store of `head` (`:166`-`170`). The check's own two loads are one step: an
emptying between them gives what a check between the emptying's two stores gives.
A node that never ran is `"UNINIT"` or `"BLANK"`: the build
for two Linux systems gives the shared memory an initializer, the other one
finds it cleared, and zero is neither of the two states. On each core one task
makes the calls, as the sample does.

In `NodeRestart` each side has a life-cycle task, a task inside a call, and a
handler. `Finalize` is taken apart at each place where another core or task can
see a difference: the mark, the interrupts, the wake-ups, the close, and the end,
which frees the queue and clears `ICC_Config_Ptr`. `FifoInit` empties the writer's
FIFO by two stores, `EmptyHead` and `EmptyTail` (`ICC_Fifo.c:126`-`127`), and the
peer's receive runs in between; a push is one step there. `queue` holds *which
life* of the node allocated the wait queue a task sleeps on. `abandoned`, in the
record of a call, says that its end point was closed, or its node started again,
while it ran.

`Sac58rTransfer` starts before the first `ICC_Initialize`, since in the older
port the one that comes late empties both FIFOs. The words of the two nodes are
`"BLANK"` there, or `"UNINIT"` if the image that owns the memory gives them an
initializer: `ICC_Initialize` stores neither. `OsInitialize` may fail
(`sac58r:code/linux/os/Linux/ICC_Os_Linux.c:161`) and leaves the node with its
configuration and without `ICC_NODE_STATE_INIT`; `setup` says how far it came. With
no wait queue a wait whose condition does not hold, and the wake-up of
`ICC_Finalize`, follow a pointer that was never set, or whose queue was freed: the
kernel stops them there (`"oops"`). The reader has a callback and receives in the
handler, as the sample does, or it has none and calls `ICC_Msg_Recv`.

`Heartbeat` has both ports in one specification: the variable `port` is chosen in
`Init`. The channel is a sequence of pairs of run id and number in each
direction, and the steps of `ICC_Msg_Send` and `ICC_Msg_Recv` are those that can
make a run fail. A task that waits looks at its condition when it enters the wait,
when the wait queue was woken up (`woken`) and when its timer has run out, and
never else. All channels of a core share one wait queue
(`code/linux/os/Linux/ICC_Os_Linux.c:127`); `Shared` says whether another of them
is open, as all of the sample's are (`ICC_Linux_Sample.c:478`), so that
`ICC_Finalize`, which wakes up for open ends only, wakes up the heartbeat's task
too, whose own end is closed by then.
The rate alarm sets a flag behind a wait that ends by its own timeout; what
matters is whether it is still armed in the end.

In `LinuxPair` an address is the load of the end point's module that made it
valid. `block` is the configuration in shared memory, apart into `This_Ptr`,
which the search compares, and the pointers, which are relocated later. A node
that follows a wrong pointer goes `"astray"`: in the kernel that is an oops, and
the model stops that node there. A data thread's call is one step when it can be
served, and sleeps otherwise.

## 3. The runs

| Run | Question and answer |
| --- | --- |
| `MCIccFifo` | A ring of 14 bytes, messages of 6 and 10 on 2-byte boundaries, torn and padded, each store of `tail` in a payload's push apart; buffers that truncate, peeks, queries. All properties hold, and the FIFO implements `MsgQueue`, until a receive begins between the stores of its message. |
| `MCIccFifoStores` | The stores inside a push and a pop. Headers are torn by the end of the ring, payloads are not: all properties hold. |
| `MCMsgTransfer` | Timed calls and calls that do not wait, two sizes, peeks, termination, over the polled word: a receive that goes on has a message, and no wake-up is lost. |
| `MCMsgTransferLive` | Infinite waits over interrupts: a sender that goes on has room, no notification is lost and, under fairness, sends return and messages drain. |
| `MCMsgTransferAlarm` | A timed wait after a wake-up that did not serve it: **violated**, see findings. |
| `MCChannelStates` | Two nodes, one of them restarting, opening, closing and finalizing in any order, its signal queues emptied while the other reads them: the nodes, and the ends, do not both miss each other, and the last report is true, unless an emptying met a dequeue. |
| `MCSigFifo` | Signals behind the last overflow are kept and delivered, unless the overflow met the reader at work. |
| `MCNodeRestart` | Either node is finalized, comes back, closes and opens while the peer is inside a call: nothing is received twice or out of order unless `ICC_FIFO_Init` met a receive, a finalized node's tasks are released, and a wake-up is lost only over a coincidence of counters or with a notification that was cleared. |
| `MCNodeRestartClosed` | Does a pending call return when its node is finalized? **Violated** when the channel was closed first. |
| `MCSac58rTransfer` | The older port: when its wait misses an event, whether its callback can sleep in an interrupt, what a failed initialization leaves. |
| `MCHeartbeat` | Two heartbeats that start at any time, fail, start again; the sample of one node is stopped at any time. |
| `MCLinuxPair` | Modules of two systems loaded and removed in any order, with configurations that match or do not. |

Where a property names an exception (`early` in `IccFifo`, `disturbed` in
`ChannelStates`, `raced` in `SigFifo`, `masked`, `cleared`, `overrun` and `abandoned` in
`NodeRestart`, `late`, `erased` and `masked` in `Sac58rTransfer`, `raced` in
`Heartbeat`, `early`, `torn` and `erased` in `LinuxPair`), the exception is a
history variable that records the cause the code has, and section 4 says what
follows from it. None of them can be left out: each was found by TLC as a
counterexample to the property without it.

**Type invariants.** Each module states one, `TypeOK`. It is part of
`MCIccFifo`, where the proofs rest on it. The others hold for the constants of
the configurations too (add `TypeOK` to the `INVARIANTS` of a `.cfg`); the runs
keep to the properties that say more. Type correctness of each is a theorem
(section 5).

**Bounds.** A FIFO of 12 or 14 bytes with 4-byte headers holds one or two
messages: full, exactly full, empty, and every way of meeting the end of the
ring occur within five messages, since the positions repeat after seven messages
of 6 bytes (`MCIccFifoStores` sends eight). In `MsgTransfer` `MaxSends` is 2 or 3:
the first message fills the FIFO, the second waits, and the third finds the state
the second wait left. The signal queue has 3 slots (two usable) and 7 signals,
which overflow it twice with the reader at each of its steps. In
`MCChannelStates` core 1 lives twice and each core opens once; a third life
repeats the second. `QueueSlots` is 4, so that three signals wait (the code has 32
slots): no queue overflows within these lives, which with the emptying would
be `disturbed`. A node that may not start again is not finalized, since the
properties are about nodes that are up.

`PastEarly`, `PastDisturbance` and `PastOverrun` say whether a behaviour is followed
on after its exception has come about. The invariants claim nothing of it then,
and the properties about steps nothing of its steps, so the runs stop there
(`FALSE`); with `TRUE` the same properties hold in more states, and those without
the exception fail, which is how section 4 was found.

`MCNodeRestart`: the smallest FIFO that holds one message and has an index the
reader can be left at (3 bytes, header and message of 1), counters modulo 3 (0,
one ahead, one behind), two messages, three initializations by either side, and two
changes of a running node by either side, either two finalizes or a finalize and
one opening or closing of the channel (the constraint `FewChanges`).
`MCNodeRestartClosed` needs one message and one finalize. The three invariants
also hold in larger instances that take too long to be kept as runs (all three
changes; three messages in a ring of 4; alignment 2; three finalizes and four
initializations), and they are proved for all. `MCSac58rTransfer`: 12 bytes, one message of 1 padded to 8, so that the
second of three waits; three initializations are both first ones and a second
one of either side (or one that failed); counters modulo 3, the least that count
more signals than a full ring has messages. `MCHeartbeat`: two runs of each node, a
FIFO of two messages, numbers modulo 2, and node A's sample stopped; the other
node goes on, and a node that is stopped alone meets all that two would. `Shared`
is `TRUE`, as in the sample, which opens its other channels too.
`MCLinuxPair`: two loads of each ICC module and two starts of each sample, FIFOs
of two messages.

Deadlock is not checked: every run ends when its bound on calls is used up, and
some of the systems really stop (a task that sleeps for ever, a node that went
astray), which the properties describe.

**Fairness.**

- `MsgTransfer`: a task inside a call runs on and a notified handler runs (the
  kernel schedules threads and interrupts): weak fairness of each task's steps
  and each handler. The receiving application calls `ICC_Msg_Recv` again and
  again, as the loop of `ICC_Data_kthread` does: strong fairness of that call.
  Senders are not obliged to call.
- `SigFifo`: only the reader; the handler runs its dequeue loop to the end.
- `NodeRestart`: calls that were begun run on, a finalize to its end, and
  interrupts are served. Nobody has to call anything.
- `Heartbeat`: the tasks are scheduled and the timers expire; a task that sleeps
  without a timer goes on only when something wakes it up. Nothing is asked of the
  event handler, and whether the sample is stopped is open.
- `LinuxPair`: every kernel thread is scheduled, and the loop of
  `ICC_Wait_For_Peer` looks again and again. Nobody has to load or remove a
  module.

**Mutants.** For each property of a passing run `PROJECT.json` names a plausible
bug in one definition (`…_Early`, `…_HeaderOnly`, `…_IfNotWhile`, …) that makes
TLC find it violated.

## 4. Findings

Two runs end in a violation, each of what a comment in the source promises:

1. *Timed waits* (`ICC_Os_Linux.c:310`, run `MCMsgTransferAlarm`). The timeout is
   cleared when the first wait ends; a call that is woken up in vain waits on
   without a timer.
2. *Finalize after close* (`ICC_Api.c:479`, run `MCNodeRestartClosed`).
   `ICC_Finalize` wakes up the tasks of open end points only, and
   `ICC_Close_Channel` wakes nobody up: a call that waits when its channel is
   closed sleeps on, on a queue that is freed.

What else the models show, with the way to see it:

*FIFO and transfer.*

- *Truncated receive* (`ICC_Api.c:1258`). A receive into a short buffer pops the
  message in two parts, each padded on its own; the sum can differ from the
  padding of the message, and the next receive starts in the wrong place. To
  see it, extend `IccFifo` in place of `IccFifoAligned` and take a buffer size
  that violates `TruncationAssumption`: `AtBoundary` fails.
- *Torn and padded payloads* (`ICC_Fifo.c:361`, `:78`). When a payload meets the
  end of the ring, `tail = 0` is stored before its second piece is copied. A
  receiver that looks in between takes the first piece for a message, pops the
  header, fails with `ICC_ERR_FIFO_EMPTY`, and reads payload as a header the
  next time. `tail` is also stored before the padding is added, and the reader,
  which pads on its own, can pass it. The payloads of the shipped sample, 19 bytes
  on 4-byte boundaries, are padded. `IccFifo` calls such a receive `early`: with
  `PastEarly = TRUE` in `MCIccFifo`, `Intact`, `OnBoundary`, `Occupancy`, `Delivered`
  and `rret # "FIFO_EMPTY"`, the claims without the exception, fail one by one, and
  so does the refinement of `MsgQueue`. That is all that goes wrong: a receive of
  an *earlier* message may run between the same stores, and the message under way
  is then received whole (`PendingRight`, `DeliveredInOrder`, `ImplementsQueue`).
  A peek that begins between a payload and its padding does no harm but is
  `early` too. Load by load, with payloads of 6 in `MCIccFifoStores`, which are
  torn, `HandedOverWhole` fails; `Occupancy` and `LoadsStayTrue` hold, and section 5
  proves that they do. With a ring of 16 bytes, an alignment of 4 and payloads of
  3, which are padded, all three fail.
- *Two senders* (`ICC_Api.c:1040`). Room is checked before the semaphore is taken
  and not again: with two members in `Senders`, `RoomChecked` fails. They would
  also share the event type and the timeout of the FIFO (`ICC_Os_Linux.c:306`).
- *A notification that fails* after `shmem_poll_exit` makes `ICC_Msg_Send` return
  with the semaphore held (`ICC_Api.c:1062`).
- *Signal queue overflow* (`ICC_Sig_Fifo.c:125`). Together with a dequeue it
  leaves `head` ahead of `tail`: that is the exception of `RecentKept`.
- *Call-backs*. The state a call-back is given is the *signaller's* view, so a
  core whose peer opened is told `ICC_CHANNEL_STATE_OPEN_LOCAL`.
  `ReportsCatchUp` reads it that way.
- *Queries*. All three look at the TX FIFO. `ICC_Get_Channel_Free` does not
  count the padding a message will need. `ICC_Get_Next_Msg_Size` returns bytes
  of a payload while the receiver is between header and payload
  (`ICC_Api.c:875`): that goes wrong, and `NextSizeRight` says that nothing else does,
  but for an `early` receive.

*Restarts* (`ChannelStates`, `NodeRestart`).

- `ICC_Initialize` empties a signal queue by two stores (`ICC_Sig_Fifo.c:86`-`87`)
  while the peer's handler may be between its check of the queue and its store of
  `head` (`:170`). The handler's store then puts the old index, plus one, into the
  emptied queue: it ends up ahead of `tail`, the reader goes round the ring
  through old signals, or skips the restarted node's, and its reports stay wrong
  (`disturbed`). With `PastDisturbance = TRUE` and the exception taken out, each of
  `NodesMeet`, `EndsMeet` and `ReportsCatchUp` fails. So does an overflow of the
  queue over a reader at work (see above).
- After the reader's restart its acknowledge counter is behind the signals, so
  that a waiting receive does not sleep but spins until the next notification.
  After the writer's restart the handler's loop runs through the range of the
  counter, in the code up to 2^32 call-backs (`ICC_Fifo.c:121`).
- If the reset makes the two counters meet, a signal goes unseen (`masked`).
- `ICC_OS_Init_Interrupts` clears a pending notification when it sees the peer's
  node uninitialized. A task of the peer that was inside a call when its node was
  finalized may have sent that notification: the signal stays, and nobody looks
  at it until the next one (`cleared`, `ICC_Interrupts.c:238`).
- `ICC_Finalize` frees the wait queue without waiting for the tasks it woke up
  to leave it; the handler looks at `ICC_Config_Ptr` once (`ICC_Api.c:1319`).
- A writer that empties the FIFO between the reader's load and store of `head`
  leaves the reader's old index in it (`overrun`). From then on the check for room rests
  on a wrong index, and the writer can step over the end of the ring: a model
  with a ring of 7 bytes and headers of 2 stores 8 in `tail`. A receive that begins
  between the stores of `head` and of `tail` (`ICC_Fifo.c:126`, `:127`) finds old bytes
  pending and takes a message a second time, which is `overrun` too. With
  `PastOverrun = TRUE` and the exception taken out, `InOrder` fails for either.

*The older port* (`Sac58rTransfer`).

- The snapshot of the peer's counter is taken after the call looked at the FIFO:
  what comes in between is not waited for (`late`).
- Each initialization empties both FIFOs; the late one erases messages whose
  signals are still counted. The sample's callback, which receives with
  `ICC_WAIT_FOREVER`, then sleeps in the interrupt (`erased`).
- A signal that makes the two counters of a side equal goes unseen (`masked`,
  `sac58r:code/linux/inc/ICC_Fifo.h:185`). It takes as many unacknowledged signals
  as the counters have values, 2^32 in the code, so it is a limit of the model's
  small counters more than of the program.
- A node whose `ICC_OS_Initialize` failed keeps `ICC_Config_Ptr` and answers
  `ICC_ERR_NODE_INITIALIZED` when it is asked to initialize again. On a first start
  its word is not yet `ICC_NODE_STATE_UNINIT` (16), which `ICC_Finalize` alone
  stores, so the condition of a wait does not hold and a call on such a node
  sleeps, without an interrupt that could wake it up. `FinalizeReaches` says that
  `ICC_Finalize` will find it. When the allocation of the wait queue is what failed
  (`sac58r:code/linux/os/Linux/ICC_Os_Linux.c:177`) there is no queue to sleep on
  or to wake up, and no semaphore was initialized (`"oops"`, `Semaphore`).
- `header + gap_to_end` (`sac58r:code/linux/src/ICC_Fifo.c:165`, `:224`) counts
  headers where bytes are meant. It is not reached: messages start at multiples
  of the alignment, which is at least a header. `Sac58rAssumption` says so.
- Its sample waits for its heartbeat thread in a busy loop.

*Heartbeat.*

- Messages that come while the heartbeat is down stay unacknowledged
  (`ICC_Api.c:1338`). The next receive wakes up from that signal at once, uses up
  its timer, and without a message waits without one: a dead peer is then never
  reported.
- `ICC_Heartbeat_Finalize` closes the channel before the sample finalizes the
  node, and `ICC_Finalize` wakes up for open ends only. Where the heartbeat has the
  only open channel, a receive whose alarm is used up sleeps on for good: with
  `Shared = FALSE` the task of a finalized node is left in its wait, which is why
  `FinalizedRunEnds` speaks of a node with another open channel.
- The two nodes count their runs independently. After one fails alone, the run
  ids differ for good and the nodes may never meet (`ICC_Config.h:52` has a TODO
  on it). A wrong number sets `ERROR` without the call-back for a dead node.
- `ICC_Heartbeat_*` dereference `ICC_Config_Ptr` before they check the node
  (`"oops"` in the model).
- The state is checked and set in two steps. `ICC_Heartbeat_Finalize` by another
  task can fall in between and leave `RUNNING`, or an armed alarm, behind
  (`raced`). Both tasks can be in it together.
- In the older port `del_timer_sync`, which returns 1 for an armed timer, makes
  `ICC_Heartbeat_Finalize` fail, and a heartbeat in `ERROR` keeps its alarm.

*Two Linux systems* (`LinuxPair`).

- The second start of the root complex overwrites the end point's word with the
  handshake when nobody waits for it. The poll thread does not take it, so the
  root complex's next `ICC_Notify_Peer` blocks for good.
- The handshake is two stores, and the first ends the wait: the end point can
  set its window from an address that is not there yet (`torn`).
- The magic value is copied before the pointers are relocated, and a copy by an
  earlier load may still be there (`early`).
- A second start of the end point copies initial runtime objects over the live
  state of the root complex, which keeps an open end point of a node that is
  not initialized, null pointers, and a data thread nobody wakes up (`erased`).
- A root complex that restarts in mid exchange leaves both data threads in a
  receive. In `ICC_Data_kthread` the status of the second call overwrites that
  of the first.
- Configurations that do not match end in a null dereference, since a failed
  start calls `ICC_Finalize`.
- `if ((return_code = ICC_Wait_For_Peer() != ICC_SUCCESS))`
  (`ICC_Linux_Sample.c:463`) stores the comparison.
- The sample's code is unmapped 100 ms after `ICC_Finalize`; nobody joins its
  data thread, which may be waiting in `ICC_Notify_Peer`.
- A poll thread that is stopped before it ran leaves `poll_thread` set, and
  `shmem_poll_exit` loops. (Read in the code, not modelled.)

## 5. The proofs

Every safety property of the passing runs is a theorem: it holds for every value of the constants that meets
the named assumptions, and not only for those of the configuration. None of the
invariants is inductive alone. Each module states its inductive invariant
first, as a conjunction of named parts that TLC checked on the module's runs
before they were proved; then come one lemma per part (or, in `IccFifo_proofs`,
per action), each with one step per action that can disturb the part, and the
theorems last.

**`FifoOps_proofs`**: lemmas on the arithmetic of the indexes: padding and
alignment, and what a push or a pop does to the pending and the free bytes. The
other modules on FIFOs cite them. They rest on `FifoAssumption`: sizes are
positive and the ring's size is a multiple of its alignment, as in
`ICC_Config.c`.

**`IccFifo_proofs`**, for any sizes, torn and padded ones included, any number of
messages, and each store of `tail` for a payload as a step: `TypeCorrect`,
`PendingCorrect`, `UnreadStaysIntact`, `BoundaryKept`, `ReceiveServed`,
`NextSizeCorrect`, `DeliveryCorrect`, `EmptyRingAccepts`, the action property
`RoomStays`, and `FifoIsQueue`: the ring implements `MsgQueue`. Assumptions, besides
`FifoAssumption`: `SizesAssumption` (sizes are positive) and
`TruncationAssumption` (the parts of a truncated receive are padded like the
whole), which section 4 shows to be needed. The invariant `Inv` is `early \/ IInv`: it holds
until a receive begins between the stores of its message, and nothing is claimed
from then on (section 4). A receive that is under way when the writer comes to
these stores has a complete message before it, which is why it needs no
exception. `IInv` adds to the properties:

- `Laps`: the two cores' positions in the stream of bytes differ by at most one
  lap of the ring, in the order the indexes show. This makes `Occupancy` hold.
- `Chain`: each message begins, aligned, where the previous one ended, and the
  last ends where the one being pushed begins (`WriteStart`).
- `RoomKept`: of what the writer found free, the rest of its message still is at
  each of its stores, because the reader only moves on. This is what
  `UnreadIntact` needs in a push.
- `SenderPlace`: how many bytes of its message the writer has stored, and, for the
  rest of a torn payload, that `tail` is 0.
- `ReaderPlace`: which message the reader is in and how far, tied to what its
  header said. This is what `AtBoundary` and `CheckedReceive` need in a pop.

`Delivery` adds what the receiver was handed: that the message exists, and what a
truncated receive holds while the rest is dropped. `FifoIsQueue` maps the ring to
the queue of the messages pushed and not popped: the last store of `tail` is the
queue's send, the pop of a header its receive, and every other step a stutter, the
stores in the middle of a push included. The theorems on the queries rest on
`HeaderAtHead` (the bytes at `head` are the next message's header unless the reader
is inside a message) and `ReaderForward` (a step of the reader moves its position
on and the writer's not).

Its second part is about `IccFifoStores`, where a step is one load or store. What
section 4 says of torn and padded payloads is why the theorems have hypotheses:
`Unpadded` (no size needs padding, an assumption on the constants) and
`NeverTorn` (a payload begins behind the end of the ring or fits before it, a
property of the behaviour, since it depends on where the indexes come to rest).
There are two inductive invariants:

- `RingInv`, under `Unpadded` alone, gives `StoresOccupancy` and `StoresLoads`. A
  torn payload lets the reader lose track of where messages begin, so
  `RingInv` does not say what the bytes are of; it says that the positions
  the two cores are at, and the ones they are about to store, keep within one
  lap of each other (`StoresLaps`, `RoomLeft`, `RingReaderPlace`), and that every
  byte is one of a message sent (`BytesKnown`), so that a length read from
  whatever bytes is a message's size or is refused as more than is pending.
- `StoresInv`, under `Unpadded` and `NeverTorn`, gives `StoresHandOverWhole` and
  `StoresTypes`. `Starts` says where each message begins, `WriterStep` and
  `ReaderStep` how much of its message each core has stored or loaded, and
  `UnreadBytes` that every byte between the two is in its place, those of a
  message under way included. Here a receive that saw more than a header
  pending sees the whole message: the payload is announced in one store.

**`MsgTransfer_proofs`**: `SignalsArrive`, the property `NothingMissed`, for any
number of tasks on either side. Its invariant `Base` does not mention the
indexes, since with two senders they leave the ring (section 4); a counter that is
ahead of its acknowledge is what the handler and the notification are tied to.

`PairTypeCorrect`, `PairRoomChecked`, `PairMessagePending` and `PairWakeupAhead`
have the hypothesis `OneTaskEach`: one task on each side. The code checks for
room, and for a message, before it takes the semaphore, so that without it
`RoomChecked` is false; the sample has one task per direction. The invariant
`PairInv` is `Base` with

- `RingOK`: the bytes between the indexes, with the rest of a message that is being
  pushed and less the rest of one that is being popped, are those of the messages
  in the FIFO; and what is to be pushed still has room. `Extent` states the sum
  over the messages without recursion, by the positions where they begin.
- `SenderOK`, `ReceiverOK`: what was checked still holds until it is used, because
  the other side only adds to it; and while a sender waits its size is published.
- `RxAwake`, `TxAwake`: a task asleep that could go on has an event ahead, or the
  other task is on the way to signalling one. With `NothingMissed` this gives
  `WakeupAhead`: the events ahead do reach the handler.

**`NodeRestart_proofs`**: `RestartTypeCorrect`, `NothingTwice`,
`WakeupsSurviveRestarts`, `FinalizeReleases`, for any number of restarts and
messages. `RestartAssumption`: a message fits into the FIFO, and the counters
have more than one value. The invariant `RestartInv`:

- `LifeOK`, `CallsOK`: what the place in a life-cycle call says of node, end point,
  configuration and wait queue; a call on a queue of an earlier life is
  abandoned. From these `WaitersReleased` follows over all actions.
- `IndexesOK`: unless it was overrun, the ring's indexes are at starts of
  messages, and what a receive at work will store in `head` is the index behind
  the message it read. A restart of the writer in between is `overrun`. While the
  writer is between its two stores (`Emptying`), `head` is 0, no receive is at work,
  and nothing is said of `tail`.
- `ContentOK`: the unread messages in the ring are the last ones pushed in this
  epoch, and the last one received is the one before them or of an earlier epoch. Nothing
  is said of the bytes while the writer is `Emptying`.
- `PendingOK`: a sender asleep on the queue of its node has published its size,
  although its node's initialization clears it.
- `WakeOK`: `LostOnlyByRestart` with the counters apart while a cleared
  notification can be made up for. Without this the case of a signal that makes
  them meet (`masked`) is not covered.

**`Sac58rTransfer_proofs`**: `TypeCorrect`, `FinalizeFindsSleepers`,
`NoWaitInCallback`, `WakeupComes`, for any number of initializations, calls and
messages. `Sac58rAssumption`: a message is shorter than the ring, a header no
longer than the alignment, and the counters count more than the messages of a
full ring and one. Counters are equal when they differ by a *multiple* of
`CounterRange`; that and the bounds on the ring make a difference determined. The
invariant `TransferInv`:

- `LifeOK`, `AbandonedOK`, `QueueOK`: what configuration, node, end point and wait
  queue say of each other and of the calls on them. With them `FinalizeReaches` is
  inductive.
- `RingOK`, `SendsOK`: the ring holds whole messages, which is why none is split.
- `CountOK`: while nobody erased anything, the signals to the reader, with one that
  is about to be sent, are those to the writer and the messages in the ring.
- `UnackedOK`: for each signal that the reader's handler has not acknowledged there
  is a message, or the one it has just taken. This is `NoWaitInCallback`.
- `MovesOK`: since a task's snapshot, which found nothing for it, the counter moved
  by no more than messages, or places, came; so that if it can be served the
  counter differs from the snapshot, although it counts modulo its range.

**`ChannelStates_proofs`**: `StatesTypeCorrect`, `OneNodeIsTold`, `OneEndIsTold`,
`LastReportIsTrue`, for any number of lives and of openings. The invariant
`StatesInv`:

- `CallsOK`: what the call a core is in says of its node and end point.
- `DequeuesOK`: what a handler has loaded, `head` and the signal there, is still what
  the queue holds at `head`, and a signal to take is there. An emptying in between
  breaks it, and an overflow would: that is `disturbed`, and the parts that
  follow are claimed of the other behaviours only.
- `SignalsTrue`: the newest signal of a core, still queued or already reported, is
  of its present end, unless it is about to signal again.
- `EndsOK`, `NodesOK`: of two ends that are open one saw the other, and its signal
  is on its way; of two nodes one was marked second, and its notification is still
  to come or was not cleared. Both say *which* core is going to be told, which
  `NodesMeet` and `EndsMeet` leave open.

Its last part is about `SigFifo`, one such queue that overflows, of any size from
two slots on (`SignalBounds`, which is `SignalsAssumption` of `SigFifo`):
`SignalsTypeCorrect`, and `RecentSignalsAreKept` for `RecentKept`. The invariant
`SignalsInv`:

- `OverflowOK`, `SignalOK`: an overflow finds the queue full and the reader away,
  and takes the slot at `head`; any other signal goes to a slot that is free.
  Until the writer has stored `tail` nobody but the reader moves, and the reader
  only makes room.
- `SlotsOK`: the slot `d` places behind `head` holds the signal `d` behind the one
  that is due, but for the slot an overflow has just taken.
- `ReaderOK`: what the reader loaded is still at `head`.

They hold while no step of the reader met an overflow (`~raced`); the types do
not need that.

**`Heartbeat_proofs`**: `HeartbeatTypeCorrect`, `NoFalseAlarmRaised`,
`OldRunsAreDropped`, `TimerNeverOutlives`, for any capacity, range of numbers and
number of runs. The invariant `HeartbeatInv`:

- `StopOK`, `TimerOK`: how far the sample's stop is, and that the alarm belongs to
  a run on its way to `ICC_Heartbeat_Finalize`, unless two tasks `raced`.
- `QueueOK`: run ids only grow towards the end of a FIFO; those that a run found
  when it went to work are none of an older run.
- `NumbersOK`: while nothing has timed out, the numbers under way lead from the
  one a node expects to the one its peer sends next. A number alone says
  nothing; only this chain does.

**`LinuxPair_proofs`**: `LinuxTypeCorrect`, `AddressesBelongTogether`,
`WindowLeadsToPeer`, `LeftOverBySecondStart`, `FinalizeWakesThread`,
`ThreadsTakeTurns`, for any number of loads and starts and FIFOs of any size. The
invariant `PairInv` ties each sample's place to its node's state (`Lives`,
`ThreadsOK`), the polled word to how far the root complex's handshake is
(`HandshakeOK`), the addresses to the load they are of (`PointersOK`), and counts
the rights to send, in threads and FIFOs, as one (`TurnsOK`).

**Only model-checked**:

- Liveness (`SendReturns`, `MessagesDrain`, `RecentDelivered`,
  `FinalizedRunEnds`, `HandshakeTaken`), which is out of the prover's reach.

## 6. Not modelled

- Two tasks that wait on one FIFO of one core, beyond the check for room: with
  them `RoomChecked` already fails, and no property about their timers could
  stand.
- The signals about nodes and channels and the queries of the older port; they
  are those of the newer one (`ChannelStates`). Its configuration tables are not
  in the repository.
- Local notifications (not compiled in), statistics, the character device.
- Platform code: I/O on device registers without protocol state. A BAR that reads
  as zero because the end point's PCIe is not up yet is not modelled either.
- Cache maintenance and cross-core address translation on one chip: the Linux
  side maps the memory uncached. The translation over PCIe is in `LinuxPair`.
- A crash without `ICC_Finalize`. The code has nothing for it but the heartbeat,
  which reports it; a restart after it is a restart without the wake-ups of
  `NodeRestart`.

## 7. Plan

1. A refinement of `IccFifo` by `IccFifoStores` for payloads that are not padded; so
   far the two views are tied by the properties proved of both.
2. An abstract specification of a channel's state for `ChannelStates`, and of a
   bounded mailbox with blocking calls for `MsgTransfer`, with refinements.
3. A restart under the two-step notification of `MsgTransfer` with a polled word,
   as a composition of `NodeRestart` and `LinuxPair`.
