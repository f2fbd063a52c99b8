# A TLA+ model of appserver

appserver is a small C++ application server: h2o serves HTTP and websockets on
a libuv loop, and a logger lets any thread log without taking a lock. This
directory holds TLA+ modules for the parts of it where order and interleaving
matter, TLC configurations that check them on small instances, and TLAPS proofs
about each of them for instances of every size.

`PROJECT.json` lists the components, the runs, a mutant per checked property,
the source lines each definition models, the hazards, the findings and the
theorems.

    tlc -workers 2 -config MCLogger_one_consumer.cfg MCLogger
    tlapm LoggerProofs.tla

## 1. Inventory

| Component | State | Operations | Interacts with |
| --- | --- | --- | --- |
| Logger (`logger.cpp`) | `loggers` list, `logger_mutex`, a `ThreadLogger` (queue, `close`) per thread, thread-local `initialized` | `log_*` → `real_log_msg` → `get_thread_logger`; thread exit (`LogCloser`) | its queue; the mutex; itself (the nested `log_info`) |
| `LogConsumer::consume` | `ordered_next`, `check_loggers`, the iterators | one pass over all queues, under the mutex | all queues, the list, stderr |
| `UvLogConsumer` | a `uv_timer_t` | `start`, `stop`, destructor, `timer_cb` | libuv timer, `consume` |
| `UvMutex`, `ScopedMutexLock` | a `uv_mutex_t` | lock, unlock by scope | logger |
| `ReaderWriterQueue` (vendored) | a ring of blocks; `front`, `tail`, cached copies of both, `next`, `frontBlock`, `tailBlock` | `enqueue`, `try_enqueue` by the producer; `try_dequeue`, `pop`, `peek` by the consumer; `size_approx` by either; constructor, destructor | producer and consumer thread, `malloc` |
| `LightweightSemaphore` | `m_count`, a kernel semaphore | `signal`, `tryWait`, `wait`, timed wait, `availableApprox` | producer and consumer thread |
| `BlockingReaderWriterQueue` (vendored, the queue of a `ThreadLogger`) | an inner queue and a semaphore | the queue's operations, and the waiting ones | both |
| Websocket (`appserver_websocket.cpp`) | `conn` (socket, wslay context, write buffers), the application's object | request, upgrade, `on_recv`, `on_write_complete`, `h2o_websocket_proceed`, send, close | wslay callbacks that re-enter it, the application |
| `H2O_Webserver`, `webserver_demo`, `main` | configuration, accept context, listener and connection records | start-up, `create_listener`, `on_accept`, registration of handlers | h2o, OpenSSL, libuv |
| Request handlers | constant content | `on_request` | h2o |
| cputime, filepath, log formatting, simple.cpp | none shared | | |

What is hard here:

* **Registration logs while it holds the mutex** (`logger.cpp:69`). The nested
  call must not come to the lock again, and must come before the message that
  caused the registration.
* **`consume()` holds messages that are in no queue.** It takes at most one per
  logger into a set whose order is that of addresses, prints one, and polls
  again. Loss, repetition and reordering are each one forgotten `insert` or
  `erase` away, while producers go on logging and threads start and end.
* **The queue is lock-free.** Each side reads the other's index through a cached
  copy, blocks are reused, and the producer can fill a block and move on between
  two reads of the consumer. Its atomics are relaxed: order comes from the fences
  alone, and no test on an x86 machine can tell whether they are all there.
* **A timed wait races a signal** (`atomicops.h:605`), and the blocking queue
  pairs an element with a token in two steps.
* **The websocket code re-enters itself.** A message reaches the application
  from inside `wslay_event_recv`; its answer calls `h2o_websocket_proceed`
  again, which may read, write and free the connection under the outer call.
* **The order of upgrade steps**: `ws_ctx` exists before `sock` does.

What makes each component correct is stated as its properties (section 3);
`PROJECT.json` lists the hazards line by line.

## 2. Modules

| Module | Models |
| --- | --- |
| `MergedLog` | abstract: a log that merges the streams of its sources |
| `Logger` | threads, registration, log calls, consumers, timers, mutex; implements `MergedLog` |
| `MCLogger` | instances of `Logger` for TLC |
| `LoggerProofs` | theorems about `Logger` |
| `SpscFifo` | abstract: a sequential queue with one writer and one reader |
| `ReaderWriterQueue` | the lock-free queue; implements `SpscFifo` |
| `ReaderWriterQueueProofs` | its inductive invariant, and theorems about slots and assertions |
| `ReaderWriterQueueRaces` | the theorem that it has no data race |
| `ReaderWriterQueueContents` | what is in it and in which order: theorems about its destructor, `peek` and empty answers, and the refinement of `SpscFifo`; what a consumer finds that has been shown an epoch of the producer |
| `LightweightSemaphore` | the counting semaphore over a kernel semaphore |
| `LightweightSemaphoreProofs` | theorems about it |
| `BlockingReaderWriterQueue` | composes queue and semaphore; implements `SpscFifo` too |
| `BlockingReaderWriterQueueProofs` | theorems about tokens and elements, and the refinement of `SpscFifo` |
| `WebSocket` | one websocket connection |
| `WebSocketProofs` | theorems about it |
| `Webserver` | start-up, listener and connection records, request handlers |
| `WebserverProofs` | theorems about it |

Operators with a suffix (`Take_ComparedByWhen`, `Room_OffByOne`, ...) are
mistaken variants, used only by the mutants of `PROJECT.json`.

### Logger

A thread is a number; the order of numbers is the address order of the
`ThreadLogger`s, in which `std::set<ThreadLogger *>` is iterated. `tpc` says
where a thread is: `LogCall` enters `real_log_msg`, `Lock`, `Push` and `Unlock`
are the critical section of `get_thread_logger` with its nested call in between,
`Stamp` reads the clock, `Enqueue` copies and queues the message, and
`EnqueueFails` is a failed allocation, which the caller ignores. A consumer
takes `Consume_Lock`, then `Consume_Scan` per logger, `Consume_Emit` per printed
message and `Consume_Poll` per queue it looks at again, then `Consume_Unlock`.
`ordered_next` is a set and `Consume_Emit` may take any member: its real order is
that of addresses that `malloc` chose. The copy constructor leaves `when`
uninitialised, so `Copy` takes it from `Garbage`.

`sent`, `snap` and `mark` are history variables: what the queues have accepted,
and what had been accepted and printed when `consume()` last took the mutex.

The queue of a `ThreadLogger` is a `BlockingReaderWriterQueue`, and its `enqueue`
and `try_dequeue` are one step each here: an enqueue takes effect when it signals
the semaphore, a `try_dequeue` when `tryWait` takes a token or finds none.
That the blocking queue implements `SpscFifo` with just these points
(`BlockingReaderWriterQueue!ImplementsFifo`), and that a refusal is honest
(`EmptyHandedIsHonest`), is what allows this; both are proved (section 4).

`MergedLog` is what the logger promises as a whole: every source has a stream of
accepted messages, and the log grows by the next unprinted message of some
source. The refinement maps what is printed of a thread to what has been taken
from its queue, less the one message that a consumer may hold (`Shown`), and the
log to `output`. Registration, the loops of `consume()` and the timers are
stutters.

### ReaderWriterQueue

One action per access to a shared variable; a private or cached variable goes
along with the access next to it. `Blocks` are numbers, a slot is empty or holds
the number of its element. The refinement maps the abstract queue to the
elements between `front` and `tail` of each block from `frontBlock` to
`tailBlock`: an enqueue takes effect when it publishes `tail` or `tailBlock`, a
dequeue when it moves the element out of its slot.

`front`, `tail`, `next`, `frontBlock` and `tailBlock` are `weak_atomic`s, that is
relaxed `std::atomic`s, each stored to by one thread only (`Owner`). `mem` keeps
for each the stores that the other thread may still read, oldest first. A release
fence begins a new epoch of its thread, and a store carries the epoch it was made
in. A load picks any store that is kept and forgets the older ones (coherence). An
acquire fence after a load of a store of epoch `e` makes everything known that
the other thread did before `e`, so that overwritten stores of those epochs are
forgotten too (`Since`). Slots and the members of a block that are not atomic
carry their last writer and its epoch, and `NoDataRace` demands that an access is
ordered after it. Steps of one thread stay in program order otherwise: every
store that publishes something is behind a release fence, which earlier loads
and stores do not pass. With `Relaxed` FALSE every load returns the last store,
which makes the instance with many blocks small enough.

`size_approx` may be called by the threads in `SizeCallers`. It walks the ring by
`next` and adds up block lengths, each read a step.

### LightweightSemaphore and BlockingReaderWriterQueue

`m_count` and the kernel's `m_sema` are separate variables, and every
load, `fetch_add`, post and sleep is a step. The blocking queue
declares the variables of both parts and uses their actions: a call is the inner
operation's steps, then the semaphore's, or the reverse. `raised` and `posted` are
the producer's epochs that `m_count` (`fetch_add_release`) and the kernel
semaphore carry; taking a token acquires one of them. These are what lets the
relaxed loads of `try_dequeue` find the element, so they are what
`AssertDequeueSucceeds` rests on. `signal(count)` posts once, however large the
count is.

### WebSocket

`stack` holds the calls in progress, innermost first, so that a nested
`h2o_websocket_proceed` really runs inside the outer one; events of the loop
come only when it is empty. wslay, h2o and libuv are external and appear as this
code uses them: `wslay_event_recv` asks `recv_callback` for a chunk and delivers
its messages one by one, a nested call of it continues with what is buffered;
`wslay_event_send` writes until `send_callback` refuses; a close frame goes out
before queued messages and nothing after it. A message fills one write buffer.
Once a connection has been freed under a call in progress, what that call finds
is undefined: `UseFreed` lets `wslay_event_recv` stop or deliver the next message.

The application may close the connection at any time: in its generator, after which
the rest of the upgrade works on freed memory (`UpgradeFreed`), before the upgrade
completes (`CompleteFreed`), between callbacks, or on a message of `Closes`, where
it may also go on. When the peer's close frame has been read, wslay queues its answer
and reads no more; `GoesOn` is the code's test (lines 283 to 286) whether anything
is left to wait for, and the connection closes when there is not.

### Webserver

`pc` follows `main` and `webserver_demo` through start-up, with a failure of
`uv_loop_init`, of each of the three loads of `setup_ssl`, of `uv_tcp_bind` and
of `uv_listen`. The failure path of `create_listener` hands libuv the address of
a local variable; the step `CloseListener` therefore stops the process or leaves
the real handle and its record as they are. In the loop, `record` is the memory
of a connection and `handle` what libuv knows of it. The handlers are operators
from a request to their result and the number of responses they send.

## 3. Runs

| Run | Shows |
| --- | --- |
| `logger_one_consumer` (256,920 states) | two threads with two calls each, failing allocations and ending threads, one consumer whose timer is started, stopped and destroyed: `NothingLost`, `PerThreadFifo`, `DrainedOnReturn`, `StartMessageFirst`, `NoSelfDeadlock`, the invariant `Inv` of the proof (with `TypeOK`, and with `TimerInv`: no callback after destruction), the refinement `ImplementsMergedLog`, and under fairness `ConsumeReturns` and `EventuallyPrinted`: with a timer that stays on, every accepted message is printed |
| `logger_two_consumers` | two consumers compete, and time passes: `OneAtATime`, `LoggersStable` |
| `logger_sorted` | violation: the output is not sorted by time |
| `semaphore` | signals of one and of two: count, token and grants agree (`ExactWhenIdle`, `ApproxWithinOne`, and `Inv` of the proof); `NoLostWakeup`; `SignalledWaitReturns` |
| `queue_relaxed` (58,260 states) | the memory model: blocks are filled, left, reused and allocated, with failures, and loads return old values: `NoDataRace`, `SlotsUsedProperly`, the code's own assertions (`AssertionsHold`), `PeekIsNext`, `DestructorIsExact`, `SizeIsHonest` for the producer, and `ImplementsFifo` |
| `queue_several_blocks` (490,717 states) | a constructor that reserves several blocks keeps its promise (`FullIsHonest`), a dequeue misses nothing that was there when it was called (`EmptyIsHonest`), and `size_approx` of both threads is between the lengths at its start and its end (`SizeIsHonest`) |
| `queue_size_approx` | violation: the consumer's `size_approx` enters a block that is not published |
| `blocking_queue` | with the memory model: the assertion after each wait holds (`AssertDequeueSucceeds`), tokens and elements do not drift apart (`TokensMatchElements`), only a queue without a returned enqueue is refused (`EmptyHandedIsHonest`), the whole is a sequential queue (`ImplementsFifo`), and a waiter is served (`WaiterIsServed`) |
| `websocket` (41,229 states) | the invariant `Inv` of the proof; messages keep their order through nesting, full buffers and errors; an idle connection always waits for something (`NeverStuck`); the close handshake does not free the connection under an outer call (`HandshakeEndsOutside`); every call returns, and an accepted message is written or the connection ends, also when the close frame has overtaken the queue (`AcceptedIsWritten`) |
| `websocket_early_send` | violation: a message before `on_websocket_complete` reaches a null socket |
| `websocket_close` | violation: a message after `close_websocket()` |
| `webserver` | connections are accepted only by a completely started server, a connection record lives exactly as long as its handle, and every request is answered once |

### Bounds

* Logger: two threads are what it takes for messages of different loggers to be
  in `ordered_next` together; two calls give three messages per thread with the
  start message, so a queue is polled again after being drained and while it is
  refilled. `Capacity` 2 makes the third message of a thread need an
  allocation, which may fail. `MaxTime` is 0 where no property mentions time.
* Queue: in `queue_relaxed` the first block holds one element and the next ones
  three (the block size doubles up to its maximum, as in the code); five elements
  leave the first block, wrap inside a larger one, come back to the first and
  allocate again. In `queue_several_blocks` five blocks of one element each are
  reserved for `MaxSize` 4, and six elements go round the ring. `queue_size_approx`
  needs one allocation.
* Semaphore: `SpinLimit` 2 instead of 10000 (any number of failed spins has the
  same effect); four signals cover a signal before, during and after a timeout,
  and one more.
* Blocking queue: blocks of 2 (one element each), a ring of three, three
  elements: blocks are left and allocated while waits time out.
* Websocket: `MaxBufs` 2 (the size of the array is h2o's) and `Chunk` 2, so that five
  messages and two pushes overrun the buffers, arrive in pieces and nest. The
  application may close on message 2 or 4 or let them pass, so the run also goes
  through all five messages to the peer's close frame, with messages queued
  behind wslay's answer.
* Webserver: two records, so that one is reused while the other is in use.

`CHECK_DEADLOCK FALSE` is set for the logger and the queues: when the bounded
calls are used up nothing has to happen, and a thread that never logs again or a
queue nobody calls is a legal state. `WebSocket` and `Webserver` check deadlock;
their `Done` and `Ended` steps are the end of a connection and of the process.

### Fairness

* Logger: weak fairness of the steps of a thread inside a logging call and of a
  consumer, including the callback of a timer that is on: the scheduler runs
  threads that can run, libuv calls timers that are due. Nothing is assumed of a
  thread that waits for the mutex, since a pthread mutex is not fair, nor that
  anybody logs, starts a timer or ends.
* Semaphore and blocking queue: weak fairness of a call in progress, and of the
  kernel waking a waiter that has a token or whose time is up.
* Websocket: weak fairness of the call in progress, and of the end of a write, done
  or failed. The latter is an assumption about the environment: the code sets no
  timer on a write, and a peer that keeps the connection and never reads may
  delay its end for ever. Nothing is assumed of what the peer sends.

## 4. Proofs

### Logger (`LoggerProofs`)

For every set of threads and consumers and all bounds: `OneAtATime`,
`NoSelfDeadlock`, `LoggersStable`, `PerThreadFifo`, `NothingLost`,
`DrainedOnReturn`, `StartMessageFirst`, `NoCallbackAfterDestruction`, `TypeOK`
and the refinement `ImplementsMergedLog`. Assumptions: threads are numbers (an address order exists), consumers
are not threads, and the bounds are numbers.

None of these is inductive. `Inv` is built in layers, each of which leans on the
ones before:

1. `MutexInv`: who holds the mutex, by where everybody is. `OneAtATime` and
   `LoggersStable` follow.
2. `RegisterInv`: the list holds every registered thread once, and a thread is
   registered exactly from its push on. `NoSelfDeadlock` follows with 1.
3. `QueueInv`: a queue holds the last messages of its thread, numbered without a
   gap; the rest have been taken.
4. `LoopInv`: the messages in hand and `check_loggers` come from loggers before
   the iterator, and no logger is in both. This is what the `erase` of
   `logger.cpp:207` is for.
5. `HandInv`, `OutputInv`, `PerThreadFifo`: a message in hand is the last one
   taken from its queue and later than all that is printed of its thread. With 4
   a queue is touched only while none of its messages is in hand, so the next one
   printed is always the next in order.
6. `CoverInv`: everything taken is in hand or printed. `NothingLost` follows.
7. `DrainInv`: a logger that the loop has passed is drained up to the start of
   the call, or has a message in hand, or is about to be polled. At the end of
   the loop only the first is left: `DrainedOnReturn`.
8. `StartInv`, `KindInv`: the first message, and only it, is queued under the
   mutex. `TimerInv`: a timer that is on belongs to a living consumer.

`LogIsMerge` (`Spec => ImplementsMergedLog`) follows from 3 to 6 and mutual
exclusion. An `Enqueue` is `Accept`, and `Consume_Emit` is `Emit`: by 5 the
message in hand is number `Shown + 1` of its thread, and by 1 and 4 it is the only
one of that thread in any consumer's hands (`EmitPrints`). Taking a message from a
queue moves `Taken` and `Holding` together, so that `Shown` stays (`TakeIsQuiet`);
every other step leaves all that the mapping reads alone (`QuietStep`).

### Semaphore (`LightweightSemaphoreProofs`)

For every initial count, spin limit, number of signals and set of counts that
`signal` is called with: `m_count` is what is
available, less one while a consumer is registered as waiting
(`CountIsAvailable`), and there is a token in the kernel, or a post on its way,
exactly when a registered waiter has been signalled (`TokenInv`). The code's
assertion, `NoDoubleGrant`, `ExactWhenIdle`, `NoLostWakeup` and
`ApproxWithinOne` follow.

### ReaderWriterQueue (`ReaderWriterQueueProofs`)

For every size of the queue, every block size that is a power of two from 2 on,
and any number of blocks and elements, over one memory and with relaxed atomics:
an element is constructed only in an empty slot and taken only from a full one
(`SlotsUsedProperly`), and the code's own assertions hold for whatever the loads
in them may return (`AssertionsHold`). The theorems have one hypothesis,
`~ Relaxed \/ C \notin SizeCallers`: with relaxed atomics the consumer does not
call `size_approx`. That is finding 2, and not a convenience of the proof: with
such a call the consumer follows `next` into a block that it has not seen
constructed.

Neither property is inductive, since each thread acts on a copy of the other's
index that may be old and, with relaxed atomics, on a store of it that is old.
`Inv` says how old they can be:

* `MemInv`: a location has at least one store left to read, and all but the oldest
  are of epochs that the reader has not seen. An acquire fence therefore leaves
  one store of everything it makes known (`Settled`).
* `IndexInv`: the indices of a block lie in the order of the buffer: the producer's
  copy of `front`, what it may read of `front`, `front`, what the consumer may read
  of `tail`, `tail`, within one turn. In the front block, the consumer's copy of
  `tail` comes before what it may read of it (`TailCopied`). `Dist` measures along
  the buffer; one slot always stays free.
* `SlotInv`: a slot is full exactly between `front` and `tail`, but for the one a
  thread is just filling or emptying.
* `PosInv(pos)`: there is a numbering `pos` of the blocks along `next` from
  `frontBlock` (`RingInv`); stale values of `frontBlock` are the free blocks just
  before it (`FrontBlockInv`), stale values of `tailBlock` the blocks up to it, and
  having read one the consumer sees an element in every block on the way
  (`TailBlockInv`); blocks behind `tailBlock` are empty and blocks between are not
  (`EmptyInv`); and where the threads are in their calls (`ProducerInv`,
  `ConsumerInv`). Linking a block inserts a place, and moving `frontBlock` turns
  the numbering by one.

The steps fall into those that only read, which trim histories and preserve
everything by a few lemmas (`TrimBlockInv`, `TrimFrontBlock`, `TrimTailBlock`,
`ProducerLooks`, `ConsumerLooks`), those that change a slot, and those that store,
one lemma each. Where an induction over natural numbers is needed it is the least
element of a set (`LeastNat`), since the provers cannot instantiate the induction
schema.

### No data race (`ReaderWriterQueueRaces`)

`NoDataRace`, under the same hypothesis. `RaceInv`, on top of `Inv`, ties the epoch
in which a slot was written to the stores that make it known. The slots before a
store of `front` were emptied in an earlier epoch than that store, and the slots
that are free by the producer's copy of `front` were emptied before what it has
seen (`Freed`). The same holds of `tail` and the consumer's copy of it (`Filled`,
`Copied`), with one exception, the first slot of a block: that one is filled before
the block is in use, and it is the store of `tailBlock` that shows it, and the
construction of the block (`Shown`, `First`). `CallRace` carries what the consumer
has seen through a call. The numbering of the ring is unique (`RingUnique`), so the
two invariants speak of the same one.

### What the queue holds (`ReaderWriterQueueContents`)

Under the same hypothesis again.

`DestructorIsExact`: the walk along `next` reaches the block with number `k` after
`k` steps, hence every block once (`HopPlace`, `VisitedBlocks`), and the masked
indices from `front` to `tail` are the slots at a `Dist` below that of `tail`
(`DestroyedSlots`), which `SlotInv` says are the full ones when both threads are
idle.

`PeekIsNext` and the refinement `ImplementsFifo` need the order of the elements.
`OrderInv` gives every block of the ring a number, the one of the last element
before those that the block holds: it is what has been handed out for
`frontBlock`, it grows from block to block by what each holds, and the last block
in use ends with `sent` (`Numbers`); in a block, the slots from `front` on hold
the numbers that follow it (`InOrder`). The element that the producer has
constructed but not published is `sent + 1` (`Pending`), which is what lets a
publication of `tail` or of `tailBlock` extend the order. There is one lemma per
step, grouped as for `Inv`. `Content` is defined by a recursive function, the
concatenation of the blocks; that it is the numbers after the last received up to
`sent` (`ContentIsWaiting`) is proved by exhibiting the function that the recursion
defines (`StrungExists`, `StrungNumbers`, `PositionsNumbers`), not by induction
over sequences. `Enqueue_Publish` and `Enqueue_PublishBlock` are then `Accept`,
`Dequeue_Take` is `Deliver`, and every other step is a stutter (`FifoStep`).

`EmptyIsHonest`: a consumer that had to know of an element when it called, and found
its block empty by a fresh load of `tail`, cannot read its own block from
`tailBlock` (`NotAtTail`): the element is in a later block, and as long as
the consumer stays in its own the producer publishes only others
(`ProducerNotAtTail`).

### BlockingReaderWriterQueue (`BlockingReaderWriterQueueProofs`)

For every size of queue and blocks, every number of elements and spin limit, over
one memory and with relaxed atomics. The assumptions are those of the inner queue
and of the semaphore, and there is no further hypothesis, since no user of this
queue calls the inner `size_approx`.

The blocking queue implements the specification of its semaphore (`UsesSemaphore`),
so the semaphore's invariant holds in it. From that alone follows
`EmptyHandedIsHonest`: while the consumer waits, what was to be had when it called
still is (`OwedInv`), and a wait step returns empty-handed only when nothing is
available (`WaitGrants`).

`AssertDequeueSucceeds`, `TokensMatchElements` and the refinement `ImplementsFifo`
need both halves. `Inv` has the invariants of the inner queue and of the semaphore,
and

* `CountInv`: every element is signalled once, and every token is used up by taking
  one element; `Owing` is the token in hand.
* `ControlInv`: the parts of the two calls agree with where the inner queue and the
  semaphore are in theirs.
* `ShowInv`: what the tokens show. `Covers(n, e)` says that a consumer which knows
  what the producer did before epoch `e` can no longer read, of any element up to
  number `n`, the index that hides it, nor a `tailBlock` before its block. The epoch
  that `m_count` releases covers all that was signalled, and the one in the kernel
  semaphore covers the next element that a wait can be granted. A consumer that
  has taken a token `Finds` its element.

The counts alone would not do: with relaxed atomics an element that is in the queue
need not be there for the consumer, and without the epochs of `ShowInv` the
assertion is false. A release fence covers all that is published (`FenceCovers`),
later steps of either thread keep what is covered (`CoversStep`), an acquire of the
epoch turns it into what the consumer may read (`AcquireStep`, `FirstShown`,
`SeenFinds`), the producer's further steps leave that alone (`ProducerFinds`), and
a call that begins with it does not say "empty" on its way through the blocks
(`DequeueStartFinds`, `ConsumerGoesOn`). These lemmas are at the end of
`ReaderWriterQueueContents`. In `ImplementsFifo`, `Signal` is `Accept`, a step of
`Wait` that grants is `Deliver`, and the inner queue's steps are stutters
(`UsersSee`, `TokenSteps`).

### WebSocket (`WebSocketProofs`)

For every number of messages, pushes, errors and write buffers, every chunk size,
and calls nested to any depth: `NothingReordered`, `NeverStuck` and
`HandshakeEndsOutside`. `Inv` has a part about control: calls nest as the code
re-enters itself (`CallInv`), who freed a freed connection (`FreedInv`), and what is
left to read or write at each point of `h2o_websocket_proceed`'s loop (`LoopInv`,
which is what makes `NeverStuck` inductive; it also says that under an outer call,
once the close frame has been read, wslay's answer is still queued or in the buffers,
so that the test at the end of a nested `h2o_websocket_proceed` finds something to
wait for: this is `HandshakeEndsOutside`); and one about data: unparsed input
continues the peer's messages (`StreamInv`), a close frame is the last thing
written (`CloseInv`). `NothingReordered` has three parts, each proved step by step:
echoes are accepted in the peer's order (`EchoesInOrder`), what has been accepted is
written, buffered or queued in that order (`SentInOrder`), and nothing follows the
close frame (`CloseIsLast`).

### Webserver (`WebserverProofs`)

For every set of connection records and every choice of the application's handlers: `AcceptsOnlyWhenReady`,
`RecordLivesWithHandle` and `AnsweredOnce`, from an invariant that says what is in
place at each point of start-up (`StartInv`) and that only open connections have a
request (`RequestInv`).

### Only model-checked

* Liveness, under fairness: `ConsumeReturns`, `EventuallyPrinted`,
  `SignalledWaitReturns`, `WaiterIsServed`, `CallsReturn`, `AcceptedIsWritten`. It is
  out of the prover's reach.
* The queue's `FullIsHonest` and `SizeIsHonest`. They compare two lengths, of one
  walk of the ring by what a thread knew when its call began and of another when it
  returns; the proofs unfold the walk by the newest values only, and a walk by old
  values needs a numbering of its own.

## 5. Findings

1. `consume()` does not sort by timestamp: the set compares addresses
   (`pair_compare` is not used), and the printing loop sits inside the loop over
   the loggers.
2. `size_approx`, which both threads may call according to its comment, races
   with the construction of a new block when the consumer calls it: the block is
   linked at `readerwriterqueue.h:586`, before the release fence of line 594, and
   `size_approx` follows `next` without asking `tailBlock`. The server does not
   call it.
3. `send_websocket_message` between upgrade and completion uses a null socket.
4. `close_websocket()` from `receive_websocket_message` frees the connection
   under `wslay_event_recv`, which may then deliver another message. An error in a
   nested `h2o_websocket_proceed` frees it under the outer calls in the same way, and
   `close_websocket()` from the generator under the rest of the upgrade; the model
   has these steps, but no line of the repository says what should follow.

Worth knowing, though no run is about them: the copy constructor of `LogMessage`
does not copy `when` (`logger.cpp:80`), so the printed time is whatever memory held
(`Copy` takes it from `Garbage`; no decision of the code depends on it);
`create_listener` closes the wrong address when it fails (`webserver.cpp:232`), and the `pop` of the
blocking queue may refuse an element that its `peek` has just shown, because the
one asks the semaphore and the other the inner queue.

## 6. Abstractions and what is not modelled

* Memory order: fences, relaxed loads and stores (a load may be as stale as the
  fences permit, so loads may in effect be reordered), and the release and acquire
  of the semaphore are modelled. A load that is delayed past a later store of its
  thread is not: a fence, or the branch that the load decides, lies between each
  such pair. The semaphore module by itself, and the logger, whose threads
  share only what the mutex or a queue orders, are over one memory. The
  release of a semaphore's `fetch_add` is modelled as a release fence before it,
  which orders slightly more. The `memory_order_sync` fences of constructor and
  destructor are outside every concurrent use.
* The clock does not step back.
* The move constructor and assignment of the queues: they require that nobody
  else uses either queue.
* The builds of `atomicops.h` for MSVC, Windows and Mach.
* The accept key and frame encoding of websockets, `assert(req->version < 0x200)` at
  the head of the upgrade (requests are HTTP/1 here), and text formatting.
* `consume()` under a producer that never pauses: it never returns, which the
  comment in the code accepts; `ConsumeReturns` speaks of producers that do pause.
* Access logs, header fields and the options of OpenSSL; what h2o does between
  accept and a handler.
* `simple.cpp` (h2o's example, not built), `filepath` (declarations only),
  `cputime` (a wrapper of the clock), vendored tests and benchmarks.

## 7. Plan

Done: all the modules of section 2 and their runs, and the proofs of section 4.

What is left:

1. `FullIsHonest` and `SizeIsHonest` of the lock-free queue: unfold `Positions` for
   what a thread knows, and follow the length of that walk through a call.
2. `Webserver` and `WebSocket` together: a connection record that a websocket
   takes over, until `h2o_websocket_close` gives it back to libuv.
