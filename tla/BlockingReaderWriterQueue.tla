----------------------- MODULE BlockingReaderWriterQueue -----------------------
(***************************************************************************)
(* moodycamel::BlockingReaderWriterQueue (libs/readerwriterqueue/            *)
(* readerwriterqueue.h), the type of ThreadLogger::messages: a               *)
(* ReaderWriterQueue and a LightweightSemaphore that counts its elements.    *)
(* The producer signals after the element is in; the consumer takes a token  *)
(* first and then asserts that it finds an element.                         *)
(*                                                                         *)
(* The inner queue and the semaphore are the modules of those names, step by *)
(* step; this module says in which order a call uses them.  Raising m_count  *)
(* is a release and taking a token an acquire, which is all that orders the   *)
(* consumer's view of the inner queue after the enqueue it is entitled to.   *)
(***************************************************************************)
EXTENDS Integers, Sequences

CONSTANTS MaxSize, MaxBlockSize, Relaxed, MaxBlocks, MaxItems, SpinLimit

\* As the inner queue and the semaphore assume them.
ASSUME MaxSizeAssumption == MaxSize \in Nat \ {0}
ASSUME MaxBlockSizeAssumption ==
    MaxBlockSize \in Nat /\ \E k \in 1 .. MaxBlockSize : MaxBlockSize = 2 ^ k
ASSUME RelaxedAssumption == Relaxed \in BOOLEAN
ASSUME MaxItemsAssumption == MaxItems \in Nat
ASSUME SpinLimitAssumption == SpinLimit \in Nat

VARIABLES
    mem, epoch, acq, seen, allocated, born, size, slot, largestBlockSize,
    localFront, localTail, pc, call, sent, received, peeked,
    m_count, m_sema, spc, wpc, mode, spin, signalled, granted,
    producer,   \* the part of an enqueue the producer is in
    consumer,   \* the part of a dequeue the consumer is in
    request,    \* the operation the consumer runs
    raised,     \* the producer's epoch that m_count releases, and
    posted,     \*   the one that the kernel semaphore does
    owed        \* history: tokens when the consumer's call began

inner == INSTANCE ReaderWriterQueue WITH SizeCallers <- {}

ASSUME MaxBlocksAssumption == MaxBlocks \in Nat /\ MaxBlocks >= inner!InitialBlocks

sema == INSTANCE LightweightSemaphore WITH
            InitialCount <- 0, Counts <- {1}, MaxSignals <- MaxItems

memVars == <<mem, epoch, acq, seen>>
contents ==
    <<allocated, born, size, slot, largestBlockSize, localFront, localTail, pc,
      call, sent, received, peeked>>
semaVars == <<m_count, m_sema, spc, wpc, mode, spin, signalled, granted>>
callVars == <<producer, consumer, request, owed>>
vars == <<memVars, contents, semaVars, callVars, raised, posted>>

Init ==
    /\ inner!Init
    /\ sema!Init
    /\ producer = "idle"
    /\ consumer = "idle"
    /\ request = "try_dequeue"
    /\ raised = 0 /\ posted = 0 /\ owed = 0

-------------------------------------------------------------------------------
(***************************************************************************)
(* try_enqueue and enqueue.  Operators whose names carry a suffix are        *)
(* mistaken variants of the operator that follows them; no action uses them. *)
(***************************************************************************)
Enqueue ==
    /\ producer = "idle"
    /\ inner!Enqueue_Start
    /\ producer' = "inner"
    /\ UNCHANGED <<semaVars, consumer, request, owed, raised, posted>>

\* inner.enqueue has returned: signal only if it took the element.
AfterInner_Never(took) == "idle"
AfterInner(took) == IF took THEN "signal" ELSE "idle"

EnqueueInner ==
    /\ producer = "inner"
    /\ inner!ProducerStep
    /\ producer' = IF pc'["producer"] = "idle" THEN AfterInner(sent' > sent)
                                              ELSE "inner"
    /\ UNCHANGED <<semaVars, consumer, request, owed, raised, posted>>

\* fetch_add_release: what the producer has stored so far is released.
Release ==
    /\ inner!ReleaseFence("producer")
    /\ raised' = epoch'["producer"]
    /\ UNCHANGED <<mem, acq, seen>>

Signal ==
    /\ producer = "signal"
    /\ sema!Signal(1)
    /\ Release
    /\ producer' = IF spc' = "post" THEN "post" ELSE "idle"
    /\ UNCHANGED <<contents, consumer, request, owed, posted>>

Post ==
    /\ producer = "post"
    /\ sema!Post
    /\ posted' = raised
    /\ producer' = "idle"
    /\ UNCHANGED <<memVars, contents, consumer, request, owed, raised>>

-------------------------------------------------------------------------------
(***************************************************************************)
(* try_dequeue, wait_dequeue, wait_dequeue_timed, pop and peek.             *)
(***************************************************************************)

\* The operation of the semaphore that an operation of the queue begins with.
WaitMode(c) ==
    CASE c = "wait_dequeue" -> "wait"
      [] c = "wait_dequeue_timed" -> "timedWait"
      [] OTHER -> "tryWait"

Dequeue ==
    /\ consumer = "idle"
    /\ request' \in {"try_dequeue", "wait_dequeue", "wait_dequeue_timed", "pop"}
    /\ sema!Call
    /\ mode' = WaitMode(request')
    /\ owed' = signalled - granted
    /\ consumer' = "wait"
    /\ UNCHANGED <<memVars, contents, producer, raised, posted>>

\* The wait has returned.
AfterWait_Regardless(gotToken) == "dequeue"
AfterWait(gotToken) == IF gotToken THEN "dequeue" ELSE "idle"

\* A token comes from m_count by fetch_add_acquire, or from the kernel.
Acquire_Relaxed(e) == UNCHANGED memVars
Acquire(e) ==
    inner!Observe("consumer", acq["consumer"], inner!AcquireFence("consumer", e), mem)

Wait ==
    /\ consumer = "wait"
    /\ sema!WaitStep \/ sema!TimeOut
    /\ consumer' = IF wpc' = "idle" THEN AfterWait(granted' > granted) ELSE "wait"
    /\ IF granted' = granted THEN UNCHANGED memVars
       ELSE Acquire(IF m_sema' < m_sema THEN posted ELSE raised)
    /\ owed' = IF consumer' = "wait" THEN owed ELSE 0
    /\ UNCHANGED <<contents, producer, request, raised, posted>>

\* inner.try_dequeue or inner.pop.
DequeueInner ==
    /\ consumer = "dequeue"
    /\ inner!Dequeue_Start
    /\ call'["consumer"].op = IF request = "pop" THEN "pop" ELSE "try_dequeue"
    /\ consumer' = "inner"
    /\ UNCHANGED <<semaVars, producer, request, owed, raised, posted>>

\* peek goes to the inner queue without asking the semaphore.
Peek ==
    /\ consumer = "idle"
    /\ request' = "peek"
    /\ inner!Dequeue_Start
    /\ call'["consumer"].op = "peek"
    /\ consumer' = "inner"
    /\ UNCHANGED <<semaVars, producer, owed, raised, posted>>

ConsumerInner ==
    /\ consumer = "inner"
    /\ inner!ConsumerStep
    /\ consumer' = IF pc'["consumer"] = "idle" THEN "idle" ELSE "inner"
    /\ UNCHANGED <<semaVars, producer, request, owed, raised, posted>>

-------------------------------------------------------------------------------
ProducerStep == EnqueueInner \/ Signal \/ Post
ConsumerStep == Wait \/ DequeueInner \/ ConsumerInner

Next == Enqueue \/ ProducerStep \/ Dequeue \/ Peek \/ ConsumerStep

Spec == Init /\ [][Next]_vars

\* Each thread goes on with a call it has begun; a wait without a timeout may
\* go on for ever only if nothing is ever enqueued.
FairSpec == Spec /\ WF_vars(ProducerStep) /\ WF_vars(ConsumerStep)

-------------------------------------------------------------------------------
\* assert(success) after a wait, in try_dequeue, wait_dequeue,
\* wait_dequeue_timed and pop: a token always stands for an element that the
\* inner queue can find.
AssertDequeueSucceeds == consumer = "idle" => Len(received) = granted

\* Between calls there are as many tokens as elements: none of the ways an
\* enqueue can fail and a wait can time out lets the two drift apart.
TokensMatchElements ==
    producer = "idle" /\ consumer = "idle" => m_count = Len(inner!Content)

\* A dequeue or pop comes back without an element only if no enqueue that had
\* returned before the call was still to be taken; a timeout does not make it
\* forget one.
EmptyHandedIsHonest ==
    [][consumer = "wait" /\ consumer' = "idle" => owed = 0]_vars

\* To its users the blocking queue is the sequential one: an enqueue takes effect
\* when it signals, a dequeue when it takes its token, and the element it then
\* finds is the one that it was entitled to.
Claimed == granted - Len(received)
Fifo == INSTANCE SpscFifo WITH
            sent <- signalled,
            queue <- SubSeq(inner!Content, Claimed + 1, signalled - Len(received)),
            received <- received \o SubSeq(inner!Content, 1, Claimed)
ImplementsFifo == Fifo!Spec

\* A consumer that waits while there is an element, or that does not wait for
\* ever, returns.
WaiterIsServed ==
    /\ (consumer = "wait" /\ sent > Len(received)) ~> (consumer = "idle")
    /\ (consumer # "idle" /\ request # "wait_dequeue") ~> (consumer = "idle")

===============================================================================
