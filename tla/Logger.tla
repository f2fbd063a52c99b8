-------------------------------- MODULE Logger --------------------------------
(***************************************************************************)
(* The multithreaded logger (logger.cpp, uvlogconsumer.cpp, uvmutex.cpp).   *)
(*                                                                         *)
(* Every thread that logs owns a ThreadLogger with a queue that only it     *)
(* fills; its first call registers the ThreadLogger in the global list      *)
(* `loggers' under logger_mutex and logs a "New logger" message from inside *)
(* that critical section.  A LogConsumer, driven by a libuv timer, holds    *)
(* the same mutex while it drains every registered queue.                   *)
(*                                                                         *)
(* A thread is a natural number, and the order of the numbers is the order  *)
(* of the addresses of the ThreadLoggers: std::set<ThreadLogger *> is       *)
(* iterated in address order.  enqueue and try_dequeue of a queue are       *)
(* single steps here; BlockingReaderWriterQueue models what is inside them. *)
(***************************************************************************)
EXTENDS Integers, Sequences, FiniteSets

CONSTANTS
    Threads,        \* the threads that log, in address order of their loggers
    Consumers,      \* the UvLogConsumers, each on a loop thread of its own
    Free,           \* the value of mutex when nobody holds logger_mutex
    MaxCalls,       \* bound: calls of log_* per thread
    MaxTime,        \* bound: ticks of the clock
    Capacity,       \* elements a queue holds before enqueue must allocate
    MaxFailures,    \* bound: failed allocations per thread
    Garbage         \* values an uninitialised timespec may show

ASSUME ThreadsAssumption == Threads \subseteq Nat
ASSUME ConsumersAssumption == Consumers \cap Threads = {}
ASSUME FreeAssumption == Free \notin Threads \cup Consumers
ASSUME BoundsAssumption ==
    /\ MaxCalls \in Nat
    /\ MaxTime \in Nat
    /\ Capacity \in Nat \ {0}
    /\ MaxFailures \in Nat
ASSUME GarbageAssumption == Garbage # {} /\ Garbage \subseteq Nat

VARIABLES
    mutex,          \* logger_mutex: its owner, or Free
    loggers,        \* the global list of registered ThreadLoggers
    initialized,    \* thread_local flag of get_thread_logger
    close,          \* ThreadLogger::close
    queue,          \* ThreadLogger::messages
    tpc,            \* where a thread is in real_log_msg
    item,           \* item.when: the time a thread read in real_log_msg
    calls,          \* calls of log_* made by a thread
    failures,       \* failed allocations of a thread's queue
    clock,          \* CLOCK_REALTIME
    sent,           \* history: messages that a thread's queue has accepted
    timer,          \* the uv_timer_t of a consumer
    alive,          \* FALSE once the UvLogConsumer has been destroyed
    cpc,            \* where a consumer is in consume()
    at,             \* the iterator of the loop over loggers
    ordered_next,   \* messages taken from a queue and not printed yet
    check_loggers,  \* loggers whose queue was found empty
    poll,           \* the part of check_loggers the inner loop has yet to visit
    output,         \* what ordered_log has written
    snap,           \* history: sent, when consume() last took the mutex
    mark            \* history: Len(output), when consume() last took the mutex

threadVars == <<initialized, close, tpc, item, calls, failures, sent>>
timerVars == <<timer, alive>>
consumerVars == <<cpc, at, ordered_next, check_loggers, poll, output, snap, mark>>
vars == <<mutex, loggers, queue, clock, threadVars, timerVars, consumerVars>>

(***************************************************************************)
(* A queued LogMessage.  src, n and kind identify it: it is the n-th        *)
(* message that the queue of thread src accepted, and kind tells the        *)
(* "New logger" message from the caller's.  stamp is the time that          *)
(* real_log_msg read for it, and when is the `when' member of the queued    *)
(* copy.                                                                    *)
(***************************************************************************)
Message == [src : Threads, n : Nat \ {0}, kind : {"start", "user"},
            stamp : Nat, when : Nat]

ThreadPC == {"run", "lock", "push", "stamp", "enqueue", "unlock", "gone"}
ConsumerPC == {"idle", "lock", "scan", "emit", "poll"}

TypeOK ==
    /\ mutex \in Threads \cup Consumers \cup {Free}
    /\ loggers \in Seq(Threads)
    /\ initialized \in [Threads -> BOOLEAN]
    /\ close \in [Threads -> BOOLEAN]
    /\ queue \in [Threads -> Seq(Message)]
    /\ tpc \in [Threads -> ThreadPC]
    /\ item \in [Threads -> Nat]
    /\ calls \in [Threads -> Nat]
    /\ failures \in [Threads -> Nat]
    /\ clock \in Nat
    /\ sent \in [Threads -> Nat]
    /\ timer \in [Consumers -> {"off", "once", "repeat"}]
    /\ alive \in [Consumers -> BOOLEAN]
    /\ cpc \in [Consumers -> ConsumerPC]
    /\ at \in [Consumers -> Nat \ {0}]
    /\ ordered_next \in [Consumers -> SUBSET Message]
    /\ check_loggers \in [Consumers -> SUBSET Threads]
    /\ poll \in [Consumers -> SUBSET Threads]
    /\ output \in Seq(Message)
    /\ snap \in [Threads -> Nat]
    /\ mark \in Nat

Init ==
    /\ mutex = Free
    /\ loggers = <<>>
    /\ initialized = [t \in Threads |-> FALSE]
    /\ close = [t \in Threads |-> FALSE]
    /\ queue = [t \in Threads |-> <<>>]
    /\ tpc = [t \in Threads |-> "run"]
    /\ item = [t \in Threads |-> 0]
    /\ calls = [t \in Threads |-> 0]
    /\ failures = [t \in Threads |-> 0]
    /\ clock = 0
    /\ sent = [t \in Threads |-> 0]
    /\ timer = [c \in Consumers |-> "off"]
    /\ alive = [c \in Consumers |-> TRUE]
    /\ cpc = [c \in Consumers |-> "idle"]
    /\ at = [c \in Consumers |-> 1]
    /\ ordered_next = [c \in Consumers |-> {}]
    /\ check_loggers = [c \in Consumers |-> {}]
    /\ poll = [c \in Consumers |-> {}]
    /\ output = <<>>
    /\ snap = [t \in Threads |-> 0]
    /\ mark = 0

-------------------------------------------------------------------------------
(***************************************************************************)
(* logger_mutex, taken and released by ScopedMutexLock.  Operators whose     *)
(* names carry a suffix (_Unguarded, _Forgotten, ...) are mistaken variants  *)
(* of the operator that follows them; no action uses them.                  *)
(***************************************************************************)
Acquire_Unguarded(p) == mutex' = p
Acquire(p) == mutex = Free /\ mutex' = p

Release == mutex' = Free

-------------------------------------------------------------------------------
(***************************************************************************)
(* The logging threads.                                                     *)
(***************************************************************************)

\* The test at the head of get_thread_logger.
Enter_NoTest(isInitialized) == "lock"
Enter(isInitialized) == IF isInitialized THEN "stamp" ELSE "lock"

\* A log_* macro: real_log_msg calls get_thread_logger.
LogCall(t) ==
    /\ tpc[t] = "run"
    /\ calls[t] < MaxCalls
    /\ calls' = [calls EXCEPT ![t] = @ + 1]
    /\ tpc' = [tpc EXCEPT ![t] = Enter(initialized[t])]
    /\ UNCHANGED <<mutex, loggers, initialized, close, queue, item, failures,
                   clock, sent, timerVars, consumerVars>>

\* ScopedMutexLock in get_thread_logger.
Lock(t) ==
    /\ tpc[t] = "lock"
    /\ Acquire(t)
    /\ tpc' = [tpc EXCEPT ![t] = "push"]
    /\ UNCHANGED <<loggers, initialized, close, queue, item, calls, failures,
                   clock, sent, timerVars, consumerVars>>

Push_Silent(t) ==
    /\ tpc[t] = "push"
    /\ loggers' = Append(loggers, t)
    /\ initialized' = [initialized EXCEPT ![t] = TRUE]
    /\ tpc' = [tpc EXCEPT ![t] = "unlock"]
    /\ UNCHANGED <<mutex, close, queue, item, calls, failures, clock, sent,
                   timerVars, consumerVars>>

\* loggers.push_back, initialized=true, and the nested log_info, which finds
\* the flag as this step leaves it.
Push(t) ==
    /\ tpc[t] = "push"
    /\ loggers' = Append(loggers, t)
    /\ initialized' = [initialized EXCEPT ![t] = TRUE]
    /\ tpc' = [tpc EXCEPT ![t] = Enter(initialized'[t])]
    /\ UNCHANGED <<mutex, close, queue, item, calls, failures, clock, sent,
                   timerVars, consumerVars>>

\* gettime(item.when).
Stamp(t) ==
    /\ tpc[t] = "stamp"
    /\ item' = [item EXCEPT ![t] = clock]
    /\ tpc' = [tpc EXCEPT ![t] = "enqueue"]
    /\ UNCHANGED <<mutex, loggers, initialized, close, queue, calls, failures,
                   clock, sent, timerVars, consumerVars>>

\* The thread holds the mutex exactly while it logs its "New logger" message.
Kind(t) == IF mutex = t THEN "start" ELSE "user"
Return(t) == IF mutex = t THEN "unlock" ELSE "run"

\* The copy that real_log_msg queues: LogMessage's copy constructor leaves
\* `when' uninitialised.
Copy(t, garbage) ==
    [src |-> t, n |-> sent[t] + 1, kind |-> Kind(t),
     stamp |-> item[t], when |-> garbage]

\* messages.enqueue(newmsg), and the return of real_log_msg.
Enqueue(t) ==
    /\ tpc[t] = "enqueue"
    /\ \E g \in Garbage : queue' = [queue EXCEPT ![t] = Append(@, Copy(t, g))]
    /\ sent' = [sent EXCEPT ![t] = @ + 1]
    /\ tpc' = [tpc EXCEPT ![t] = Return(t)]
    /\ UNCHANGED <<mutex, loggers, initialized, close, item, calls, failures,
                   clock, timerVars, consumerVars>>

\* enqueue finds the tail block full and cannot allocate another.  The caller
\* does not look at the result, so the message is gone.
EnqueueFails(t) ==
    /\ tpc[t] = "enqueue"
    /\ Len(queue[t]) >= Capacity
    /\ failures[t] < MaxFailures
    /\ failures' = [failures EXCEPT ![t] = @ + 1]
    /\ tpc' = [tpc EXCEPT ![t] = Return(t)]
    /\ UNCHANGED <<mutex, loggers, initialized, close, queue, item, calls,
                   clock, sent, timerVars, consumerVars>>

\* End of the scope of the mutex; real_log_msg goes on with the caller's message.
Unlock(t) ==
    /\ tpc[t] = "unlock"
    /\ Release
    /\ tpc' = [tpc EXCEPT ![t] = "stamp"]
    /\ UNCHANGED <<loggers, initialized, close, queue, item, calls, failures,
                   clock, sent, timerVars, consumerVars>>

\* The thread ends; its LogCloser exists if it ever logged.
Exit(t) ==
    /\ tpc[t] = "run"
    /\ tpc' = [tpc EXCEPT ![t] = "gone"]
    /\ close' = [close EXCEPT ![t] = initialized[t]]
    /\ UNCHANGED <<mutex, loggers, initialized, queue, item, calls, failures,
                   clock, sent, timerVars, consumerVars>>

Tick ==
    /\ clock < MaxTime
    /\ clock' = clock + 1
    /\ UNCHANGED <<mutex, loggers, queue, threadVars, timerVars, consumerVars>>

-------------------------------------------------------------------------------
(***************************************************************************)
(* UvLogConsumer.  start, stop and the destructor run on the loop thread,   *)
(* so never while that thread is inside consume().                          *)
(***************************************************************************)
OnLoop(c) == cpc[c] = "idle" /\ alive[c]

\* start(timeout, repeat): with repeat = 0 the timer fires once.
Start(c) ==
    /\ OnLoop(c)
    /\ \E mode \in {"once", "repeat"} : timer' = [timer EXCEPT ![c] = mode]
    /\ UNCHANGED <<mutex, loggers, queue, clock, threadVars, alive, consumerVars>>

Stop(c) ==
    /\ OnLoop(c)
    /\ timer' = [timer EXCEPT ![c] = "off"]
    /\ UNCHANGED <<mutex, loggers, queue, clock, threadVars, alive, consumerVars>>

Destroy_TimerLeftOn(c) ==
    /\ OnLoop(c)
    /\ alive' = [alive EXCEPT ![c] = FALSE]
    /\ UNCHANGED <<mutex, loggers, queue, clock, threadVars, timer, consumerVars>>

\* ~UvLogConsumer.
Destroy(c) ==
    /\ OnLoop(c)
    /\ timer' = [timer EXCEPT ![c] = "off"]
    /\ alive' = [alive EXCEPT ![c] = FALSE]
    /\ UNCHANGED <<mutex, loggers, queue, clock, threadVars, consumerVars>>

\* libuv stops a timer that does not repeat, and calls timer_cb.
TimerCb(c) ==
    /\ cpc[c] = "idle"
    /\ timer[c] # "off"
    /\ timer' = [timer EXCEPT ![c] = IF @ = "once" THEN "off" ELSE @]
    /\ cpc' = [cpc EXCEPT ![c] = "lock"]
    /\ UNCHANGED <<mutex, loggers, queue, clock, threadVars, alive, at,
                   ordered_next, check_loggers, poll, output, snap, mark>>

-------------------------------------------------------------------------------
(***************************************************************************)
(* LogConsumer::consume.                                                    *)
(***************************************************************************)

\* loggers.begin().
First_OffByOne == 2
First == 1

Consume_Lock(c) ==
    /\ cpc[c] = "lock"
    /\ Acquire(c)
    /\ cpc' = [cpc EXCEPT ![c] = "scan"]
    /\ at' = [at EXCEPT ![c] = First]
    /\ ordered_next' = [ordered_next EXCEPT ![c] = {}]
    /\ check_loggers' = [check_loggers EXCEPT ![c] = {}]
    /\ snap' = sent
    /\ mark' = Len(output)
    /\ UNCHANGED <<loggers, queue, clock, threadVars, timerVars, poll, output>>

Loop_DoWhile(next) == "emit"

\* The test of `while (!ordered_next.empty())'; out of it, the loop over
\* loggers goes on.
Loop(next) == IF next = {} THEN "scan" ELSE "emit"

\* The test of the loop over check_loggers.
PollLoop(rest, next) == IF rest # {} THEN "poll" ELSE Loop(next)

Take_ComparedByWhen(c, l) ==
    /\ queue[l] # <<>>
    /\ ordered_next' =
         [ordered_next EXCEPT ![c] =
            IF \E m \in @ : m.when = Head(queue[l]).when
            THEN @
            ELSE @ \cup {Head(queue[l])}]
    /\ queue' = [queue EXCEPT ![l] = Tail(@)]

\* try_dequeue succeeds, and the message goes into ordered_next.
Take(c, l) ==
    /\ queue[l] # <<>>
    /\ ordered_next' = [ordered_next EXCEPT ![c] = @ \cup {Head(queue[l])}]
    /\ queue' = [queue EXCEPT ![l] = Tail(@)]

\* One iteration of the loop over loggers, up to its inner while.
Consume_Scan(c) ==
    /\ cpc[c] = "scan"
    /\ at[c] <= Len(loggers)
    /\ LET l == loggers[at[c]] IN
        \/ /\ Take(c, l)
           /\ UNCHANGED check_loggers
        \/ /\ queue[l] = <<>>
           /\ check_loggers' = [check_loggers EXCEPT ![c] = @ \cup {l}]
           /\ UNCHANGED <<queue, ordered_next>>
    /\ at' = [at EXCEPT ![c] = @ + 1]
    /\ cpc' = [cpc EXCEPT ![c] = Loop(ordered_next'[c])]
    /\ UNCHANGED <<mutex, loggers, clock, threadVars, timerVars, poll, output,
                   snap, mark>>

\* check_loggers.insert(first->second): look at the queue of a printed message.
Recheck_Never(check, l) == check
Recheck(check, l) == check \cup {l}

\* ordered_log of the first of ordered_next.  The set is ordered by the
\* addresses of the messages, which malloc chooses: any of them may be first.
Consume_Emit(c) ==
    /\ cpc[c] = "emit"
    /\ \E m \in ordered_next[c] :
        /\ output' = Append(output, m)
        /\ ordered_next' = [ordered_next EXCEPT ![c] = @ \ {m}]
        /\ check_loggers' = [check_loggers EXCEPT ![c] = Recheck(@, m.src)]
    /\ poll' = [poll EXCEPT ![c] = check_loggers'[c]]
    /\ cpc' = [cpc EXCEPT ![c] = PollLoop(poll'[c], ordered_next'[c])]
    /\ UNCHANGED <<mutex, loggers, queue, clock, threadVars, timerVars, at,
                   snap, mark>>

\* check_loggers.erase(logger): leave a queue alone while a message of it waits.
Erase_Never(check, l) == check
Erase(check, l) == check \ {l}

\* One iteration of the loop over check_loggers, in address order.
Consume_Poll(c) ==
    /\ cpc[c] = "poll"
    /\ \E l \in poll[c] :
        /\ \A k \in poll[c] : l <= k
        /\ \/ /\ Take(c, l)
              /\ check_loggers' = [check_loggers EXCEPT ![c] = Erase(@, l)]
           \/ /\ queue[l] = <<>>
              /\ UNCHANGED <<queue, ordered_next, check_loggers>>
        /\ poll' = [poll EXCEPT ![c] = @ \ {l}]
    /\ cpc' = [cpc EXCEPT ![c] = PollLoop(poll'[c], ordered_next'[c])]
    /\ UNCHANGED <<mutex, loggers, clock, threadVars, timerVars, at, output,
                   snap, mark>>

\* The loop over loggers is done: the mutex goes out of scope.
Consume_Unlock(c) ==
    /\ cpc[c] = "scan"
    /\ at[c] > Len(loggers)
    /\ Release
    /\ cpc' = [cpc EXCEPT ![c] = "idle"]
    /\ UNCHANGED <<loggers, queue, clock, threadVars, timerVars, at,
                   ordered_next, check_loggers, poll, output, snap, mark>>

-------------------------------------------------------------------------------
\* The steps of a thread that is inside get_thread_logger or real_log_msg.
ThreadStep(t) ==
    \/ Push(t) \/ Stamp(t) \/ Enqueue(t) \/ EnqueueFails(t) \/ Unlock(t)

Thread(t) == LogCall(t) \/ Lock(t) \/ ThreadStep(t) \/ Exit(t)

ConsumeStep(c) ==
    \/ TimerCb(c) \/ Consume_Lock(c) \/ Consume_Scan(c)
    \/ Consume_Emit(c) \/ Consume_Poll(c) \/ Consume_Unlock(c)

Consumer(c) == Start(c) \/ Stop(c) \/ Destroy(c) \/ ConsumeStep(c)

Next ==
    \/ \E t \in Threads : Thread(t)
    \/ \E c \in Consumers : Consumer(c)
    \/ Tick

Spec == Init /\ [][Next]_vars

(***************************************************************************)
(* Fairness: the operating system runs every thread that can run, so a      *)
(* thread inside a logging call and a loop thread inside consume() go on;   *)
(* and a libuv loop calls the callback of a timer that is due.  Nothing is  *)
(* assumed of a thread that waits for the mutex while others take it in     *)
(* turn (a pthread mutex is not fair), nor that anybody logs, starts a      *)
(* timer or ends.                                                           *)
(***************************************************************************)
Fairness ==
    /\ \A t \in Threads : WF_vars(ThreadStep(t))
    /\ \A c \in Consumers : WF_vars(ConsumeStep(c))

FairSpec == Spec /\ Fairness

-------------------------------------------------------------------------------
(***************************************************************************)
(* Correctness.                                                             *)
(***************************************************************************)

\* Between ScopedMutexLock and the end of consume().
InConsume(c) == cpc[c] \in {"scan", "emit", "poll"}

\* Between ScopedMutexLock and the end of its scope in get_thread_logger.
Registering(t) ==
    \/ tpc[t] \in {"push", "unlock"}
    \/ mutex = t

Printed(t, k) ==
    \E i \in 1 .. Len(output) : output[i].src = t /\ output[i].n = k
InHand(t, k) ==
    \E c \in Consumers : \E m \in ordered_next[c] : m.src = t /\ m.n = k
Queued(t, k) == \E i \in 1 .. Len(queue[t]) : queue[t][i].n = k

\* At most one consumer is inside consume(), and none while a thread registers:
\* the queues have one reader at a time (the ReentrantGuard of the queue) and
\* the list is not iterated while it grows.
OneAtATime ==
    /\ \A c, d \in Consumers : InConsume(c) /\ InConsume(d) => c = d
    /\ \A c \in Consumers, t \in Threads : ~ (InConsume(c) /\ Registering(t))
    /\ \A t, u \in Threads : Registering(t) /\ Registering(u) => t = u

\* logger_mutex is not recursive, and get_thread_logger logs while it holds it:
\* nobody may come to wait for a mutex that it owns itself.
NoSelfDeadlock ==
    /\ \A t \in Threads : tpc[t] = "lock" => mutex # t
    /\ \A c \in Consumers : cpc[c] = "lock" => mutex # c

\* The lines of one thread are printed in the order it logged them, and none
\* twice, whatever order the set of consume() gives to messages.
PerThreadFifo ==
    \A i, j \in 1 .. Len(output) :
        i < j /\ output[i].src = output[j].src => output[i].n < output[j].n

\* A message that a queue accepted is in exactly one place until it is printed,
\* and after that only in the output: consume() neither drops nor repeats one,
\* also when its thread ends or several consumers take turns.
NothingLost ==
    \A t \in Threads : \A k \in 1 .. sent[t] :
        /\ Queued(t, k) \/ InHand(t, k) \/ Printed(t, k)
        /\ ~ (Queued(t, k) /\ InHand(t, k))
        /\ ~ (Queued(t, k) /\ Printed(t, k))
        /\ ~ (InHand(t, k) /\ Printed(t, k))

\* When consume() returns, everything that had been queued when it took the
\* mutex has been printed, although it only looks at a queue again after it
\* has found it empty or printed its last message.
DrainedOnReturn ==
    \A c \in Consumers :
        cpc[c] = "scan" /\ at[c] > Len(loggers) =>
            \A t \in Threads : \A k \in 1 .. snap[t] : Printed(t, k)

\* The first line of every thread in the log is its "New logger" line: the
\* nested call is queued before the message that caused it.
StartMessageFirst ==
    \A i \in 1 .. Len(output) : (output[i].n = 1) <=> (output[i].kind = "start")

\* stop() in the destructor is enough for the timer not to call consume() on a
\* UvLogConsumer that is gone.
NoCallbackAfterDestruction ==
    \A c \in Consumers : cpc[c] # "idle" => alive[c]

\* The list that consume() iterates does not change under it.
LoggersStable ==
    [][(\E c \in Consumers : InConsume(c)) => loggers' = loggers]_vars

\* If some consumer's timer keeps running, every accepted message is printed in
\* the end, also those of threads that have ended.
EventuallyPrinted ==
    (\E c \in Consumers : <>[](timer[c] = "repeat")) =>
        \A t \in Threads : \A k \in 1 .. MaxCalls + 1 :
            (sent[t] >= k) ~> Printed(t, k)

\* consume() comes to an end and gives logger_mutex back, although its inner
\* loops look again and again at queues that other threads fill meanwhile:
\* threads that are done logging cannot keep it going.
ConsumeReturns == \A c \in Consumers : InConsume(c) ~> ~ InConsume(c)

\* What the comment at the head of logger.cpp says of consume(): "Sorting is
\* done by timestamp".  Stated for the messages that were all in their queues
\* when consume() took the mutex.
SortedByTimestamp ==
    \A i, j \in mark + 1 .. Len(output) :
        /\ i < j
        /\ output[i].n <= snap[output[i].src]
        /\ output[j].n <= snap[output[j].src]
        => output[i].stamp <= output[j].stamp

-------------------------------------------------------------------------------
(***************************************************************************)
(* The inductive invariant behind the safety properties, in layers.         *)
(***************************************************************************)

\* Messages that have left the queue of t.
Taken(t) == sent[t] - Len(queue[t])

\* Who holds logger_mutex, by where everybody is.
MutexInv ==
    /\ \A c \in Consumers : InConsume(c) <=> mutex = c
    /\ \A t \in Threads : tpc[t] \in {"push", "unlock"} => mutex = t
    /\ \A t \in Threads :
        mutex = t => tpc[t] \in {"push", "stamp", "enqueue", "unlock"}

\* The list holds each thread that has registered, once.
RegisterInv ==
    /\ \A i, j \in 1 .. Len(loggers) : loggers[i] = loggers[j] => i = j
    /\ \A i \in 1 .. Len(loggers) : initialized[loggers[i]]
    /\ \A t \in Threads : initialized[t] => \E i \in 1 .. Len(loggers) : loggers[i] = t
    /\ \A t \in Threads : tpc[t] \in {"lock", "push"} => ~ initialized[t]
    /\ \A t \in Threads : tpc[t] \in {"stamp", "enqueue", "unlock"} => initialized[t]
    /\ \A t \in Threads : ~ initialized[t] => sent[t] = 0

\* A queue holds the last messages of its thread, in order.
QueueInv ==
    \A t \in Threads :
        /\ Len(queue[t]) <= sent[t]
        /\ \A i \in 1 .. Len(queue[t]) :
            /\ queue[t][i].src = t
            /\ queue[t][i].n = Taken(t) + i

\* Where the loops of consume() stand: check_loggers and the messages in hand
\* come from loggers before the iterator, no logger is in both, and there are
\* no messages in hand outside the while loop.
Scanned(c) == {loggers[i] : i \in 1 .. at[c] - 1}

LoopInv ==
    \A c \in Consumers :
        /\ cpc[c] \notin {"emit", "poll"} => ordered_next[c] = {}
        /\ InConsume(c) =>
            /\ at[c] <= Len(loggers) + 1
            /\ check_loggers[c] \subseteq Scanned(c)
            /\ \A m \in ordered_next[c] :
                m.src \in Scanned(c) /\ m.src \notin check_loggers[c]
            /\ cpc[c] = "poll" => poll[c] \subseteq check_loggers[c]

\* A message in hand is the last one taken from its queue; nothing printed is
\* later than it, or than what has been taken.
HandInv ==
    \A c \in Consumers : \A m \in ordered_next[c] :
        /\ m.n = Taken(m.src)
        /\ \A l \in ordered_next[c] : l.src = m.src => l = m
        /\ \A i \in 1 .. Len(output) : output[i].src = m.src => output[i].n < m.n

OutputInv ==
    \A i \in 1 .. Len(output) : output[i].n <= Taken(output[i].src)

\* Everything that has been taken is in hand or printed.
CoverInv ==
    \A t \in Threads : \A k \in 1 .. Taken(t) : InHand(t, k) \/ Printed(t, k)

\* A logger that the loop has passed has nothing left from before the call,
\* unless a message of it is in hand or it is about to be looked at again.
DrainInv ==
    \A c \in Consumers : InConsume(c) =>
        /\ \A t \in Threads : snap[t] <= sent[t]
        /\ \A t \in Scanned(c) :
            \/ Taken(t) >= snap[t]
            \/ \E m \in ordered_next[c] : m.src = t
            \/ cpc[c] = "poll" /\ t \in poll[c]

\* Of a thread's messages the first one, and only it, is queued under the mutex.
StartInv ==
    /\ \A t \in Threads : mutex = t /\ tpc[t] # "unlock" => sent[t] = 0
    /\ \A t \in Threads :
        initialized[t] /\ (mutex # t \/ tpc[t] = "unlock") => sent[t] > 0

\* The kinds that the messages carry, wherever they are.
KindInv ==
    /\ \A t \in Threads : \A i \in 1 .. Len(queue[t]) :
        (queue[t][i].n = 1) <=> (queue[t][i].kind = "start")
    /\ \A c \in Consumers : \A m \in ordered_next[c] :
        (m.n = 1) <=> (m.kind = "start")
    /\ StartMessageFirst

\* A timer that is on, or a callback that runs, belongs to a living consumer.
TimerInv ==
    \A c \in Consumers : timer[c] # "off" \/ cpc[c] # "idle" => alive[c]

Inv ==
    /\ TypeOK
    /\ MutexInv
    /\ RegisterInv
    /\ QueueInv
    /\ LoopInv
    /\ HandInv
    /\ OutputInv
    /\ PerThreadFifo
    /\ CoverInv
    /\ DrainInv
    /\ StartInv
    /\ KindInv
    /\ TimerInv

-------------------------------------------------------------------------------
(***************************************************************************)
(* The whole logger, seen from outside, merges the streams of the threads:   *)
(* a message of t is in the log once it has left the queue of t and is not   *)
(* in the hands of a consumer.                                              *)
(***************************************************************************)
Holding(t) == \E c \in Consumers : \E m \in ordered_next[c] : m.src = t

Shown == [t \in Threads |-> IF Holding(t) THEN Taken(t) - 1 ELSE Taken(t)]

Lines == [i \in 1 .. Len(output) |-> <<output[i].src, output[i].n>>]

Merged ==
    INSTANCE MergedLog WITH Sources <- Threads, printed <- Shown, log <- Lines

\* Every step of a thread or of consume() either does not show in the log,
\* extends the stream of one thread, or prints the next message of one thread:
\* no order of registrations, polls and the address-ordered set breaks the merge.
ImplementsMergedLog == Merged!Spec

===============================================================================
