----------------------------- MODULE LoggerProofs -----------------------------
(***************************************************************************)
(* Proofs about Logger, for every set of threads and consumers and every     *)
(* value of the bounds.                                                     *)
(***************************************************************************)
EXTENDS Logger, SequenceTheorems, TLAPS

\* What a thread queues is a LogMessage.
LEMMA CopyType ==
  ASSUME TypeOK, NEW t \in Threads, NEW g \in Garbage
  PROVE  Copy(t, g) \in Message
  BY GarbageAssumption DEF Copy, Kind, TypeOK, Message

\* try_dequeue yields a LogMessage and leaves a queue of LogMessages.
LEMMA TakeType ==
  ASSUME TypeOK, NEW c \in Consumers, NEW l \in Threads, Take(c, l)
  PROVE  /\ queue' \in [Threads -> Seq(Message)]
         /\ ordered_next' \in [Consumers -> SUBSET Message]
  <1>1. queue[l] \in Seq(Message) /\ queue[l] # <<>>
    BY DEF TypeOK, Take
  <1>2. Head(queue[l]) \in Message /\ Tail(queue[l]) \in Seq(Message)
    BY <1>1, HeadTailProperties
  <1> QED
    BY <1>2 DEF TypeOK, Take

\* get_thread_logger goes one of two ways.
LEMMA EnterType == \A x : Enter(x) \in ThreadPC
  BY DEF Enter, ThreadPC

\* The loops of consume() go on or end.
LEMMA LoopType ==
  \A x, y : Loop(x) \in ConsumerPC /\ PollLoop(y, x) \in ConsumerPC
  BY DEF Loop, PollLoop, ConsumerPC

LEMMA InitType == Init => TypeOK
  BY FreeAssumption DEF Init, TypeOK, Message, ThreadPC, ConsumerPC

\* Every step of a thread and of a consumer keeps the types.
LEMMA NextType == TypeOK /\ [Next]_vars => TypeOK'
  <1> SUFFICES ASSUME TypeOK, [Next]_vars PROVE TypeOK'
    OBVIOUS
  <1> USE DEF TypeOK, ThreadPC, ConsumerPC, threadVars, timerVars, consumerVars
  <1>1. ASSUME NEW t \in Threads, Thread(t) PROVE TypeOK'
    <2>1. CASE LogCall(t)
      <3>1. tpc' \in [Threads -> ThreadPC]
        BY <2>1, EnterType DEF LogCall
      <3>2. calls' \in [Threads -> Nat]
        BY <2>1 DEF LogCall
      <3>3. UNCHANGED <<mutex, loggers, initialized, close, queue, item,
                        failures, clock, sent, timerVars, consumerVars>>
        BY <2>1 DEF LogCall
      <3> QED
        BY <3>1, <3>2, <3>3
    <2>2. CASE Lock(t)
      BY <2>2 DEF Lock, Acquire
    <2>3. CASE Push(t)
      <3>1. tpc' \in [Threads -> ThreadPC]
        BY <2>3, EnterType DEF Push
      <3>2. initialized' \in [Threads -> BOOLEAN]
        BY <2>3 DEF Push
      <3>3. loggers' \in Seq(Threads)
        BY <2>3 DEF Push
      <3> QED
        BY <2>3, <3>1, <3>2, <3>3 DEF Push
    <2>4. CASE Stamp(t)
      BY <2>4 DEF Stamp
    <2>5. CASE Enqueue(t)
      <3>1. PICK g \in Garbage :
              queue' = [queue EXCEPT ![t] = Append(@, Copy(t, g))]
        BY <2>5 DEF Enqueue
      <3>2. Copy(t, g) \in Message
        BY CopyType
      <3>3. queue' \in [Threads -> Seq(Message)]
        BY <3>1, <3>2
      <3> QED
        BY <2>5, <3>3 DEF Enqueue, Return
    <2>6. CASE EnqueueFails(t)
      <3>1. tpc' \in [Threads -> ThreadPC]
        BY <2>6 DEF EnqueueFails, Return
      <3>2. failures' \in [Threads -> Nat]
        BY <2>6 DEF EnqueueFails
      <3>3. UNCHANGED <<mutex, loggers, initialized, close, queue, item, calls,
                        clock, sent, timerVars, consumerVars>>
        BY <2>6 DEF EnqueueFails
      <3> QED
        BY <3>1, <3>2, <3>3
    <2>7. CASE Unlock(t)
      BY <2>7 DEF Unlock, Release
    <2>8. CASE Exit(t)
      <3>1. close' \in [Threads -> BOOLEAN]
        BY <2>8, Zenon DEF Exit
      <3>2. tpc' \in [Threads -> ThreadPC]
        BY <2>8 DEF Exit
      <3> QED
        BY <2>8, <3>1, <3>2 DEF Exit
    <2> QED
      BY <1>1, <2>1, <2>2, <2>3, <2>4, <2>5, <2>6, <2>7, <2>8
      DEF Thread, ThreadStep
  <1>2. ASSUME NEW c \in Consumers, Consumer(c) PROVE TypeOK'
    <2>1. CASE Start(c)
      BY <2>1 DEF Start
    <2>2. CASE Stop(c)
      BY <2>2 DEF Stop
    <2>3. CASE Destroy(c)
      BY <2>3 DEF Destroy
    <2>4. CASE TimerCb(c)
      BY <2>4 DEF TimerCb
    <2>5. CASE Consume_Lock(c)
      BY <2>5 DEF Consume_Lock, Acquire, First
    <2>6. CASE Consume_Scan(c)
      <3> DEFINE l == loggers[at[c]]
      <3>1. l \in Threads
        BY <2>6 DEF Consume_Scan
      <3>2. cpc' \in [Consumers -> ConsumerPC]
        BY <2>6, LoopType DEF Consume_Scan
      <3>3. at' \in [Consumers -> Nat \ {0}]
        <4>1. at' = [at EXCEPT ![c] = at[c] + 1]
          BY <2>6 DEF Consume_Scan
        <4> QED
          BY <4>1
      <3>4. UNCHANGED <<mutex, loggers, clock, threadVars, timerVars, poll,
                        output, snap, mark>>
        BY <2>6 DEF Consume_Scan
      <3>5. CASE Take(c, l) /\ UNCHANGED check_loggers
        <4>1. /\ queue' \in [Threads -> Seq(Message)]
              /\ ordered_next' \in [Consumers -> SUBSET Message]
          BY <3>1, <3>5, TakeType
        <4> QED
          BY <3>2, <3>3, <3>4, <3>5, <4>1
      <3>6. CASE /\ check_loggers' = [check_loggers EXCEPT ![c] = @ \cup {l}]
                 /\ UNCHANGED <<queue, ordered_next>>
        <4>1. check_loggers' \in [Consumers -> SUBSET Threads]
          BY <3>1, <3>6
        <4> QED
          BY <3>2, <3>3, <3>4, <3>6, <4>1
      <3> QED
        BY <2>6, <3>5, <3>6 DEF Consume_Scan
    <2>7. CASE Consume_Emit(c)
      <3>1. PICK m \in ordered_next[c] :
              /\ output' = Append(output, m)
              /\ ordered_next' = [ordered_next EXCEPT ![c] = @ \ {m}]
              /\ check_loggers' =
                    [check_loggers EXCEPT ![c] = Recheck(@, m.src)]
        BY <2>7 DEF Consume_Emit
      <3>2. m \in Message /\ m.src \in Threads
        BY <3>1 DEF Message
      <3>3. output' \in Seq(Message)
        BY <3>1, <3>2
      <3>4. check_loggers' \in [Consumers -> SUBSET Threads]
        BY <3>1, <3>2 DEF Recheck
      <3> QED
        BY <2>7, <3>1, <3>3, <3>4 DEF Consume_Emit, PollLoop, Loop
    <2>8. CASE Consume_Poll(c)
      <3>1. PICK l \in poll[c] :
              /\ \/ Take(c, l) /\ check_loggers' =
                        [check_loggers EXCEPT ![c] = Erase(@, l)]
                 \/ UNCHANGED <<queue, ordered_next, check_loggers>>
              /\ poll' = [poll EXCEPT ![c] = @ \ {l}]
        BY <2>8 DEF Consume_Poll
      <3>2. l \in Threads
        BY <3>1
      <3>3. /\ queue' \in [Threads -> Seq(Message)]
            /\ ordered_next' \in [Consumers -> SUBSET Message]
        BY <3>1, <3>2, TakeType
      <3>4. check_loggers' \in [Consumers -> SUBSET Threads]
        <4>1. CASE check_loggers' = [check_loggers EXCEPT ![c] = Erase(@, l)]
          BY <4>1 DEF Erase
        <4>2. CASE UNCHANGED check_loggers
          BY <4>2
        <4> QED
          BY <3>1, <4>1, <4>2
      <3>5. cpc' \in [Consumers -> ConsumerPC]
        BY <2>8, LoopType DEF Consume_Poll
      <3>6. UNCHANGED <<mutex, loggers, clock, threadVars, timerVars, at,
                        output, snap, mark>>
        BY <2>8 DEF Consume_Poll
      <3> QED
        BY <3>1, <3>3, <3>4, <3>5, <3>6
    <2>9. CASE Consume_Unlock(c)
      BY <2>9 DEF Consume_Unlock, Release
    <2> QED
      BY <1>2, <2>1, <2>2, <2>3, <2>4, <2>5, <2>6, <2>7, <2>8, <2>9
      DEF Consumer, ConsumeStep
  <1>3. CASE Tick
    BY <1>3 DEF Tick
  <1>4. CASE UNCHANGED vars
    BY <1>4 DEF vars
  <1> QED
    BY <1>1, <1>2, <1>3, <1>4 DEF Next

\* Type correctness of the logger.
THEOREM TypeCorrect == Spec => []TypeOK
  BY InitType, NextType, PTL DEF Spec

-------------------------------------------------------------------------------
(***************************************************************************)
(* Who holds logger_mutex, and who is in the list.                          *)
(***************************************************************************)

\* Where a call of real_log_msg goes, by the flag it finds.
LEMMA LogCallEnters ==
  ASSUME TypeOK, NEW t \in Threads, LogCall(t)
  PROVE  /\ tpc[t] = "run"
         /\ \/ initialized[t] /\ tpc' = [tpc EXCEPT ![t] = "stamp"]
            \/ ~ initialized[t] /\ tpc' = [tpc EXCEPT ![t] = "lock"]
  <1>1. CASE initialized[t]
    BY <1>1, Zenon DEF LogCall, Enter
  <1>2. CASE ~ initialized[t]
    BY <1>2, Zenon DEF LogCall, Enter
  <1> QED
    BY <1>1, <1>2 DEF LogCall

\* The nested call finds the flag set.
LEMMA PushEnters ==
  ASSUME TypeOK, NEW t \in Threads, Push(t)
  PROVE  /\ tpc[t] = "push"
         /\ tpc' = [tpc EXCEPT ![t] = "stamp"]
         /\ initialized' = [initialized EXCEPT ![t] = TRUE]
         /\ loggers' = Append(loggers, t)
  <1>1. initialized'[t] = TRUE
    BY DEF Push, TypeOK
  <1>2. Enter(initialized'[t]) = "stamp"
    BY <1>1 DEF Enter
  <1> QED
    BY <1>2 DEF Push

\* No two of the sets of identities that may own the mutex overlap.
LEMMA Owners ==
  /\ \A t \in Threads : t # Free /\ t \notin Consumers
  /\ \A c \in Consumers : c # Free /\ c \notin Threads
  BY FreeAssumption, ConsumersAssumption

LEMMA InitMutex == Init => MutexInv
  BY Owners DEF Init, MutexInv, InConsume

LEMMA NextMutex == TypeOK /\ MutexInv /\ [Next]_vars => MutexInv'
  <1> SUFFICES ASSUME TypeOK, MutexInv, [Next]_vars PROVE MutexInv'
    OBVIOUS
  <1>t. /\ tpc \in [Threads -> ThreadPC]
        /\ cpc \in [Consumers -> ConsumerPC]
    BY DEF TypeOK
  <1> USE <1>t, Owners DEF MutexInv, InConsume, ThreadPC, ConsumerPC,
                           threadVars, timerVars, consumerVars
  <1>1. ASSUME NEW t \in Threads, Thread(t) PROVE MutexInv'
    <2>1. CASE LogCall(t)
      <3>1. UNCHANGED <<mutex, cpc>>
        BY <2>1 DEF LogCall
      <3> QED
        BY <2>1, <3>1, LogCallEnters
    <2>2. CASE Lock(t)
      BY <2>2 DEF Lock, Acquire
    <2>3. CASE Push(t)
      <3>1. UNCHANGED <<mutex, cpc>>
        BY <2>3 DEF Push
      <3> QED
        BY <2>3, <3>1, PushEnters
    <2>4. CASE Stamp(t)
      BY <2>4 DEF Stamp
    <2>5. CASE Enqueue(t)
      BY <2>5 DEF Enqueue, Return
    <2>6. CASE EnqueueFails(t)
      BY <2>6 DEF EnqueueFails, Return
    <2>7. CASE Unlock(t)
      BY <2>7 DEF Unlock, Release
    <2>8. CASE Exit(t)
      <3>1. /\ tpc[t] = "run" /\ tpc' = [tpc EXCEPT ![t] = "gone"]
            /\ UNCHANGED <<mutex, cpc>>
        BY <2>8 DEF Exit
      <3> QED
        BY <3>1
    <2> QED
      BY <1>1, <2>1, <2>2, <2>3, <2>4, <2>5, <2>6, <2>7, <2>8
      DEF Thread, ThreadStep
  <1>2. ASSUME NEW c \in Consumers, Consumer(c) PROVE MutexInv'
    <2>1. CASE Start(c) \/ Stop(c) \/ Destroy(c)
      BY <2>1 DEF Start, Stop, Destroy
    <2>2. CASE TimerCb(c)
      BY <2>2 DEF TimerCb
    <2>3. CASE Consume_Lock(c)
      BY <2>3 DEF Consume_Lock, Acquire
    <2>4. CASE Consume_Scan(c)
      BY <2>4 DEF Consume_Scan, Loop
    <2>5. CASE Consume_Emit(c)
      BY <2>5 DEF Consume_Emit, PollLoop, Loop
    <2>6. CASE Consume_Poll(c)
      BY <2>6 DEF Consume_Poll, PollLoop, Loop
    <2>7. CASE Consume_Unlock(c)
      BY <2>7 DEF Consume_Unlock, Release
    <2> QED
      BY <1>2, <2>1, <2>2, <2>3, <2>4, <2>5, <2>6, <2>7
      DEF Consumer, ConsumeStep
  <1>3. CASE Tick
    BY <1>3 DEF Tick
  <1>4. CASE UNCHANGED vars
    BY <1>4 DEF vars
  <1> QED
    BY <1>1, <1>2, <1>3, <1>4 DEF Next

LEMMA MutexInvariance == Spec => [](TypeOK /\ MutexInv)
  BY InitType, NextType, InitMutex, NextMutex, PTL DEF Spec

\* consume() runs in one thread at a time, and never while a thread registers.
THEOREM MutualExclusion == Spec => []OneAtATime
  <1>1. TypeOK /\ MutexInv => OneAtATime
    BY Owners DEF MutexInv, OneAtATime, InConsume, Registering
  <1> QED
    BY <1>1, MutexInvariance, PTL

\* Nobody waits for logger_mutex while owning it.
THEOREM SelfDeadlockFree == Spec => []NoSelfDeadlock
  <1>1. TypeOK /\ MutexInv => NoSelfDeadlock
    BY DEF MutexInv, NoSelfDeadlock, InConsume
  <1> QED
    BY <1>1, MutexInvariance, PTL

\* Only a thread that registers changes the list, and it owns the mutex then.
LEMMA OnlyPush ==
  ASSUME [Next]_vars, loggers' # loggers
  PROVE  \E t \in Threads : tpc[t] = "push"
  <1> USE DEF threadVars, timerVars, consumerVars
  <1>1. ASSUME NEW t \in Threads, Thread(t) PROVE tpc[t] = "push"
    <2>1. Push(t)
      BY <1>1 DEF Thread, ThreadStep, LogCall, Lock, Stamp, Enqueue,
                  EnqueueFails, Unlock, Exit
    <2> QED
      BY <2>1 DEF Push
  <1>2. ASSUME NEW c \in Consumers, Consumer(c) PROVE FALSE
    BY <1>2 DEF Consumer, ConsumeStep, Start, Stop, Destroy, TimerCb,
                Consume_Lock, Consume_Scan, Consume_Emit, Consume_Poll,
                Consume_Unlock
  <1>3. ~ Tick /\ ~ UNCHANGED vars
    BY DEF Tick, vars
  <1> QED
    BY <1>1, <1>2, <1>3 DEF Next

\* The list does not change while consume() iterates over it.
THEOREM ListIsStable == Spec => LoggersStable
  <1>1. TypeOK /\ MutexInv /\ [Next]_vars =>
          [(\E c \in Consumers : InConsume(c)) => loggers' = loggers]_vars
    <2> SUFFICES ASSUME MutexInv, [Next]_vars,
                        NEW c \in Consumers, InConsume(c), loggers' # loggers
                 PROVE  FALSE
      OBVIOUS
    <2>1. PICK t \in Threads : tpc[t] = "push"
      BY OnlyPush
    <2>2. mutex = t /\ mutex = c
      BY <2>1 DEF MutexInv
    <2> QED
      BY <2>2, Owners
  <1> QED
    BY <1>1, MutexInvariance, PTL DEF Spec, LoggersStable

-------------------------------------------------------------------------------
LEMMA InitRegister == Init => RegisterInv
  BY DEF Init, RegisterInv

LEMMA NextRegister == TypeOK /\ RegisterInv /\ [Next]_vars => RegisterInv'
  <1> SUFFICES ASSUME TypeOK, RegisterInv, [Next]_vars PROVE RegisterInv'
    OBVIOUS
  <1>t. /\ loggers \in Seq(Threads)
        /\ initialized \in [Threads -> BOOLEAN]
        /\ tpc \in [Threads -> ThreadPC]
        /\ sent \in [Threads -> Nat]
    BY DEF TypeOK
  <1> USE <1>t DEF RegisterInv, ThreadPC
  <1>u. CASE UNCHANGED <<loggers, initialized, tpc, sent>>
    BY <1>u
  <1>1. ASSUME NEW t \in Threads, Thread(t) PROVE RegisterInv'
    <2>1. CASE LogCall(t)
      <3>1. UNCHANGED <<loggers, initialized, sent>>
        BY <2>1 DEF LogCall
      <3> QED
        BY <2>1, <3>1, LogCallEnters
    <2>2. CASE Lock(t)
      BY <2>2 DEF Lock
    <2>3. CASE Push(t)
      <3>1. UNCHANGED sent
        BY <2>3 DEF Push
      <3>2. /\ tpc[t] = "push"
            /\ tpc' = [tpc EXCEPT ![t] = "stamp"]
            /\ initialized' = [initialized EXCEPT ![t] = TRUE]
            /\ loggers' = Append(loggers, t)
        BY <2>3, PushEnters
      <3>3. ~ initialized[t]
        BY <3>2
      <3>4. /\ Len(loggers') = Len(loggers) + 1
            /\ \A i \in 1 .. Len(loggers) : loggers'[i] = loggers[i]
            /\ loggers'[Len(loggers) + 1] = t
        BY <3>2
      <3>5. \A i \in 1 .. Len(loggers) : loggers[i] # t /\ loggers[i] \in Threads
        BY <3>3
      <3>6. \A i, j \in 1 .. Len(loggers') : loggers'[i] = loggers'[j] => i = j
        <4> SUFFICES ASSUME NEW i \in 1 .. Len(loggers'),
                            NEW j \in 1 .. Len(loggers'),
                            loggers'[i] = loggers'[j]
                     PROVE  i = j
          OBVIOUS
        <4>1. Len(loggers) \in Nat
          OBVIOUS
        <4>2. CASE i \in 1 .. Len(loggers) /\ j \in 1 .. Len(loggers)
          BY <3>4, <4>2
        <4>3. CASE i = Len(loggers) + 1 \/ j = Len(loggers) + 1
          BY <3>4, <3>5, <4>1, <4>3
        <4> QED
          BY <3>4, <4>1, <4>2, <4>3
      <3>7. \A i \in 1 .. Len(loggers') : initialized'[loggers'[i]]
        BY <3>2, <3>4, <3>5
      <3>8. \A u \in Threads : initialized'[u] =>
                \E i \in 1 .. Len(loggers') : loggers'[i] = u
        <4> SUFFICES ASSUME NEW u \in Threads, initialized'[u]
                     PROVE  \E i \in 1 .. Len(loggers') : loggers'[i] = u
          OBVIOUS
        <4>1. CASE u = t
          BY <3>4, <4>1
        <4>2. CASE u # t
          <5>1. initialized[u]
            BY <3>2, <4>2
          <5> QED
            BY <3>4, <5>1
        <4> QED
          BY <4>1, <4>2
      <3>9. \A u \in Threads :
                /\ tpc'[u] \in {"lock", "push"} => ~ initialized'[u]
                /\ tpc'[u] \in {"stamp", "enqueue", "unlock"} => initialized'[u]
                /\ ~ initialized'[u] => sent'[u] = 0
        BY <3>1, <3>2
      <3> QED
        BY <3>6, <3>7, <3>8, <3>9
    <2>4. CASE Stamp(t)
      BY <2>4 DEF Stamp
    <2>5. CASE Enqueue(t)
      BY <2>5 DEF Enqueue, Return
    <2>6. CASE EnqueueFails(t)
      BY <2>6 DEF EnqueueFails, Return
    <2>7. CASE Unlock(t)
      BY <2>7 DEF Unlock
    <2>8. CASE Exit(t)
      <3>1. /\ tpc' = [tpc EXCEPT ![t] = "gone"]
            /\ UNCHANGED <<loggers, initialized, sent>>
        BY <2>8 DEF Exit
      <3> QED
        BY <3>1
    <2> QED
      BY <1>1, <2>1, <2>2, <2>3, <2>4, <2>5, <2>6, <2>7, <2>8
      DEF Thread, ThreadStep
  <1>2. ASSUME NEW c \in Consumers, Consumer(c) PROVE RegisterInv'
    <2>1. UNCHANGED <<loggers, initialized, tpc, sent>>
      BY <1>2 DEF Consumer, ConsumeStep, Start, Stop, Destroy, TimerCb,
                  Consume_Lock, Consume_Scan, Consume_Emit, Consume_Poll,
                  Consume_Unlock, threadVars
    <2> QED
      BY <2>1, <1>u
  <1>3. CASE Tick
    BY <1>3, <1>u DEF Tick, threadVars
  <1>4. CASE UNCHANGED vars
    BY <1>4, <1>u DEF vars, threadVars
  <1> QED
    BY <1>1, <1>2, <1>3, <1>4 DEF Next

-------------------------------------------------------------------------------
(***************************************************************************)
(* The flow of messages.  Most steps leave everything it involves alone.    *)
(***************************************************************************)
flowVars == <<loggers, queue, sent, cpc, at, ordered_next, check_loggers, poll,
              output, snap>>

LEMMA StepCases ==
  ASSUME [Next]_vars
  PROVE  \/ UNCHANGED flowVars
         \/ \E t \in Threads : Push(t) \/ Enqueue(t)
         \/ \E c \in Consumers :
              \/ TimerCb(c) \/ Consume_Lock(c) \/ Consume_Scan(c)
              \/ Consume_Emit(c) \/ Consume_Poll(c) \/ Consume_Unlock(c)
  <1> USE DEF flowVars, threadVars, timerVars, consumerVars
  <1>1. ASSUME NEW t \in Threads, Thread(t)
        PROVE  UNCHANGED flowVars \/ Push(t) \/ Enqueue(t)
    BY <1>1 DEF Thread, ThreadStep, LogCall, Lock, Stamp, EnqueueFails, Unlock,
                Exit
  <1>2. ASSUME NEW c \in Consumers, Consumer(c)
        PROVE  UNCHANGED flowVars \/ ConsumeStep(c)
    BY <1>2 DEF Consumer, Start, Stop, Destroy
  <1>3. CASE Tick \/ UNCHANGED vars
    BY <1>3 DEF Tick, vars
  <1> QED
    BY <1>1, <1>2, <1>3 DEF Next, ConsumeStep

LEMMA TakenType ==
  ASSUME TypeOK, QueueInv, NEW t \in Threads
  PROVE  Len(queue[t]) \in Nat /\ sent[t] \in Nat /\ Taken(t) \in Nat
  <1>1. queue[t] \in Seq(Message) /\ sent[t] \in Nat
    BY DEF TypeOK
  <1>2. Len(queue[t]) \in Nat
    BY <1>1
  <1>3. Len(queue[t]) <= sent[t]
    BY DEF QueueInv
  <1> QED
    BY <1>1, <1>2, <1>3 DEF Taken

\* What try_dequeue takes from the queue of l, and what it leaves.
LEMMA TakeFacts ==
  ASSUME TypeOK, QueueInv, NEW c \in Consumers, NEW l \in Threads,
         Take(c, l), sent' = sent
  PROVE  \E m \in Message :
            /\ m.src = l
            /\ m.n = Taken(l) + 1
            /\ ordered_next' =
                 [ordered_next EXCEPT ![c] = ordered_next[c] \cup {m}]
            /\ queue' \in [Threads -> Seq(Message)]
            /\ Len(queue'[l]) = Len(queue[l]) - 1
            /\ \A i \in 1 .. Len(queue'[l]) : queue'[l][i] = queue[l][i + 1]
            /\ \A t \in Threads \ {l} : queue'[t] = queue[t]
            /\ Taken(l)' = Taken(l) + 1
            /\ \A t \in Threads \ {l} : Taken(t)' = Taken(t)
            /\ \A t \in Threads : Taken(t) \in Nat
  <1>1. queue[l] \in Seq(Message) /\ queue[l] # <<>> /\ Len(queue[l]) >= 1
    BY DEF TypeOK, Take
  <1>2. /\ Head(queue[l]) \in Message
        /\ Head(queue[l]) = queue[l][1]
        /\ Tail(queue[l]) \in Seq(Message)
        /\ Len(Tail(queue[l])) = Len(queue[l]) - 1
        /\ \A i \in 1 .. Len(Tail(queue[l])) : Tail(queue[l])[i] = queue[l][i + 1]
    BY <1>1, HeadTailProperties
  <1>3. queue[l][1].src = l /\ queue[l][1].n = Taken(l) + 1
    BY <1>1 DEF QueueInv
  <1>4. /\ queue' = [queue EXCEPT ![l] = Tail(queue[l])]
        /\ ordered_next' =
             [ordered_next EXCEPT ![c] = ordered_next[c] \cup {Head(queue[l])}]
    BY DEF Take
  <1>5. /\ queue' \in [Threads -> Seq(Message)]
        /\ queue'[l] = Tail(queue[l])
        /\ \A t \in Threads \ {l} : queue'[t] = queue[t]
    BY <1>2, <1>4 DEF TypeOK
  <1>6. \A t \in Threads :
            Len(queue[t]) \in Nat /\ sent[t] \in Nat /\ Taken(t) \in Nat
    BY TakenType
  <1>7. /\ Taken(l)' = Taken(l) + 1
        /\ \A t \in Threads \ {l} : Taken(t)' = Taken(t)
    BY <1>1, <1>2, <1>5, <1>6 DEF Taken
  <1> QED
    BY <1>2, <1>3, <1>4, <1>5, <1>6, <1>7

LEMMA TakeQueue ==
  ASSUME TypeOK, QueueInv, NEW c \in Consumers, NEW l \in Threads,
         Take(c, l), sent' = sent
  PROVE  QueueInv'
  <1>1. /\ Len(queue'[l]) = Len(queue[l]) - 1
        /\ \A i \in 1 .. Len(queue'[l]) : queue'[l][i] = queue[l][i + 1]
        /\ \A t \in Threads \ {l} : queue'[t] = queue[t]
        /\ Taken(l)' = Taken(l) + 1
        /\ \A t \in Threads \ {l} : Taken(t)' = Taken(t)
        /\ \A t \in Threads : Taken(t) \in Nat
    BY TakeFacts
  <1>2. \A t \in Threads : Len(queue[t]) \in Nat /\ sent[t] \in Nat
    BY DEF TypeOK
  <1> SUFFICES ASSUME NEW t \in Threads
               PROVE  /\ Len(queue'[t]) <= sent'[t]
                      /\ \A i \in 1 .. Len(queue'[t]) :
                            /\ queue'[t][i].src = t
                            /\ queue'[t][i].n = Taken(t)' + i
    BY DEF QueueInv
  <1>3. CASE t = l
    <2>1. Len(queue'[l]) <= sent'[l]
      BY <1>1, <1>2 DEF QueueInv
    <2>2. ASSUME NEW i \in 1 .. Len(queue'[l])
          PROVE  queue'[l][i].src = l /\ queue'[l][i].n = Taken(l)' + i
      <3>1. i + 1 \in 1 .. Len(queue[l])
        BY <1>1, <1>2
      <3>2. queue[l][i + 1].src = l /\ queue[l][i + 1].n = Taken(l) + (i + 1)
        BY <3>1 DEF QueueInv
      <3>3. queue'[l][i] = queue[l][i + 1]
        BY <1>1
      <3> QED
        BY <1>1, <3>2, <3>3
    <2> QED
      BY <1>3, <2>1, <2>2
  <1>4. CASE t # l
    BY <1>1, <1>4 DEF QueueInv
  <1> QED
    BY <1>3, <1>4

\* What enqueue adds to the queue of t.
LEMMA EnqueueFacts ==
  ASSUME TypeOK, QueueInv, NEW t \in Threads, Enqueue(t)
  PROVE  /\ queue' \in [Threads -> Seq(Message)]
         /\ \A u \in Threads : Taken(u)' = Taken(u) /\ Taken(u) \in Nat
         /\ \A u \in Threads : sent'[u] \in Nat /\ sent[u] <= sent'[u]
         /\ QueueInv'
         /\ UNCHANGED <<loggers, cpc, at, ordered_next, check_loggers, poll,
                        output, snap>>
  <1>1. PICK g \in Garbage : queue' = [queue EXCEPT ![t] = Append(@, Copy(t, g))]
    BY DEF Enqueue
  <1> DEFINE m == Copy(t, g)
  <1>2. m \in Message /\ m.src = t /\ m.n = sent[t] + 1
    BY CopyType DEF Copy
  <1> HIDE DEF m
  <1>3. sent' = [sent EXCEPT ![t] = sent[t] + 1]
    BY DEF Enqueue
  <1>4. \A u \in Threads : queue[u] \in Seq(Message) /\ sent[u] \in Nat
    BY DEF TypeOK
  <1>5. /\ queue' \in [Threads -> Seq(Message)]
        /\ queue'[t] = Append(queue[t], m)
        /\ \A u \in Threads \ {t} : queue'[u] = queue[u]
    BY <1>1, <1>2, <1>4 DEF TypeOK, m
  <1>6. /\ Len(queue'[t]) = Len(queue[t]) + 1
        /\ \A i \in 1 .. Len(queue[t]) : queue'[t][i] = queue[t][i]
        /\ queue'[t][Len(queue[t]) + 1] = m
    BY <1>2, <1>4, <1>5
  <1>7. /\ sent'[t] = sent[t] + 1
        /\ \A u \in Threads \ {t} : sent'[u] = sent[u]
    BY <1>3 DEF TypeOK
  <1>8. \A u \in Threads : Taken(u)' = Taken(u) /\ Taken(u) \in Nat
    <2> SUFFICES ASSUME NEW u \in Threads
                 PROVE  Taken(u)' = Taken(u) /\ Taken(u) \in Nat
      OBVIOUS
    <2>1. Len(queue[u]) \in Nat /\ sent[u] \in Nat /\ Taken(u) \in Nat
      BY TakenType
    <2>2. CASE u = t
      BY <1>6, <1>7, <2>1, <2>2 DEF Taken
    <2>3. CASE u # t
      BY <1>5, <1>7, <2>1, <2>3 DEF Taken
    <2> QED
      BY <2>1, <2>2, <2>3
  <1>9. \A u \in Threads : sent'[u] \in Nat /\ sent[u] <= sent'[u]
    BY <1>4, <1>7
  <1>10. QueueInv'
    <2> SUFFICES ASSUME NEW u \in Threads
                 PROVE  /\ Len(queue'[u]) <= sent'[u]
                        /\ \A i \in 1 .. Len(queue'[u]) :
                              /\ queue'[u][i].src = u
                              /\ queue'[u][i].n = Taken(u)' + i
      BY DEF QueueInv
    <2>1. CASE u = t
      <3>1. Len(queue'[t]) <= sent'[t]
        BY <1>4, <1>6, <1>7 DEF QueueInv
      <3>2. ASSUME NEW i \in 1 .. Len(queue'[t])
            PROVE  queue'[t][i].src = t /\ queue'[t][i].n = Taken(t)' + i
        <4>1. CASE i \in 1 .. Len(queue[t])
          BY <1>6, <1>8, <4>1 DEF QueueInv
        <4>2. CASE i = Len(queue[t]) + 1
          <5>1. Len(queue[t]) \in Nat /\ sent[t] \in Nat
            BY TakenType
          <5>2. queue'[t][i] = m /\ m.src = t /\ m.n = sent[t] + 1
            BY <1>2, <1>6, <4>2
          <5>3. Taken(t)' = sent[t] - Len(queue[t])
            BY <1>8 DEF Taken
          <5> QED
            BY <4>2, <5>1, <5>2, <5>3
        <4> QED
          BY <1>4, <1>6, <4>1, <4>2
      <3> QED
        BY <2>1, <3>1, <3>2
    <2>2. CASE u # t
      BY <1>5, <1>7, <1>8, <2>2 DEF QueueInv
    <2> QED
      BY <2>1, <2>2
  <1> QED
    BY <1>5, <1>8, <1>9, <1>10 DEF Enqueue, consumerVars

LEMMA NextQueue ==
  ASSUME TypeOK, QueueInv, [Next]_vars
  PROVE  QueueInv'
  <1>1. CASE UNCHANGED <<queue, sent>>
    BY <1>1 DEF QueueInv, Taken
  <1>2. ASSUME NEW t \in Threads, Enqueue(t) PROVE QueueInv'
    BY <1>2, EnqueueFacts
  <1>3. ASSUME NEW c \in Consumers, Consume_Scan(c) PROVE QueueInv'
    <2> DEFINE l == loggers[at[c]]
    <2>1. l \in Threads
      BY <1>3 DEF Consume_Scan, TypeOK
    <2>2. sent' = sent /\ (Take(c, l) \/ queue' = queue)
      BY <1>3 DEF Consume_Scan, threadVars
    <2> QED
      BY <1>1, <2>1, <2>2, TakeQueue
  <1>4. ASSUME NEW c \in Consumers, Consume_Poll(c) PROVE QueueInv'
    <2>1. PICK l \in poll[c] : Take(c, l) \/ queue' = queue
      BY <1>4 DEF Consume_Poll
    <2>2. l \in Threads /\ sent' = sent
      BY <1>4 DEF Consume_Poll, threadVars, TypeOK
    <2> QED
      BY <1>1, <2>1, <2>2, TakeQueue
  <1>5. ASSUME NEW t \in Threads, Push(t) PROVE UNCHANGED <<queue, sent>>
    BY <1>5 DEF Push
  <1>6. ASSUME NEW c \in Consumers,
               TimerCb(c) \/ Consume_Lock(c) \/ Consume_Emit(c) \/ Consume_Unlock(c)
        PROVE  UNCHANGED <<queue, sent>>
    BY <1>6 DEF TimerCb, Consume_Lock, Consume_Emit, Consume_Unlock, threadVars
  <1> QED
    BY <1>1, <1>2, <1>3, <1>4, <1>5, <1>6, StepCases DEF flowVars

\* While c is inside consume(), no other consumer is, or has a message in hand.
LEMMA OnlyHolder ==
  ASSUME MutexInv, LoopInv, NEW c \in Consumers, mutex = c \/ mutex = Free
  PROVE  \A d \in Consumers \ {c} : ~ InConsume(d) /\ ordered_next[d] = {}
  <1> SUFFICES ASSUME NEW d \in Consumers \ {c}
               PROVE  ~ InConsume(d) /\ ordered_next[d] = {}
    OBVIOUS
  <1>1. ~ InConsume(d)
    BY FreeAssumption DEF MutexInv
  <1> QED
    BY <1>1 DEF LoopInv, InConsume

LEMMA FlowTypes ==
  ASSUME TypeOK
  PROVE  /\ Len(output) \in Nat /\ Len(loggers) \in Nat
         /\ \A i \in 1 .. Len(output) :
               output[i].src \in Threads /\ output[i].n \in Nat
         /\ \A i \in 1 .. Len(loggers) : loggers[i] \in Threads
         /\ \A c \in Consumers : \A m \in ordered_next[c] :
               m \in Message /\ m.src \in Threads /\ m.n \in Nat
         /\ \A c \in Consumers :
               at[c] \in Nat \ {0} /\ check_loggers[c] \subseteq Threads
  <1>1. /\ output \in Seq(Message) /\ loggers \in Seq(Threads)
        /\ ordered_next \in [Consumers -> SUBSET Message]
        /\ at \in [Consumers -> Nat \ {0}]
        /\ check_loggers \in [Consumers -> SUBSET Threads]
    BY DEF TypeOK
  <1>2. \A m \in Message : m.src \in Threads /\ m.n \in Nat
    BY DEF Message
  <1>3. \A i \in 1 .. Len(output) : output[i] \in Message
    BY <1>1
  <1>4. \A c \in Consumers : \A m \in ordered_next[c] : m \in Message
    BY <1>1
  <1> QED
    BY <1>1, <1>2, <1>3, <1>4

\* The iterator moves on to a logger that it has not passed.
LEMMA ScanNext ==
  ASSUME TypeOK, RegisterInv, NEW c \in Consumers, Consume_Scan(c)
  PROVE  /\ loggers[at[c]] \in Threads
         /\ loggers[at[c]] \notin Scanned(c)
         /\ Scanned(c)' = Scanned(c) \cup {loggers[at[c]]}
         /\ at'[c] <= Len(loggers) + 1
         /\ loggers' = loggers
         /\ \A d \in Consumers \ {c} : at'[d] = at[d]
  <1>1. /\ at[c] \in 1 .. Len(loggers) /\ Len(loggers) \in Nat
        /\ loggers[at[c]] \in Threads
    BY FlowTypes DEF Consume_Scan
  <1>2. /\ at' = [at EXCEPT ![c] = at[c] + 1] /\ loggers' = loggers
        /\ at \in [Consumers -> Nat \ {0}]
    BY DEF Consume_Scan, TypeOK
  <1>3. at'[c] = at[c] + 1 /\ \A d \in Consumers \ {c} : at'[d] = at[d]
    BY <1>2
  <1>4. \A i \in 1 .. at[c] - 1 : loggers[i] # loggers[at[c]]
    BY <1>1 DEF RegisterInv
  <1>5. 1 .. at'[c] - 1 = (1 .. at[c] - 1) \cup {at[c]}
    BY <1>1, <1>3
  <1>6. Scanned(c)' = Scanned(c) \cup {loggers[at[c]]}
    BY <1>2, <1>5 DEF Scanned
  <1>7. loggers[at[c]] \notin Scanned(c)
    BY <1>4 DEF Scanned
  <1> QED
    BY <1>1, <1>2, <1>3, <1>6, <1>7

(***************************************************************************)
(* The loops of consume(): LoopInv.                                         *)
(***************************************************************************)
\* What LoopInv says of one consumer.
LoopOf(c) ==
    /\ cpc[c] \notin {"emit", "poll"} => ordered_next[c] = {}
    /\ InConsume(c) =>
        /\ at[c] <= Len(loggers) + 1
        /\ check_loggers[c] \subseteq Scanned(c)
        /\ \A m \in ordered_next[c] :
            m.src \in Scanned(c) /\ m.src \notin check_loggers[c]
        /\ cpc[c] = "poll" => poll[c] \subseteq check_loggers[c]

\* A step of c leaves the loops of the others where they are.
LEMMA OtherLoops ==
  ASSUME LoopInv, NEW c \in Consumers, loggers' = loggers,
         \A d \in Consumers \ {c} :
            /\ cpc'[d] = cpc[d] /\ at'[d] = at[d]
            /\ ordered_next'[d] = ordered_next[d]
            /\ check_loggers'[d] = check_loggers[d] /\ poll'[d] = poll[d],
         LoopOf(c)'
  PROVE  LoopInv'
  <1>1. ASSUME NEW d \in Consumers \ {c} PROVE LoopOf(d)'
    BY <1>1 DEF LoopInv, LoopOf, InConsume, Scanned
  <1> QED
    BY <1>1 DEF LoopInv, LoopOf

LEMMA ScanLoop ==
  ASSUME TypeOK, QueueInv, RegisterInv, LoopInv,
         NEW c \in Consumers, Consume_Scan(c)
  PROVE  LoopInv'
  <1> DEFINE l == loggers[at[c]]
  <1>1. /\ l \in Threads /\ l \notin Scanned(c)
        /\ Scanned(c)' = Scanned(c) \cup {l}
        /\ at'[c] <= Len(loggers) + 1 /\ loggers' = loggers
        /\ \A d \in Consumers \ {c} : at'[d] = at[d]
    BY ScanNext
  <1>2. ordered_next[c] = {} /\ check_loggers[c] \subseteq Scanned(c)
    BY DEF LoopInv, InConsume, Consume_Scan
  <1>3. /\ cpc' = [cpc EXCEPT ![c] = Loop(ordered_next'[c])] /\ poll' = poll
        /\ sent' = sent
        /\ \/ Take(c, l) /\ check_loggers' = check_loggers
           \/ /\ check_loggers' = [check_loggers EXCEPT ![c] = check_loggers[c] \cup {l}]
              /\ ordered_next' = ordered_next
    BY DEF Consume_Scan, threadVars
  <1>4. /\ cpc'[c] = Loop(ordered_next'[c])
        /\ \A d \in Consumers \ {c} : cpc'[d] = cpc[d]
    BY <1>3 DEF TypeOK
  <1>5. cpc'[c] \in {"scan", "emit"} /\ (cpc'[c] = "scan" => ordered_next'[c] = {})
    BY <1>4 DEF Loop
  <1>t. /\ ordered_next \in [Consumers -> SUBSET Message]
        /\ check_loggers \in [Consumers -> SUBSET Threads]
    BY DEF TypeOK
  <1> HIDE DEF l
  <1>6. CASE Take(c, l) /\ check_loggers' = check_loggers
    <2>1. PICK m : m.src = l /\ ordered_next' =
                      [ordered_next EXCEPT ![c] = ordered_next[c] \cup {m}]
      BY <1>1, <1>3, <1>6, TakeFacts
    <2>2. /\ ordered_next'[c] = {m}
          /\ \A d \in Consumers \ {c} : ordered_next'[d] = ordered_next[d]
      BY <1>2, <1>t, <2>1
    <2>3. LoopOf(c)'
      BY <1>1, <1>2, <1>5, <1>6, <2>1, <2>2 DEF LoopOf
    <2> QED
      BY <1>1, <1>3, <1>4, <1>6, <2>2, <2>3, OtherLoops
  <1>7. CASE /\ check_loggers' = [check_loggers EXCEPT ![c] = check_loggers[c] \cup {l}]
             /\ ordered_next' = ordered_next
    <2>1. /\ check_loggers'[c] = check_loggers[c] \cup {l}
          /\ \A d \in Consumers \ {c} : check_loggers'[d] = check_loggers[d]
      BY <1>7, <1>t
    <2>2. LoopOf(c)'
      BY <1>1, <1>2, <1>5, <1>7, <2>1 DEF LoopOf
    <2> QED
      BY <1>1, <1>3, <1>4, <1>7, <2>1, <2>2, OtherLoops
  <1> QED
    BY <1>3, <1>6, <1>7

LEMMA EmitLoop ==
  ASSUME TypeOK, LoopInv, HandInv, NEW c \in Consumers, Consume_Emit(c)
  PROVE  LoopInv'
  <1>1. PICK m \in ordered_next[c] :
           /\ ordered_next' = [ordered_next EXCEPT ![c] = ordered_next[c] \ {m}]
           /\ check_loggers' =
                [check_loggers EXCEPT ![c] = check_loggers[c] \cup {m.src}]
    BY DEF Consume_Emit, Recheck
  <1>2. /\ cpc[c] = "emit" /\ loggers' = loggers /\ at' = at
        /\ poll' = [poll EXCEPT ![c] = check_loggers'[c]]
        /\ cpc' = [cpc EXCEPT ![c] = PollLoop(poll'[c], ordered_next'[c])]
    BY DEF Consume_Emit
  <1>3. /\ ordered_next'[c] = ordered_next[c] \ {m}
        /\ check_loggers'[c] = check_loggers[c] \cup {m.src}
        /\ poll'[c] = check_loggers'[c]
        /\ \A d \in Consumers \ {c} :
              /\ ordered_next'[d] = ordered_next[d]
              /\ check_loggers'[d] = check_loggers[d] /\ poll'[d] = poll[d]
    BY <1>1, <1>2 DEF TypeOK
  <1>4. /\ cpc'[c] = PollLoop(poll'[c], ordered_next'[c])
        /\ \A d \in Consumers \ {c} : cpc'[d] = cpc[d]
    BY <1>2 DEF TypeOK
  <1>5. cpc'[c] = "poll"
    BY <1>3, <1>4 DEF PollLoop
  <1>6. LoopOf(c) /\ InConsume(c)
    BY <1>2 DEF LoopInv, LoopOf, InConsume
  <1>7. \A k \in ordered_next[c] \ {m} : k.src # m.src
    BY <1>1 DEF HandInv
  <1>8. Scanned(c)' = Scanned(c)
    BY <1>2 DEF Scanned
  <1>9. LoopOf(c)'
    BY <1>1, <1>2, <1>3, <1>5, <1>6, <1>7, <1>8 DEF LoopOf
  <1> QED
    BY <1>2, <1>3, <1>4, <1>9, OtherLoops

LEMMA PollLoops ==
  ASSUME TypeOK, QueueInv, LoopInv, NEW c \in Consumers, Consume_Poll(c)
  PROVE  LoopInv'
  <1>1. PICK l \in poll[c] :
           /\ \/ /\ Take(c, l)
                 /\ check_loggers' =
                      [check_loggers EXCEPT ![c] = check_loggers[c] \ {l}]
              \/ UNCHANGED <<ordered_next, check_loggers>>
           /\ poll' = [poll EXCEPT ![c] = poll[c] \ {l}]
    BY DEF Consume_Poll, Erase
  <1>2. /\ cpc[c] = "poll" /\ loggers' = loggers /\ at' = at /\ sent' = sent
        /\ cpc' = [cpc EXCEPT ![c] = PollLoop(poll'[c], ordered_next'[c])]
    BY DEF Consume_Poll, threadVars
  <1>3. l \in Threads
    BY DEF TypeOK
  <1>4. /\ poll'[c] = poll[c] \ {l}
        /\ \A d \in Consumers \ {c} : poll'[d] = poll[d]
    BY <1>1 DEF TypeOK
  <1>5. /\ cpc'[c] = PollLoop(poll'[c], ordered_next'[c])
        /\ \A d \in Consumers \ {c} : cpc'[d] = cpc[d]
    BY <1>2 DEF TypeOK
  <1>6. /\ cpc'[c] \in {"poll", "scan", "emit"}
        /\ cpc'[c] \notin {"emit", "poll"} => ordered_next'[c] = {}
    BY <1>5 DEF PollLoop, Loop
  <1>7. LoopOf(c) /\ InConsume(c)
    BY <1>2 DEF LoopInv, LoopOf, InConsume
  <1>8. Scanned(c)' = Scanned(c)
    BY <1>2 DEF Scanned
  <1>t. /\ ordered_next \in [Consumers -> SUBSET Message]
        /\ check_loggers \in [Consumers -> SUBSET Threads]
    BY DEF TypeOK
  <1>9. CASE /\ Take(c, l)
             /\ check_loggers' = [check_loggers EXCEPT ![c] = check_loggers[c] \ {l}]
    <2>1. PICK m : m.src = l /\ ordered_next' =
                      [ordered_next EXCEPT ![c] = ordered_next[c] \cup {m}]
      BY <1>2, <1>3, <1>9, TakeFacts
    <2>2. /\ ordered_next'[c] = ordered_next[c] \cup {m}
          /\ check_loggers'[c] = check_loggers[c] \ {l}
          /\ \A d \in Consumers \ {c} :
                /\ ordered_next'[d] = ordered_next[d]
                /\ check_loggers'[d] = check_loggers[d]
      BY <1>9, <1>t, <2>1
    <2>3. LoopOf(c)'
      BY <1>2, <1>4, <1>6, <1>7, <1>8, <2>1, <2>2 DEF LoopOf
    <2> QED
      BY <1>2, <1>4, <1>5, <2>2, <2>3, OtherLoops
  <1>10. CASE UNCHANGED <<ordered_next, check_loggers>>
    <2>1. LoopOf(c)'
      BY <1>2, <1>4, <1>6, <1>7, <1>8, <1>10 DEF LoopOf
    <2> QED
      BY <1>2, <1>4, <1>5, <1>10, <2>1, OtherLoops
  <1> QED
    BY <1>1, <1>9, <1>10

LEMMA NextLoop ==
  ASSUME TypeOK, MutexInv, RegisterInv, QueueInv, LoopInv, HandInv, [Next]_vars
  PROVE  LoopInv'
  <1>1. CASE UNCHANGED <<loggers, cpc, at, ordered_next, check_loggers, poll>>
    BY <1>1 DEF LoopInv, InConsume, Scanned
  <1>2. ASSUME NEW t \in Threads, Push(t) PROVE LoopInv'
    <2>1. mutex = t
      BY <1>2 DEF Push, MutexInv
    <2>2. \A c \in Consumers : ~ InConsume(c)
      BY <2>1, ConsumersAssumption DEF MutexInv
    <2>3. UNCHANGED <<cpc, ordered_next>>
      BY <1>2 DEF Push, consumerVars
    <2> QED
      BY <2>2, <2>3 DEF LoopInv, InConsume
  <1>3. ASSUME NEW t \in Threads, Enqueue(t) PROVE LoopInv'
    BY <1>1, <1>3 DEF Enqueue, consumerVars
  <1>4. ASSUME NEW c \in Consumers, TimerCb(c) \/ Consume_Unlock(c) PROVE LoopInv'
    <2>1. /\ UNCHANGED <<loggers, at, ordered_next, check_loggers, poll>>
          /\ cpc[c] \in {"idle", "scan"}
          /\ \E p \in {"lock", "idle"} : cpc' = [cpc EXCEPT ![c] = p]
      BY <1>4 DEF TimerCb, Consume_Unlock
    <2>2. /\ cpc'[c] \in {"lock", "idle"}
          /\ \A d \in Consumers \ {c} : cpc'[d] = cpc[d]
      BY <2>1 DEF TypeOK
    <2>3. LoopOf(c)'
      BY <2>1, <2>2 DEF LoopInv, LoopOf, InConsume
    <2> QED
      BY <2>1, <2>2, <2>3, OtherLoops
  <1>5. ASSUME NEW c \in Consumers, Consume_Lock(c) PROVE LoopInv'
    <2>1. /\ loggers' = loggers /\ poll' = poll
          /\ cpc' = [cpc EXCEPT ![c] = "scan"] /\ at' = [at EXCEPT ![c] = 1]
          /\ ordered_next' = [ordered_next EXCEPT ![c] = {}]
          /\ check_loggers' = [check_loggers EXCEPT ![c] = {}]
      BY <1>5 DEF Consume_Lock, First
    <2>2. /\ cpc'[c] = "scan" /\ at'[c] = 1
          /\ ordered_next'[c] = {} /\ check_loggers'[c] = {}
          /\ \A d \in Consumers \ {c} :
                /\ cpc'[d] = cpc[d] /\ at'[d] = at[d]
                /\ ordered_next'[d] = ordered_next[d]
                /\ check_loggers'[d] = check_loggers[d]
      BY <2>1 DEF TypeOK
    <2>3. Len(loggers) \in Nat
      BY FlowTypes
    <2>4. LoopOf(c)'
      BY <2>1, <2>2, <2>3 DEF LoopOf
    <2> QED
      BY <2>1, <2>2, <2>4, OtherLoops
  <1> QED
    BY <1>1, <1>2, <1>3, <1>4, <1>5, ScanLoop, EmitLoop, PollLoops, StepCases
    DEF flowVars

(***************************************************************************)
(* Messages in hand and in the output.                                      *)
(***************************************************************************)
\* Taking the next message of a logger that has none in hand.
LEMMA TakeHand ==
  ASSUME TypeOK, MutexInv, QueueInv, LoopInv, HandInv, OutputInv,
         NEW c \in Consumers, mutex = c, NEW l \in Threads, Take(c, l),
         sent' = sent, output' = output,
         \A m \in ordered_next[c] : m.src # l
  PROVE  HandInv' /\ OutputInv'
  <1>1. PICK m \in Message :
           /\ m.src = l
           /\ m.n = Taken(l) + 1
           /\ ordered_next' = [ordered_next EXCEPT ![c] = ordered_next[c] \cup {m}]
           /\ Taken(l)' = Taken(l) + 1
           /\ \A t \in Threads \ {l} : Taken(t)' = Taken(t)
           /\ \A t \in Threads : Taken(t) \in Nat
    BY TakeFacts
  <1>2. /\ ordered_next'[c] = ordered_next[c] \cup {m}
        /\ \A d \in Consumers \ {c} : ordered_next'[d] = {}
    BY <1>1, OnlyHolder DEF TypeOK
  <1>3. \A i \in 1 .. Len(output) :
           output[i].src \in Threads /\ output[i].n \in Nat
    BY FlowTypes
  <1>4. \A k \in ordered_next[c] : k.src \in Threads \ {l} /\ k.n \in Nat
    BY FlowTypes
  <1>5. OutputInv'
    <2> SUFFICES ASSUME NEW i \in 1 .. Len(output)
                 PROVE  output[i].n <= Taken(output[i].src)'
      BY DEF OutputInv
    <2>1. output[i].n <= Taken(output[i].src)
      BY DEF OutputInv
    <2>2. CASE output[i].src = l
      BY <1>1, <1>3, <2>1, <2>2
    <2>3. CASE output[i].src # l
      BY <1>1, <1>3, <2>1, <2>3
    <2> QED
      BY <2>2, <2>3
  <1>6. ASSUME NEW k \in ordered_next'[c]
        PROVE  /\ k.n = Taken(k.src)'
               /\ \A j \in ordered_next'[c] : j.src = k.src => j = k
               /\ \A i \in 1 .. Len(output) : output[i].src = k.src => output[i].n < k.n
    <2>1. CASE k = m
      <3>1. \A j \in ordered_next'[c] : j.src = l => j = m
        BY <1>2, <1>4
      <3>2. ASSUME NEW i \in 1 .. Len(output), output[i].src = l
            PROVE  output[i].n < m.n
        <4>1. output[i].n <= Taken(l)
          BY <3>2 DEF OutputInv
        <4> QED
          BY <1>1, <1>3, <4>1
      <3> QED
        BY <1>1, <2>1, <3>1, <3>2
    <2>2. CASE k \in ordered_next[c]
      <3>1. k.src \in Threads \ {l}
        BY <1>4, <2>2
      <3>2. k.n = Taken(k.src)'
        BY <1>1, <2>2, <3>1 DEF HandInv
      <3>3. \A j \in ordered_next'[c] : j.src = k.src => j = k
        BY <1>1, <1>2, <2>2, <3>1 DEF HandInv
      <3>4. \A i \in 1 .. Len(output) : output[i].src = k.src => output[i].n < k.n
        BY <2>2 DEF HandInv
      <3> QED
        BY <3>2, <3>3, <3>4
    <2> QED
      BY <1>2, <2>1, <2>2
  <1>7. HandInv'
    BY <1>2, <1>6 DEF HandInv
  <1> QED
    BY <1>5, <1>7

\* Printing the message of a logger.
LEMMA EmitHand ==
  ASSUME TypeOK, MutexInv, QueueInv, LoopInv, HandInv, OutputInv, PerThreadFifo,
         NEW c \in Consumers, Consume_Emit(c)
  PROVE  HandInv' /\ OutputInv' /\ PerThreadFifo'
  <1>1. PICK m \in ordered_next[c] :
           /\ output' = Append(output, m)
           /\ ordered_next' = [ordered_next EXCEPT ![c] = ordered_next[c] \ {m}]
    BY DEF Consume_Emit
  <1>2. m \in Message /\ m.src \in Threads /\ m.n \in Nat
    BY FlowTypes
  <1>3. output \in Seq(Message)
    BY DEF TypeOK
  <1>4. /\ Len(output) \in Nat
        /\ Len(output') = Len(output) + 1
        /\ \A i \in 1 .. Len(output) : output'[i] = output[i]
        /\ output'[Len(output) + 1] = m
    BY <1>1, <1>2, <1>3
  <1>5. \A t \in Threads : Taken(t)' = Taken(t) /\ Taken(t) \in Nat
    <2>1. UNCHANGED <<queue, sent>>
      BY DEF Consume_Emit, threadVars
    <2> QED
      BY <2>1, TakenType DEF Taken
  <1>6. mutex = c
    BY DEF Consume_Emit, MutexInv, InConsume
  <1>7. /\ ordered_next'[c] = ordered_next[c] \ {m}
        /\ \A d \in Consumers \ {c} : ordered_next'[d] = {}
    BY <1>1, <1>6, OnlyHolder DEF TypeOK
  <1>8. /\ m.n = Taken(m.src)
        /\ \A k \in ordered_next[c] \ {m} : k.src # m.src
        /\ \A i \in 1 .. Len(output) : output[i].src = m.src => output[i].n < m.n
    BY DEF HandInv
  <1>9. \A i \in 1 .. Len(output') :
           i \in 1 .. Len(output) \/ i = Len(output) + 1
    BY <1>4
  <1>10. HandInv'
    <2> SUFFICES ASSUME NEW k \in ordered_next[c] \ {m}
                 PROVE  /\ k.n = Taken(k.src)'
                        /\ \A j \in ordered_next[c] \ {m} : j.src = k.src => j = k
                        /\ \A i \in 1 .. Len(output') :
                              output'[i].src = k.src => output'[i].n < k.n
      BY <1>7 DEF HandInv
    <2>1. k.n = Taken(k.src)'
      BY <1>5, FlowTypes DEF HandInv
    <2>2. \A j \in ordered_next[c] \ {m} : j.src = k.src => j = k
      BY DEF HandInv
    <2>3. \A i \in 1 .. Len(output) : output[i].src = k.src => output[i].n < k.n
      BY DEF HandInv
    <2>4. \A i \in 1 .. Len(output') :
             output'[i].src = k.src => output'[i].n < k.n
      BY <1>4, <1>8, <1>9, <2>3
    <2> QED
      BY <2>1, <2>2, <2>4
  <1>11. OutputInv'
    <2> SUFFICES ASSUME NEW i \in 1 .. Len(output')
                 PROVE  (output[i].n <= Taken(output[i].src))'
      BY DEF OutputInv
    <2>1. CASE i \in 1 .. Len(output)
      <3>1. output'[i] = output[i] /\ output[i].src \in Threads
        BY <1>4, <2>1, FlowTypes
      <3>2. output[i].n <= Taken(output[i].src)
        BY <2>1 DEF OutputInv
      <3> QED
        BY <1>5, <3>1, <3>2 DEF Taken
    <2>2. CASE i = Len(output) + 1
      <3>1. output'[i] = m
        BY <1>4, <2>2
      <3> QED
        BY <1>2, <1>5, <1>8, <3>1 DEF Taken
    <2> QED
      BY <1>9, <2>1, <2>2
  <1>12. PerThreadFifo'
    <2> SUFFICES ASSUME NEW i \in 1 .. Len(output'), NEW j \in 1 .. Len(output'),
                        i < j, output'[i].src = output'[j].src
                 PROVE  output'[i].n < output'[j].n
      BY DEF PerThreadFifo
    <2>1. i \in 1 .. Len(output)
      BY <1>4
    <2>2. CASE j \in 1 .. Len(output)
      BY <1>4, <2>1, <2>2 DEF PerThreadFifo
    <2>3. CASE j = Len(output) + 1
      BY <1>4, <1>8, <2>1, <2>3
    <2> QED
      BY <1>9, <2>2, <2>3
  <1> QED
    BY <1>10, <1>11, <1>12

LEMMA NextHand ==
  ASSUME TypeOK, MutexInv, RegisterInv, QueueInv, LoopInv, HandInv, OutputInv,
         PerThreadFifo, [Next]_vars
  PROVE  HandInv' /\ OutputInv' /\ PerThreadFifo'
  <1>1. ASSUME \A t \in Threads : Taken(t)' = Taken(t),
               UNCHANGED <<ordered_next, output>>
        PROVE  HandInv' /\ OutputInv' /\ PerThreadFifo'
    <2>1. HandInv'
      BY <1>1, FlowTypes DEF HandInv
    <2>2. OutputInv'
      BY <1>1, FlowTypes DEF OutputInv
    <2> QED
      BY <1>1, <2>1, <2>2 DEF PerThreadFifo
  <1>2. CASE UNCHANGED <<queue, sent, ordered_next, output>>
    BY <1>1, <1>2 DEF Taken
  <1>3. ASSUME NEW t \in Threads, Push(t)
        PROVE  UNCHANGED <<queue, sent, ordered_next, output>>
    BY <1>3 DEF Push, consumerVars
  <1>4. ASSUME NEW t \in Threads, Enqueue(t)
        PROVE  HandInv' /\ OutputInv' /\ PerThreadFifo'
    BY <1>1, <1>4, EnqueueFacts
  <1>5. ASSUME NEW c \in Consumers, TimerCb(c) \/ Consume_Unlock(c)
        PROVE  UNCHANGED <<queue, sent, ordered_next, output>>
    BY <1>5 DEF TimerCb, Consume_Unlock, threadVars
  <1>6. ASSUME NEW c \in Consumers, Consume_Lock(c)
        PROVE  UNCHANGED <<queue, sent, ordered_next, output>>
    <2>1. ordered_next[c] = {}
      BY <1>6 DEF Consume_Lock, LoopInv
    <2>2. ordered_next' = [ordered_next EXCEPT ![c] = {}]
      BY <1>6 DEF Consume_Lock
    <2>3. ordered_next' = ordered_next
      BY <2>1, <2>2 DEF TypeOK
    <2> QED
      BY <1>6, <2>3 DEF Consume_Lock, threadVars
  <1>7. ASSUME NEW c \in Consumers, Consume_Scan(c)
        PROVE  HandInv' /\ OutputInv' /\ PerThreadFifo'
    <2> DEFINE l == loggers[at[c]]
    <2>1. l \in Threads
      BY <1>7, ScanNext
    <2>2. /\ sent' = sent /\ output' = output
          /\ Take(c, l) \/ UNCHANGED <<queue, ordered_next>>
      BY <1>7 DEF Consume_Scan, threadVars
    <2>3. mutex = c /\ ordered_next[c] = {}
      BY <1>7 DEF Consume_Scan, MutexInv, InConsume, LoopInv
    <2> HIDE DEF l
    <2>4. CASE Take(c, l)
      BY <2>1, <2>2, <2>3, <2>4, TakeHand DEF PerThreadFifo
    <2> QED
      BY <1>2, <2>2, <2>4
  <1>8. ASSUME NEW c \in Consumers, Consume_Poll(c)
        PROVE  HandInv' /\ OutputInv' /\ PerThreadFifo'
    <2>1. PICK l \in poll[c] : Take(c, l) \/ UNCHANGED <<queue, ordered_next>>
      BY <1>8 DEF Consume_Poll
    <2>2. sent' = sent /\ output' = output
      BY <1>8 DEF Consume_Poll, threadVars
    <2>3. mutex = c /\ l \in Threads
      BY <1>8 DEF Consume_Poll, MutexInv, InConsume, TypeOK
    <2>4. \A m \in ordered_next[c] : m.src # l
      BY <1>8 DEF Consume_Poll, InConsume, LoopInv
    <2>5. CASE Take(c, l)
      BY <2>2, <2>3, <2>4, <2>5, TakeHand DEF PerThreadFifo
    <2> QED
      BY <1>2, <2>1, <2>2, <2>5
  <1> QED
    BY <1>2, <1>3, <1>4, <1>5, <1>6, <1>7, <1>8, EmitHand, StepCases DEF flowVars

(***************************************************************************)
(* Nothing that has been taken is dropped, and a pass drains the queues.    *)
(***************************************************************************)
LEMMA TakeCover ==
  ASSUME TypeOK, QueueInv, CoverInv, NEW c \in Consumers, NEW l \in Threads,
         Take(c, l), sent' = sent, output' = output
  PROVE  CoverInv'
  <1>1. PICK m \in Message :
           /\ m.src = l
           /\ m.n = Taken(l) + 1
           /\ ordered_next' = [ordered_next EXCEPT ![c] = ordered_next[c] \cup {m}]
           /\ Taken(l)' = Taken(l) + 1
           /\ \A t \in Threads \ {l} : Taken(t)' = Taken(t)
           /\ \A t \in Threads : Taken(t) \in Nat
    BY TakeFacts
  <1>2. /\ ordered_next'[c] = ordered_next[c] \cup {m}
        /\ \A d \in Consumers \ {c} : ordered_next'[d] = ordered_next[d]
    BY <1>1 DEF TypeOK
  <1>3. \A t, k : InHand(t, k) => InHand(t, k)'
    BY <1>2 DEF InHand
  <1>4. \A t, k : Printed(t, k) => Printed(t, k)'
    BY DEF Printed
  <1>5. InHand(l, m.n)'
    BY <1>1, <1>2 DEF InHand
  <1> SUFFICES ASSUME NEW t \in Threads, NEW k \in 1 .. Taken(t)'
               PROVE  InHand(t, k)' \/ Printed(t, k)'
    BY DEF CoverInv
  <1>6. k \in 1 .. Taken(t) \/ (t = l /\ k = m.n)
    BY <1>1
  <1> QED
    BY <1>3, <1>4, <1>5, <1>6 DEF CoverInv

LEMMA NextCover ==
  ASSUME TypeOK, RegisterInv, QueueInv, LoopInv, CoverInv, [Next]_vars
  PROVE  CoverInv'
  <1>1. ASSUME \A t \in Threads : Taken(t)' = Taken(t),
               UNCHANGED <<ordered_next, output>>
        PROVE  CoverInv'
    BY <1>1 DEF CoverInv, InHand, Printed
  <1>2. CASE UNCHANGED <<queue, sent, ordered_next, output>>
    BY <1>1, <1>2 DEF Taken
  <1>3. ASSUME NEW t \in Threads, Push(t)
        PROVE  UNCHANGED <<queue, sent, ordered_next, output>>
    BY <1>3 DEF Push, consumerVars
  <1>4. ASSUME NEW t \in Threads, Enqueue(t) PROVE CoverInv'
    BY <1>1, <1>4, EnqueueFacts
  <1>5. ASSUME NEW c \in Consumers, TimerCb(c) \/ Consume_Unlock(c)
        PROVE  UNCHANGED <<queue, sent, ordered_next, output>>
    BY <1>5 DEF TimerCb, Consume_Unlock, threadVars
  <1>6. ASSUME NEW c \in Consumers, Consume_Lock(c)
        PROVE  UNCHANGED <<queue, sent, ordered_next, output>>
    <2>1. ordered_next[c] = {} /\ ordered_next' = [ordered_next EXCEPT ![c] = {}]
      BY <1>6 DEF Consume_Lock, LoopInv
    <2>2. ordered_next' = ordered_next
      BY <2>1 DEF TypeOK
    <2> QED
      BY <1>6, <2>2 DEF Consume_Lock, threadVars
  <1>7. ASSUME NEW c \in Consumers, Consume_Scan(c) PROVE CoverInv'
    <2>1. loggers[at[c]] \in Threads
      BY <1>7, ScanNext
    <2>2. /\ sent' = sent /\ output' = output
          /\ Take(c, loggers[at[c]]) \/ UNCHANGED <<queue, ordered_next>>
      BY <1>7 DEF Consume_Scan, threadVars
    <2> QED
      BY <1>2, <2>1, <2>2, TakeCover
  <1>8. ASSUME NEW c \in Consumers, Consume_Poll(c) PROVE CoverInv'
    <2>1. PICK l \in poll[c] : Take(c, l) \/ UNCHANGED <<queue, ordered_next>>
      BY <1>8 DEF Consume_Poll
    <2>2. sent' = sent /\ output' = output /\ l \in Threads
      BY <1>8 DEF Consume_Poll, threadVars, TypeOK
    <2> QED
      BY <1>2, <2>1, <2>2, TakeCover
  <1>9. ASSUME NEW c \in Consumers, Consume_Emit(c) PROVE CoverInv'
    <2>1. PICK m \in ordered_next[c] :
             /\ output' = Append(output, m)
             /\ ordered_next' = [ordered_next EXCEPT ![c] = ordered_next[c] \ {m}]
      BY <1>9 DEF Consume_Emit
    <2>2. output \in Seq(Message) /\ m \in Message
      BY FlowTypes DEF TypeOK
    <2>3. /\ Len(output) \in Nat
          /\ Len(output') = Len(output) + 1
          /\ \A i \in 1 .. Len(output) : output'[i] = output[i]
          /\ output'[Len(output) + 1] = m
      BY <2>1, <2>2
    <2>4. /\ ordered_next'[c] = ordered_next[c] \ {m}
          /\ \A d \in Consumers \ {c} : ordered_next'[d] = ordered_next[d]
      BY <2>1 DEF TypeOK
    <2>5. \A t, k : Printed(t, k) => Printed(t, k)'
      BY <2>3 DEF Printed
    <2>6. Printed(m.src, m.n)'
      BY <2>3 DEF Printed
    <2>7. \A t, k : InHand(t, k) => InHand(t, k)' \/ (t = m.src /\ k = m.n)
      BY <2>4 DEF InHand
    <2>8. \A t \in Threads : Taken(t)' = Taken(t)
      BY <1>9 DEF Consume_Emit, threadVars, Taken
    <2> QED
      BY <2>5, <2>6, <2>7, <2>8 DEF CoverInv
  <1> QED
    BY <1>2, <1>3, <1>4, <1>5, <1>6, <1>7, <1>8, <1>9, StepCases DEF flowVars

\* What DrainInv says of one logger that the loop has passed.
Drained(c, t) ==
    \/ Taken(t) >= snap[t]
    \/ \E m \in ordered_next[c] : m.src = t
    \/ cpc[c] = "poll" /\ t \in poll[c]

\* A step of a consumer inside consume() that leaves sent and snap alone.
LEMMA StepDrain ==
  ASSUME TypeOK, MutexInv, LoopInv, DrainInv, NEW c \in Consumers,
         InConsume(c), UNCHANGED <<sent, snap>>,
         \A d \in Consumers \ {c} : cpc'[d] = cpc[d],
         \A t \in Scanned(c)' : Drained(c, t)'
  PROVE  DrainInv'
  <1>1. mutex = c
    BY DEF MutexInv
  <1>2. \A d \in Consumers \ {c} : ~ InConsume(d)
    BY <1>1, OnlyHolder
  <1>3. \A d \in Consumers \ {c} : ~ InConsume(d)'
    BY <1>2 DEF InConsume
  <1>4. \A t \in Threads : snap'[t] <= sent'[t]
    BY DEF DrainInv
  <1> QED
    BY <1>3, <1>4 DEF DrainInv, Drained

\* Looking at the queue of l, the only logger whose standing may be open.
LEMMA LookDrain ==
  ASSUME TypeOK, QueueInv, DrainInv, NEW c \in Consumers, InConsume(c),
         NEW l \in Threads, UNCHANGED <<sent, snap>>,
         Take(c, l) \/ (queue[l] = <<>> /\ UNCHANGED <<queue, ordered_next>>)
  PROVE  /\ Drained(c, l)'
         /\ \A t \in Threads : Taken(t) >= snap[t] => Drained(c, t)'
         /\ \A t \in Threads :
               (\E m \in ordered_next[c] : m.src = t) => Drained(c, t)'
  <1>1. CASE Take(c, l)
    <2>1. PICK m \in Message :
             /\ m.src = l
             /\ ordered_next' = [ordered_next EXCEPT ![c] = ordered_next[c] \cup {m}]
             /\ Taken(l)' = Taken(l) + 1
             /\ \A t \in Threads \ {l} : Taken(t)' = Taken(t)
             /\ \A t \in Threads : Taken(t) \in Nat
      BY <1>1, TakeFacts
    <2>2. ordered_next'[c] = ordered_next[c] \cup {m}
      BY <2>1 DEF TypeOK
    <2> QED
      BY <2>1, <2>2 DEF Drained
  <1>2. CASE queue[l] = <<>> /\ UNCHANGED <<queue, ordered_next>>
    <2>1. \A t \in Threads : Taken(t)' = Taken(t)
      BY <1>2 DEF Taken
    <2>2. Taken(l) = sent[l] /\ snap[l] <= sent[l]
      BY <1>2, TakenType DEF Taken, DrainInv
    <2> QED
      BY <1>2, <2>1, <2>2 DEF Drained
  <1> QED
    BY <1>1, <1>2

LEMMA NextDrain ==
  ASSUME TypeOK, MutexInv, RegisterInv, QueueInv, LoopInv, HandInv, DrainInv,
         [Next]_vars
  PROVE  DrainInv'
  <1>1. CASE UNCHANGED flowVars
    BY <1>1 DEF flowVars, DrainInv, InConsume, Scanned, Taken
  <1>2. ASSUME NEW t \in Threads, Push(t) PROVE DrainInv'
    <2>1. mutex = t /\ cpc' = cpc
      BY <1>2 DEF Push, MutexInv, consumerVars
    <2>2. \A c \in Consumers : ~ InConsume(c)
      BY <2>1, ConsumersAssumption DEF MutexInv
    <2> QED
      BY <2>1, <2>2 DEF DrainInv, InConsume
  <1>3. ASSUME NEW t \in Threads, Enqueue(t) PROVE DrainInv'
    <2>1. /\ \A u \in Threads : Taken(u)' = Taken(u)
          /\ \A u \in Threads : sent'[u] \in Nat /\ sent[u] <= sent'[u]
          /\ UNCHANGED <<loggers, cpc, at, ordered_next, poll, snap>>
      BY <1>3, EnqueueFacts
    <2> SUFFICES ASSUME NEW c \in Consumers, InConsume(c)
                 PROVE  /\ \A u \in Threads : snap[u] <= sent'[u]
                        /\ \A u \in Scanned(c) : Drained(c, u)'
      BY <2>1 DEF DrainInv, InConsume, Scanned, Drained
    <2>2. \A u \in Threads : sent[u] \in Nat /\ snap[u] \in Nat
      BY DEF TypeOK
    <2>3. \A u \in Threads : snap[u] <= sent'[u]
      BY <2>1, <2>2 DEF DrainInv
    <2>4. \A u \in Scanned(c) : u \in Threads
      BY FlowTypes DEF Scanned, LoopInv
    <2>5. \A u \in Scanned(c) : Drained(c, u)'
      BY <2>1, <2>4 DEF DrainInv, Drained
    <2> QED
      BY <2>3, <2>5
  <1>4. ASSUME NEW c \in Consumers, TimerCb(c) \/ Consume_Unlock(c) PROVE DrainInv'
    <2>1. /\ UNCHANGED <<loggers, queue, sent, at, ordered_next, poll, snap>>
          /\ \E p \in {"lock", "idle"} : cpc' = [cpc EXCEPT ![c] = p]
      BY <1>4 DEF TimerCb, Consume_Unlock, threadVars
    <2>2. /\ ~ InConsume(c)'
          /\ \A d \in Consumers \ {c} : cpc'[d] = cpc[d]
      BY <2>1 DEF TypeOK, InConsume
    <2> QED
      BY <2>1, <2>2 DEF DrainInv, InConsume, Scanned, Taken
  <1>5. ASSUME NEW c \in Consumers, Consume_Lock(c) PROVE DrainInv'
    <2>1. /\ mutex = Free /\ snap' = sent /\ sent' = sent
          /\ at' = [at EXCEPT ![c] = 1] /\ cpc' = [cpc EXCEPT ![c] = "scan"]
      BY <1>5 DEF Consume_Lock, Acquire, First, threadVars
    <2>2. /\ at'[c] = 1 /\ \A d \in Consumers \ {c} : cpc'[d] = cpc[d]
          /\ sent \in [Threads -> Nat]
      BY <2>1 DEF TypeOK
    <2>3. \A d \in Consumers \ {c} : ~ InConsume(d)'
      BY <2>1, <2>2, OnlyHolder DEF InConsume
    <2>4. Scanned(c)' = {}
      BY <2>2 DEF Scanned
    <2> QED
      BY <2>1, <2>2, <2>3, <2>4 DEF DrainInv
  <1>6. ASSUME NEW c \in Consumers, Consume_Scan(c) PROVE DrainInv'
    <2> DEFINE l == loggers[at[c]]
    <2>1. /\ l \in Threads /\ Scanned(c)' = Scanned(c) \cup {l}
      BY <1>6, ScanNext
    <2>2. /\ InConsume(c) /\ cpc[c] = "scan" /\ UNCHANGED <<sent, snap>>
          /\ Take(c, l) \/ (queue[l] = <<>> /\ UNCHANGED <<queue, ordered_next>>)
      BY <1>6 DEF Consume_Scan, InConsume, threadVars
    <2>3. \A d \in Consumers \ {c} : cpc'[d] = cpc[d]
      BY <1>6 DEF Consume_Scan, TypeOK
    <2>4. Scanned(c) \subseteq Threads
      BY <2>2, FlowTypes DEF Scanned, LoopInv
    <2>5. \A t \in Scanned(c)' : Drained(c, t)'
      BY <2>1, <2>2, <2>4, LookDrain DEF DrainInv
    <2> QED
      BY <2>2, <2>3, <2>5, StepDrain
  <1>7. ASSUME NEW c \in Consumers, Consume_Emit(c) PROVE DrainInv'
    <2>1. PICK m \in ordered_next[c] :
             /\ ordered_next' = [ordered_next EXCEPT ![c] = ordered_next[c] \ {m}]
             /\ check_loggers' =
                  [check_loggers EXCEPT ![c] = check_loggers[c] \cup {m.src}]
      BY <1>7 DEF Consume_Emit, Recheck
    <2>2. /\ cpc[c] = "emit" /\ UNCHANGED <<loggers, at, queue, sent, snap>>
          /\ poll' = [poll EXCEPT ![c] = check_loggers'[c]]
          /\ cpc' = [cpc EXCEPT ![c] = PollLoop(poll'[c], ordered_next'[c])]
      BY <1>7 DEF Consume_Emit, threadVars
    <2>3. /\ ordered_next'[c] = ordered_next[c] \ {m}
          /\ m.src \in poll'[c]
      BY <2>1, <2>2 DEF TypeOK
    <2>4. /\ cpc'[c] = "poll"
          /\ \A d \in Consumers \ {c} : cpc'[d] = cpc[d]
      BY <2>2, <2>3 DEF TypeOK, PollLoop
    <2>5. Scanned(c)' = Scanned(c) /\ \A t : Taken(t)' = Taken(t)
      BY <2>2 DEF Scanned, Taken
    <2>6. \A t \in Scanned(c)' : Drained(c, t)'
      BY <2>2, <2>3, <2>4, <2>5 DEF DrainInv, Drained, InConsume
    <2> QED
      BY <2>2, <2>4, <2>6, StepDrain DEF InConsume
  <1>8. ASSUME NEW c \in Consumers, Consume_Poll(c) PROVE DrainInv'
    <2>1. PICK l \in poll[c] :
             /\ Take(c, l) \/ (queue[l] = <<>> /\ UNCHANGED <<queue, ordered_next>>)
             /\ poll' = [poll EXCEPT ![c] = poll[c] \ {l}]
      BY <1>8 DEF Consume_Poll
    <2>2. /\ cpc[c] = "poll" /\ UNCHANGED <<loggers, at, sent, snap>>
          /\ cpc' = [cpc EXCEPT ![c] = PollLoop(poll'[c], ordered_next'[c])]
      BY <1>8 DEF Consume_Poll, threadVars
    <2>3. poll'[c] = poll[c] \ {l} /\ l \in Threads
      BY <2>1 DEF TypeOK
    <2>4. /\ cpc'[c] = PollLoop(poll'[c], ordered_next'[c])
          /\ \A d \in Consumers \ {c} : cpc'[d] = cpc[d]
      BY <2>2 DEF TypeOK
    <2>5. Scanned(c)' = Scanned(c) /\ Scanned(c) \subseteq Threads /\ InConsume(c)
      BY <2>2, FlowTypes DEF Scanned, InConsume, LoopInv
    <2>6. \A t \in poll[c] \ {l} : Drained(c, t)'
      BY <2>3, <2>4 DEF Drained, PollLoop
    <2>7. \A t \in Scanned(c)' : Drained(c, t)'
      BY <2>1, <2>2, <2>3, <2>5, <2>6, LookDrain DEF DrainInv
    <2> QED
      BY <2>2, <2>4, <2>5, <2>7, StepDrain
  <1> QED
    BY <1>1, <1>2, <1>3, <1>4, <1>5, <1>6, <1>7, <1>8, StepCases

(***************************************************************************)
(* The "New logger" message, and the timers.                                *)
(***************************************************************************)
\* A step of t that leaves what StartInv says of the other threads alone.
LEMMA OtherStarts ==
  ASSUME StartInv, NEW t \in Threads,
         \A u \in Threads \ {t} :
            /\ tpc'[u] = tpc[u] /\ sent'[u] = sent[u]
            /\ initialized'[u] = initialized[u] /\ (mutex' = u <=> mutex = u),
         mutex' = t /\ tpc'[t] # "unlock" => sent'[t] = 0,
         initialized'[t] /\ (mutex' # t \/ tpc'[t] = "unlock") => sent'[t] > 0
  PROVE  StartInv'
  <1>1. \A u \in Threads : mutex' = u /\ tpc'[u] # "unlock" => sent'[u] = 0
    BY DEF StartInv
  <1>2. \A u \in Threads :
           initialized'[u] /\ (mutex' # u \/ tpc'[u] = "unlock") => sent'[u] > 0
    BY DEF StartInv
  <1> QED
    BY <1>1, <1>2 DEF StartInv

LEMMA ThreadStart ==
  ASSUME TypeOK, MutexInv, RegisterInv, QueueInv, StartInv,
         NEW t \in Threads, Thread(t)
  PROVE  StartInv'
  <1>t. tpc \in [Threads -> ThreadPC] /\ sent \in [Threads -> Nat]
    BY DEF TypeOK
  <1>i. initialized \in [Threads -> BOOLEAN]
    BY DEF TypeOK
  <1>f. mutex = Free => \A u \in Threads : mutex # u
    BY FreeAssumption
  <1>1. CASE LogCall(t)
    <2>1. /\ UNCHANGED <<mutex, initialized, sent>> /\ tpc[t] = "run"
          /\ tpc' = [tpc EXCEPT ![t] = Enter(initialized[t])]
      BY <1>1 DEF LogCall
    <2>2. tpc'[t] # "unlock" /\ \A u \in Threads \ {t} : tpc'[u] = tpc[u]
      BY <1>t, <2>1 DEF Enter
    <2>3. mutex # t
      BY <2>1 DEF MutexInv
    <2> QED
      BY <2>1, <2>2, <2>3, OtherStarts DEF StartInv
  <1>2. CASE Lock(t)
    <2>1. /\ UNCHANGED <<initialized, sent>> /\ tpc[t] = "lock"
          /\ mutex = Free /\ mutex' = t /\ tpc' = [tpc EXCEPT ![t] = "push"]
      BY <1>2 DEF Lock, Acquire
    <2>2. tpc'[t] = "push" /\ \A u \in Threads \ {t} : tpc'[u] = tpc[u]
      BY <1>t, <2>1
    <2>3. sent[t] = 0
      BY <2>1 DEF RegisterInv
    <2> QED
      BY <1>f, <2>1, <2>2, <2>3, OtherStarts
  <1>3. CASE Push(t)
    <2>1. /\ UNCHANGED <<mutex, sent>> /\ tpc[t] = "push"
          /\ initialized' = [initialized EXCEPT ![t] = TRUE]
          /\ tpc' = [tpc EXCEPT ![t] = Enter(initialized'[t])]
      BY <1>3 DEF Push
    <2>2. tpc'[t] # "unlock" /\ \A u \in Threads \ {t} : tpc'[u] = tpc[u]
      BY <1>t, <2>1 DEF Enter
    <2>3. \A u \in Threads \ {t} : initialized'[u] = initialized[u]
      BY <1>i, <2>1
    <2>4. sent[t] = 0 /\ mutex = t
      BY <2>1 DEF RegisterInv, MutexInv
    <2> QED
      BY <2>1, <2>2, <2>3, <2>4, OtherStarts
  <1>4. CASE Stamp(t) \/ Exit(t)
    <2>1. /\ UNCHANGED <<mutex, sent, initialized>>
          /\ \E p \in {"enqueue", "gone"} : tpc' = [tpc EXCEPT ![t] = p]
          /\ tpc[t] # "unlock"
      BY <1>4 DEF Stamp, Exit
    <2>2. tpc'[t] # "unlock" /\ \A u \in Threads \ {t} : tpc'[u] = tpc[u]
      BY <1>t, <2>1
    <2> QED
      BY <2>1, <2>2, OtherStarts DEF StartInv
  <1>5. CASE Enqueue(t)
    <2>1. /\ UNCHANGED <<mutex, initialized>>
          /\ tpc' = [tpc EXCEPT ![t] = Return(t)]
          /\ sent' = [sent EXCEPT ![t] = sent[t] + 1]
      BY <1>5 DEF Enqueue
    <2>2. /\ tpc'[t] = Return(t) /\ sent'[t] > 0
          /\ \A u \in Threads \ {t} : tpc'[u] = tpc[u] /\ sent'[u] = sent[u]
      BY <1>t, <2>1
    <2>3. mutex = t => tpc'[t] = "unlock"
      BY <2>2 DEF Return
    <2> QED
      BY <2>1, <2>2, <2>3, OtherStarts
  <1>6. CASE EnqueueFails(t)
    <2>1. /\ UNCHANGED <<mutex, initialized, sent>> /\ tpc[t] = "enqueue"
          /\ Len(queue[t]) >= Capacity
          /\ tpc' = [tpc EXCEPT ![t] = Return(t)]
      BY <1>6 DEF EnqueueFails
    <2>2. sent[t] > 0
      <3>1. Len(queue[t]) \in Nat /\ sent[t] \in Nat /\ Capacity \in Nat \ {0}
        BY TakenType, BoundsAssumption
      <3>2. Len(queue[t]) <= sent[t]
        BY DEF QueueInv
      <3> QED
        BY <2>1, <3>1, <3>2
    <2>3. mutex # t
      BY <1>t, <2>1, <2>2 DEF StartInv
    <2>4. \A u \in Threads \ {t} : tpc'[u] = tpc[u]
      BY <1>t, <2>1
    <2> QED
      BY <2>1, <2>2, <2>3, <2>4, OtherStarts
  <1>7. CASE Unlock(t)
    <2>1. /\ UNCHANGED <<initialized, sent>> /\ tpc[t] = "unlock"
          /\ mutex' = Free /\ tpc' = [tpc EXCEPT ![t] = "stamp"]
      BY <1>7 DEF Unlock, Release
    <2>2. mutex = t /\ sent[t] > 0
      BY <2>1 DEF MutexInv, RegisterInv, StartInv
    <2>3. \A u \in Threads \ {t} : tpc'[u] = tpc[u]
      BY <1>t, <2>1
    <2> QED
      BY <2>1, <2>2, <2>3, FreeAssumption, OtherStarts
  <1> QED
    BY <1>1, <1>2, <1>3, <1>4, <1>5, <1>6, <1>7 DEF Thread, ThreadStep

LEMMA NextStart ==
  ASSUME TypeOK, MutexInv, RegisterInv, QueueInv, StartInv, [Next]_vars
  PROVE  StartInv'
  <1>1. ASSUME UNCHANGED <<tpc, sent, initialized>>,
               \A u \in Threads : mutex' = u <=> mutex = u
        PROVE  StartInv'
    BY <1>1 DEF StartInv
  <1>2. ASSUME NEW c \in Consumers, Consumer(c) PROVE StartInv'
    <2>1. UNCHANGED <<tpc, sent, initialized>>
      BY <1>2 DEF Consumer, ConsumeStep, Start, Stop, Destroy, TimerCb,
                  Consume_Lock, Consume_Scan, Consume_Emit, Consume_Poll,
                  Consume_Unlock, threadVars
    <2>2. \/ mutex' = mutex
          \/ mutex = Free /\ mutex' = c
          \/ InConsume(c) /\ mutex' = Free
      BY <1>2 DEF Consumer, ConsumeStep, Start, Stop, Destroy, TimerCb,
                  Consume_Lock, Consume_Scan, Consume_Emit, Consume_Poll,
                  Consume_Unlock, Acquire, Release, InConsume
    <2>3. \A u \in Threads : u # c /\ u # Free
      BY ConsumersAssumption, FreeAssumption
    <2>4. InConsume(c) => mutex = c
      BY DEF MutexInv
    <2> QED
      BY <1>1, <2>1, <2>2, <2>3, <2>4
  <1>3. CASE Tick \/ UNCHANGED vars
    BY <1>1, <1>3 DEF Tick, vars, threadVars
  <1> QED
    BY <1>2, <1>3, ThreadStart DEF Next

LEMMA TakeKind ==
  ASSUME TypeOK, KindInv, NEW c \in Consumers, NEW l \in Threads,
         Take(c, l), output' = output
  PROVE  KindInv'
  <1>1. queue[l] \in Seq(Message) /\ queue[l] # <<>> /\ Len(queue[l]) >= 1
    BY DEF TypeOK, Take
  <1>2. /\ Head(queue[l]) = queue[l][1]
        /\ Len(Tail(queue[l])) = Len(queue[l]) - 1
        /\ \A i \in 1 .. Len(Tail(queue[l])) : Tail(queue[l])[i] = queue[l][i + 1]
    BY <1>1, HeadTailProperties
  <1>3. /\ queue' = [queue EXCEPT ![l] = Tail(queue[l])]
        /\ ordered_next' =
             [ordered_next EXCEPT ![c] = ordered_next[c] \cup {Head(queue[l])}]
    BY DEF Take
  <1>4. /\ queue'[l] = Tail(queue[l])
        /\ \A t \in Threads \ {l} : queue'[t] = queue[t]
    BY <1>3 DEF TypeOK
  <1>5. /\ ordered_next'[c] = ordered_next[c] \cup {queue[l][1]}
        /\ \A d \in Consumers \ {c} : ordered_next'[d] = ordered_next[d]
    BY <1>2, <1>3 DEF TypeOK
  <1>6. \A i \in 1 .. Len(queue[l]) :
           (queue[l][i].n = 1) <=> (queue[l][i].kind = "start")
    BY DEF KindInv
  <1>7. ASSUME NEW i \in 1 .. Len(queue'[l])
        PROVE  (queue'[l][i].n = 1) <=> (queue'[l][i].kind = "start")
    <2>1. i + 1 \in 1 .. Len(queue[l]) /\ queue'[l][i] = queue[l][i + 1]
      BY <1>1, <1>2, <1>4
    <2> QED
      BY <1>6, <2>1
  <1>8. \A t \in Threads : \A i \in 1 .. Len(queue'[t]) :
           (queue'[t][i].n = 1) <=> (queue'[t][i].kind = "start")
    <2>1. ASSUME NEW t \in Threads \ {l}, NEW i \in 1 .. Len(queue'[t])
          PROVE  (queue'[t][i].n = 1) <=> (queue'[t][i].kind = "start")
      <3>1. queue'[t] = queue[t]
        BY <1>4
      <3> QED
        BY <3>1 DEF KindInv
    <2> QED
      BY <1>7, <2>1
  <1>9. (queue[l][1].n = 1) <=> (queue[l][1].kind = "start")
    BY <1>1, <1>6
  <1>10. \A d \in Consumers : \A m \in ordered_next'[d] :
            (m.n = 1) <=> (m.kind = "start")
    BY <1>5, <1>9 DEF KindInv
  <1> QED
    BY <1>8, <1>10 DEF KindInv, StartMessageFirst

LEMMA EnqueueKind ==
  ASSUME TypeOK, MutexInv, RegisterInv, StartInv, KindInv,
         NEW t \in Threads, Enqueue(t)
  PROVE  KindInv'
  <1>1. PICK g \in Garbage : queue' = [queue EXCEPT ![t] = Append(queue[t], Copy(t, g))]
    BY DEF Enqueue
  <1>2. tpc[t] = "enqueue" /\ UNCHANGED <<ordered_next, output>>
    BY DEF Enqueue, consumerVars
  <1>3. sent[t] \in Nat /\ queue[t] \in Seq(Message)
    BY DEF TypeOK
  <1>4. mutex = t <=> sent[t] = 0
    BY <1>2, <1>3 DEF StartInv, RegisterInv
  <1> DEFINE m == Copy(t, g)
  <1>5. (m.n = 1) <=> (m.kind = "start")
    BY <1>3, <1>4 DEF Copy, Kind
  <1>6. m \in Message
    BY CopyType
  <1>7. queue'[t] = Append(queue[t], m) /\ \A u \in Threads \ {t} : queue'[u] = queue[u]
    BY <1>1 DEF TypeOK
  <1> HIDE DEF m
  <1>8. /\ Len(queue[t]) \in Nat /\ Len(queue'[t]) = Len(queue[t]) + 1
        /\ \A i \in 1 .. Len(queue[t]) : queue'[t][i] = queue[t][i]
        /\ queue'[t][Len(queue[t]) + 1] = m
    BY <1>3, <1>6, <1>7
  <1>9. \A i \in 1 .. Len(queue'[t]) : i \in 1 .. Len(queue[t]) \/ i = Len(queue[t]) + 1
    BY <1>8
  <1>10. \A i \in 1 .. Len(queue'[t]) :
            (queue'[t][i].n = 1) <=> (queue'[t][i].kind = "start")
    BY <1>5, <1>8, <1>9 DEF KindInv
  <1>11. \A u \in Threads : \A i \in 1 .. Len(queue'[u]) :
            (queue'[u][i].n = 1) <=> (queue'[u][i].kind = "start")
    BY <1>7, <1>10 DEF KindInv
  <1> QED
    BY <1>2, <1>11 DEF KindInv, StartMessageFirst

LEMMA NextKind ==
  ASSUME TypeOK, MutexInv, RegisterInv, LoopInv, StartInv, KindInv, [Next]_vars
  PROVE  KindInv'
  <1>1. CASE UNCHANGED <<queue, ordered_next, output>>
    BY <1>1 DEF KindInv, StartMessageFirst
  <1>2. ASSUME NEW t \in Threads, Push(t)
        PROVE  UNCHANGED <<queue, ordered_next, output>>
    BY <1>2 DEF Push, consumerVars
  <1>3. ASSUME NEW c \in Consumers, TimerCb(c) \/ Consume_Unlock(c)
        PROVE  UNCHANGED <<queue, ordered_next, output>>
    BY <1>3 DEF TimerCb, Consume_Unlock
  <1>4. ASSUME NEW c \in Consumers, Consume_Lock(c)
        PROVE  UNCHANGED <<queue, ordered_next, output>>
    <2>1. ordered_next[c] = {} /\ ordered_next' = [ordered_next EXCEPT ![c] = {}]
      BY <1>4 DEF Consume_Lock, LoopInv
    <2>2. ordered_next' = ordered_next
      BY <2>1 DEF TypeOK
    <2> QED
      BY <1>4, <2>2 DEF Consume_Lock
  <1>5. ASSUME NEW c \in Consumers, Consume_Scan(c) PROVE KindInv'
    <2>1. loggers[at[c]] \in Threads
      BY <1>5, ScanNext
    <2>2. /\ output' = output
          /\ Take(c, loggers[at[c]]) \/ UNCHANGED <<queue, ordered_next>>
      BY <1>5 DEF Consume_Scan
    <2> QED
      BY <1>1, <2>1, <2>2, TakeKind
  <1>6. ASSUME NEW c \in Consumers, Consume_Poll(c) PROVE KindInv'
    <2>1. PICK l \in poll[c] : Take(c, l) \/ UNCHANGED <<queue, ordered_next>>
      BY <1>6 DEF Consume_Poll
    <2>2. output' = output /\ l \in Threads
      BY <1>6 DEF Consume_Poll, TypeOK
    <2> QED
      BY <1>1, <2>1, <2>2, TakeKind
  <1>7. ASSUME NEW c \in Consumers, Consume_Emit(c) PROVE KindInv'
    <2>1. PICK m \in ordered_next[c] :
             /\ output' = Append(output, m) /\ queue' = queue
             /\ ordered_next' = [ordered_next EXCEPT ![c] = ordered_next[c] \ {m}]
      BY <1>7 DEF Consume_Emit
    <2>2. output \in Seq(Message) /\ m \in Message
      BY FlowTypes DEF TypeOK
    <2>3. /\ Len(output) \in Nat /\ Len(output') = Len(output) + 1
          /\ \A i \in 1 .. Len(output) : output'[i] = output[i]
          /\ output'[Len(output) + 1] = m
      BY <2>1, <2>2
    <2>4. \A i \in 1 .. Len(output') : i \in 1 .. Len(output) \/ i = Len(output) + 1
      BY <2>3
    <2>5. (m.n = 1) <=> (m.kind = "start")
      BY DEF KindInv
    <2>6. StartMessageFirst'
      BY <2>3, <2>4, <2>5 DEF KindInv, StartMessageFirst
    <2>7. \A d \in Consumers : ordered_next'[d] \subseteq ordered_next[d]
      BY <2>1 DEF TypeOK
    <2> QED
      BY <2>1, <2>6, <2>7 DEF KindInv
  <1> QED
    BY <1>1, <1>2, <1>3, <1>4, <1>5, <1>6, <1>7, EnqueueKind, StepCases DEF flowVars

LEMMA NextTimer ==
  ASSUME TypeOK, TimerInv, [Next]_vars
  PROVE  TimerInv'
  <1>t. /\ timer \in [Consumers -> {"off", "once", "repeat"}]
        /\ cpc \in [Consumers -> ConsumerPC]
    BY DEF TypeOK
  <1>a. alive \in [Consumers -> BOOLEAN]
    BY DEF TypeOK
  <1>1. CASE UNCHANGED <<timer, cpc, alive>>
    BY <1>1 DEF TimerInv
  <1>2. ASSUME NEW t \in Threads, Thread(t) PROVE UNCHANGED <<timer, cpc, alive>>
    BY <1>2 DEF Thread, ThreadStep, LogCall, Lock, Push, Stamp, Enqueue,
                EnqueueFails, Unlock, Exit, timerVars, consumerVars
  <1>3. ASSUME NEW c \in Consumers, Start(c) \/ Stop(c) PROVE TimerInv'
    <2>1. /\ alive[c] /\ UNCHANGED <<cpc, alive>>
          /\ \E mode : timer' = [timer EXCEPT ![c] = mode]
      BY <1>3 DEF Start, Stop, OnLoop, consumerVars
    <2>2. \A d \in Consumers \ {c} : timer'[d] = timer[d]
      BY <1>t, <2>1
    <2> QED
      BY <2>1, <2>2 DEF TimerInv
  <1>4. ASSUME NEW c \in Consumers, Destroy(c) PROVE TimerInv'
    <2>1. /\ cpc[c] = "idle" /\ cpc' = cpc
          /\ timer' = [timer EXCEPT ![c] = "off"]
          /\ alive' = [alive EXCEPT ![c] = FALSE]
      BY <1>4 DEF Destroy, OnLoop, consumerVars
    <2>2. timer'[c] = "off" /\ \A d \in Consumers \ {c} : timer'[d] = timer[d]
      BY <1>t, <2>1
    <2>3. \A d \in Consumers \ {c} : alive'[d] = alive[d]
      BY <1>a, <2>1
    <2> QED
      BY <2>1, <2>2, <2>3 DEF TimerInv
  <1>5. ASSUME NEW c \in Consumers, ConsumeStep(c) PROVE TimerInv'
    <2>1. /\ alive' = alive
          /\ timer[c] # "off" \/ cpc[c] # "idle"
          /\ \/ timer' = timer
             \/ \E mode : timer' = [timer EXCEPT ![c] = mode]
          /\ \E p : cpc' = [cpc EXCEPT ![c] = p]
      BY <1>5 DEF ConsumeStep, TimerCb, Consume_Lock, Consume_Scan, Consume_Emit,
                  Consume_Poll, Consume_Unlock, timerVars
    <2>2. \A d \in Consumers \ {c} : timer'[d] = timer[d] /\ cpc'[d] = cpc[d]
      BY <1>t, <2>1
    <2> QED
      BY <2>1, <2>2 DEF TimerInv
  <1>6. CASE Tick \/ UNCHANGED vars
    BY <1>1, <1>6 DEF Tick, vars, timerVars, consumerVars
  <1> QED
    BY <1>1, <1>2, <1>3, <1>4, <1>5, <1>6 DEF Next, Consumer

-------------------------------------------------------------------------------
(***************************************************************************)
(* The theorems about the flow of messages.                                 *)
(***************************************************************************)
LEMMA InitFlow ==
  ASSUME Init
  PROVE  /\ QueueInv /\ LoopInv /\ HandInv /\ OutputInv /\ PerThreadFifo
         /\ CoverInv /\ DrainInv /\ StartInv /\ KindInv /\ TimerInv
  <1>1. /\ \A t \in Threads : queue[t] = <<>> /\ sent[t] = 0
        /\ \A c \in Consumers : cpc[c] = "idle" /\ ordered_next[c] = {}
        /\ output = <<>>
    BY DEF Init
  <1>2. Len(output) = 0 /\ \A t \in Threads : Len(queue[t]) = 0
    BY <1>1
  <1>3. QueueInv
    BY <1>1, <1>2 DEF QueueInv
  <1>4. LoopInv /\ DrainInv
    BY <1>1 DEF LoopInv, DrainInv, InConsume
  <1>5. HandInv
    BY <1>1 DEF HandInv
  <1>6. OutputInv /\ PerThreadFifo
    BY <1>2 DEF OutputInv, PerThreadFifo
  <1>7. CoverInv
    BY <1>1, <1>2 DEF CoverInv, Taken
  <1>8. StartInv
    BY FreeAssumption DEF Init, StartInv
  <1>9. KindInv
    BY <1>1, <1>2 DEF KindInv, StartMessageFirst
  <1>10. TimerInv
    BY DEF Init, TimerInv
  <1> QED
    BY <1>3, <1>4, <1>5, <1>6, <1>7, <1>8, <1>9, <1>10

\* Inv is an inductive invariant of the logger: the layers it is made of hold
\* at the start and are preserved by every step of every thread and consumer.
THEOREM Invariance == Spec => []Inv
  <1>1. Init => Inv
    BY InitType, InitMutex, InitRegister, InitFlow DEF Inv
  <1>2. Inv /\ [Next]_vars => Inv'
    BY NextType, NextMutex, NextRegister, NextQueue, NextLoop, NextHand,
       NextCover, NextDrain, NextStart, NextKind, NextTimer DEF Inv
  <1> QED
    BY <1>1, <1>2, PTL DEF Spec

\* Whatever the threads log and however many consumers take turns, the lines
\* of one thread are printed in the order it logged them, and none twice.
THEOREM FifoPerThread == Spec => []PerThreadFifo
  <1>1. Inv => PerThreadFifo
    BY DEF Inv
  <1> QED
    BY <1>1, Invariance, PTL

\* A message that a queue accepted is queued, in the hands of consume() or
\* printed, and in only one of these places: none is dropped or repeated.
THEOREM NoMessageLost == Spec => []NothingLost
  <1>1. Inv => NothingLost
    <2> SUFFICES ASSUME Inv, NEW t \in Threads, NEW k \in 1 .. sent[t]
                 PROVE  /\ Queued(t, k) \/ InHand(t, k) \/ Printed(t, k)
                        /\ ~ (Queued(t, k) /\ InHand(t, k))
                        /\ ~ (Queued(t, k) /\ Printed(t, k))
                        /\ ~ (InHand(t, k) /\ Printed(t, k))
      BY DEF NothingLost
    <2> USE DEF Inv
    <2>1. /\ Len(queue[t]) \in Nat /\ sent[t] \in Nat /\ Taken(t) \in Nat
          /\ sent[t] = Taken(t) + Len(queue[t])
      BY TakenType DEF Taken
    <2>2. \A i \in 1 .. Len(queue[t]) : queue[t][i].n = Taken(t) + i
      BY DEF QueueInv
    <2>3. Queued(t, k) => k > Taken(t)
      BY <2>1, <2>2 DEF Queued
    <2>4. k > Taken(t) => Queued(t, k)
      <3>1. ASSUME k > Taken(t) PROVE k - Taken(t) \in 1 .. Len(queue[t])
        BY <2>1, <3>1
      <3>2. ASSUME k > Taken(t) PROVE queue[t][k - Taken(t)].n = k
        BY <2>1, <2>2, <3>1, <3>2
      <3> QED
        BY <3>1, <3>2 DEF Queued
    <2>5. InHand(t, k) => k = Taken(t)
      BY DEF InHand, HandInv
    <2>6. Printed(t, k) => k <= Taken(t)
      BY DEF Printed, OutputInv
    <2>7. ~ (InHand(t, k) /\ Printed(t, k))
      <3> SUFFICES ASSUME NEW c \in Consumers, NEW m \in ordered_next[c],
                          m.src = t, m.n = k,
                          NEW i \in 1 .. Len(output),
                          output[i].src = t, output[i].n = k
                   PROVE  FALSE
        BY DEF InHand, Printed
      <3>1. output[i].n < m.n
        BY DEF HandInv
      <3> QED
        BY <2>1, <3>1
    <2>8. k <= Taken(t) => InHand(t, k) \/ Printed(t, k)
      BY <2>1 DEF CoverInv
    <2> QED
      BY <2>1, <2>3, <2>4, <2>5, <2>6, <2>7, <2>8
  <1> QED
    BY <1>1, Invariance, PTL

\* One pass of consume() prints everything that was queued when it took the
\* mutex, for every number of threads and every order of the loggers.
THEOREM OnePassDrains == Spec => []DrainedOnReturn
  <1>1. Inv => DrainedOnReturn
    <2> SUFFICES ASSUME Inv, NEW c \in Consumers, cpc[c] = "scan",
                        at[c] > Len(loggers),
                        NEW t \in Threads, NEW k \in 1 .. snap[t]
                 PROVE  Printed(t, k)
      BY DEF DrainedOnReturn
    <2> USE DEF Inv
    <2>1. InConsume(c) /\ mutex = c /\ ordered_next[c] = {}
      BY DEF InConsume, MutexInv, LoopInv
    <2>2. \A d \in Consumers : ordered_next[d] = {}
      BY <2>1, OnlyHolder
    <2>3. /\ sent[t] \in Nat /\ snap[t] \in Nat /\ Taken(t) \in Nat
          /\ snap[t] <= sent[t]
      BY <2>1, TakenType DEF TypeOK, DrainInv
    <2>4. initialized[t]
      BY <2>3 DEF RegisterInv
    <2>5. t \in Scanned(c)
      BY <2>4, FlowTypes DEF RegisterInv, Scanned
    <2>6. Taken(t) >= snap[t]
      BY <2>1, <2>5 DEF DrainInv
    <2>7. InHand(t, k) \/ Printed(t, k)
      BY <2>3, <2>6 DEF CoverInv
    <2> QED
      BY <2>2, <2>7 DEF InHand
  <1> QED
    BY <1>1, Invariance, PTL

\* The first line of every thread is its "New logger" line, although it is
\* logged by a nested call: Capacity > 0 keeps that enqueue from failing.
THEOREM StartComesFirst == Spec => []StartMessageFirst
  <1>1. Inv => StartMessageFirst
    BY DEF Inv, KindInv
  <1> QED
    BY <1>1, Invariance, PTL

\* No timer calls consume() on a UvLogConsumer that has been destroyed.
THEOREM DestructionIsSafe == Spec => []NoCallbackAfterDestruction
  <1>1. Inv => NoCallbackAfterDestruction
    BY DEF Inv, TimerInv, NoCallbackAfterDestruction
  <1> QED
    BY <1>1, Invariance, PTL

-------------------------------------------------------------------------------
(***************************************************************************)
(* The logger implements MergedLog.                                         *)
(***************************************************************************)
\* A step that moves no message does not show.
LEMMA QuietStep ==
  ASSUME \A t \in Threads : Taken(t)' = Taken(t), UNCHANGED <<ordered_next, output>>
  PROVE  UNCHANGED <<Shown, Lines>>
  <1>1. \A t \in Threads : Holding(t)' <=> Holding(t)
    BY DEF Holding
  <1>2. Shown' = Shown
    BY <1>1 DEF Shown
  <1> QED
    BY <1>2 DEF Lines

\* Taking a message into the hands of consume() does not show either.
LEMMA TakeIsQuiet ==
  ASSUME Inv, NEW c \in Consumers, mutex = c, NEW l \in Threads, Take(c, l),
         sent' = sent, output' = output,
         \A m \in ordered_next[c] : m.src # l
  PROVE  UNCHANGED <<Shown, Lines>>
  <1>1. PICK m \in Message :
           /\ m.src = l
           /\ ordered_next' = [ordered_next EXCEPT ![c] = ordered_next[c] \cup {m}]
           /\ Taken(l)' = Taken(l) + 1
           /\ \A t \in Threads \ {l} : Taken(t)' = Taken(t)
           /\ \A t \in Threads : Taken(t) \in Nat
    BY TakeFacts DEF Inv
  <1>2. /\ ordered_next'[c] = ordered_next[c] \cup {m}
        /\ \A d \in Consumers \ {c} : ordered_next'[d] = ordered_next[d]
        /\ \A d \in Consumers \ {c} : ordered_next[d] = {}
    BY <1>1, OnlyHolder DEF Inv, TypeOK
  <1>3. Holding(l)' /\ ~ Holding(l)
    BY <1>1, <1>2 DEF Holding
  <1>4. \A t \in Threads \ {l} : Holding(t)' <=> Holding(t)
    BY <1>1, <1>2 DEF Holding
  <1>5. Shown' = Shown
    BY <1>1, <1>3, <1>4 DEF Shown
  <1> QED
    BY <1>5 DEF Lines

\* ordered_log prints the next message of one thread.
LEMMA EmitPrints ==
  ASSUME Inv, NEW c \in Consumers, Consume_Emit(c)
  PROVE  \E t \in Threads : Merged!Emit(t)
  <1>1. PICK m \in ordered_next[c] :
           /\ output' = Append(output, m)
           /\ ordered_next' = [ordered_next EXCEPT ![c] = ordered_next[c] \ {m}]
    BY DEF Consume_Emit
  <1>2. m \in Message /\ m.src \in Threads /\ m.n \in Nat
    BY FlowTypes DEF Inv
  <1> DEFINE s == m.src
  <1>3. UNCHANGED <<queue, sent>>
    BY DEF Consume_Emit, threadVars
  <1>4. \A t \in Threads : /\ Taken(t)' = Taken(t)
                           /\ Taken(t) \in Nat
                           /\ Len(queue[t]) \in Nat
                           /\ sent[t] \in Nat
    BY <1>3, TakenType DEF Taken, Inv
  <1>5. mutex = c
    BY DEF Consume_Emit, Inv, MutexInv, InConsume
  <1>6. /\ ordered_next'[c] = ordered_next[c] \ {m}
        /\ \A d \in Consumers \ {c} : ordered_next'[d] = {} /\ ordered_next[d] = {}
    BY <1>1, <1>5, OnlyHolder DEF Inv, TypeOK
  <1>7. m.n = Taken(s) /\ \A k \in ordered_next[c] : k.src = s => k = m
    BY DEF Inv, HandInv
  <1>8. Holding(s) /\ ~ Holding(s)'
    BY <1>6, <1>7 DEF Holding
  <1>9. \A t \in Threads \ {s} : Holding(t)' <=> Holding(t)
    BY <1>6 DEF Holding
  <1>10. /\ Shown[s] = Taken(s) - 1
         /\ Shown' = [Shown EXCEPT ![s] = Shown[s] + 1]
         /\ Shown'[s] = m.n
    <2>1. Shown[s] = Taken(s) - 1 /\ Shown'[s] = Taken(s)
      BY <1>2, <1>4, <1>8 DEF Shown
    <2>2. \A t \in Threads \ {s} : Shown'[t] = Shown[t]
      BY <1>4, <1>9 DEF Shown
    <2>3. Shown' = [t \in Threads |-> Shown'[t]] /\ Shown = [t \in Threads |-> Shown[t]]
      BY DEF Shown
    <2>4. Shown'[s] = Shown[s] + 1
      BY <1>2, <1>4, <2>1
    <2> HIDE DEF s
    <2>5. [Shown EXCEPT ![s] = Shown[s] + 1]
            = [t \in Threads |-> IF t = s THEN Shown[s] + 1 ELSE Shown[t]]
      BY <2>3
    <2> QED
      BY <1>7, <2>1, <2>2, <2>3, <2>4, <2>5
  <1>11. Shown[s] < sent[s]
    <2>1. Taken(s) <= sent[s]
      BY <1>2, <1>4 DEF Taken
    <2> QED
      BY <1>2, <1>4, <1>10, <2>1
  <1>12. Lines' = Append(Lines, <<s, m.n>>)
    <2>1. output \in Seq(Message)
      BY DEF Inv, TypeOK
    <2>2. /\ Len(output) \in Nat
          /\ Len(output') = Len(output) + 1
          /\ \A i \in 1 .. Len(output) : output'[i] = output[i]
          /\ output'[Len(output) + 1] = m
      BY <1>1, <1>2, <2>1
    <2>3. Lines \in Seq(Threads \X Nat) /\ Len(Lines) = Len(output)
      <3>1. \A i \in 1 .. Len(output) : output[i].src \in Threads /\ output[i].n \in Nat
        BY FlowTypes DEF Inv
      <3> QED
        BY <2>2, <3>1 DEF Lines
    <2>4. Append(Lines, <<s, m.n>>)
            = [i \in 1 .. Len(output) + 1 |->
                 IF i = Len(output) + 1 THEN <<s, m.n>> ELSE Lines[i]]
      BY <1>2, <2>2, <2>3
    <2>5. Lines' = [i \in 1 .. Len(output) + 1 |-> <<output'[i].src, output'[i].n>>]
      BY <2>2 DEF Lines
    <2>6. \A i \in 1 .. Len(output) : Lines[i] = <<output[i].src, output[i].n>>
      BY DEF Lines
    <2>7. \A i \in 1 .. Len(output) + 1 :
             <<output'[i].src, output'[i].n>>
               = IF i = Len(output) + 1 THEN <<s, m.n>> ELSE Lines[i]
      <3> SUFFICES ASSUME NEW i \in 1 .. Len(output) + 1
                   PROVE  <<output'[i].src, output'[i].n>>
                            = IF i = Len(output) + 1 THEN <<s, m.n>> ELSE Lines[i]
        OBVIOUS
      <3>1. CASE i = Len(output) + 1
        BY <2>2, <3>1
      <3>2. CASE i # Len(output) + 1
        <4>1. i \in 1 .. Len(output)
          BY <2>2, <3>2
        <4> QED
          BY <2>2, <2>6, <3>2, <4>1
      <3> QED
        BY <3>1, <3>2
    <2> HIDE DEF s, Lines
    <2> QED
      BY <2>4, <2>5, <2>7
  <1> QED
    BY <1>2, <1>3, <1>10, <1>11, <1>12 DEF Merged!Emit

\* Every step of the logger is a step of MergedLog, or does not show.
LEMMA MergedStep ==
  ASSUME Inv, [Next]_vars
  PROVE  [Merged!Next]_(Merged!vars)
  <1>1. ASSUME UNCHANGED <<queue, sent, ordered_next, output>>
        PROVE  UNCHANGED Merged!vars
    BY <1>1, QuietStep DEF Taken, Merged!vars
  <1>2. ASSUME NEW t \in Threads, Push(t)
        PROVE  UNCHANGED <<queue, sent, ordered_next, output>>
    BY <1>2 DEF Push, consumerVars
  <1>3. ASSUME NEW t \in Threads, Enqueue(t) PROVE Merged!Accept(t)
    <2>1. UNCHANGED <<Shown, Lines>>
      BY <1>3, EnqueueFacts, QuietStep DEF Inv
    <2> QED
      BY <1>3, <2>1 DEF Enqueue, Merged!Accept
  <1>4. ASSUME NEW c \in Consumers, TimerCb(c) \/ Consume_Unlock(c)
        PROVE  UNCHANGED <<queue, sent, ordered_next, output>>
    BY <1>4 DEF TimerCb, Consume_Unlock, threadVars
  <1>5. ASSUME NEW c \in Consumers, Consume_Lock(c)
        PROVE  UNCHANGED <<queue, sent, ordered_next, output>>
    <2>1. ordered_next[c] = {} /\ ordered_next' = [ordered_next EXCEPT ![c] = {}]
      BY <1>5 DEF Consume_Lock, LoopInv, Inv
    <2>2. ordered_next' = ordered_next
      BY <2>1 DEF TypeOK, Inv
    <2> QED
      BY <1>5, <2>2 DEF Consume_Lock, threadVars
  <1>6. ASSUME NEW c \in Consumers, Consume_Scan(c) PROVE UNCHANGED Merged!vars
    <2> DEFINE l == loggers[at[c]]
    <2>1. l \in Threads
      BY <1>6, ScanNext DEF Inv
    <2>2. /\ sent' = sent /\ output' = output
          /\ Take(c, l) \/ UNCHANGED <<queue, ordered_next>>
      BY <1>6 DEF Consume_Scan, threadVars
    <2>3. mutex = c /\ ordered_next[c] = {}
      BY <1>6 DEF Consume_Scan, Inv, MutexInv, InConsume, LoopInv
    <2> HIDE DEF l
    <2>4. CASE Take(c, l)
      BY <2>1, <2>2, <2>3, <2>4, TakeIsQuiet DEF Merged!vars
    <2> QED
      BY <1>1, <2>2, <2>4
  <1>7. ASSUME NEW c \in Consumers, Consume_Poll(c) PROVE UNCHANGED Merged!vars
    <2>1. PICK l \in poll[c] : Take(c, l) \/ UNCHANGED <<queue, ordered_next>>
      BY <1>7 DEF Consume_Poll
    <2>2. sent' = sent /\ output' = output
      BY <1>7 DEF Consume_Poll, threadVars
    <2>3. mutex = c /\ l \in Threads
      BY <1>7 DEF Consume_Poll, Inv, MutexInv, InConsume, TypeOK
    <2>4. \A m \in ordered_next[c] : m.src # l
      BY <1>7 DEF Consume_Poll, InConsume, Inv, LoopInv
    <2>5. CASE Take(c, l)
      BY <2>2, <2>3, <2>4, <2>5, TakeIsQuiet DEF Merged!vars
    <2> QED
      BY <1>1, <2>1, <2>2, <2>5
  <1> QED
    BY <1>1, <1>2, <1>3, <1>4, <1>5, <1>6, <1>7, EmitPrints, StepCases
    DEF flowVars, Merged!Next

\* The threads, the mutex, the queues and every number of consumers together
\* behave as one merge of the threads' streams of messages: the log takes the
\* next message of some thread and nothing else, and a thread's stream grows by
\* what its queue accepts.
THEOREM LogIsMerge == Spec => ImplementsMergedLog
  <1>1. Init => Merged!Init
    <2> SUFFICES ASSUME Init PROVE Merged!Init
      OBVIOUS
    <2>1. /\ \A t \in Threads : ~ Holding(t) /\ Taken(t) = 0
          /\ output = <<>>
      BY DEF Init, Holding, Taken
    <2>2. Shown = [t \in Threads |-> 0]
      BY <2>1 DEF Shown
    <2>3. Lines = <<>>
      BY <2>1 DEF Lines
    <2> QED
      BY <2>2, <2>3 DEF Init, Merged!Init
  <1>2. Inv /\ [Next]_vars => [Merged!Next]_(Merged!vars)
    BY MergedStep
  <1> QED
    BY <1>1, <1>2, Invariance, PTL DEF Spec, ImplementsMergedLog, Merged!Spec

===============================================================================
