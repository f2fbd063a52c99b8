-------------------- MODULE BlockingReaderWriterQueueProofs --------------------
(***************************************************************************)
(* Proofs about BlockingReaderWriterQueue, for every size of the queue and   *)
(* of its blocks, every number of elements, every spin limit and both        *)
(* memories.  First what the semaphore alone gives; then the two halves       *)
(* together: a token shows the consumer, by the epoch it releases, the        *)
(* element that it stands for, so that the inner dequeue succeeds and the     *)
(* whole implements SpscFifo.                                               *)
(***************************************************************************)
EXTENDS BlockingReaderWriterQueue, SequenceTheorems, TLAPS

semaProofs == INSTANCE LightweightSemaphoreProofs WITH
                  InitialCount <- 0, Counts <- {1}, MaxSignals <- MaxItems

Q == INSTANCE ReaderWriterQueueContents WITH SizeCallers <- {}

-------------------------------------------------------------------------------
(***************************************************************************)
(* The queue uses its semaphore as the semaphore expects, so that everything *)
(* that is proved of the semaphore holds of it here.                        *)
(***************************************************************************)

LEMMA SemaphoreSteps == [Next]_vars => [sema!Next]_semaVars
  <1> SUFFICES ASSUME [Next]_vars PROVE [sema!Next]_semaVars
    OBVIOUS
  <1>1. CASE Enqueue \/ EnqueueInner \/ DequeueInner \/ Peek \/ ConsumerInner \/ UNCHANGED vars
    <2>1. UNCHANGED semaVars
      BY <1>1 DEF Enqueue, EnqueueInner, DequeueInner, Peek, ConsumerInner, vars
    <2> QED
      BY <2>1
  <1>2. CASE Signal \/ Post
    <2>1. sema!Signal(1) \/ sema!Post
      BY <1>2 DEF Signal, Post
    <2> QED
      BY <2>1 DEF sema!Next, sema!Signaller
  <1>3. CASE Dequeue
    BY <1>3 DEF Dequeue, sema!Next
  <1>4. CASE Wait
    BY <1>4 DEF Wait, sema!Next
  <1> QED
    BY <1>1, <1>2, <1>3, <1>4 DEF Next, ProducerStep, ConsumerStep

\* The two threads call the semaphore one signal and one wait at a time, in the
\* order its specification allows, whatever the queue does in between.
THEOREM UsesSemaphore == Spec => sema!Spec
  <1>1. Init => sema!Init
    BY DEF Init
  <1>2. [Next]_vars => [sema!Next]_(sema!vars)
    BY SemaphoreSteps DEF semaVars, sema!vars
  <1> QED
    BY <1>1, <1>2, PTL DEF Spec, sema!Spec

\* The two instances of the semaphore are the same.
LEMMA SameSemaphore ==
  /\ sema!Init => semaProofs!Init
  /\ sema!Inv <=> semaProofs!Inv
  /\ [sema!Next]_(sema!vars) => [semaProofs!Next]_(semaProofs!vars)
  <1>1. sema!Init => semaProofs!Init
    BY DEF sema!Init, semaProofs!Init
  <1>2. sema!Inv <=> semaProofs!Inv
    BY DEF sema!Inv, semaProofs!Inv, sema!TypeOK, semaProofs!TypeOK, sema!CountIsAvailable,
       semaProofs!CountIsAvailable, sema!TokenInv, semaProofs!TokenInv, sema!Available,
       semaProofs!Available, sema!Waiting, semaProofs!Waiting, sema!Token, semaProofs!Token
  <1>3. [sema!Next]_(sema!vars) => [semaProofs!Next]_(semaProofs!vars)
    BY DEF sema!Next, semaProofs!Next, sema!Signaller, semaProofs!Signaller, sema!Signal,
       semaProofs!Signal, sema!AfterRaise, semaProofs!AfterRaise, sema!Post,
       semaProofs!Post, sema!Call, semaProofs!Call, sema!TryLoad, semaProofs!TryLoad,
       sema!Positive, semaProofs!Positive, sema!ReturnFalse, semaProofs!ReturnFalse,
       sema!ReturnTrue, semaProofs!ReturnTrue, sema!Take, semaProofs!Take, sema!Spin,
       semaProofs!Spin, sema!Spinning, semaProofs!Spinning, sema!Block, semaProofs!Block,
       sema!Wake, semaProofs!Wake, sema!TimeOut, semaProofs!TimeOut, sema!Restore,
       semaProofs!Restore, sema!AfterRestore, semaProofs!AfterRestore, sema!Retake,
       semaProofs!Retake, sema!TrySema, semaProofs!TrySema, sema!Refused,
       semaProofs!Refused, sema!WaitStep, semaProofs!WaitStep, sema!vars, semaProofs!vars
  <1> QED
    BY <1>1, <1>2, <1>3

LEMMA SemaphoreNext == sema!Inv /\ [Next]_vars => sema!Inv'
  <1>1. semaProofs!Inv' <=> sema!Inv'
    BY DEF sema!Inv, semaProofs!Inv, sema!TypeOK, semaProofs!TypeOK, sema!CountIsAvailable,
       semaProofs!CountIsAvailable, sema!TokenInv, semaProofs!TokenInv, sema!Available,
       semaProofs!Available, sema!Waiting, semaProofs!Waiting, sema!Token, semaProofs!Token
  <1>2. [Next]_vars => [sema!Next]_(sema!vars)
    BY SemaphoreSteps DEF semaVars, sema!vars
  <1> QED
    BY <1>1, <1>2, SameSemaphore, semaProofs!NextInv, MaxItemsAssumption, SpinLimitAssumption

LEMMA SemaphoreInvariance == Spec => []sema!Inv
  <1>1. Init => sema!Inv
    BY SameSemaphore, semaProofs!InitInv, MaxItemsAssumption, SpinLimitAssumption DEF Init
  <1> QED
    BY <1>1, SemaphoreNext, PTL DEF Spec

-------------------------------------------------------------------------------
(***************************************************************************)
(* A wait that gives up.                                                    *)
(***************************************************************************)

\* While the consumer waits, what was there when it began still is.
OwedInv == consumer = "wait" => owed \in Nat /\ owed <= signalled - granted

\* A step of a wait grants a token and returns, or grants none; and it returns
\* without one only if there is none.
LEMMA WaitGrants ==
  ASSUME sema!Inv, sema!WaitStep \/ sema!TimeOut
  PROVE  /\ signalled' = signalled
         /\ granted' = granted \/ (granted' = granted + 1 /\ wpc' = "idle")
         /\ granted' = granted /\ wpc' = "idle" => signalled - granted <= 0
  <1> USE DEF sema!Inv, sema!TypeOK, sema!CountIsAvailable, sema!Available, sema!Waiting
  <1>1. CASE sema!TryLoad
    BY <1>1 DEF sema!TryLoad, sema!Positive, sema!ReturnFalse
  <1>2. CASE sema!Take \/ sema!Block \/ sema!Wake
    BY <1>2 DEF sema!Take, sema!Block, sema!Wake, sema!ReturnTrue
  <1>3. CASE sema!Spin
    BY <1>3 DEF sema!Spin
  <1>4. CASE sema!TimeOut \/ sema!Retake
    BY <1>4 DEF sema!TimeOut, sema!Retake
  <1>5. CASE sema!Restore
    BY <1>5 DEF sema!Restore, sema!AfterRestore, sema!ReturnFalse
  <1>6. CASE sema!TrySema
    BY <1>6 DEF sema!TrySema, sema!ReturnTrue, sema!Refused
  <1> QED
    BY <1>1, <1>2, <1>3, <1>4, <1>5, <1>6 DEF sema!WaitStep

LEMMA OwedStep ==
  ASSUME sema!Inv, OwedInv, [Next]_vars
  PROVE  /\ OwedInv'
         /\ consumer = "wait" /\ consumer' = "idle" => owed = 0
  <1>1. CASE Enqueue \/ EnqueueInner \/ UNCHANGED vars
    BY <1>1 DEF Enqueue, EnqueueInner, vars, semaVars, callVars, OwedInv
  <1>2. CASE Signal \/ Post
    <2>1. /\ UNCHANGED <<consumer, owed>> /\ granted' = granted
          /\ signalled' = signalled + 1 \/ signalled' = signalled
      BY <1>2 DEF Signal, Post, sema!Signal, sema!Post
    <2>2. signalled \in Nat /\ granted \in Nat
      BY DEF sema!Inv, sema!TypeOK
    <2> QED
      BY <2>1, <2>2 DEF OwedInv
  <1>3. CASE Dequeue
    <2>1. /\ consumer = "idle" /\ owed' = signalled - granted
          /\ wpc = "idle" /\ signalled' = signalled /\ granted' = granted
      BY <1>3 DEF Dequeue, sema!Call
    <2>2. signalled \in Nat /\ granted \in Nat /\ signalled - granted >= 0
      BY <2>1 DEF sema!Inv, sema!TypeOK, sema!CountIsAvailable, sema!Available, sema!Waiting,
         sema!TokenInv
    <2> QED
      BY <2>1, <2>2 DEF OwedInv
  <1>4. CASE Wait
    <2>1. /\ consumer = "wait" /\ (sema!WaitStep \/ sema!TimeOut)
          /\ consumer' = IF wpc' = "idle" THEN AfterWait(granted' > granted) ELSE "wait"
          /\ owed' = IF consumer' = "wait" THEN owed ELSE 0
      BY <1>4 DEF Wait
    <2>2. /\ signalled' = signalled
          /\ granted' = granted \/ (granted' = granted + 1 /\ wpc' = "idle")
          /\ granted' = granted /\ wpc' = "idle" => signalled - granted <= 0
      BY <2>1, WaitGrants
    <2>3. signalled \in Nat /\ granted \in Nat /\ owed \in Nat /\ owed <= signalled - granted
      BY <2>1 DEF sema!Inv, sema!TypeOK, OwedInv
    <2>4. CASE wpc' # "idle"
      BY <2>1, <2>2, <2>3, <2>4 DEF OwedInv
    <2>5. CASE wpc' = "idle" /\ granted' = granted + 1
      <3>1. granted' > granted
        BY <2>3, <2>5
      <3> QED
        BY <2>1, <2>5, <3>1 DEF OwedInv, AfterWait
    <2>6. CASE wpc' = "idle" /\ granted' = granted
      <3>1. owed = 0 /\ ~ (granted' > granted)
        BY <2>2, <2>3, <2>6
      <3> QED
        BY <2>1, <2>6, <3>1 DEF OwedInv, AfterWait
    <2> QED
      BY <2>2, <2>4, <2>5, <2>6
  <1>5. CASE DequeueInner \/ Peek \/ ConsumerInner
    BY <1>5 DEF DequeueInner, Peek, ConsumerInner, OwedInv
  <1> QED
    BY <1>1, <1>2, <1>3, <1>4, <1>5 DEF Next, ProducerStep, ConsumerStep

\* A dequeue or pop that comes back without an element was called when every
\* element that had been enqueued was already taken, also when it timed out while
\* the producer was signalling.
THEOREM EmptyHanded == Spec => EmptyHandedIsHonest
  <1>1. Init => OwedInv
    BY DEF Init, OwedInv
  <1>2. sema!Inv /\ OwedInv /\ [Next]_vars => OwedInv'
    BY OwedStep
  <1>3. sema!Inv /\ OwedInv /\ [Next]_vars
          => [consumer = "wait" /\ consumer' = "idle" => owed = 0]_vars
    BY OwedStep
  <1> QED
    BY <1>1, <1>2, <1>3, SemaphoreInvariance, PTL DEF Spec, EmptyHandedIsHonest

-------------------------------------------------------------------------------
(***************************************************************************)
(* The inner queue, as the queue uses it and as it is proved about.          *)
(***************************************************************************)
\* What is assumed of the constants is what the inner queue assumes of them.
LEMMA QueueAssumptions ==
  /\ MaxSize \in Nat \ {0}
  /\ MaxBlockSize \in Nat /\ \E k \in 1 .. MaxBlockSize : MaxBlockSize = 2 ^ k
  /\ Relaxed \in BOOLEAN /\ MaxItems \in Nat
  /\ MaxBlocks \in Nat /\ MaxBlocks >= Q!InitialBlocks
  /\ Q!P = "producer" /\ Q!C = "consumer" /\ inner!P = "producer" /\ inner!C = "consumer"
  <1>1. inner!InitialBlocks = Q!InitialBlocks
    BY DEF inner!InitialBlocks, Q!InitialBlocks, inner!SeveralBlocks, Q!SeveralBlocks,
       inner!InitialBlockCount, Q!InitialBlockCount, inner!CeilToPow2, Q!CeilToPow2
  <1> QED
    BY <1>1, MaxSizeAssumption, MaxBlockSizeAssumption, RelaxedAssumption, MaxItemsAssumption,
       MaxBlocksAssumption DEF Q!P, Q!C, inner!P, inner!C

\* What a walk of the ring finds.
LEMMA SameLength == \A t : inner!Length(t) = Q!Length(t)
  BY DEF inner!Length, Q!Length, inner!Positions, Q!Positions, inner!HopsToTail, Q!HopsToTail,
     inner!Hop, Q!Hop, inner!Live, Q!Live, inner!Known, Q!Known, inner!Newest, Q!Newest,
     inner!NextOf, Q!NextOf, inner!TailBlock, Q!TailBlock, inner!None, Q!None,
     inner!FrontBlock, Q!FrontBlock, inner!Owner, Q!Owner, inner!Oldest, Q!Oldest,
     inner!P, Q!P, inner!C, Q!C, inner!TailOf, Q!TailOf, inner!FrontOf, Q!FrontOf

LEMMA SameContent == inner!Content = Q!Content
  BY DEF inner!Content, Q!Content, inner!Positions, Q!Positions, inner!HopsToTail,
     Q!HopsToTail, inner!Hop, Q!Hop, inner!Live, Q!Live, inner!Newest, Q!Newest,
     inner!NextOf, Q!NextOf, inner!TailBlock, Q!TailBlock, inner!None, Q!None,
     inner!FrontBlock, Q!FrontBlock, inner!TailOf, Q!TailOf, inner!FrontOf, Q!FrontOf,
     inner!Empty, Q!Empty

\* The steps of the two threads.
LEMMA SameProducer ==
  /\ inner!Enqueue_Start => Q!Enqueue_Start
  /\ inner!ProducerStep => Q!ProducerStep
  <1> USE DEF inner!AcquireFence, Q!AcquireFence, inner!Begin, Q!Begin,
              inner!BlockAhead, Q!BlockAhead, inner!Blocks, Q!Blocks, inner!C,
              Q!C, inner!Construct, Q!Construct, inner!Empty, Q!Empty,
              inner!Fence, Q!Fence, inner!FreshSlots, Q!FreshSlots,
              inner!FrontBlock, Q!FrontBlock, inner!FrontOf, Q!FrontOf,
              inner!Full, Q!Full, inner!GoOn, Q!GoOn, inner!GoOnWith, Q!GoOnWith,
              inner!Goto, Q!Goto, inner!Larger, Q!Larger, inner!Load, Q!Load,
              inner!Locations, Q!Locations, inner!MustReload, Q!MustReload,
              inner!NewBlockSize, Q!NewBlockSize, inner!Newest, Q!Newest,
              inner!NextOf, Q!NextOf, inner!NoCall, Q!NoCall, inner!None, Q!None,
              inner!Observe, Q!Observe, inner!Owner, Q!Owner, inner!P, Q!P,
              inner!Put, Q!Put, inner!ReleaseFence, Q!ReleaseFence, inner!Return,
              Q!Return, inner!Since, Q!Since, inner!Store, Q!Store,
              inner!StoreReleased, Q!StoreReleased, inner!Succ, Q!Succ,
              inner!TailBlock, Q!TailBlock, inner!TailOf, Q!TailOf,
              inner!blockVars, Q!blockVars, inner!cVars, Q!cVars, inner!memVars,
              Q!memVars, inner!pVars, Q!pVars
  <1>1. inner!Enqueue_Write => Q!Enqueue_Write
    BY DEF inner!Enqueue_Write, Q!Enqueue_Write
  <1>2. inner!Enqueue_Publish => Q!Enqueue_Publish
    BY DEF inner!Enqueue_Publish, Q!Enqueue_Publish
  <1>3. inner!Enqueue_Full => Q!Enqueue_Full
    BY DEF inner!Enqueue_Full, Q!Enqueue_Full
  <1>4. inner!Enqueue_Advance => Q!Enqueue_Advance
    BY DEF inner!Enqueue_Advance, Q!Enqueue_Advance
  <1>5. inner!Enqueue_WriteNext => Q!Enqueue_WriteNext
    BY DEF inner!Enqueue_WriteNext, Q!Enqueue_WriteNext
  <1>6. inner!Enqueue_PublishNext => Q!Enqueue_PublishNext
    BY DEF inner!Enqueue_PublishNext, Q!Enqueue_PublishNext
  <1>7. inner!Enqueue_Alloc => Q!Enqueue_Alloc
    BY DEF inner!Enqueue_Alloc, Q!Enqueue_Alloc
  <1>8. inner!Enqueue_NoMemory => Q!Enqueue_NoMemory
    BY DEF inner!Enqueue_NoMemory, Q!Enqueue_NoMemory
  <1>9. inner!Enqueue_Link => Q!Enqueue_Link
    BY DEF inner!Enqueue_Link, Q!Enqueue_Link
  <1>10. inner!Enqueue_PublishBlock => Q!Enqueue_PublishBlock
    BY DEF inner!Enqueue_PublishBlock, Q!Enqueue_PublishBlock
  <1>11. inner!Enqueue_Start => Q!Enqueue_Start
    BY SameLength DEF inner!Enqueue_Start, Q!Enqueue_Start
  <1> QED
    BY <1>1, <1>2, <1>3, <1>4, <1>5, <1>6, <1>7, <1>8, <1>9, <1>10, <1>11 DEF inner!ProducerStep, Q!ProducerStep

LEMMA SameConsumer ==
  /\ inner!Dequeue_Start => Q!Dequeue_Start
  /\ inner!ConsumerStep => Q!ConsumerStep
  <1> USE DEF inner!AcquireFence, Q!AcquireFence, inner!AfterRecheck,
              Q!AfterRecheck, inner!AtTail, Q!AtTail, inner!Begin, Q!Begin,
              inner!Blocks, Q!Blocks, inner!C, Q!C, inner!Empty, Q!Empty,
              inner!Fence, Q!Fence, inner!FrontBlock, Q!FrontBlock, inner!FrontOf,
              Q!FrontOf, inner!GoOn, Q!GoOn, inner!GoOnWith, Q!GoOnWith,
              inner!Goto, Q!Goto, inner!Larger, Q!Larger, inner!Load, Q!Load,
              inner!Locations, Q!Locations, inner!MustReload, Q!MustReload,
              inner!Newest, Q!Newest, inner!NextOf, Q!NextOf, inner!NoCall,
              Q!NoCall, inner!None, Q!None, inner!Observe, Q!Observe, inner!Owner,
              Q!Owner, inner!P, Q!P, inner!Put, Q!Put, inner!ReleaseFence,
              Q!ReleaseFence, inner!Return, Q!Return, inner!Since, Q!Since,
              inner!StoreReleased, Q!StoreReleased, inner!Succ, Q!Succ,
              inner!TailBlock, Q!TailBlock, inner!TailOf, Q!TailOf,
              inner!blockVars, Q!blockVars, inner!cVars, Q!cVars, inner!memVars,
              Q!memVars, inner!pVars, Q!pVars
  <1>1. inner!Dequeue_Take => Q!Dequeue_Take
    BY DEF inner!Dequeue_Take, Q!Dequeue_Take
  <1>2. inner!Dequeue_Release => Q!Dequeue_Release
    BY DEF inner!Dequeue_Release, Q!Dequeue_Release
  <1>3. inner!Dequeue_CheckTail => Q!Dequeue_CheckTail
    BY DEF inner!Dequeue_CheckTail, Q!Dequeue_CheckTail
  <1>4. inner!Dequeue_Recheck => Q!Dequeue_Recheck
    BY DEF inner!Dequeue_Recheck, Q!Dequeue_Recheck
  <1>5. inner!Dequeue_ReadNext => Q!Dequeue_ReadNext
    BY DEF inner!Dequeue_ReadNext, Q!Dequeue_ReadNext
  <1>6. inner!Dequeue_CheckNext => Q!Dequeue_CheckNext
    BY DEF inner!Dequeue_CheckNext, Q!Dequeue_CheckNext
  <1>7. inner!Dequeue_MoveFront => Q!Dequeue_MoveFront
    BY DEF inner!Dequeue_MoveFront, Q!Dequeue_MoveFront
  <1>8. inner!Dequeue_Start => Q!Dequeue_Start
    BY SameLength DEF inner!Dequeue_Start, Q!Dequeue_Start
  <1> QED
    BY <1>1, <1>2, <1>3, <1>4, <1>5, <1>6, <1>7, <1>8 DEF inner!ConsumerStep, Q!ConsumerStep

LEMMA SameInit == inner!Init => Q!Init
  <1>1. inner!InitialBlocks = Q!InitialBlocks /\ inner!InitialSize = Q!InitialSize
    BY DEF inner!InitialBlocks, Q!InitialBlocks, inner!SeveralBlocks, Q!SeveralBlocks,
       inner!InitialBlockCount, Q!InitialBlockCount, inner!CeilToPow2, Q!CeilToPow2,
       inner!InitialSize, Q!InitialSize
  <1>2. \A loc : inner!InitialValue(loc) = Q!InitialValue(loc)
    BY <1>1 DEF inner!InitialValue, Q!InitialValue
  <1>3. inner!Locations = Q!Locations
    BY DEF inner!Locations, Q!Locations, inner!FrontBlock, Q!FrontBlock, inner!TailBlock,
       Q!TailBlock, inner!None, Q!None, inner!Blocks, Q!Blocks
  <1> QED
    BY <1>1, <1>2, <1>3 DEF inner!Init, Q!Init, inner!P, Q!P, inner!C, Q!C, inner!Blocks,
       Q!Blocks, inner!FreshSlots, Q!FreshSlots, inner!Empty, Q!Empty, inner!NoCall,
       Q!NoCall, inner!None, Q!None

\* The fences that come with signalling and with taking a token.
LEMMA SameFences ==
  /\ inner!ReleaseFence("producer") <=> Q!ReleaseFence(Q!P)
  /\ \A e : inner!AcquireFence("consumer", e) = Q!AcquireFence(Q!C, e)
  /\ \A e : inner!Observe("consumer", acq["consumer"], e, mem)
               <=> Q!Observe(Q!C, acq[Q!C], e, mem)
  BY DEF inner!ReleaseFence, Q!ReleaseFence, inner!AcquireFence, Q!AcquireFence,
     inner!Larger, Q!Larger, inner!Observe, Q!Observe, inner!Since, Q!Since,
     inner!Locations, Q!Locations, inner!Owner, Q!Owner, inner!FrontBlock, Q!FrontBlock,
     inner!TailBlock, Q!TailBlock, inner!None, Q!None, inner!Blocks, Q!Blocks,
     inner!P, Q!P, inner!C, Q!C

-------------------------------------------------------------------------------
(***************************************************************************)
(* What the two parts are to each other.                                    *)
(***************************************************************************)

\* The consumer has taken a token whose element it has still to take.
Owing == \/ consumer = "dequeue"
         \/ consumer = "inner" /\ request # "peek" /\ pc["consumer"] # "release"

\* Every element is signalled once, and taken once for a token.
CountInv ==
    /\ sent = signalled + (IF producer = "signal" THEN 1 ELSE 0)
    /\ Len(received) = granted - (IF Owing THEN 1 ELSE 0)

ControlInv ==
    /\ producer \in {"idle", "inner", "signal", "post"}
    /\ consumer \in {"idle", "wait", "dequeue", "inner"}
    /\ producer = "inner" <=> pc["producer"] # "idle"
    /\ consumer = "inner" <=> pc["consumer"] # "idle"
    /\ consumer = "inner" => (request = "peek" <=> call["consumer"].op = "peek")
    /\ spc = "post" <=> producer = "post"
    /\ wpc # "idle" <=> consumer = "wait"
    /\ consumer \in {"wait", "dequeue"} => request # "peek"

\* The counter, and the kernel semaphore when it can be taken, release what the
\* producer did up to the element that the next token is for; and a consumer that
\* has a token finds its element.
ShowInv ==
    /\ raised \in 0 .. epoch["producer"] /\ posted \in 0 .. epoch["producer"]
    /\ Q!Covers(signalled, raised)
    /\ m_sema > 0 => Q!Covers(granted + 1, posted)
    /\ consumer = "dequeue" => Q!Finds
    /\ consumer = "inner" /\ request # "peek" /\ pc["consumer"] = "checkTail" =>
            Q!FB \notin Q!Readable(Q!TailBlock)

Inv == Q!Inv /\ Q!OrderInv /\ sema!Inv /\ CountInv /\ ControlInv /\ ShowInv

LEMMA Facts ==
  ASSUME Inv
  PROVE  /\ sent \in Nat /\ signalled \in Nat /\ granted \in Nat /\ m_sema \in Nat
         /\ signalled <= sent /\ Len(received) \in Nat /\ received \in Seq(Nat)
         /\ Len(received) <= sent /\ epoch["producer"] \in Nat
         /\ raised \in Nat /\ posted \in Nat
  <1>1. Len(received) \in Nat /\ Len(received) <= sent
    BY Q!ContentWaits, QueueAssumptions DEF Inv
  <1>2. received \in Seq(Nat)
    BY DEF Inv, Q!OrderInv, Q!Given
  <1>3. signalled \in Nat /\ granted \in Nat /\ m_sema \in Nat
    BY DEF Inv, sema!Inv, sema!TypeOK
  <1>4. signalled <= sent /\ sent \in Nat
    <2>1. sent = signalled \/ sent = signalled + 1
      BY <1>3 DEF Inv, CountInv
    <2> QED
      BY <1>3, <2>1
  <1>5. epoch["producer"] \in Nat
    BY QueueAssumptions, Q!Locs DEF Inv, Q!Inv, Q!MemInv
  <1> QED
    BY <1>1, <1>2, <1>3, <1>4, <1>5 DEF Inv, ShowInv

\* A token in the kernel semaphore, or on its way there, is a signal that no wait
\* has returned for.
LEMMA TokenIsSignalled ==
  ASSUME sema!Inv, m_sema > 0 \/ spc = "post"
  PROVE  granted + 1 <= signalled
  <1>1. sema!Token >= 1
    BY DEF sema!Inv, sema!TypeOK, sema!Token
  <1>2. signalled \in Nat /\ granted \in Nat /\ m_count \in Int
    BY DEF sema!Inv, sema!TypeOK
  <1>3. \/ sema!Waiting /\ m_count >= 0
        \/ ~ sema!Waiting /\ m_count >= 1
    BY <1>1, <1>2 DEF sema!Inv, sema!TokenInv
  <1> QED
    BY <1>2, <1>3 DEF sema!Inv, sema!CountIsAvailable, sema!Available

\* Steps that leave the semaphore alone move the queue on by a step of its own.
LEMMA QueueStep ==
  ASSUME Inv, [Q!Next]_(Q!vars)
  PROVE  /\ Q!Inv' /\ Q!OrderInv'
         /\ epoch'["producer"] \in Nat /\ epoch'["producer"] >= epoch["producer"]
         /\ \A n \in Nat : \A e : n <= sent /\ Q!Covers(n, e) => Q!Covers(n, e)'
  <1>1. Q!Inv /\ Q!OrderInv
    BY DEF Inv
  <1>2. Q!Inv'
    BY <1>1, Q!NextInv, QueueAssumptions
  <1>3. Q!OrderInv'
    BY <1>1, Q!NextOrder, QueueAssumptions
  <1>4. epoch'[Q!P] \in Nat /\ epoch'[Q!P] >= epoch[Q!P]
    BY <1>1, Q!EpochGrows, QueueAssumptions
  <1>5. ASSUME NEW n \in Nat, NEW e, n <= sent, Q!Covers(n, e)
        PROVE  Q!Covers(n, e)'
    BY <1>1, <1>5, Q!CoversStep, QueueAssumptions
  <1> QED
    BY <1>2, <1>3, <1>4, <1>5, QueueAssumptions

\* What m_count and the kernel semaphore show, they go on showing.
LEMMA StillShown ==
  ASSUME Inv, UNCHANGED <<semaVars, raised, posted>>,
         epoch'["producer"] \in Nat, epoch'["producer"] >= epoch["producer"],
         \A n \in Nat : \A e : n <= sent /\ Q!Covers(n, e) => Q!Covers(n, e)'
  PROVE  /\ raised' \in 0 .. epoch'["producer"] /\ posted' \in 0 .. epoch'["producer"]
         /\ Q!Covers(signalled, raised)'
         /\ (m_sema > 0 => Q!Covers(granted + 1, posted))'
  <1>1. PICK n, m, r, p : n = signalled /\ m = granted + 1 /\ r = raised /\ p = posted
    OBVIOUS
  <1>2. /\ n' = n /\ signalled' = n /\ granted' + 1 = m /\ raised' = r /\ posted' = p
        /\ m_sema' = m_sema
    BY <1>1 DEF semaVars
  <1>3. n \in Nat /\ m \in Nat /\ n <= sent /\ (m_sema > 0 => m <= sent)
    <2>1. m_sema > 0 => m <= n
      BY <1>1, TokenIsSignalled DEF Inv
    <2> QED
      BY <1>1, <2>1, Facts
  <1>4. Q!Covers(n, r) /\ (m_sema > 0 => Q!Covers(m, p))
    BY <1>1 DEF Inv, ShowInv
  <1>5. Q!Covers(n, r)' /\ (m_sema > 0 => Q!Covers(m, p)')
    BY <1>3, <1>4
  <1>6. Q!Covers(signalled, raised)' /\ (m_sema > 0 => Q!Covers(granted + 1, posted))'
    BY <1>2, <1>5 DEF Q!Covers
  <1>7. raised' \in 0 .. epoch'["producer"] /\ posted' \in 0 .. epoch'["producer"]
    BY <1>2, Facts, <1>1 DEF Inv, ShowInv
  <1> QED
    BY <1>6, <1>7

-------------------------------------------------------------------------------
(***************************************************************************)
(* The producer's steps.                                                    *)
(***************************************************************************)
LEMMA EnqueueInv ==
  ASSUME Inv, Enqueue \/ EnqueueInner
  PROVE  Inv'
  <1>1. /\ UNCHANGED <<semaVars, consumer, request, owed, raised, posted>>
        /\ Q!Enqueue_Start \/ Q!ProducerStep
    BY SameProducer DEF Enqueue, EnqueueInner
  <1>2. /\ Q!Inv /\ Q!OrderInv /\ sema!Inv /\ CountInv /\ ControlInv /\ ShowInv
        /\ [Next]_vars /\ [Q!Next]_(Q!vars)
    BY <1>1 DEF Inv, Next, ProducerStep, Q!Next
  <1>3. /\ Q!Inv' /\ Q!OrderInv' /\ sema!Inv'
        /\ raised' \in 0 .. epoch'["producer"] /\ posted' \in 0 .. epoch'["producer"]
        /\ Q!Covers(signalled, raised)'
        /\ (m_sema > 0 => Q!Covers(granted + 1, posted))'
    <2>1. UNCHANGED <<semaVars, raised, posted>>
      BY <1>1
    <2> QED
      BY <1>2, <2>1, QueueStep, StillShown, SemaphoreNext
  <1>4. /\ pc'[Q!C] = pc[Q!C] /\ call'[Q!C] = call[Q!C] /\ received' = received
        /\ pc'[Q!P] # "idle" => sent' = sent
        /\ sent' = sent \/ sent' = sent + 1
        /\ Q!Enqueue_Start => pc[Q!P] = "idle" /\ pc'[Q!P] # "idle"
        /\ Q!ProducerStep => pc[Q!P] # "idle"
    BY <1>1, <1>2, Q!ProducerGoesOn, QueueAssumptions
  <1>5. /\ consumer' = consumer /\ request' = request /\ signalled' = signalled
        /\ granted' = granted /\ spc' = spc /\ wpc' = wpc
    BY <1>1 DEF semaVars
  <1>6. /\ producer \in {"idle", "inner"}
        /\ \/ producer' = "inner" /\ pc'["producer"] # "idle" /\ sent' = sent
           \/ producer' = "signal" /\ pc'["producer"] = "idle" /\ sent' = sent + 1
           \/ producer' = "idle" /\ pc'["producer"] = "idle" /\ sent' = sent
    <2>1. sent \in Nat /\ Q!P = "producer"
      BY Facts, QueueAssumptions
    <2>2. CASE Enqueue
      BY <1>4, <2>1, <2>2, SameProducer DEF Enqueue
    <2>3. CASE EnqueueInner
      <3>1. producer' = IF pc'["producer"] = "idle" THEN AfterInner(sent' > sent) ELSE "inner"
        BY <2>3 DEF EnqueueInner
      <3>2. CASE sent' = sent
        BY <1>4, <2>1, <2>3, <3>1, <3>2 DEF EnqueueInner, AfterInner
      <3>3. CASE sent' = sent + 1
        <4>1. sent' > sent /\ sent' # sent
          BY <2>1, <3>3
        <4> QED
          BY <1>4, <2>1, <2>3, <3>1, <3>3, <4>1 DEF EnqueueInner, AfterInner
      <3> QED
        BY <1>4, <3>2, <3>3
    <2> QED
      BY <2>2, <2>3
  <1>7. CountInv'
    <2>1. Owing' <=> Owing
      BY <1>4, <1>5, QueueAssumptions DEF Owing
    <2>2. sent = signalled
      BY <1>2, <1>6, Facts DEF CountInv
    <2>3. sent' = signalled' + (IF producer' = "signal" THEN 1 ELSE 0)
      BY <1>5, <1>6, <2>2, Facts
    <2>4. Len(received') = granted' - (IF Owing' THEN 1 ELSE 0)
      BY <1>2, <1>4, <1>5, <2>1 DEF CountInv
    <2> QED
      BY <2>3, <2>4 DEF CountInv
  <1>8. ControlInv'
    <2>1. /\ pc'["consumer"] = pc["consumer"] /\ call'["consumer"] = call["consumer"]
          /\ spc # "post" /\ producer' # "post"
      BY <1>2, <1>4, <1>6, QueueAssumptions DEF ControlInv
    <2> QED
      BY <1>2, <1>5, <1>6, <2>1 DEF ControlInv
  <1>9. ShowInv'
    <2>1. /\ Q!FB' = Q!FB
          /\ Q!FB \notin Q!Readable(Q!TailBlock) => (Q!FB \notin Q!Readable(Q!TailBlock))'
          /\ Q!Finds => Q!Finds'
      BY <1>1, <1>2, Q!ProducerFinds, QueueAssumptions
    <2>2. pc'["consumer"] = pc["consumer"]
      BY <1>4, QueueAssumptions
    <2>3. /\ (consumer = "dequeue" => Q!Finds)'
          /\ (consumer = "inner" /\ request # "peek" /\ pc["consumer"] = "checkTail" =>
                Q!FB \notin Q!Readable(Q!TailBlock))'
      BY <1>2, <1>5, <2>1, <2>2 DEF ShowInv
    <2> QED
      BY <1>3, <2>3 DEF ShowInv
  <1> QED
    BY <1>3, <1>7, <1>8, <1>9 DEF Inv

\* fetch_add_release shows all that the producer has published, the element that
\* it signals for included.
LEMMA SignalInv ==
  ASSUME Inv, Signal
  PROVE  Inv'
  <1>1. /\ Q!Inv /\ Q!OrderInv /\ sema!Inv /\ CountInv /\ ControlInv /\ ShowInv
        /\ [Next]_vars
    BY DEF Inv, Next, ProducerStep
  <1>2. /\ producer = "signal" /\ spc = "idle" /\ signalled' = signalled + 1
        /\ m_sema' = m_sema /\ wpc' = wpc /\ granted' = granted /\ posted' = posted
        /\ consumer' = consumer /\ request' = request /\ raised' = epoch'["producer"]
        /\ spc' = sema!AfterRaise(m_count)
        /\ producer' = IF spc' = "post" THEN "post" ELSE "idle"
        /\ Q!ReleaseFence(Q!P) /\ UNCHANGED <<mem, acq, seen>> /\ UNCHANGED contents
    BY SameFences DEF Signal, sema!Signal, Release
  <1>3. /\ pc' = pc /\ call' = call /\ sent' = sent /\ received' = received
        /\ UNCHANGED Q!Rest
    BY <1>2 DEF contents, Q!Rest, Q!pVars, Q!cVars, Q!blockVars
  <1>4. /\ Q!Inv' /\ Q!OrderInv' /\ epoch'[Q!P] \in Nat /\ epoch'[Q!P] >= epoch[Q!P]
        /\ Relaxed => epoch[Q!P] < epoch'[Q!P]
        /\ \A n, e : Q!Covers(n, e)' <=> Q!Covers(n, e)
        /\ Q!Finds' <=> Q!Finds
    BY <1>1, <1>2, <1>3, Q!ReleaseStep, QueueAssumptions
  <1>5. sema!Inv'
    BY <1>1, SemaphoreNext
  <1>6. sent = signalled + 1
    BY <1>1, <1>2 DEF CountInv
  <1>7. CountInv'
    <2>1. Owing' <=> Owing
      BY <1>2, <1>3 DEF Owing
    <2>2. producer' # "signal"
      BY <1>2
    <2>3. sent' = signalled' + (IF producer' = "signal" THEN 1 ELSE 0)
      BY <1>2, <1>3, <1>6, <2>2, Facts
    <2>4. Len(received') = granted' - (IF Owing' THEN 1 ELSE 0)
      BY <1>1, <1>2, <1>3, <2>1 DEF CountInv
    <2> QED
      BY <2>3, <2>4 DEF CountInv
  <1>8. ControlInv'
    <2>1. spc' \in {"post", "idle"}
      BY <1>2 DEF sema!AfterRaise
    <2> QED
      BY <1>1, <1>2, <1>3, <2>1 DEF ControlInv
  <1>9. Q!Covers(signalled, raised)'
    <2>1. PICK n, e : n = sent /\ e = epoch'[Q!P]
      OBVIOUS
    <2>2. pc[Q!P] = "idle"
      BY <1>1, <1>2, QueueAssumptions DEF ControlInv
    <2>3. e \in Nat /\ (Relaxed => epoch[Q!P] < e)
      BY <1>4, <2>1
    <2>4. Q!Covers(sent, e)
      BY <1>1, <2>2, <2>3, Q!FenceCovers, QueueAssumptions
    <2>5. Q!Covers(n, e)'
      BY <1>4, <2>1, <2>4
    <2>6. signalled' = n /\ raised' = e
      BY <1>2, <1>6, <2>1, QueueAssumptions
    <2> QED
      BY <2>5, <2>6 DEF Q!Covers
  <1>10. (m_sema > 0 => Q!Covers(granted + 1, posted))'
    <2>1. PICK m, p : m = granted + 1 /\ p = posted
      OBVIOUS
    <2>2. m_sema > 0 => Q!Covers(m, p)
      BY <1>1, <2>1 DEF ShowInv
    <2>3. m_sema > 0 => Q!Covers(m, p)'
      BY <1>4, <2>2
    <2>4. granted' + 1 = m /\ posted' = p /\ m_sema' = m_sema
      BY <1>2, <2>1
    <2> QED
      BY <2>3, <2>4 DEF Q!Covers
  <1>11. raised' \in 0 .. epoch'["producer"] /\ posted' \in 0 .. epoch'["producer"]
    <2>1. epoch'["producer"] \in Nat /\ epoch'["producer"] >= epoch["producer"]
      BY <1>4, QueueAssumptions
    <2>2. posted \in 0 .. epoch["producer"]
      BY <1>1 DEF ShowInv
    <2> QED
      BY <1>2, <2>1, <2>2, Facts
  <1>12. ShowInv'
    <2>1. (consumer = "dequeue" => Q!Finds)'
      BY <1>1, <1>2, <1>4 DEF ShowInv
    <2>2. (Q!FB \notin Q!Readable(Q!TailBlock))' <=> Q!FB \notin Q!Readable(Q!TailBlock)
      <3>1. mem' = mem
        BY <1>2
      <3> QED
        BY <3>1 DEF Q!FB, Q!Readable, Q!Newest
    <2>3. (consumer = "inner" /\ request # "peek" /\ pc["consumer"] = "checkTail" =>
                Q!FB \notin Q!Readable(Q!TailBlock))'
      BY <1>1, <1>2, <1>3, <2>2 DEF ShowInv
    <2> QED
      BY <1>9, <1>10, <1>11, <2>1, <2>3 DEF ShowInv
  <1> QED
    BY <1>4, <1>5, <1>7, <1>8, <1>12 DEF Inv

\* The kernel semaphore hands on what m_count showed when it was raised.
LEMMA PostInv ==
  ASSUME Inv, Post
  PROVE  Inv'
  <1>1. /\ Q!Inv /\ Q!OrderInv /\ sema!Inv /\ CountInv /\ ControlInv /\ ShowInv
        /\ [Next]_vars
    BY DEF Inv, Next, ProducerStep
  <1>2. /\ producer = "post" /\ producer' = "idle" /\ spc = "post" /\ spc' = "idle"
        /\ posted' = raised /\ raised' = raised /\ consumer' = consumer /\ request' = request
        /\ signalled' = signalled /\ granted' = granted /\ wpc' = wpc
        /\ UNCHANGED memVars /\ UNCHANGED contents
    BY DEF Post, sema!Post
  <1>3. /\ epoch' = epoch /\ mem' = mem /\ pc' = pc /\ call' = call /\ sent' = sent
        /\ received' = received /\ [Q!Next]_(Q!vars)
    BY <1>2 DEF memVars, contents, Q!vars, Q!memVars, Q!pVars, Q!cVars, Q!blockVars
  <1>4. /\ Q!Inv' /\ Q!OrderInv' /\ sema!Inv'
        /\ \A n \in Nat : \A e : n <= sent /\ Q!Covers(n, e) => Q!Covers(n, e)'
    BY <1>1, <1>3, QueueStep, SemaphoreNext
  <1>5. CountInv' /\ ControlInv'
    <2>1. Owing' <=> Owing
      BY <1>2, <1>3 DEF Owing
    <2> QED
      BY <1>1, <1>2, <1>3, <2>1 DEF CountInv, ControlInv
  <1>6. Q!Covers(signalled, raised)' /\ Q!Covers(granted + 1, posted)'
    <2>1. PICK n, m, r : n = signalled /\ m = granted + 1 /\ r = raised
      OBVIOUS
    <2>2. n \in Nat /\ m \in Nat /\ n <= sent /\ m <= n
      BY <1>1, <1>2, <2>1, Facts, TokenIsSignalled
    <2>3. Q!Covers(n, r)
      BY <1>1, <2>1 DEF ShowInv
    <2>4. Q!Covers(m, r)
      BY <2>2, <2>3, Q!CoversLess, QueueAssumptions
    <2>5. Q!Covers(n, r)' /\ Q!Covers(m, r)'
      BY <1>4, <2>2, <2>3, <2>4, Facts
    <2>6. signalled' = n /\ raised' = r /\ granted' + 1 = m /\ posted' = r
      BY <1>2, <2>1
    <2> QED
      BY <2>5, <2>6 DEF Q!Covers
  <1>7. ShowInv'
    <2>1. (consumer = "dequeue" => Q!Finds)'
      BY <1>1, <1>2, <1>3 DEF ShowInv, Q!Finds, Q!FB, Q!FrontIx, Q!Readable, Q!Newest
    <2>2. (consumer = "inner" /\ request # "peek" /\ pc["consumer"] = "checkTail" =>
                Q!FB \notin Q!Readable(Q!TailBlock))'
      BY <1>1, <1>2, <1>3 DEF ShowInv, Q!FB, Q!Readable, Q!Newest
    <2> QED
      BY <1>1, <1>2, <1>3, <1>6, <2>1, <2>2 DEF ShowInv
  <1> QED
    BY <1>4, <1>5, <1>7 DEF Inv

-------------------------------------------------------------------------------
(***************************************************************************)
(* The consumer's steps.                                                    *)
(***************************************************************************)

\* A call begins, or nothing happens.
LEMMA DequeueInv ==
  ASSUME Inv, Dequeue \/ UNCHANGED vars
  PROVE  Inv'
  <1>1. /\ Q!Inv /\ Q!OrderInv /\ sema!Inv /\ CountInv /\ ControlInv /\ ShowInv
        /\ [Next]_vars
    BY DEF Inv, Next
  <1>2. /\ producer' = producer /\ UNCHANGED memVars /\ UNCHANGED contents
        /\ raised' = raised /\ posted' = posted /\ signalled' = signalled
        /\ granted' = granted /\ m_sema' = m_sema /\ spc' = spc
        /\ \/ /\ consumer = "idle" /\ consumer' = "wait" /\ wpc' # "idle"
              /\ request' # "peek"
           \/ consumer' = consumer /\ request' = request /\ wpc' = wpc
    BY DEF Dequeue, sema!Call, vars, callVars, semaVars
  <1>3. /\ epoch' = epoch /\ mem' = mem /\ pc' = pc /\ call' = call /\ sent' = sent
        /\ received' = received /\ [Q!Next]_(Q!vars)
    BY <1>2 DEF memVars, contents, Q!vars, Q!memVars, Q!pVars, Q!cVars, Q!blockVars
  <1>4. Q!Inv' /\ Q!OrderInv' /\ sema!Inv'
    BY <1>1, <1>3, QueueStep, SemaphoreNext
  <1>5. CountInv' /\ ControlInv'
    <2>1. Owing' <=> Owing
      BY <1>2, <1>3 DEF Owing
    <2>2. CountInv'
      BY <1>1, <1>2, <1>3, <2>1 DEF CountInv
    <2>3. ControlInv'
      BY <1>1, <1>2, <1>3 DEF ControlInv
    <2> QED
      BY <2>2, <2>3
  <1>6. Q!Covers(signalled, raised)' /\ (m_sema > 0 => Q!Covers(granted + 1, posted))'
    BY <1>1, <1>2, <1>3 DEF ShowInv, Q!Covers, Q!Reaches, contents
  <1>7. ShowInv'
    <2>1. (consumer = "dequeue" => Q!Finds)'
      BY <1>1, <1>2, <1>3 DEF ShowInv, Q!Finds, Q!FB, Q!FrontIx, Q!Readable, Q!Newest
    <2>2. (consumer = "inner" /\ request # "peek" /\ pc["consumer"] = "checkTail" =>
                Q!FB \notin Q!Readable(Q!TailBlock))'
      BY <1>1, <1>2, <1>3 DEF ShowInv, Q!FB, Q!Readable, Q!Newest
    <2> QED
      BY <1>1, <1>2, <1>3, <1>6, <2>1, <2>2 DEF ShowInv
  <1> QED
    BY <1>4, <1>5, <1>7 DEF Inv

\* The inner call of a dequeue begins with what the token showed; peek, which has
\* no token, may find nothing.
LEMMA InnerBeginsInv ==
  ASSUME Inv, DequeueInner \/ Peek
  PROVE  Inv'
  <1>1. /\ UNCHANGED <<semaVars, producer, raised, posted>> /\ Q!Dequeue_Start
        /\ consumer' = "inner"
        /\ \/ consumer = "dequeue" /\ request' = request /\ call'["consumer"].op # "peek"
           \/ consumer = "idle" /\ request' = "peek" /\ call'["consumer"].op = "peek"
    BY SameConsumer DEF DequeueInner, Peek
  <1>2. /\ Q!Inv /\ Q!OrderInv /\ sema!Inv /\ CountInv /\ ControlInv /\ ShowInv
        /\ [Next]_vars /\ [Q!Next]_(Q!vars)
    BY <1>1 DEF Inv, Next, ConsumerStep, Q!Next
  <1>3. /\ Q!Inv' /\ Q!OrderInv' /\ sema!Inv'
        /\ raised' \in 0 .. epoch'["producer"] /\ posted' \in 0 .. epoch'["producer"]
        /\ Q!Covers(signalled, raised)'
        /\ (m_sema > 0 => Q!Covers(granted + 1, posted))'
    <2>1. UNCHANGED <<semaVars, raised, posted>>
      BY <1>1
    <2> QED
      BY <1>2, <2>1, QueueStep, StillShown, SemaphoreNext
  <1>4. /\ pc["consumer"] = "idle" /\ pc'["consumer"] \in {"checkTail", "take"}
        /\ pc'["producer"] = pc["producer"] /\ sent' = sent /\ received' = received
    BY <1>1, <1>2, Q!DequeueStartGoesOn, QueueAssumptions
  <1>5. /\ producer' = producer /\ signalled' = signalled
        /\ granted' = granted /\ spc' = spc /\ wpc' = wpc
    BY <1>1 DEF semaVars
  <1>6. CountInv'
    <2>1. Owing' <=> Owing
      BY <1>1, <1>2, <1>4 DEF Owing, ControlInv
    <2> QED
      BY <1>2, <1>4, <1>5, <2>1 DEF CountInv
  <1>7. ControlInv'
    BY <1>1, <1>2, <1>4, <1>5 DEF ControlInv
  <1>8. ShowInv'
    <2>1. consumer = "dequeue" /\ pc'["consumer"] = "checkTail" =>
            (Q!FB \notin Q!Readable(Q!TailBlock))'
      BY <1>1, <1>2, Q!DequeueStartFinds, QueueAssumptions DEF ShowInv
    <2> QED
      BY <1>1, <1>3, <2>1 DEF ShowInv
  <1> QED
    BY <1>3, <1>6, <1>7, <1>8 DEF Inv

\* An inner call that was entitled to an element comes back with it.
LEMMA ConsumerInnerInv ==
  ASSUME Inv, ConsumerInner
  PROVE  Inv'
  <1>1. /\ UNCHANGED <<semaVars, producer, request, raised, posted>> /\ Q!ConsumerStep
        /\ consumer = "inner"
        /\ consumer' = IF pc'["consumer"] = "idle" THEN "idle" ELSE "inner"
    BY SameConsumer DEF ConsumerInner
  <1>2. /\ Q!Inv /\ Q!OrderInv /\ sema!Inv /\ CountInv /\ ControlInv /\ ShowInv
        /\ [Next]_vars /\ [Q!Next]_(Q!vars)
    BY <1>1 DEF Inv, Next, ConsumerStep, Q!Next
  <1>3. /\ Q!Inv' /\ Q!OrderInv' /\ sema!Inv'
        /\ raised' \in 0 .. epoch'["producer"] /\ posted' \in 0 .. epoch'["producer"]
        /\ Q!Covers(signalled, raised)'
        /\ (m_sema > 0 => Q!Covers(granted + 1, posted))'
    <2>1. UNCHANGED <<semaVars, raised, posted>>
      BY <1>1
    <2> QED
      BY <1>2, <2>1, QueueStep, StillShown, SemaphoreNext
  <1>4. /\ pc["consumer"] # "idle" /\ pc'["consumer"] # "checkTail"
        /\ pc'["producer"] = pc["producer"] /\ sent' = sent
        /\ pc'["consumer"] # "idle" => call'["consumer"].op = call["consumer"].op
        /\ call["consumer"].op = "peek" => received' = received
        /\ call["consumer"].op # "peek"
             /\ (pc["consumer"] = "checkTail" => Q!FB \notin Q!Readable(Q!TailBlock)) =>
              CASE pc["consumer"] = "take" ->
                      pc'["consumer"] = "release" /\ Len(received') = Len(received) + 1
                [] pc["consumer"] = "release" ->
                      pc'["consumer"] = "idle" /\ received' = received
                [] OTHER -> pc'["consumer"] \notin {"idle", "release"} /\ received' = received
    BY <1>1, <1>2, Q!ConsumerGoesOn, QueueAssumptions
  <1>5. /\ producer' = producer /\ signalled' = signalled /\ request' = request
        /\ granted' = granted /\ spc' = spc /\ wpc' = wpc
    BY <1>1 DEF semaVars
  <1>6. CountInv'
    <2>1. request = "peek" <=> call["consumer"].op = "peek"
      BY <1>1, <1>2 DEF ControlInv
    <2>2. CASE request = "peek"
      <3>1. ~ Owing /\ ~ Owing' /\ received' = received
        BY <1>1, <1>4, <1>5, <2>1, <2>2 DEF Owing
      <3> QED
        BY <1>2, <1>4, <1>5, <3>1 DEF CountInv
    <2>3. CASE request # "peek"
      <3>1. CASE pc["consumer"] = "checkTail" => Q!FB \notin Q!Readable(Q!TailBlock)
        <4>1. CASE pc["consumer"] = "take"
          <5>1. /\ Owing /\ ~ Owing' /\ Len(received') = Len(received) + 1
            BY <1>1, <1>4, <1>5, <2>1, <2>3, <3>1, <4>1 DEF Owing
          <5> QED
            BY <1>2, <1>4, <1>5, <5>1, Facts DEF CountInv
        <4>2. CASE pc["consumer"] = "release"
          <5>1. ~ Owing /\ ~ Owing' /\ received' = received
            BY <1>1, <1>4, <1>5, <2>1, <2>3, <3>1, <4>2 DEF Owing
          <5> QED
            BY <1>2, <1>4, <1>5, <5>1 DEF CountInv
        <4>3. CASE pc["consumer"] \notin {"take", "release"}
          <5>1. Owing /\ Owing' /\ received' = received
            BY <1>1, <1>4, <1>5, <2>1, <2>3, <3>1, <4>3 DEF Owing
          <5> QED
            BY <1>2, <1>4, <1>5, <5>1 DEF CountInv
        <4> QED
          BY <4>1, <4>2, <4>3
      <3> QED
        BY <1>1, <1>2, <2>3, <3>1 DEF ShowInv
    <2> QED
      BY <2>2, <2>3
  <1>7. ControlInv'
    BY <1>1, <1>2, <1>4, <1>5 DEF ControlInv
  <1>8. ShowInv'
    BY <1>1, <1>3, <1>4 DEF ShowInv
  <1> QED
    BY <1>3, <1>6, <1>7, <1>8 DEF Inv

\* A step of a wait that grants a token takes a signal that no other wait has
\* returned for, from the kernel semaphore only if there is a token in it, and
\* from m_count only if there is none; it leaves the kernel semaphore empty.
LEMMA WaitTakes ==
  ASSUME sema!Inv, sema!WaitStep \/ sema!TimeOut
  PROVE  /\ spc' = spc
         /\ \/ granted' = granted /\ m_sema' = m_sema
            \/ /\ granted' = granted + 1 /\ granted + 1 <= signalled /\ m_sema' = 0
  <1>1. /\ m_sema \in Nat /\ granted \in Nat /\ signalled \in Nat /\ m_count \in Int
        /\ m_count = signalled - granted - (IF sema!Waiting THEN 1 ELSE 0)
        /\ m_sema <= sema!Token
    BY DEF sema!Inv, sema!TypeOK, sema!CountIsAvailable, sema!Available, sema!Token
  <1>2. CASE sema!TryLoad \/ sema!Spin \/ sema!TimeOut \/ sema!Retake \/ sema!Restore
    BY <1>2 DEF sema!TryLoad, sema!ReturnFalse, sema!Spin, sema!TimeOut, sema!Retake,
       sema!Restore, sema!AfterRestore
  <1>3. CASE sema!Take \/ sema!Block
    <2>1. ~ sema!Waiting /\ sema!Token = 0 /\ (wpc = "take" => m_count >= 1)
      BY <1>3 DEF sema!Take, sema!Block, sema!Waiting, sema!Inv, sema!TokenInv
    <2>2. m_sema = 0 /\ m_sema' = m_sema /\ spc' = spc
      BY <1>1, <1>3, <2>1 DEF sema!Take, sema!Block
    <2>3. granted' = granted \/ (granted' = granted + 1 /\ m_count >= 1)
      BY <1>1, <1>3, <2>1 DEF sema!Take, sema!Block, sema!ReturnTrue
    <2> QED
      BY <1>1, <2>1, <2>2, <2>3
  <1>4. CASE sema!Wake \/ sema!TrySema
    <2>1. sema!Waiting
      BY <1>4 DEF sema!Wake, sema!TrySema, sema!Waiting
    <2>2. sema!Token <= 1
      BY <2>1, <1>1 DEF sema!Inv, sema!TokenInv
    <2>3. /\ spc' = spc
          /\ \/ granted' = granted /\ m_sema' = m_sema
             \/ granted' = granted + 1 /\ m_sema > 0 /\ m_sema' = m_sema - 1
      BY <1>4 DEF sema!Wake, sema!TrySema, sema!ReturnTrue, sema!Refused
    <2>4. m_sema > 0 => granted + 1 <= signalled
      BY TokenIsSignalled
    <2>5. m_sema <= 1
      <3>1. PICK k : k = sema!Token
        OBVIOUS
      <3>2. k = 0 \/ k = 1
        BY <2>1, <3>1 DEF sema!Inv, sema!TokenInv
      <3> QED
        BY <1>1, <3>1, <3>2
    <2> QED
      BY <1>1, <2>3, <2>4, <2>5
  <1> QED
    BY <1>2, <1>3, <1>4 DEF sema!WaitStep

\* A token shows the element that it is for: fetch_add_acquire and sem_wait make
\* known what the producer did before it signalled.
LEMMA WaitInv ==
  ASSUME Inv, Wait
  PROVE  Inv'
  <1>1. /\ Q!Inv /\ Q!OrderInv /\ sema!Inv /\ CountInv /\ ControlInv /\ ShowInv
        /\ [Next]_vars
    BY DEF Inv, Next, ConsumerStep
  <1>2. /\ consumer = "wait" /\ producer' = producer /\ request' = request
        /\ raised' = raised /\ posted' = posted /\ UNCHANGED contents
        /\ sema!WaitStep \/ sema!TimeOut
        /\ consumer' = IF wpc' = "idle" THEN AfterWait(granted' > granted) ELSE "wait"
        /\ IF granted' = granted THEN UNCHANGED memVars
           ELSE Acquire(IF m_sema' < m_sema THEN posted ELSE raised)
    BY DEF Wait
  <1>3. /\ pc' = pc /\ call' = call /\ sent' = sent /\ received' = received
        /\ UNCHANGED Q!Rest
    BY <1>2 DEF contents, Q!Rest, Q!pVars, Q!cVars, Q!blockVars
  <1>4. /\ signalled' = signalled /\ spc' = spc
        /\ granted' = granted \/ (granted' = granted + 1 /\ wpc' = "idle")
        /\ \/ granted' = granted /\ m_sema' = m_sema
           \/ granted' = granted + 1 /\ granted + 1 <= signalled /\ m_sema' = 0
    BY <1>1, <1>2, WaitGrants, WaitTakes
  <1>5. sema!Inv'
    BY <1>1, SemaphoreNext
  <1>6. producer = "inner" <=> pc["producer"] # "idle"
    BY <1>1 DEF ControlInv
  <1>7. pc["consumer"] = "idle" /\ ~ Owing /\ Len(received) = granted
    BY <1>1, <1>2, Facts DEF ControlInv, CountInv, Owing
  <1>8. CASE granted' = granted
    <2>1. /\ consumer' \in {"idle", "wait"} /\ (consumer' = "wait" <=> wpc' # "idle")
          /\ m_sema' = m_sema
      <3>1. ~ (granted' > granted) /\ m_sema' = m_sema
        BY <1>4, <1>8, Facts
      <3> QED
        BY <1>2, <3>1 DEF AfterWait
    <2>2. epoch' = epoch /\ mem' = mem /\ [Q!Next]_(Q!vars)
      BY <1>2, <1>8, <1>3 DEF memVars, contents, Q!vars, Q!memVars, Q!pVars, Q!cVars, Q!blockVars
    <2>3. Q!Inv' /\ Q!OrderInv'
      BY <2>2, QueueStep
    <2>4. ~ Owing'
      BY <2>1 DEF Owing
    <2>5. CountInv'
      BY <1>1, <1>2, <1>3, <1>4, <1>7, <1>8, <2>4 DEF CountInv
    <2>6. ControlInv'
      BY <1>1, <1>2, <1>3, <1>4, <1>7, <2>1 DEF ControlInv
    <2>7. Q!Covers(signalled, raised)' /\ (m_sema > 0 => Q!Covers(granted + 1, posted))'
      BY <1>1, <1>2, <1>3, <1>4, <1>8, <2>1, <2>2 DEF ShowInv, Q!Covers, Q!Reaches, contents
    <2>8. ShowInv'
      BY <1>1, <1>2, <2>1, <2>2, <2>7 DEF ShowInv
    <2> QED
      BY <1>5, <2>3, <2>5, <2>6, <2>8 DEF Inv
  <1>9. CASE granted' = granted + 1
    <2>1. PICK n, e : n = granted + 1 /\ e = IF m_sema' < m_sema THEN posted ELSE raised
      OBVIOUS
    <2>2. /\ granted' # granted /\ granted' > granted /\ n \in Nat /\ n <= signalled
          /\ n <= sent /\ Len(received) < n /\ m_sema' = 0 /\ m_sema \in Nat
      BY <1>4, <1>7, <1>9, <2>1, Facts
    <2>3. consumer' = "dequeue" /\ wpc' = "idle"
      BY <1>2, <1>4, <2>2 DEF AfterWait
    <2>4. /\ e \in Nat /\ e <= epoch["producer"] /\ Q!Covers(n, e)
      <3>1. CASE m_sema' < m_sema
        <4>1. m_sema > 0 /\ e = posted
          BY <2>1, <2>2, <3>1
        <4> QED
          BY <1>1, <2>1, <4>1, Facts DEF ShowInv
      <3>2. CASE ~ (m_sema' < m_sema)
        <4>1. e = raised /\ Q!Covers(signalled, e)
          BY <1>1, <2>1, <3>2 DEF ShowInv
        <4>2. Q!Covers(n, e)
          BY <2>2, <4>1, Q!CoversLess, QueueAssumptions, Facts
        <4> QED
          BY <1>1, <4>1, <4>2, Facts DEF ShowInv
      <3> QED
        BY <3>1, <3>2
    <2>5. Q!Observe(Q!C, acq[Q!C], Q!AcquireFence(Q!C, e), mem)
      <3>1. Acquire(e)
        BY <1>2, <2>1, <2>2
      <3>2. PICK x : x = inner!AcquireFence("consumer", e)
        OBVIOUS
      <3>3. inner!Observe("consumer", acq["consumer"], x, mem)
        BY <3>1, <3>2 DEF Acquire
      <3> QED
        BY <3>2, <3>3, SameFences
    <2>6. /\ Q!Inv' /\ Q!OrderInv' /\ Q!Looks(Q!C) /\ epoch' = epoch /\ seen'[Q!C] >= e
          /\ \A m \in Nat : \A x : Q!Covers(m, x) => Q!Covers(m, x)'
      BY <1>1, <1>3, <1>7, <2>4, <2>5, Q!AcquireStep, QueueAssumptions
    <2>7. Q!Finds'
      <3>1. \/ Q!Visible(mem[Q!TailOf(Q!FB)], Q!FrontIx(Q!FB), e)
            \/ Q!Visible(mem[Q!TailBlock], Q!FB, e)
        BY <1>1, <1>7, <2>2, <2>4, Q!FirstShown, QueueAssumptions
      <3> QED
        BY <1>1, <2>4, <2>6, <3>1, Q!SeenFinds, QueueAssumptions
    <2>8. CountInv'
      <3>1. Owing'
        BY <2>3 DEF Owing
      <3>2. Len(received') = granted' - 1
        BY <1>3, <1>7, <1>9, Facts
      <3> QED
        BY <1>1, <1>2, <1>3, <1>4, <3>1, <3>2 DEF CountInv
    <2>9. ControlInv'
      BY <1>1, <1>2, <1>3, <1>4, <1>7, <2>3 DEF ControlInv
    <2>10. Q!Covers(signalled, raised)'
      <3>1. PICK m, r : m = signalled /\ r = raised
        OBVIOUS
      <3>2. Q!Covers(m, r)'
        BY <1>1, <2>6, <3>1, Facts DEF ShowInv
      <3>3. signalled' = m /\ raised' = r
        BY <1>2, <1>4, <3>1
      <3> QED
        BY <3>2, <3>3 DEF Q!Covers
    <2>11. ShowInv'
      BY <1>1, <1>2, <2>2, <2>3, <2>6, <2>7, <2>10 DEF ShowInv
    <2> QED
      BY <1>5, <2>6, <2>8, <2>9, <2>11 DEF Inv
  <1> QED
    BY <1>4, <1>8, <1>9

-------------------------------------------------------------------------------
(***************************************************************************)
(* The invariant, and what it says to the queue's users.                    *)
(***************************************************************************)
LEMMA InitInv == Init => Inv
  <1> SUFFICES ASSUME Init PROVE Inv
    OBVIOUS
  <1>1. Q!Init /\ sema!Init /\ producer = "idle" /\ consumer = "idle" /\ raised = 0 /\ posted = 0
    BY SameInit DEF Init
  <1>2. Q!Inv /\ Q!OrderInv
    BY <1>1, Q!InitInv, Q!InitOrder, QueueAssumptions
  <1>3. sema!Inv
    BY <1>1, SameSemaphore, semaProofs!InitInv, MaxItemsAssumption, SpinLimitAssumption
  <1>4. /\ sent = 0 /\ received = <<>> /\ pc = [t \in {"producer", "consumer"} |-> "idle"]
        /\ epoch = [t \in {"producer", "consumer"} |-> 1]
    BY <1>1, QueueAssumptions DEF Q!Init
  <1>5. m_sema = 0 /\ spc = "idle" /\ wpc = "idle" /\ signalled = 0 /\ granted = 0
    BY <1>1 DEF sema!Init
  <1>6. CountInv /\ ControlInv
    BY <1>1, <1>4, <1>5 DEF CountInv, Owing, ControlInv
  <1>7. Q!Covers(signalled, raised)
    BY <1>5 DEF Q!Covers
  <1>8. ShowInv
    BY <1>1, <1>4, <1>5, <1>7 DEF ShowInv
  <1> QED
    BY <1>2, <1>3, <1>6, <1>8 DEF Inv

LEMMA NextInv == Inv /\ [Next]_vars => Inv'
  BY EnqueueInv, SignalInv, PostInv, DequeueInv, InnerBeginsInv, ConsumerInnerInv, WaitInv
     DEF Next, ProducerStep, ConsumerStep

\* The two halves of the queue stay in step, and a token always shows the element
\* that it stands for, on every memory that keeps the promises of fetch_add_release
\* and fetch_add_acquire and no more.
THEOREM Invariance == Spec => []Inv
  BY InitInv, NextInv, PTL DEF Spec

\* assert(success): whenever the consumer is back from a call it has as many
\* elements as tokens, so no dequeue whose wait succeeded came back empty.
THEOREM DequeueSucceeds == Spec => []AssertDequeueSucceeds
  <1>1. Inv => AssertDequeueSucceeds
    <2> SUFFICES ASSUME Inv, consumer = "idle" PROVE Len(received) = granted
      BY DEF AssertDequeueSucceeds
    <2>1. Len(received) = granted - 0
      BY DEF Inv, CountInv, Owing
    <2> QED
      BY <2>1, Facts
  <1> QED
    BY <1>1, Invariance, PTL

\* There are no more grants than signals.
LEMMA GrantedSignals ==
  ASSUME sema!Inv
  PROVE  granted \in Nat /\ signalled \in Nat /\ granted <= signalled
  <1>1. /\ granted \in Nat /\ signalled \in Nat /\ m_count \in Int
        /\ m_count = signalled - granted - (IF sema!Waiting THEN 1 ELSE 0)
    BY DEF sema!Inv, sema!TypeOK, sema!CountIsAvailable, sema!Available
  <1>2. sema!Waiting => m_count >= -1
    BY DEF sema!Inv, sema!TokenInv
  <1>3. ~ sema!Waiting => m_count >= 0
    BY DEF sema!Inv, sema!TokenInv, sema!TypeOK
  <1> QED
    BY <1>1, <1>2, <1>3

\* Between calls m_count is the number of elements in the queue.
THEOREM TokensMatch == Spec => []TokensMatchElements
  <1>1. Inv => TokensMatchElements
    <2> SUFFICES ASSUME Inv, producer = "idle", consumer = "idle"
                 PROVE  m_count = Len(inner!Content)
      BY DEF TokensMatchElements
    <2>1. inner!Content = Q!Waiting /\ Len(received) \in Nat /\ Len(received) <= sent
      BY SameContent, Q!ContentWaits, QueueAssumptions DEF Inv
    <2>2. PICK n, k : n = sent - Len(received) /\ k = Len(received)
      OBVIOUS
    <2>3. n \in Nat /\ inner!Content = [i \in 1 .. n |-> k + i] /\ k \in Nat
      BY <2>1, <2>2, Facts DEF Q!Waiting
    <2>4. Len(inner!Content) = n
      BY <2>3, Q!WaitingSeq, QueueAssumptions
    <2>5. ~ sema!Waiting
      BY DEF Inv, ControlInv, sema!Waiting
    <2>6. m_count = signalled - granted - 0 /\ m_count \in Int
      BY <2>5 DEF Inv, sema!Inv, sema!TypeOK, sema!CountIsAvailable, sema!Available
    <2>7. sent = signalled + 0 /\ Len(received) = granted - 0
      BY DEF Inv, CountInv, Owing
    <2> QED
      BY <2>2, <2>4, <2>6, <2>7, Facts
  <1> QED
    BY <1>1, Invariance, PTL

-------------------------------------------------------------------------------
(***************************************************************************)
(* The blocking queue is a queue.                                           *)
(***************************************************************************)

\* What its users see: the elements signalled and not granted are in it.
Seen ==
    /\ SubSeq(inner!Content, Claimed + 1, signalled - Len(received))
          = [i \in 1 .. signalled - granted |-> granted + i]
    /\ received \o SubSeq(inner!Content, 1, Claimed) = [i \in 1 .. granted |-> i]

LEMMA UsersSee ==
  ASSUME Inv
  PROVE  Seen
  <1>1. PICK r, n, w, k, s, g :
            /\ r = Len(received) /\ n = sent - Len(received) /\ w = inner!Content
            /\ k = Claimed /\ s = signalled /\ g = granted
    OBVIOUS
  <1>2. /\ r \in Nat /\ n \in Nat /\ s \in Nat /\ g \in Nat /\ received \in Seq(Nat)
        /\ g <= s /\ s - r <= n /\ k = g - r
    BY <1>1, Facts, GrantedSignals DEF Inv, Claimed
  <1>3. k = 0 \/ k = 1
    <2>1. r = g - 0 \/ r = g - 1
      BY <1>1 DEF Inv, CountInv
    <2> QED
      BY <1>2, <2>1
  <1>4. w = [i \in 1 .. n |-> r + i] /\ w \in Seq(Nat) /\ Len(w) = n
    <2>1. w = [i \in 1 .. n |-> r + i]
      BY <1>1, SameContent, Q!ContentWaits, QueueAssumptions DEF Inv, Q!Waiting
    <2> QED
      BY <2>1, <1>2, Q!WaitingSeq, QueueAssumptions
  <1>5. received = [i \in 1 .. r |-> i]
    BY <1>1 DEF Inv, Q!OrderInv, Q!Given
  <1>6. SubSeq(w, k + 1, s - r) = [i \in 1 .. s - g |-> g + i]
    <2>1. PICK u : u = SubSeq(w, k + 1, s - r)
      OBVIOUS
    <2>2. k + 1 \in Int /\ s - r \in Int /\ \A i \in k + 1 .. s - r : w[i] \in Nat
      <3>1. ASSUME NEW i \in k + 1 .. s - r
            PROVE  w[i] \in Nat
        <4>1. i \in 1 .. n
          BY <1>2, <1>3
        <4> QED
          BY <1>2, <1>4, <4>1
      <3> QED
        BY <1>2, <1>3, <3>1
    <2>3. /\ u \in Seq(Nat)
          /\ Len(u) = IF k + 1 <= s - r THEN (s - r) - (k + 1) + 1 ELSE 0
          /\ \A i \in 1 .. (s - r) - (k + 1) + 1 : u[i] = w[(k + 1) + i - 1]
      BY <2>1, <2>2, SubSeqProperties
    <2>4. Len(u) = s - g /\ (s - r) - (k + 1) + 1 = s - g
      BY <1>2, <2>3
    <2>5. ASSUME NEW i \in 1 .. s - g
          PROVE  u[i] = g + i
      <3>1. u[i] = w[(k + 1) + i - 1]
        BY <2>3, <2>4
      <3>2. (k + 1) + i - 1 = k + i /\ k + i \in 1 .. n /\ r + (k + i) = g + i
        BY <1>2, <1>3
      <3> QED
        BY <1>4, <3>1, <3>2
    <2>6. u = [i \in 1 .. s - g |-> u[i]]
      BY <2>3, <2>4, LenProperties
    <2> QED
      BY <2>1, <2>5, <2>6
  <1>7. received \o SubSeq(w, 1, k) = [i \in 1 .. g |-> i]
    <2>1. CASE k = 0
      <3>1. SubSeq(w, 1, k) = <<>>
        BY <2>1, SubSeqEmpty
      <3> QED
        BY <1>2, <1>5, <2>1, <3>1, ConcatEmptySeq
    <2>2. CASE k = 1
      <3>1. PICK u, v : u = SubSeq(w, 1, k) /\ v = received \o u
        OBVIOUS
      <3>2. 1 \in 1 .. n
        BY <1>2, <2>2
      <3>3. w[1] = r + 1 /\ \A i \in 1 .. k : w[i] \in Nat
        BY <1>2, <1>4, <2>2, <3>2
      <3>4. u \in Seq(Nat) /\ Len(u) = 1 /\ u[1] = r + 1
        <4>1. /\ u \in Seq(Nat) /\ Len(u) = IF 1 <= k THEN k - 1 + 1 ELSE 0
              /\ \A i \in 1 .. k - 1 + 1 : u[i] = w[1 + i - 1]
          BY <2>2, <3>1, <3>3, SubSeqProperties
        <4>2. u[1] = w[1 + 1 - 1]
          BY <2>2, <4>1
        <4> QED
          BY <2>2, <3>3, <4>1, <4>2
      <3>5. /\ v \in Seq(Nat) /\ Len(v) = r + 1
            /\ \A i \in 1 .. r + 1 : v[i] = IF i <= r THEN received[i] ELSE u[i - r]
        BY <1>1, <1>2, <3>1, <3>4, ConcatProperties
      <3>6. ASSUME NEW i \in 1 .. r + 1
            PROVE  v[i] = i
        <4>1. CASE i <= r
          BY <1>2, <1>5, <3>5, <4>1
        <4>2. CASE i = r + 1
          <5>1. i - r = 1 /\ ~ (i <= r)
            BY <1>2, <4>2
          <5> QED
            BY <3>4, <3>5, <4>2, <5>1
        <4> QED
          BY <1>2, <4>1, <4>2
      <3>7. v = [i \in 1 .. r + 1 |-> v[i]]
        BY <3>5, LenProperties
      <3>8. g = r + 1
        BY <1>2, <2>2
      <3> QED
        BY <3>1, <3>6, <3>7, <3>8
    <2> QED
      BY <1>3, <2>1, <2>2
  <1> QED
    BY <1>1, <1>6, <1>7 DEF Seen

\* A step signals, grants, or does neither.
LEMMA TokenSteps ==
  ASSUME sema!Inv, [Next]_vars
  PROVE  \/ signalled' = signalled + 1 /\ granted' = granted
         \/ signalled' = signalled /\ granted' = granted + 1 /\ granted + 1 <= signalled
         \/ signalled' = signalled /\ granted' = granted
  <1>1. CASE Signal
    BY <1>1 DEF Signal, sema!Signal
  <1>2. CASE Post \/ Dequeue
    BY <1>2 DEF Post, Dequeue, sema!Post, sema!Call
  <1>3. CASE Wait
    BY <1>3, WaitGrants, WaitTakes DEF Wait
  <1>4. CASE Enqueue \/ EnqueueInner \/ DequeueInner \/ Peek \/ ConsumerInner \/ UNCHANGED vars
    BY <1>4 DEF Enqueue, EnqueueInner, DequeueInner, Peek, ConsumerInner, vars, semaVars
  <1> QED
    BY <1>1, <1>2, <1>3, <1>4 DEF Next, ProducerStep, ConsumerStep

LEMMA NextSeen ==
  ASSUME NEW g \in Nat, NEW n \in Nat, n > 0, NEW w, w = [i \in 1 .. n |-> g + i]
  PROVE  w # <<>> /\ Head(w) = g + 1 /\ Tail(w) = [i \in 1 .. n - 1 |-> (g + 1) + i]
  <1>1. w # <<>>
    BY Q!WaitingSeq, QueueAssumptions
  <1>2. Head(w) = g + 1
    BY Q!WaitingSeq, QueueAssumptions
  <1>3. Tail(w) = [i \in 1 .. n - 1 |-> (g + 1) + i]
    BY Q!WaitingSeq, QueueAssumptions
  <1> QED
    BY <1>1, <1>2, <1>3

LEMMA FifoStep ==
  ASSUME sema!Inv, [Next]_vars, Seen, Seen'
  PROVE  [Fifo!Next]_(Fifo!vars)
  <1> DEFINE queue == SubSeq(inner!Content, Claimed + 1, signalled - Len(received))
             taken == received \o SubSeq(inner!Content, 1, Claimed)
  <1>1. PICK s, g, n : s = signalled /\ g = granted /\ n = s - g
    OBVIOUS
  <1>2. s \in Nat /\ g \in Nat /\ n \in Nat /\ s = g + n
    BY <1>1, GrantedSignals
  <1>3. /\ queue = [i \in 1 .. n |-> g + i] /\ taken = [i \in 1 .. g |-> i]
        /\ queue' = [i \in 1 .. signalled' - granted' |-> granted' + i]
        /\ taken' = [i \in 1 .. granted' |-> i]
    BY <1>1 DEF Seen
  <1>4. /\ Fifo!Accept <=> /\ signalled' = signalled + 1
                           /\ queue' = Append(queue, signalled')
                           /\ taken' = taken
        /\ Fifo!Deliver <=> /\ queue # <<>>
                            /\ taken' = Append(taken, Head(queue))
                            /\ queue' = Tail(queue)
                            /\ signalled' = signalled
        /\ Fifo!vars' = Fifo!vars <=> <<signalled', queue', taken'>> = <<signalled, queue, taken>>
    BY DEF Fifo!Accept, Fifo!Deliver, Fifo!vars
  <1> HIDE DEF queue, taken
  <1>5. CASE signalled' = signalled + 1 /\ granted' = granted
    <2>1. signalled' - granted' = n + 1 /\ granted' = g /\ signalled' = g + n + 1
      BY <1>1, <1>2, <1>5
    <2>2. queue' = Append(queue, g + n + 1)
      BY <1>2, <1>3, <2>1, Q!WaitingSeq, QueueAssumptions
    <2>3. taken' = taken
      BY <1>3, <2>1
    <2> QED
      BY <1>4, <1>5, <2>1, <2>2, <2>3 DEF Fifo!Next
  <1>6. CASE signalled' = signalled /\ granted' = granted + 1 /\ granted + 1 <= signalled
    <2>1. signalled' - granted' = n - 1 /\ granted' = g + 1 /\ n > 0
      BY <1>1, <1>2, <1>6
    <2>2. queue # <<>> /\ Head(queue) = g + 1 /\ queue' = Tail(queue)
      <3>1. queue' = [i \in 1 .. n - 1 |-> (g + 1) + i]
        BY <1>3, <2>1
      <3>2. /\ queue # <<>> /\ Head(queue) = g + 1
            /\ Tail(queue) = [i \in 1 .. n - 1 |-> (g + 1) + i]
        BY <1>2, <1>3, <2>1, NextSeen
      <3> QED
        BY <3>1, <3>2
    <2>3. taken' = Append(taken, g + 1)
      <3>1. taken = [i \in 1 .. g |-> 0 + i]
        BY <1>2, <1>3
      <3>2. [i \in 1 .. g + 1 |-> 0 + i] = Append(taken, 0 + g + 1)
        BY <1>2, <3>1, Q!WaitingSeq, QueueAssumptions
      <3>3. [i \in 1 .. g + 1 |-> 0 + i] = [i \in 1 .. g + 1 |-> i]
        BY <1>2
      <3>4. 0 + g + 1 = g + 1
        BY <1>2
      <3> QED
        BY <1>3, <2>1, <3>2, <3>3, <3>4
    <2> QED
      BY <1>4, <1>6, <2>2, <2>3 DEF Fifo!Next
  <1>7. CASE signalled' = signalled /\ granted' = granted
    BY <1>1, <1>3, <1>4, <1>7
  <1> QED
    BY <1>5, <1>6, <1>7, TokenSteps

\* The blocking queue is a queue to its users, from the signal of an enqueue to the
\* wait that takes it, although the element may be moved out much later and comes
\* from a queue whose two threads do not see each other's stores in order.
THEOREM BlockingQueueIsFifo == Spec => ImplementsFifo
  <1>1. Init => Fifo!Init
    <2> SUFFICES ASSUME Init PROVE Fifo!Init
      OBVIOUS
    <2>1. Seen
      BY InitInv, UsersSee
    <2>2. signalled = 0 /\ granted = 0
      BY DEF Init, sema!Init
    <2>3. [i \in 1 .. signalled - granted |-> granted + i] = <<>> /\ [i \in 1 .. granted |-> i] = <<>>
      BY <2>2
    <2> QED
      BY <2>1, <2>2, <2>3 DEF Seen, Fifo!Init
  <1>2. Inv => Seen
    BY UsersSee
  <1>3. Inv /\ [Next]_vars /\ Seen /\ Seen' => [Fifo!Next]_(Fifo!vars)
    BY FifoStep DEF Inv
  <1> QED
    BY <1>1, <1>2, <1>3, Invariance, PTL DEF Spec, ImplementsFifo, Fifo!Spec

===============================================================================
