---------------------- MODULE LightweightSemaphoreProofs ----------------------
(***************************************************************************)
(* Proofs about LightweightSemaphore, for every initial count, every spin    *)
(* limit, and every number and size of signals.                             *)
(***************************************************************************)
EXTENDS LightweightSemaphore, TLAPS

\* The constructor establishes the invariant.
LEMMA InitInv == Init => Inv
  <1> SUFFICES ASSUME Init PROVE Inv
    OBVIOUS
  <1>1. TypeOK
    BY InitialCountAssumption, SpinLimitAssumption DEF Init, TypeOK
  <1>2. CountIsAvailable
    BY InitialCountAssumption
    DEF Init, CountIsAvailable, Available, Waiting
  <1>3. TokenInv
    BY InitialCountAssumption DEF Init, TokenInv, Token, Waiting
  <1> QED
    BY <1>1, <1>2, <1>3 DEF Inv

\* Every step of signal(), of a wait and of a timeout preserves it.
LEMMA NextInv == Inv /\ [Next]_vars => Inv'
  <1> SUFFICES ASSUME Inv, [Next]_vars PROVE Inv'
    OBVIOUS
  <1> USE InitialCountAssumption, SpinLimitAssumption, MaxSignalsAssumption
      DEF Inv, TypeOK, CountIsAvailable, TokenInv, Token, Available, Waiting
  <1>1. ASSUME NEW count \in Counts, Signal(count)
        PROVE  Inv'
    <2>1. count \in Nat /\ count >= 1
      BY CountsAssumption
    <2> QED
      BY <1>1, <2>1 DEF Signal, AfterRaise
  <1>2. CASE Post
    BY <1>2 DEF Post
  <1>3. CASE Call
    BY <1>3 DEF Call
  <1>4. CASE TryLoad
    BY <1>4 DEF TryLoad, Positive, ReturnFalse
  <1>5. CASE Take
    BY <1>5 DEF Take, ReturnTrue
  <1>6. CASE Spin
    BY <1>6 DEF Spin, Spinning, Positive
  <1>7. CASE Block
    BY <1>7 DEF Block, ReturnTrue
  <1>8. CASE Wake
    BY <1>8 DEF Wake, ReturnTrue
  <1>9. CASE TimeOut
    BY <1>9 DEF TimeOut
  <1>10. CASE Restore
    BY <1>10 DEF Restore, AfterRestore, ReturnFalse
  <1>11. CASE Retake
    BY <1>11 DEF Retake
  <1>12. CASE TrySema
    BY <1>12 DEF TrySema, Refused, ReturnTrue
  <1>13. CASE UNCHANGED vars
    BY <1>13 DEF vars
  <1> QED
    BY <1>1, <1>2, <1>3, <1>4, <1>5, <1>6, <1>7, <1>8, <1>9, <1>10, <1>11,
       <1>12, <1>13
    DEF Next, Signaller, WaitStep

\* The invariant holds in every reachable state.
THEOREM Invariance == Spec => []Inv
  BY InitInv, NextInv, PTL DEF Spec

\* Type correctness of the semaphore.
THEOREM TypeCorrect == Spec => []TypeOK
  <1>1. Inv => TypeOK
    BY DEF Inv
  <1> QED
    BY <1>1, Invariance, PTL

\* assert(oldCount >= -1) of signal() never fires.
THEOREM AssertHolds == Spec => []AssertNotBelowMinusOne
  <1>1. Inv => AssertNotBelowMinusOne
    BY DEF Inv, TypeOK, TokenInv, Token, Waiting, AssertNotBelowMinusOne
  <1> QED
    BY <1>1, Invariance, PTL

\* No wait returns true without a signal of its own.
THEOREM GrantsAreSignalled == Spec => []NoDoubleGrant
  <1>1. Inv => NoDoubleGrant
    BY InitialCountAssumption
    DEF Inv, TypeOK, CountIsAvailable, TokenInv, Available, Waiting,
        NoDoubleGrant
  <1> QED
    BY <1>1, Invariance, PTL

\* A wait that timed out leaves no stale token behind.
THEOREM IdleIsExact == Spec => []ExactWhenIdle
  <1>1. Inv => ExactWhenIdle
    BY InitialCountAssumption
    DEF Inv, TypeOK, CountIsAvailable, TokenInv, Token, Available, Waiting,
        ExactWhenIdle
  <1> QED
    BY <1>1, Invariance, PTL

\* A signalled sleeper has its token, or it is on its way.
THEOREM WakeupNotLost == Spec => []NoLostWakeup
  <1>1. Inv => NoLostWakeup
    BY InitialCountAssumption
    DEF Inv, TypeOK, CountIsAvailable, TokenInv, Token, Available, Waiting,
        NoLostWakeup
  <1> QED
    BY <1>1, Invariance, PTL

\* availableApprox is exact or one too low, also in the middle of a wait.
THEOREM ApproxIsClose == Spec => []ApproxWithinOne
  <1>1. Inv => ApproxWithinOne
    BY InitialCountAssumption
    DEF Inv, TypeOK, CountIsAvailable, TokenInv, Token, Available, Waiting,
        ApproxWithinOne, AvailableApprox
  <1> QED
    BY <1>1, Invariance, PTL

===============================================================================
