------------------------- MODULE LightweightSemaphore -------------------------
(***************************************************************************)
(* spsc_sema::LightweightSemaphore (libs/readerwriterqueue/atomicops.h): a   *)
(* counter that one signalling and one waiting thread change with atomic     *)
(* fetch_adds, and a kernel semaphore that the waiter sleeps on when the     *)
(* counter says that nothing is available.                                  *)
(*                                                                         *)
(* Every atomic access is a step of its own, so that a signal can fall       *)
(* between any two steps of a wait, in particular between a timeout and the  *)
(* correction of the counter that follows it.                               *)
(***************************************************************************)
EXTENDS Integers

CONSTANTS
    InitialCount,   \* the constructor's argument
    Counts,         \* arguments of signal(count); 1 by default
    SpinLimit,      \* iterations of the spin loop (10000 in the code)
    MaxSignals      \* bound: what the calls of signal() add up to

ASSUME InitialCountAssumption == InitialCount \in Nat
\* The code asserts count >= 0 and no caller passes 0, with which a signal would
\* wake a sleeping waiter for nothing.
ASSUME CountsAssumption == Counts \subseteq Nat \ {0}
ASSUME SpinLimitAssumption == SpinLimit \in Nat
ASSUME MaxSignalsAssumption == MaxSignals \in Nat

VARIABLES
    m_count,    \* the atomic counter; -1 when the waiter may be asleep
    m_sema,     \* the value of the kernel semaphore
    spc,        \* where the signalling thread is
    wpc,        \* where the waiting thread is
    mode,       \* which operation the waiter runs
    spin,       \* iterations of the spin loop done
    signalled,  \* history: signals, counted when m_count is raised
    granted     \* history: waits that have returned true

vars == <<m_count, m_sema, spc, wpc, mode, spin, signalled, granted>>

TypeOK ==
    /\ m_count \in Int
    /\ m_sema \in Nat
    /\ spc \in {"idle", "post"}
    /\ wpc \in {"idle", "try", "take", "spin", "block", "sleep", "restore",
                "retake", "trysema"}
    /\ mode \in {"tryWait", "wait", "timedWait"}
    /\ spin \in 0 .. SpinLimit
    /\ signalled \in Nat
    /\ granted \in Nat

Init ==
    /\ m_count = InitialCount
    /\ m_sema = 0
    /\ spc = "idle"
    /\ wpc = "idle"
    /\ mode = "tryWait"
    /\ spin = 0
    /\ signalled = 0
    /\ granted = 0

-------------------------------------------------------------------------------
(***************************************************************************)
(* signal(count): raise the counter, and post the kernel semaphore once if   *)
(* the counter was negative.  Operators whose names carry a suffix (_Missed,     *)
(* _GiveUp, ...) are mistaken variants of the operator that follows them;    *)
(* no action uses them.                                                     *)
(***************************************************************************)
AfterRaise_Missed(old) == IF old < -1 THEN "post" ELSE "idle"
AfterRaise(old) == IF old < 0 THEN "post" ELSE "idle"

Signal(count) ==
    /\ spc = "idle"
    /\ signalled + count <= MaxSignals
    /\ m_count' = m_count + count
    /\ signalled' = signalled + count
    /\ spc' = AfterRaise(m_count)
    /\ UNCHANGED <<m_sema, wpc, mode, spin, granted>>

Post ==
    /\ spc = "post"
    /\ m_sema' = m_sema + 1
    /\ spc' = "idle"
    /\ UNCHANGED <<m_count, wpc, mode, spin, signalled, granted>>

-------------------------------------------------------------------------------
(***************************************************************************)
(* tryWait(), wait() and wait(timeout_usecs).                               *)
(***************************************************************************)
Call ==
    /\ wpc = "idle"
    /\ mode' \in {"tryWait", "wait", "timedWait"}
    /\ wpc' = "try"
    /\ UNCHANGED <<m_count, m_sema, spc, spin, signalled, granted>>

ReturnTrue == wpc' = "idle" /\ granted' = granted + 1
ReturnFalse == wpc' = "idle" /\ UNCHANGED granted

\* The test of a loaded counter, in tryWait and in the spin loop.
Positive_OffByOne(count) == count >= 0
Positive_KeepsOne(count) == count > 1
Positive(count) == count > 0

\* The load of tryWait.
TryLoad ==
    /\ wpc = "try"
    /\ \/ Positive(m_count) /\ wpc' = "take" /\ UNCHANGED <<spin, granted>>
       \/ /\ ~ Positive(m_count) /\ mode = "tryWait"
          /\ ReturnFalse /\ UNCHANGED spin
       \/ /\ ~ Positive(m_count) /\ mode # "tryWait"
          /\ wpc' = "spin" /\ spin' = 0 /\ UNCHANGED granted
    /\ UNCHANGED <<m_count, m_sema, spc, mode, signalled>>

\* The fetch_add(-1) after a load that saw something available.
Take ==
    /\ wpc = "take"
    /\ m_count' = m_count - 1
    /\ ReturnTrue
    /\ UNCHANGED <<m_sema, spc, mode, spin, signalled>>

\* `--spin >= 0', counted upwards.
Spinning(n) == n < SpinLimit

\* One iteration of the spin loop, or its end.
Spin ==
    /\ wpc = "spin"
    /\ \/ Spinning(spin) /\ Positive(m_count) /\ wpc' = "take" /\ UNCHANGED spin
       \/ /\ Spinning(spin) /\ ~ Positive(m_count)
          /\ spin' = spin + 1 /\ UNCHANGED wpc
       \/ ~ Spinning(spin) /\ wpc' = "block" /\ UNCHANGED spin
    /\ UNCHANGED <<m_count, m_sema, spc, mode, signalled, granted>>

\* The fetch_add(-1) that announces the waiter.
Block ==
    /\ wpc = "block"
    /\ m_count' = m_count - 1
    /\ \/ m_count > 0 /\ ReturnTrue
       \/ m_count <= 0 /\ wpc' = "sleep" /\ UNCHANGED granted
    /\ UNCHANGED <<m_sema, spc, mode, spin, signalled>>

\* sem_wait and sem_timedwait return with the semaphore.
Wake ==
    /\ wpc = "sleep"
    /\ m_sema > 0
    /\ m_sema' = m_sema - 1
    /\ ReturnTrue
    /\ UNCHANGED <<m_count, spc, mode, spin, signalled>>

\* sem_timedwait gives up.  It may do so although a post has just come.
TimeOut ==
    /\ wpc = "sleep"
    /\ mode = "timedWait"
    /\ wpc' = "restore"
    /\ UNCHANGED <<m_count, m_sema, spc, mode, spin, signalled, granted>>

\* What the value before the correcting fetch_add(1) says.
AfterRestore_GiveUp(old) == ReturnFalse
AfterRestore(old) ==
    \/ old < 0 /\ ReturnFalse
    \/ old >= 0 /\ wpc' = "retake" /\ UNCHANGED granted

Restore ==
    /\ wpc = "restore"
    /\ m_count' = m_count + 1
    /\ AfterRestore(m_count)
    /\ UNCHANGED <<m_sema, spc, mode, spin, signalled>>

\* A signal came after all: take it back and try the kernel semaphore.
Retake ==
    /\ wpc = "retake"
    /\ m_count' = m_count - 1
    /\ wpc' = IF m_count > 0 THEN "trysema" ELSE "restore"
    /\ UNCHANGED <<m_sema, spc, mode, spin, signalled, granted>>

\* The semaphore is not there yet when the signaller has still to post it.
Refused_Give == ReturnTrue
Refused == wpc' = "restore" /\ UNCHANGED granted

TrySema ==
    /\ wpc = "trysema"
    /\ \/ m_sema > 0 /\ m_sema' = m_sema - 1 /\ ReturnTrue
       \/ m_sema = 0 /\ Refused /\ UNCHANGED m_sema
    /\ UNCHANGED <<m_count, spc, mode, spin, signalled>>

\* availableApprox().
AvailableApprox == IF m_count > 0 THEN m_count ELSE 0

-------------------------------------------------------------------------------
Signaller == (\E count \in Counts : Signal(count)) \/ Post

WaitStep ==
    \/ TryLoad \/ Take \/ Spin \/ Block \/ Wake
    \/ Restore \/ Retake \/ TrySema

Next == Signaller \/ Call \/ WaitStep \/ TimeOut

Spec == Init /\ [][Next]_vars

\* A signal() that has begun is carried out, a wait makes its steps, and a
\* timed wait gives up in the end.
Fairness == WF_vars(Post) /\ WF_vars(WaitStep) /\ WF_vars(TimeOut)

FairSpec == Spec /\ Fairness

-------------------------------------------------------------------------------
\* Signals that no wait has returned for.
Available == InitialCount + signalled - granted

\* The waiter has lowered the counter and may be asleep.
Waiting == wpc \in {"sleep", "restore", "trysema"}

\* assert(oldCount >= -1) of signal(), in every state a signal can find.
AssertNotBelowMinusOne == m_count >= -1

\* Every signal serves at most one wait: no wait returns true without a signal
\* of its own, however a timeout and a signal race.
NoDoubleGrant == granted <= InitialCount + signalled

\* Outside a wait the counter is exact and the kernel semaphore is empty, with
\* no post on its way: a wait that timed out while it was being signalled
\* leaves no stale token that would let a later wait through.
ExactWhenIdle ==
    ~ Waiting /\ wpc # "retake" =>
        m_count = Available /\ m_sema = 0 /\ spc = "idle"

\* A sleeping waiter that has been signalled has a token, or one is coming.
NoLostWakeup ==
    wpc = "sleep" /\ Available > 0 => m_sema = 1 \/ spc = "post"

\* What the producer may learn from size_approx while a wait is under way: never
\* more than there is, and at most one less.
ApproxWithinOne ==
    Available - 1 <= AvailableApprox /\ AvailableApprox <= Available

\* A wait that something is available for returns, and a timed wait always does:
\* the loop that corrects the counter cannot go round for ever.
SignalledWaitReturns ==
    /\ (wpc # "idle" /\ Available > 0) ~> (wpc = "idle")
    /\ (wpc # "idle" /\ mode # "wait") ~> (wpc = "idle")

(***************************************************************************)
(* The inductive invariant: the counter is what is available, less one       *)
(* while the waiter has announced itself, and exactly one token exists or is *)
(* on its way when an announced waiter has been signalled.                  *)
(***************************************************************************)
Token == m_sema + (IF spc = "post" THEN 1 ELSE 0)

CountIsAvailable == m_count = Available - (IF Waiting THEN 1 ELSE 0)

TokenInv ==
    /\ Waiting => /\ m_count >= -1
                  /\ Token = (IF m_count < 0 THEN 0 ELSE 1)
    /\ wpc = "retake" => m_count >= 1 /\ Token = 1
    /\ ~ Waiting /\ wpc # "retake" => m_count >= 0 /\ Token = 0
    /\ wpc = "take" => m_count >= 1

Inv == TypeOK /\ CountIsAvailable /\ TokenInv

===============================================================================
