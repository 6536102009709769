--------------------------- MODULE FileNotifyProofs ---------------------------
(***************************************************************************)
(* Proofs about the ready notification, for any set of threads and any     *)
(* number of ioctls.                                                       *)
(*                                                                         *)
(* The inductive invariant says who holds the mutex, which pollers have    *)
(* their entry in the wait queue, that a poller which found the flag down  *)
(* hears of it when it goes up, and that the flag, when it holds an        *)
(* announcement nobody is clearing, stands for one that was not reported.  *)
(***************************************************************************)
EXTENDS FileNotify, TLAPS

\* A thread is between mutex_lock and mutex_unlock iff it owns the mutex.
MutexHeld == \A t \in Threads : (pc[t] \in Critical) <=> (owner = t)

\* From its first test on, a poll that may sleep has its entry in the queue.
Registered ==
    \A t \in Threads :
        (pc[t] \in {"poll_test", "poll_clear", "poll_unlock", "poll_sleep"} /\ ~lastScan[t])
            => t \in outq

\* A sleeping poll has a scan to come.
SleepsToScan == \A t \in Threads : pc[t] = "poll_sleep" => ~lastScan[t]

\* NoLostWakeup from the test of the flag on.
Waking == \E u \in Threads : pc[u] = "ioctl_wake"
Missed(t) ==
    \/ pc[t] = "poll_sleep"
    \/ pc[t] = "poll_unlock" /\ ~mask[t] /\ ~lastScan[t]
WakeupComes ==
    ready = 1 => \A t \in Threads : (Missed(t) /\ ~triggered[t]) => Waking

\* An announcement in the flag is one that was not reported yet.
Unreported ==
    /\ delivered <= announced
    /\ (ready = 1 /\ ~Delivering) => delivered + 1 <= announced

IInv == TypeOK /\ MutexHeld /\ Registered /\ SleepsToScan /\ WakeupComes /\ Unreported

\* The inductive invariant holds initially.
LEMMA InitIInv == Init => IInv
  BY ThreadsAssumption
     DEF Init, IInv, TypeOK, MutexHeld, Registered, SleepsToScan, WakeupComes, Missed, Waking,
         Unreported, Delivering, Steps, Waiting, Interruptible, AfterLock, Critical

\* Type correctness is inductive by itself.
LEMMA TypePreserved == TypeOK /\ [Next]_vars => TypeOK'
<1> SUFFICES ASSUME TypeOK, [Next]_vars PROVE TypeOK'
  OBVIOUS
<1> USE DEF TypeOK, Goto, poller, counters
<1>1. CASE UNCHANGED vars
  BY <1>1 DEF vars
<1>2. ASSUME NEW t \in Threads, Lock(t) PROVE TypeOK'
  <2>1. AfterLock[pc[t]] \in Steps
    BY <1>2 DEF Lock, Waiting, AfterLock, Steps, Critical
  <2>2. QED
    BY <1>2, <2>1 DEF Lock
<1>3. ASSUME NEW t \in Threads, Proceed(t) PROVE TypeOK'
  <2> USE DEF Steps, Critical, Unlock
  <2>1. CASE PollWait(t) \/ PollClear(t) \/ PollSleep(t)
    BY <2>1 DEF PollWait, PollClear, PollSleep
  <2>2. CASE PollTest(t)
    <3>1. mask' \in [Threads -> BOOLEAN]
      <4>1. (ready = 1) \in BOOLEAN
        OBVIOUS
      <4>2. QED
        BY <2>2, <4>1, Zenon DEF PollTest
    <3>2. pc' \in [Threads -> Steps] /\ delivered' \in Nat
      BY <2>2 DEF PollTest
    <3>3. QED
      BY <2>2, <3>1, <3>2 DEF PollTest
  <2>7. CASE PollReturn(t)
    <3>1. mask' \in [Threads -> BOOLEAN]
      BY <2>7, Zenon DEF PollReturn
    <3>2. triggered' \in [Threads -> BOOLEAN]
      BY <2>7, Zenon DEF PollReturn
    <3>3. lastScan' \in [Threads -> BOOLEAN]
      BY <2>7, Zenon DEF PollReturn
    <3>4. QED
      BY <2>7, <3>1, <3>2, <3>3 DEF PollReturn
  <2>8. CASE PollWoken(t)
    BY <2>8 DEF PollWoken, Waiting, AfterLock
  <2>3. CASE IoctlSet(t)
    BY <2>3 DEF IoctlSet
  <2>4. CASE IoctlWake(t)
    BY <2>4 DEF IoctlWake
  <2>5. CASE WriteData(t) \/ WriteReady(t) \/ WriteReturn(t) \/ ReadReturn(t) \/ OpenReturn(t)
    BY <2>5 DEF WriteData, WriteReady, WriteReturn, ReadReturn, OpenReturn
  <2>6. QED
    BY <1>3, <2>1, <2>2, <2>3, <2>4, <2>5, <2>7, <2>8 DEF Proceed
<1>4. ASSUME NEW t \in Threads, Environment(t) PROVE TypeOK'
  <2> USE DEF Steps, Interruptible, Waiting, AfterLock
  <2>1. CASE PollStart(t) \/ IoctlStart(t) \/ PollTimeout(t) \/ Interrupted(t)
    BY <2>1 DEF PollStart, IoctlStart, PollTimeout, Interrupted
  <2>2. CASE CallStart(t)
    BY <2>2 DEF CallStart
  <2>3. QED
    BY <1>4, <2>1, <2>2 DEF Environment
<1>5. QED
  BY <1>1, <1>2, <1>3, <1>4 DEF Next

-----------------------------------------------------------------------------
\* What follows a wait for the mutex is inside the critical section; the wait
\* itself, the idle thread, the sleeper and the ioctl are not.
LEMMA LockSteps ==
    /\ \A s \in Waiting : AfterLock[s] \in Critical /\ s \notin Critical
    /\ \A s \in Waiting : AfterLock[s] \in {"poll_wait", "write", "read", "open"}
    /\ \A s \in Interruptible : s \in Waiting
  BY DEF Waiting, AfterLock, Critical, Interruptible

\* The mutex: each step keeps owner and critical section together.
LEMMA MutexPreserved == TypeOK /\ MutexHeld /\ [Next]_vars => MutexHeld'
<1> SUFFICES ASSUME TypeOK, MutexHeld, [Next]_vars PROVE MutexHeld'
  OBVIOUS
<1> USE ThreadsAssumption DEF TypeOK, MutexHeld, Goto
<1>1. CASE UNCHANGED vars
  BY <1>1 DEF vars
<1>2. ASSUME NEW t \in Threads, Lock(t) PROVE MutexHeld'
  BY <1>2, LockSteps DEF Lock
<1>3. ASSUME NEW t \in Threads, Proceed(t) PROVE MutexHeld'
  <2>1. CASE PollWait(t) \/ PollTest(t) \/ PollClear(t)
    BY <2>1 DEF PollWait, PollTest, PollClear, Critical
  <2>2. CASE PollSleep(t) \/ PollReturn(t)
    BY <2>2 DEF PollSleep, PollReturn, Unlock, Critical
  <2>3. CASE PollWoken(t) \/ IoctlSet(t) \/ IoctlWake(t)
    BY <2>3 DEF PollWoken, IoctlSet, IoctlWake, Critical
  <2>4. CASE WriteData(t) \/ WriteReady(t)
    BY <2>4 DEF WriteData, WriteReady, Critical
  <2>5. CASE WriteReturn(t) \/ ReadReturn(t) \/ OpenReturn(t)
    BY <2>5 DEF WriteReturn, ReadReturn, OpenReturn, Unlock, Critical
  <2>6. QED
    BY <1>3, <2>1, <2>2, <2>3, <2>4, <2>5 DEF Proceed
<1>4. ASSUME NEW t \in Threads, Environment(t) PROVE MutexHeld'
  <2>1. CASE PollStart(t) \/ IoctlStart(t) \/ PollTimeout(t)
    BY <2>1 DEF PollStart, IoctlStart, PollTimeout, Critical
  <2>2. CASE CallStart(t)
    <3>1. PICK call \in Interruptible : Goto(t, "idle", call)
      BY <2>2 DEF CallStart
    <3>2. call \notin Critical /\ "idle" \notin Critical
      BY LockSteps DEF Critical
    <3>3. QED
      BY <2>2, <3>1, <3>2 DEF CallStart
  <2>3. CASE Interrupted(t)
    <3>1. pc[t] \notin Critical /\ "idle" \notin Critical
      BY <2>3, LockSteps DEF Interrupted, Critical
    <3>2. QED
      BY <2>3, <3>1 DEF Interrupted
  <2>4. QED
    BY <1>4, <2>1, <2>2, <2>3 DEF Environment
<1>5. QED
  BY <1>1, <1>2, <1>3, <1>4 DEF Next

-----------------------------------------------------------------------------
\* The queue entry: added before the first test unless this scan is the last,
\* removed only when the poll returns.
LEMMA RegisteredPreserved ==
    TypeOK /\ Registered /\ SleepsToScan /\ [Next]_vars => Registered' /\ SleepsToScan'
<1> SUFFICES ASSUME TypeOK, Registered, SleepsToScan, [Next]_vars
             PROVE Registered' /\ SleepsToScan'
  OBVIOUS
<1> USE DEF TypeOK, Registered, SleepsToScan, Goto, poller, counters
<1>1. CASE UNCHANGED vars
  BY <1>1 DEF vars
<1>2. ASSUME NEW t \in Threads, Lock(t) PROVE Registered' /\ SleepsToScan'
  BY <1>2, LockSteps DEF Lock
<1>3. ASSUME NEW t \in Threads, Proceed(t) PROVE Registered' /\ SleepsToScan'
  <2>1. CASE PollWait(t)
    BY <2>1 DEF PollWait
  <2>2. CASE PollTest(t) \/ PollClear(t)
    BY <2>2 DEF PollTest, PollClear
  <2>3. CASE PollSleep(t)
    BY <2>3 DEF PollSleep, Unlock
  <2>4. CASE PollReturn(t)
    BY <2>4 DEF PollReturn, Unlock
  <2>5. CASE PollWoken(t) \/ IoctlSet(t) \/ IoctlWake(t)
    BY <2>5 DEF PollWoken, IoctlSet, IoctlWake
  <2>6. CASE WriteData(t) \/ WriteReady(t) \/ WriteReturn(t) \/ ReadReturn(t) \/ OpenReturn(t)
    BY <2>6 DEF WriteData, WriteReady, WriteReturn, ReadReturn, OpenReturn, Unlock
  <2>7. QED
    BY <1>3, <2>1, <2>2, <2>3, <2>4, <2>5, <2>6 DEF Proceed
<1>4. ASSUME NEW t \in Threads, Environment(t) PROVE Registered' /\ SleepsToScan'
  <2>1. CASE PollStart(t) \/ IoctlStart(t)
    BY <2>1 DEF PollStart, IoctlStart
  <2>2. CASE CallStart(t) \/ Interrupted(t)
    BY <2>2 DEF CallStart, Interrupted, Interruptible, Waiting, AfterLock
  <2>3. CASE PollTimeout(t)
    BY <2>3 DEF PollTimeout
  <2>4. QED
    BY <1>4, <2>1, <2>2, <2>3 DEF Environment
<1>5. QED
  BY <1>1, <1>2, <1>3, <1>4 DEF Next

-----------------------------------------------------------------------------
\* A flag that goes up reaches every poll that found it down: the ioctl still
\* has to wake, and when it does every such poll is in the queue.
LEMMA WakeupPreserved ==
    TypeOK /\ Registered /\ SleepsToScan /\ WakeupComes /\ [Next]_vars => WakeupComes'
<1> SUFFICES ASSUME TypeOK, Registered, SleepsToScan, WakeupComes, [Next]_vars
             PROVE WakeupComes'
  OBVIOUS
<1> USE DEF TypeOK, WakeupComes, Missed, Waking, Goto, poller, counters
<1>1. CASE UNCHANGED vars
  BY <1>1 DEF vars
<1>2. ASSUME NEW t \in Threads, Lock(t) PROVE WakeupComes'
  <2>1. pc[t] # "ioctl_wake" /\ pc'[t] \notin {"poll_sleep", "poll_unlock"}
    BY <1>2, LockSteps DEF Lock, Waiting, AfterLock
  <2>2. QED
    BY <1>2, <2>1 DEF Lock
<1>3. ASSUME NEW t \in Threads, Proceed(t) PROVE WakeupComes'
  <2>1. CASE PollWait(t)
    BY <2>1 DEF PollWait
  <2>2. CASE PollTest(t)
    <3>1. CASE ready = 1
      BY <2>2, <3>1 DEF PollTest
    <3>2. CASE ready # 1
      BY <2>2, <3>2 DEF PollTest
    <3>3. QED
      BY <3>1, <3>2
  <2>3. CASE PollClear(t) \/ WriteReady(t)
    BY <2>3 DEF PollClear, WriteReady
  <2>4. CASE PollSleep(t)
    BY <2>4 DEF PollSleep, Unlock
  <2>5. CASE PollReturn(t)
    BY <2>5 DEF PollReturn, Unlock
  <2>6. CASE PollWoken(t)
    BY <2>6 DEF PollWoken
  <2>7. CASE IoctlSet(t)
    BY <2>7 DEF IoctlSet
  <2>8. CASE IoctlWake(t)
    <3>1. \A u \in Threads : Missed(u)' => Missed(u) /\ u \in outq
      BY <2>8 DEF IoctlWake, Registered, SleepsToScan
    <3>2. \A u \in outq : u \in Threads /\ triggered'[u]
      BY <2>8 DEF IoctlWake
    <3>3. QED
      BY <3>1, <3>2
  <2>9. CASE WriteData(t) \/ WriteReturn(t) \/ ReadReturn(t) \/ OpenReturn(t)
    BY <2>9 DEF WriteData, WriteReturn, ReadReturn, OpenReturn, Unlock
  <2>10. QED
    BY <1>3, <2>1, <2>2, <2>3, <2>4, <2>5, <2>6, <2>7, <2>8, <2>9 DEF Proceed
<1>4. ASSUME NEW t \in Threads, Environment(t) PROVE WakeupComes'
  <2>1. CASE PollStart(t) \/ IoctlStart(t) \/ PollTimeout(t)
    BY <2>1 DEF PollStart, IoctlStart, PollTimeout
  <2>2. CASE CallStart(t) \/ Interrupted(t)
    BY <2>2 DEF CallStart, Interrupted, Interruptible, Waiting, AfterLock
  <2>3. QED
    BY <1>4, <2>1, <2>2 DEF Environment
<1>5. QED
  BY <1>1, <1>2, <1>3, <1>4 DEF Next

-----------------------------------------------------------------------------
\* At most one thread is inside the critical section.
LEMMA MutualExclusion ==
    ASSUME MutexHeld, NEW t \in Threads, NEW u \in Threads,
           pc[t] \in Critical, pc[u] \in Critical
    PROVE  t = u
  BY DEF MutexHeld

\* The steps that can begin or end a delivery, or change the flag or the
\* counters; every other step leaves what EventFlag sees alone.
FlagStep(t) == PollTest(t) \/ PollClear(t) \/ WriteReady(t) \/ IoctlSet(t)

LEMMA QuietSteps ==
    ASSUME TypeOK, [Next]_vars, ~\E t \in Threads : FlagStep(t)
    PROVE  /\ UNCHANGED <<ready, announced, delivered>>
           /\ Delivering' <=> Delivering
<1> USE DEF TypeOK, Goto, poller, counters, Delivering
<1> DEFINE Quiet == UNCHANGED <<ready, announced, delivered>> /\ (Delivering' <=> Delivering)
<1>1. CASE UNCHANGED vars
  BY <1>1 DEF vars
<1>2. ASSUME NEW t \in Threads, Lock(t) PROVE Quiet
  <2>1. pc[t] # "poll_clear" /\ pc'[t] # "poll_clear"
    BY <1>2 DEF Lock, Waiting, AfterLock
  <2>2. QED
    BY <1>2, <2>1 DEF Lock
<1>3. ASSUME NEW t \in Threads, Proceed(t) PROVE Quiet
  <2>1. CASE PollWait(t) \/ PollSleep(t) \/ PollReturn(t) \/ PollWoken(t)
    BY <2>1 DEF PollWait, PollSleep, PollReturn, PollWoken, Unlock
  <2>2. CASE IoctlWake(t)
    BY <2>2 DEF IoctlWake
  <2>3. CASE WriteData(t) \/ WriteReturn(t) \/ ReadReturn(t) \/ OpenReturn(t)
    BY <2>3 DEF WriteData, WriteReturn, ReadReturn, OpenReturn, Unlock
  <2>4. QED
    BY <1>3, <2>1, <2>2, <2>3 DEF Proceed, FlagStep
<1>4. ASSUME NEW t \in Threads, Environment(t) PROVE Quiet
  <2>1. CASE PollStart(t) \/ IoctlStart(t) \/ PollTimeout(t)
    BY <2>1 DEF PollStart, IoctlStart, PollTimeout
  <2>2. CASE CallStart(t) \/ Interrupted(t)
    BY <2>2 DEF CallStart, Interrupted, Interruptible, Waiting, AfterLock
  <2>3. QED
    BY <1>4, <2>1, <2>2 DEF Environment
<1>5. QED
  BY <1>1, <1>2, <1>3, <1>4 DEF Next

\* What a test of the flag under the mutex does: nobody else is delivering.
LEMMA TestStep ==
    ASSUME TypeOK, MutexHeld, NEW t \in Threads, PollTest(t)
    PROVE  /\ ~Delivering
           /\ UNCHANGED <<ready, announced>>
           /\ Delivering' <=> ready = 1
           /\ delivered' = IF ready = 1 THEN delivered + 1 ELSE delivered
<1>1. ~Delivering
  BY MutualExclusion DEF PollTest, Goto, Delivering, Critical
<1>2. Delivering' <=> ready = 1
  BY <1>1 DEF PollTest, Goto, Delivering, TypeOK
<1>3. QED
  BY <1>1, <1>2 DEF PollTest

\* What the clear does: the delivery under way is over and the flag is down.
LEMMA ClearStep ==
    ASSUME TypeOK, MutexHeld, NEW t \in Threads, PollClear(t)
    PROVE  Delivering /\ ~Delivering' /\ ready' = 0 /\ UNCHANGED counters
<1>1. \A u \in Threads : pc[u] = "poll_clear" => u = t
  BY MutualExclusion DEF PollClear, Goto, Critical
<1>2. QED
  BY <1>1 DEF PollClear, Goto, Delivering, TypeOK, counters

\* What a write does to the flag: nobody is delivering.
LEMMA WithdrawStep ==
    ASSUME TypeOK, MutexHeld, NEW t \in Threads, WriteReady(t)
    PROVE  ~Delivering /\ ~Delivering' /\ ready' = 0 /\ UNCHANGED counters
<1>1. ~Delivering
  BY MutualExclusion DEF WriteReady, Goto, Delivering, Critical
<1>2. QED
  BY <1>1 DEF WriteReady, Goto, Delivering, TypeOK, counters

\* What the ioctl does to the flag, with no lock: a delivery under way stays.
LEMMA AnnounceStep ==
    ASSUME TypeOK, NEW t \in Threads, IoctlSet(t)
    PROVE  /\ Delivering' <=> Delivering
           /\ ready' = 1
           /\ announced' = announced + 1
           /\ delivered' = delivered
  BY DEF IoctlSet, Goto, Delivering, TypeOK, counters

\* Reported announcements are never more than those made.
LEMMA UnreportedPreserved ==
    TypeOK /\ MutexHeld /\ Unreported /\ [Next]_vars => Unreported'
<1> SUFFICES ASSUME TypeOK, MutexHeld, Unreported, [Next]_vars PROVE Unreported'
  OBVIOUS
<1>0. announced \in Nat /\ delivered \in Nat
  BY DEF TypeOK
<1>1. ASSUME NEW t \in Threads, PollTest(t) PROVE Unreported'
  BY <1>0, <1>1, TestStep DEF Unreported
<1>2. ASSUME NEW t \in Threads, PollClear(t) PROVE Unreported'
  BY <1>0, <1>2, ClearStep DEF Unreported, counters
<1>3. ASSUME NEW t \in Threads, WriteReady(t) PROVE Unreported'
  BY <1>0, <1>3, WithdrawStep DEF Unreported, counters
<1>4. ASSUME NEW t \in Threads, IoctlSet(t) PROVE Unreported'
  BY <1>0, <1>4, AnnounceStep DEF Unreported
<1>5. CASE ~\E t \in Threads : FlagStep(t)
  BY <1>0, <1>5, QuietSteps DEF Unreported
<1>6. QED
  BY <1>1, <1>2, <1>3, <1>4, <1>5 DEF FlagStep

-----------------------------------------------------------------------------
\* The inductive invariant holds in every reachable state.
THEOREM Invariance == Spec => []IInv
<1>1. Init => IInv
  BY InitIInv
<1>2. IInv /\ [Next]_vars => IInv'
  BY TypePreserved, MutexPreserved, RegisteredPreserved, WakeupPreserved, UnreportedPreserved
     DEF IInv
<1>3. QED
  BY <1>1, <1>2, PTL DEF Spec

\* The variables keep their types.
THEOREM TypeCorrect == Spec => []TypeOK
<1>1. IInv => TypeOK
  BY DEF IInv
<1>2. QED
  BY <1>1, Invariance, PTL

\* No poller sleeps through an announcement whose wake-up is over.
THEOREM WakeupNotLost == Spec => []NoLostWakeup
<1>1. IInv => NoLostWakeup
  BY DEF IInv, WakeupComes, Missed, Waking, NoLostWakeup
<1>2. QED
  BY <1>1, Invariance, PTL

\* No announcement is reported by two polls.
THEOREM ReportedOnce == Spec => []DeliveredAtMostOnce
<1>1. IInv => DeliveredAtMostOnce
  BY DEF IInv, Unreported, DeliveredAtMostOnce
<1>2. QED
  BY <1>1, Invariance, PTL

-----------------------------------------------------------------------------
\* Every step of the file is a step of the mailbox, or changes nothing in it.
LEMMA EventStep == IInv /\ [Next]_vars => [Event!Next]_(Event!vars)
<1> SUFFICES ASSUME IInv, [Next]_vars PROVE [Event!Next]_(Event!vars)
  OBVIOUS
<1> USE DEF IInv
<1> DEFINE Pending == ready = 1 /\ ~Delivering
<1>1. ASSUME NEW t \in Threads, PollTest(t) PROVE [Event!Next]_(Event!vars)
  <2>1. CASE ready = 1
    <3>1. Pending /\ ~Pending' /\ Delivering' /\ ~Delivering
      BY <1>1, <2>1, TestStep
    <3>2. delivered' = delivered + 1 /\ announced' = announced
      BY <1>1, <2>1, TestStep
    <3>3. Event!Deliver
      BY <3>1, <3>2 DEF Event!Deliver
    <3>4. QED
      BY <3>3 DEF Event!Next
  <2>2. CASE ready # 1
    <3>1. ~Pending /\ ~Pending' /\ ~Delivering' /\ ~Delivering
      BY <1>1, <2>2, TestStep
    <3>2. UNCHANGED counters
      BY <1>1, <2>2, TestStep DEF counters
    <3>3. Delivering' = Delivering /\ Pending' = Pending
      BY <3>1 DEF Delivering
    <3>4. QED
      BY <3>2, <3>3 DEF Event!vars, counters
  <2>3. QED
    BY <2>1, <2>2
<1>2. ASSUME NEW t \in Threads, PollClear(t) PROVE [Event!Next]_(Event!vars)
  <2>1. Delivering /\ ~Delivering' /\ ~Pending /\ ~Pending' /\ UNCHANGED counters
    BY <1>2, ClearStep
  <2>2. Event!EmptySlot
    BY <2>1 DEF Event!EmptySlot, counters
  <2>3. QED
    BY <2>2 DEF Event!Next
<1>3. ASSUME NEW t \in Threads, WriteReady(t) PROVE [Event!Next]_(Event!vars)
  <2>1. ~Delivering /\ ~Delivering' /\ ~Pending' /\ UNCHANGED counters
    BY <1>3, WithdrawStep
  <2>2. Delivering' = Delivering /\ Pending' = FALSE
    BY <2>1 DEF Delivering
  <2>3. Event!Withdraw
    BY <2>1, <2>2 DEF Event!Withdraw, counters
  <2>4. QED
    BY <2>3 DEF Event!Next
<1>4. ASSUME NEW t \in Threads, IoctlSet(t) PROVE [Event!Next]_(Event!vars)
  <2>1. (Delivering' <=> Delivering) /\ (Pending' <=> ~Delivering)
    BY <1>4, AnnounceStep
  <2>2. announced' = announced + 1 /\ delivered' = delivered
    BY <1>4, AnnounceStep
  <2>3. Event!Announce
    BY <2>1, <2>2 DEF Event!Announce, Delivering
  <2>4. QED
    BY <2>3 DEF Event!Next
<1>5. CASE ~\E t \in Threads : FlagStep(t)
  <2>1. UNCHANGED <<ready, announced, delivered>> /\ (Delivering' <=> Delivering)
    BY <1>5, QuietSteps
  <2>2. Delivering' = Delivering /\ Pending' = Pending
    BY <2>1 DEF Delivering
  <2>3. QED
    BY <2>1, <2>2 DEF Event!vars
<1>6. QED
  BY <1>1, <1>2, <1>3, <1>4, <1>5 DEF FlagStep

\* The file's flag implements the mailbox.
THEOREM FlagIsMailbox == Spec => ImplementsEventFlag
<1>1. Init => Event!Init
  BY DEF Init, Event!Init, Delivering
<1>2. IInv /\ [Next]_vars => [Event!Next]_(Event!vars)
  BY EventStep
<1>3. QED
  BY <1>1, <1>2, Invariance, PTL DEF Spec, ImplementsEventFlag, Event!Spec
=============================================================================
