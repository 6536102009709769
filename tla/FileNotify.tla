------------------------------ MODULE FileNotify ------------------------------
(***************************************************************************)
(* The ready notification of one file (file.c): threads that poll the      *)
(* file, announce data with the LKE_FS_FILE_IOCREADY ioctl, write it, read *)
(* it and open it for writing, all at the same time.                       *)
(*                                                                         *)
(* The file's mutex protects the data and the test-and-clear in poll; the  *)
(* ioctl sets the flag and wakes the pollers without it.  Each access to   *)
(* the shared flag and each lock operation is a step of its own.           *)
(*                                                                         *)
(* External, modelled from how lke_fs_file_poll uses it: do_poll of the    *)
(* kernel scans the file, sleeps until its wait queue entry is triggered   *)
(* or time runs out, and scans again; poll_wait adds the entry during the  *)
(* first scan only and a poll with no timeout never adds it.               *)
(***************************************************************************)
EXTENDS Naturals

CONSTANTS
    Threads,        \* threads with the file open
    NoOwner,        \* nobody holds the mutex
    MaxAnnounced    \* bound: no ioctl starts after this many have set the flag

ASSUME ThreadsAssumption == NoOwner \notin Threads
ASSUME BoundAssumption == MaxAnnounced \in Nat

VARIABLES
    owner,       \* the thread that holds lke_file_entity -> lock
    ready,       \* lke_file_entity -> ready
    outq,        \* threads with an entry in lke_file_entity -> outq
    triggered,   \* per thread: its entry was woken since the last sleep
    lastScan,    \* per thread: the poll ends after this scan (timeout, signal)
    mask,        \* per thread: lke_fs_file_poll answers POLLIN
    pc,          \* per thread: the next step of its system call
    announced,   \* history: ioctls that set the flag
    delivered    \* history: polls that answer POLLIN

vars == <<owner, ready, outq, triggered, lastScan, mask, pc, announced, delivered>>
counters == <<announced, delivered>>
poller == <<triggered, lastScan, mask>>

\* The steps between mutex_lock and mutex_unlock.
Critical ==
    {"poll_wait", "poll_test", "poll_clear", "poll_unlock",
     "write", "write_ready", "write_unlock", "read", "open"}

\* The steps that wait for the mutex, and the one that follows in each call.
AfterLock ==
    [poll_lock |-> "poll_wait", write_lock |-> "write", read_lock |-> "read", open_lock |-> "open"]

Waiting == DOMAIN AfterLock

\* The calls that wait with mutex_lock_interruptible; poll waits with mutex_lock.
Interruptible == Waiting \ {"poll_lock"}

Steps == {"idle", "poll_sleep", "ioctl_set", "ioctl_wake"} \cup Waiting \cup Critical

Goto(t, from, to) == pc[t] = from /\ pc' = [pc EXCEPT ![t] = to]

Init ==
    /\ owner = NoOwner
    /\ ready = 0
    /\ outq = {}
    /\ triggered = [t \in Threads |-> FALSE]
    /\ lastScan = [t \in Threads |-> FALSE]
    /\ mask = [t \in Threads |-> FALSE]
    /\ pc = [t \in Threads |-> "idle"]
    /\ announced = 0
    /\ delivered = 0

-----------------------------------------------------------------------------
(* The mutex *)

\* Mutant of Lock: the mutex is taken without a look at its owner.
LockRegardless(t) ==
    /\ pc[t] \in Waiting
    /\ owner' = t
    /\ pc' = [pc EXCEPT ![t] = AfterLock[pc[t]]]
    /\ UNCHANGED <<ready, outq, poller, counters>>

Lock(t) ==
    /\ pc[t] \in Waiting
    /\ owner = NoOwner
    /\ owner' = t
    /\ pc' = [pc EXCEPT ![t] = AfterLock[pc[t]]]
    /\ UNCHANGED <<ready, outq, poller, counters>>

\* A signal ends the wait: the call returns -ERESTARTSYS and changed nothing.
Interrupted(t) ==
    /\ pc[t] \in Interruptible
    /\ pc' = [pc EXCEPT ![t] = "idle"]
    /\ UNCHANGED <<owner, ready, outq, poller, counters>>

Unlock(t, from, to) ==
    /\ Goto(t, from, to)
    /\ owner' = NoOwner

-----------------------------------------------------------------------------
(* poll *)

\* With no timeout the first scan is the last.
PollStart(t) ==
    /\ Goto(t, "idle", "poll_lock")
    /\ \E nonblocking \in BOOLEAN : lastScan' = [lastScan EXCEPT ![t] = nonblocking]
    /\ UNCHANGED <<owner, ready, outq, triggered, mask, counters>>

\* Mutant of PollWait: the call of poll_wait is dropped.
PollWaitDropped(t) ==
    /\ Goto(t, "poll_wait", "poll_test")
    /\ UNCHANGED <<owner, ready, outq, poller, counters>>

PollWait(t) ==
    /\ Goto(t, "poll_wait", "poll_test")
    /\ outq' = IF lastScan[t] THEN outq ELSE outq \cup {t}
    /\ UNCHANGED <<owner, ready, poller, counters>>

\* Mutant of PollTest: answers POLLIN and leaves the flag up.
PollTestKeepsFlag(t) ==
    /\ Goto(t, "poll_test", "poll_unlock")
    /\ mask' = [mask EXCEPT ![t] = (ready = 1)]
    /\ delivered' = IF ready = 1 THEN delivered + 1 ELSE delivered
    /\ UNCHANGED <<owner, ready, outq, triggered, lastScan, announced>>

PollTest(t) ==
    /\ Goto(t, "poll_test", IF ready = 1 THEN "poll_clear" ELSE "poll_unlock")
    /\ mask' = [mask EXCEPT ![t] = (ready = 1)]
    /\ delivered' = IF ready = 1 THEN delivered + 1 ELSE delivered
    /\ UNCHANGED <<owner, ready, outq, triggered, lastScan, announced>>

PollClear(t) ==
    /\ Goto(t, "poll_clear", "poll_unlock")
    /\ ready' = 0
    /\ UNCHANGED <<owner, outq, poller, counters>>

\* The kernel's loop goes on: sleep if there is nothing to report and time left.
PollSleep(t) ==
    /\ ~mask[t] /\ ~lastScan[t]
    /\ Unlock(t, "poll_unlock", "poll_sleep")
    /\ UNCHANGED <<ready, outq, poller, counters>>

\* The kernel's loop ends and takes the entry out of the queue.
PollReturn(t) ==
    /\ mask[t] \/ lastScan[t]
    /\ Unlock(t, "poll_unlock", "idle")
    /\ outq' = outq \ {t}
    /\ triggered' = [triggered EXCEPT ![t] = FALSE]
    /\ lastScan' = [lastScan EXCEPT ![t] = FALSE]
    /\ mask' = [mask EXCEPT ![t] = FALSE]
    /\ UNCHANGED <<ready, counters>>

\* The sleep ends because the entry was triggered; the file is scanned again.
PollWoken(t) ==
    /\ triggered[t]
    /\ Goto(t, "poll_sleep", "poll_lock")
    /\ triggered' = [triggered EXCEPT ![t] = FALSE]
    /\ UNCHANGED <<owner, ready, outq, lastScan, mask, counters>>

\* The sleep ends because of the timeout or a signal: one more scan, the last.
PollTimeout(t) ==
    /\ Goto(t, "poll_sleep", "poll_lock")
    /\ triggered' = [triggered EXCEPT ![t] = FALSE]
    /\ lastScan' = [lastScan EXCEPT ![t] = TRUE]
    /\ UNCHANGED <<owner, ready, outq, mask, counters>>

-----------------------------------------------------------------------------
(* ioctl *)

\* A command with another magic, number or code answers -ENOTTY and changes
\* nothing; it is not a step.
IoctlStart(t) ==
    /\ announced < MaxAnnounced
    /\ Goto(t, "idle", "ioctl_set")
    /\ UNCHANGED <<owner, ready, outq, poller, counters>>

\* Mutant of IoctlSet: the flag counts the announcements.
IoctlCounts(t) ==
    /\ Goto(t, "ioctl_set", "ioctl_wake")
    /\ ready' = ready + 1
    /\ announced' = announced + 1
    /\ UNCHANGED <<owner, outq, poller, delivered>>

IoctlSet(t) ==
    /\ Goto(t, "ioctl_set", "ioctl_wake")
    /\ ready' = 1
    /\ announced' = announced + 1
    /\ UNCHANGED <<owner, outq, poller, delivered>>

\* Mutant of IoctlWake: nobody is woken.
IoctlNoWake(t) ==
    /\ Goto(t, "ioctl_wake", "idle")
    /\ UNCHANGED <<owner, ready, outq, poller, counters>>

\* wake_up_interruptible triggers every entry of the queue.
IoctlWake(t) ==
    /\ Goto(t, "ioctl_wake", "idle")
    /\ triggered' = [u \in Threads |-> triggered[u] \/ u \in outq]
    /\ UNCHANGED <<owner, ready, outq, lastScan, mask, counters>>

-----------------------------------------------------------------------------
(* write, read and open *)

CallStart(t) ==
    /\ \E call \in Interruptible : Goto(t, "idle", call)
    /\ UNCHANGED <<owner, ready, outq, poller, counters>>

\* Under the mutex the write stores its bytes, or leaves early without memory
\* or with a bad buffer.
WriteData(t) ==
    /\ \E to \in {"write_ready", "write_unlock"} : Goto(t, "write", to)
    /\ UNCHANGED <<owner, ready, outq, poller, counters>>

\* A write that stored something withdraws the announcement.
WriteReady(t) ==
    /\ Goto(t, "write_ready", "write_unlock")
    /\ ready' = 0
    /\ UNCHANGED <<owner, outq, poller, counters>>

WriteReturn(t) ==
    /\ Unlock(t, "write_unlock", "idle")
    /\ UNCHANGED <<ready, outq, poller, counters>>

\* read copies data out and open trims the file; neither touches the flag.
ReadReturn(t) ==
    /\ Unlock(t, "read", "idle")
    /\ UNCHANGED <<ready, outq, poller, counters>>

OpenReturn(t) ==
    /\ Unlock(t, "open", "idle")
    /\ UNCHANGED <<ready, outq, poller, counters>>

-----------------------------------------------------------------------------
\* The steps of a call under way that the kernel goes through by itself.
Proceed(t) ==
    \/ PollWait(t) \/ PollTest(t) \/ PollClear(t) \/ PollSleep(t) \/ PollReturn(t) \/ PollWoken(t)
    \/ IoctlSet(t) \/ IoctlWake(t)
    \/ WriteData(t) \/ WriteReady(t) \/ WriteReturn(t) \/ ReadReturn(t) \/ OpenReturn(t)

\* What user programs, signals and timers choose.
Environment(t) ==
    \/ PollStart(t) \/ IoctlStart(t) \/ CallStart(t)
    \/ PollTimeout(t) \/ Interrupted(t)

Next == \E t \in Threads : Lock(t) \/ Proceed(t) \/ Environment(t)

\* A thread inside the kernel keeps running, and the mutex is handed to a
\* waiter that was passed over, so nobody waits for it for ever.
Fairness == \A t \in Threads : WF_vars(Proceed(t)) /\ SF_vars(Lock(t))

Spec == Init /\ [][Next]_vars
FairSpec == Spec /\ Fairness

-----------------------------------------------------------------------------
(* Properties *)

\* The types of the variables; the flag is 0 or 1 however many ioctls raise it.
TypeOK ==
    /\ owner \in Threads \cup {NoOwner}
    /\ ready \in {0, 1}
    /\ outq \subseteq Threads
    /\ triggered \in [Threads -> BOOLEAN]
    /\ lastScan \in [Threads -> BOOLEAN]
    /\ mask \in [Threads -> BOOLEAN]
    /\ pc \in [Threads -> Steps]
    /\ announced \in Nat
    /\ delivered \in Nat

\* A poller does not sleep through an announcement: if the flag is up and a
\* sleeping poller was not triggered, the ioctl that raised the flag has still
\* to wake it.  The ioctl takes no lock, so this rests on the order of
\* poll_wait before the test and of the flag before wake_up_interruptible.
NoLostWakeup ==
    \A t \in Threads :
        (pc[t] = "poll_sleep" /\ ready = 1 /\ ~triggered[t]) =>
            \E u \in Threads : pc[u] = "ioctl_wake"

\* One announcement is reported by one poll at most, however many pollers the
\* ioctl wakes: the test and the clear in lke_fs_file_poll are one step to the
\* other pollers, though not to the ioctl.
DeliveredAtMostOnce == delivered <= announced

\* A poll has seen the flag and is about to clear it.
Delivering == \E t \in Threads : pc[t] = "poll_clear"
Event == INSTANCE EventFlag WITH pending <- ready = 1 /\ ~Delivering, delivering <- Delivering

\* The flag is a one-slot mailbox: an announcement waits in it unless a poll has
\* seen it and is about to clear the flag.  Threads that write, poll and
\* announce at the same time lose no announcement but in that gap, and report
\* none twice.
ImplementsEventFlag == Event!Spec

\* A poller that sleeps while the flag is up gets the mutex and sees the flag,
\* unless another poll or a write lowered it first.
SleeperAnswered ==
    \A t \in Threads : (pc[t] = "poll_sleep" /\ ready = 1) ~> ready = 0
=============================================================================
