---------------------------- MODULE SenseactPoll ----------------------------
(***************************************************************************)
(* The polled devices of senseact/trunk/drivers/senseact-poll.c: the open  *)
(* callback of a device starts the workqueue all of them share and queues  *)
(* the work that polls the device; the work queues itself again; the close *)
(* callback cancels it and stops the workqueue with the last user.  The    *)
(* core calls open and close of a device in turn (module SenseactCore).    *)
(*                                                                         *)
(* The workqueue of Linux is external: one thread runs one work at a time, *)
(* in the order the works were queued, and a work that is pending is not   *)
(* queued a second time.                                                   *)
(***************************************************************************)
EXTENDS Integers, Sequences, FiniteSets

CONSTANTS
  PollDevice,
  NoDevice,
  HotRemove   \* a device is unregistered although files of it are open

ASSUME PollDeviceAssumption == IsFiniteSet(PollDevice) /\ NoDevice \notin PollDevice
ASSUME HotRemoveAssumption == HotRemove \in BOOLEAN

VARIABLES
  dev,        \* life of the senseact_poll_device
  pc,         \* where open or close of the device is
  holder,     \* owner of senseact_poll_mutex
  users,      \* senseact_poll_users
  wq,         \* what senseact_poll_wq points to
  pending,    \* the PENDING bit of the work and who has it
  worklist,   \* works the thread is to run
  worker      \* device whose work runs

queueVars == <<pending, worklist, worker>>
startVars == <<holder, users, wq>>
vars == <<dev, pc, startVars, queueVars>>

PcState ==
  {"closed", "locking", "starting", "started", "open", "canceling", "canceled", "stopping"}

TypeOK ==
  /\ dev \in [PollDevice -> {"absent", "allocated", "registered", "unregistered"}]
  /\ pc \in [PollDevice -> PcState]
  /\ holder \in PollDevice \union {NoDevice}
  /\ users \in 0..Cardinality(PollDevice)
  /\ wq \in {"null", "alive", "destroyed"}
  /\ pending \in [PollDevice -> {"no", "timer", "list", "grabbed"}]
  /\ worklist \in Seq(PollDevice)
  /\ worker \in PollDevice \union {NoDevice}

Init ==
  /\ dev = [d \in PollDevice |-> "absent"]
  /\ pc = [d \in PollDevice |-> "closed"]
  /\ holder = NoDevice
  /\ users = 0
  /\ wq = "null"
  /\ pending = [d \in PollDevice |-> "no"]
  /\ worklist = <<>>
  /\ worker = NoDevice

DevGoes(d, from, to) ==
  /\ dev[d] = from
  /\ dev' = [dev EXCEPT ![d] = to]

Goes(d, from, to) ==
  /\ pc[d] = from
  /\ pc' = [pc EXCEPT ![d] = to]

(* queue_delayed_work: only a work that is not pending is queued. *)
QueueDelayedWork(d) ==
  pending' = [pending EXCEPT ![d] = IF @ = "no" THEN "timer" ELSE @]

(* The list without its entry at i. *)
Without(i) ==
  [j \in 1..(Len(worklist) - 1) |-> IF j < i THEN worklist[j] ELSE worklist[j + 1]]

-----------------------------------------------------------------------------
(* Plausible slips of the code, each of which one of the properties below  *)
(* has to notice; no action uses them.                                     *)

(* The user is counted before the workqueue is known to exist. *)
CreateFailsCounted(d) ==
  /\ users = 0
  /\ Goes(d, "starting", "closed")
  /\ users' = users + 1
  /\ holder' = NoDevice
  /\ UNCHANGED <<dev, wq, queueVars>>

(* The failing path returns with the mutex held. *)
CreateFailsLocked(d) ==
  /\ users = 0
  /\ Goes(d, "starting", "closed")
  /\ UNCHANGED <<dev, startVars, queueVars>>

(* cancel_delayed_work instead of cancel_delayed_work_sync. *)
WorkCanceledUnsynced(d) ==
  /\ pending[d] = "grabbed"
  /\ Goes(d, "canceling", "canceled")
  /\ pending' = [pending EXCEPT ![d] = "no"]
  /\ UNCHANGED <<dev, startVars, worklist, worker>>

(* The workqueue is destroyed whoever uses it. *)
StopWorkqueueAlways(d) ==
  /\ worklist = <<>> /\ worker = NoDevice
  /\ Goes(d, "stopping", "closed")
  /\ wq' = "destroyed"
  /\ holder' = NoDevice
  /\ UNCHANGED <<dev, users, queueVars>>

(* A poll that fails is the last one. *)
WorkReturnsOnError(d) ==
  /\ worker = d
  /\ worker' = NoDevice
  /\ \/ QueueDelayedWork(d)
     \/ UNCHANGED pending
  /\ UNCHANGED <<dev, pc, startVars, worklist>>

-----------------------------------------------------------------------------
(* The driver.                                                             *)

AllocatePollDevice(d) ==
  /\ pc[d] = "closed"
  /\ DevGoes(d, "absent", "allocated")
  /\ UNCHANGED <<pc, startVars, queueVars>>

RegisterPollDevice(d) ==
  /\ DevGoes(d, "allocated", "registered")
  /\ UNCHANGED <<pc, startVars, queueVars>>

(* senseact_unregister_device takes the mutex of the device, which the     *)
(* core holds while it opens or closes it: a call that is under way ends   *)
(* before.                                                                 *)
UnregisterPollDevice(d) ==
  /\ pc[d] = "closed" \/ (HotRemove /\ pc[d] = "open")
  /\ DevGoes(d, "registered", "unregistered")
  /\ UNCHANGED <<pc, startVars, queueVars>>

(* After it was unregistered, or when the core did not register it. *)
FreePollDevice(d) ==
  /\ \/ DevGoes(d, "allocated", "absent")
     \/ DevGoes(d, "unregistered", "absent")
  /\ UNCHANGED <<pc, startVars, queueVars>>

-----------------------------------------------------------------------------
(* senseact_poll_open                                                      *)

BeginOpen(d) ==
  /\ dev[d] = "registered"
  /\ Goes(d, "closed", "locking")
  /\ UNCHANGED <<dev, startVars, queueVars>>

LockInterrupted(d) ==
  /\ Goes(d, "locking", "closed")
  /\ UNCHANGED <<dev, startVars, queueVars>>

LockToStart(d) ==
  /\ Goes(d, "locking", "starting")
  /\ holder = NoDevice
  /\ holder' = d
  /\ UNCHANGED <<dev, users, wq, queueVars>>

(* -ENOMEM *)
CreateFails(d) ==
  /\ users = 0
  /\ Goes(d, "starting", "closed")
  /\ holder' = NoDevice
  /\ UNCHANGED <<dev, users, wq, queueVars>>

StartWorkqueue(d) ==
  /\ Goes(d, "starting", "started")
  /\ wq' = IF users = 0 THEN "alive" ELSE wq
  /\ users' = users + 1
  /\ holder' = NoDevice
  /\ UNCHANGED <<dev, queueVars>>

QueueFirstWork(d) ==
  /\ Goes(d, "started", "open")
  /\ QueueDelayedWork(d)
  /\ UNCHANGED <<dev, startVars, worklist, worker>>

-----------------------------------------------------------------------------
(* senseact_poll_close                                                     *)

BeginClose(d) ==
  /\ Goes(d, "open", "canceling")
  /\ UNCHANGED <<dev, startVars, queueVars>>

(* cancel_delayed_work_sync takes the PENDING bit from the timer or the    *)
(* list, so that a running work cannot queue itself again ...              *)
GrabPending(d) ==
  /\ pc[d] = "canceling" /\ pending[d] # "grabbed"
  /\ pending' = [pending EXCEPT ![d] = "grabbed"]
  /\ \/ /\ pending[d] # "list"
        /\ UNCHANGED worklist
     \/ /\ pending[d] = "list"
        /\ \E i \in 1..Len(worklist) : worklist[i] = d /\ worklist' = Without(i)
  /\ UNCHANGED <<dev, pc, startVars, worker>>

(* ... and waits for the work to end. *)
WorkCanceled(d) ==
  /\ pending[d] = "grabbed" /\ worker # d
  /\ Goes(d, "canceling", "canceled")
  /\ pending' = [pending EXCEPT ![d] = "no"]
  /\ UNCHANGED <<dev, startVars, worklist, worker>>

LockToStop(d) ==
  /\ Goes(d, "canceled", "stopping")
  /\ holder = NoDevice
  /\ holder' = d
  /\ users' = users - 1
  /\ UNCHANGED <<dev, wq, queueVars>>

(* destroy_workqueue waits until the thread has nothing left to run. *)
StopWorkqueue(d) ==
  /\ users = 0 => worklist = <<>> /\ worker = NoDevice
  /\ Goes(d, "stopping", "closed")
  /\ wq' = IF users = 0 THEN "destroyed" ELSE wq
  /\ holder' = NoDevice
  /\ UNCHANGED <<dev, users, queueVars>>

-----------------------------------------------------------------------------
(* The timer and the thread of the workqueue.                              *)

TimerExpires(d) ==
  /\ pending[d] = "timer"
  /\ pending' = [pending EXCEPT ![d] = "list"]
  /\ worklist' = Append(worklist, d)
  /\ UNCHANGED <<dev, pc, startVars, worker>>

(* senseact_poll_work begins with the poll callback of the driver. *)
RunWork(d) ==
  /\ wq = "alive"
  /\ worker = NoDevice
  /\ worklist # <<>> /\ Head(worklist) = d
  /\ worker' = d
  /\ worklist' = Tail(worklist)
  /\ pending' = [pending EXCEPT ![d] = "no"]
  /\ UNCHANGED <<dev, pc, startVars>>

(* Whatever the poll returned, the work queues itself again. *)
WorkReturns(d) ==
  /\ worker = d
  /\ worker' = NoDevice
  /\ QueueDelayedWork(d)
  /\ UNCHANGED <<dev, pc, startVars, worklist>>

-----------------------------------------------------------------------------
DriverStep(d) ==
  \/ AllocatePollDevice(d) \/ RegisterPollDevice(d)
  \/ UnregisterPollDevice(d) \/ FreePollDevice(d)

OpenStep(d) ==
  \/ LockToStart(d) \/ CreateFails(d) \/ StartWorkqueue(d) \/ QueueFirstWork(d)

CloseStep(d) ==
  GrabPending(d) \/ WorkCanceled(d) \/ LockToStop(d) \/ StopWorkqueue(d)

WorkStep(d) == TimerExpires(d) \/ RunWork(d) \/ WorkReturns(d)

Next ==
  \E d \in PollDevice :
    \/ DriverStep(d)
    \/ BeginOpen(d) \/ LockInterrupted(d) \/ OpenStep(d)
    \/ BeginClose(d) \/ CloseStep(d)
    \/ WorkStep(d)

Spec == Init /\ [][Next]_vars

(* Timers expire, the thread runs, and a call that is under way goes on.   *)
(* Those who wait for a mutex of the kernel get it in turn, so strong      *)
(* fairness of the lock holds.  No signal and no failure has to come.      *)
Fairness ==
  \A d \in PollDevice :
    /\ WF_vars(TimerExpires(d))
    /\ WF_vars(RunWork(d))
    /\ WF_vars(WorkReturns(d))
    /\ SF_vars(LockToStart(d))
    /\ SF_vars(LockToStop(d))
    /\ WF_vars(StartWorkqueue(d) \/ QueueFirstWork(d))
    /\ WF_vars(GrabPending(d) \/ WorkCanceled(d) \/ StopWorkqueue(d))

FairSpec == Spec /\ Fairness

-----------------------------------------------------------------------------
(* Devices whose open got the workqueue and whose close has not yet given  *)
(* it back.                                                                *)
Users == {d \in PollDevice : pc[d] \in {"started", "open", "canceling", "canceled"}}

(* The count of users is exact and the workqueue exists as long as         *)
(* somebody uses it, whatever opens, failed opens and closes of several    *)
(* devices overlap.                                                        *)
WorkqueueIffUsed ==
  /\ users = Cardinality(Users)
  /\ holder = NoDevice => (wq = "alive" <=> users > 0)

(* No work is pending or runs on a workqueue that was not created or is    *)
(* destroyed: senseact_poll_work reads senseact_poll_wq without the mutex. *)
WorkOnLiveWorkqueue ==
  \A d \in PollDevice : pending[d] # "no" \/ worker = d => wq = "alive"

(* When close has cancelled the work of a device it is not polled until it *)
(* is opened again, though the work it cancelled re-queues itself.         *)
NoPollWhenClosed ==
  \A d \in PollDevice :
    pc[d] \notin {"open", "canceling"} => pending[d] = "no" /\ worker # d

(* An open device is polled again and again, whatever the others do. *)
KeepsPolling == \A d \in PollDevice : pc[d] = "open" ~> worker = d \/ pc[d] # "open"

(* Open and close return: neither waits for the mutex, nor for a work that *)
(* queues itself, for ever.                                                *)
CallsReturn ==
  \A d \in PollDevice : pc[d] \notin {"open", "closed"} ~> pc[d] \in {"open", "closed"}

(* What senseact_unregister_poll_device says of itself: "Polling is        *)
(* stopped and device is ready to be freed".                               *)
PollingStopsWithDevice ==
  \A d \in PollDevice : dev[d] = "unregistered" => pending[d] = "no" /\ worker # d
=============================================================================
