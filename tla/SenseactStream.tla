--------------------------- MODULE SenseactStream ---------------------------
(***************************************************************************)
(* Actions on their way from the driver of one senseact device to the      *)
(* processes that read its files (senseact/trunk/drivers/senseact.c): the  *)
(* driver walks the list of queues under RCU and wakes the readers once a  *)
(* batch is in; readers sleep on the wait queue of the device; files are   *)
(* released, and the device unregistered, at any time.  A file has one     *)
(* reader.                                                                 *)
(***************************************************************************)
EXTENDS ActionRing, FiniteSets

CONSTANTS
  File,       \* struct file objects opened on the device
  MaxBatch,   \* bound: actions passed by one senseact_pass_actions
  ReadMax,    \* actions that fit the buffer of a read
  Reader      \* the files that are read; the others are opened and released

ASSUME StreamAssumption == MaxBatch \in Nat /\ ReadMax \in Nat /\ Reader \subseteq File

VARIABLES
  queue,      \* the ring of each file
  list,       \* senseact->queue_list
  drv,        \* where the driver is inside senseact_pass_actions
  left,       \* actions of the batch still to be inserted
  todo,       \* the queues the walk of the current action can still visit
  grace,      \* files whose synchronize_rcu waits for the walk in progress
  waiters,    \* processes on senseact->wait
  pc,         \* where the call on a file is
  op,         \* the call under way: "none", "read" or "poll"
  got,        \* actions the read has copied so far
  goingAway,  \* senseact->going_away
  remover,    \* senseact_unregister_device: "no", "marked" or "done"
  overran     \* history: the ring of the file overran since its call began

passVars == <<drv, left, todo>>
callVars == <<pc, op, got>>
removeVars == <<goingAway, remover>>
vars == <<queue, list, passVars, grace, waiters, callVars, removeVars, overran>>

FileState ==
  {"closed", "idle", "prepare", "test", "asleep", "woken", "fetch", "detached"}

TypeOK ==
  /\ queue \in [File -> Ring]
  /\ list \subseteq File
  /\ drv \in {"idle", "batch", "walk"}
  /\ left \in 0..MaxBatch
  /\ todo \subseteq File
  /\ grace \subseteq File
  /\ waiters \subseteq File
  /\ pc \in [File -> FileState]
  /\ op \in [File -> {"none", "read", "poll"}]
  /\ got \in [File -> 0..ReadMax]
  /\ goingAway \in BOOLEAN
  /\ remover \in {"no", "marked", "done"}
  /\ overran \in [File -> BOOLEAN]

Init ==
  /\ queue = [f \in File |-> NewRing]
  /\ list = {}
  /\ drv = "idle" /\ left = 0 /\ todo = {}
  /\ grace = {} /\ waiters = {}
  /\ pc = [f \in File |-> "closed"]
  /\ op = [f \in File |-> "none"]
  /\ got = [f \in File |-> 0]
  /\ goingAway = FALSE /\ remover = "no"
  /\ overran = [f \in File |-> FALSE]

(* What a reader waits for. *)
Condition(f) == ~Empty(queue[f]) \/ goingAway

FileGoes(f, from, to) ==
  /\ pc[f] = from
  /\ pc' = [pc EXCEPT ![f] = to]

(* A call returns to its process; what it held is forgotten. *)
CallReturns(f) ==
  /\ pc' = [pc EXCEPT ![f] = "idle"]
  /\ op' = [op EXCEPT ![f] = "none"]
  /\ got' = [got EXCEPT ![f] = 0]
  /\ overran' = [overran EXCEPT ![f] = FALSE]

-----------------------------------------------------------------------------
(* Plausible slips of the code, each of which one of the properties below  *)
(* has to notice; no action uses them.                                     *)

(* The read compares its offset with the count, not what it is to copy. *)
FetchActionTooLong(f) ==
  /\ pc[f] = "fetch"
  /\ got[f] <= ReadMax /\ ~Empty(queue[f])
  /\ queue' = [queue EXCEPT ![f] = Fetched(@)]
  /\ got' = [got EXCEPT ![f] = @ + 1]
  /\ UNCHANGED <<list, passVars, grace, waiters, pc, op, removeVars, overran>>

(* kfree without synchronize_rcu. *)
FreeQueueAtOnce(f) ==
  /\ FileGoes(f, "detached", "closed")
  /\ grace' = grace \ {f}
  /\ UNCHANGED <<queue, list, passVars, waiters, op, got, removeVars, overran>>

(* A batch, or a removal, wakes nobody. *)
WakeReadersNot ==
  /\ drv = "batch" /\ left = 0
  /\ drv' = "idle"
  /\ UNCHANGED <<queue, list, left, todo, grace, waiters, callVars, removeVars, overran>>

WakeOnRemoveNot ==
  /\ remover = "marked"
  /\ remover' = "done"
  /\ UNCHANGED <<queue, list, passVars, grace, waiters, callVars, goingAway, overran>>

(* The woken process does not test again. *)
WakeUpUntested(f) ==
  /\ f \notin waiters
  /\ op[f] = "read"
  /\ FileGoes(f, "asleep", "woken")
  /\ UNCHANGED <<queue, list, passVars, grace, waiters, op, got, removeVars, overran>>

(* The read section of a walk is never left. *)
EndWalkLocked ==
  /\ drv = "walk" /\ todo = {}
  /\ drv' = "batch"
  /\ left' = left - 1
  /\ UNCHANGED <<queue, list, todo, grace, waiters, callVars, removeVars, overran>>

-----------------------------------------------------------------------------
(* The driver inside senseact_pass_actions, with action_lock held.         *)

PassActions(n) ==
  /\ drv = "idle"
  /\ drv' = "batch"
  /\ left' = n
  /\ UNCHANGED <<queue, list, todo, grace, waiters, callVars, removeVars, overran>>

(* rcu_read_lock *)
BeginWalk ==
  /\ drv = "batch" /\ left > 0
  /\ drv' = "walk"
  /\ todo' = list
  /\ UNCHANGED <<queue, list, left, grace, waiters, callVars, removeVars, overran>>

(* senseact_queue_insert_action on one queue of the walk *)
InsertInto(f, a) ==
  /\ drv = "walk" /\ f \in todo
  /\ todo' = todo \ {f}
  /\ queue' = [queue EXCEPT ![f] = Inserted(@, a)]
  /\ overran' = [overran EXCEPT ![f] =
                   @ \/ (op[f] = "read" /\ Outstanding(queue[f]) = BufferSize - 1)]
  /\ UNCHANGED <<list, drv, left, grace, waiters, callVars, removeVars>>

(* rcu_read_unlock ends every grace period that waited for this walk. *)
EndWalk ==
  /\ drv = "walk" /\ todo = {}
  /\ drv' = "batch"
  /\ left' = left - 1
  /\ grace' = {}
  /\ UNCHANGED <<queue, list, todo, waiters, callVars, removeVars, overran>>

(* wake_up_interruptible *)
WakeReaders ==
  /\ drv = "batch" /\ left = 0
  /\ drv' = "idle"
  /\ waiters' = {}
  /\ UNCHANGED <<queue, list, left, todo, grace, callVars, removeVars, overran>>

-----------------------------------------------------------------------------
(* senseact_unregister_device as far as readers notice it.                 *)

MarkGoingAway ==
  /\ remover = "no"
  /\ goingAway' = TRUE
  /\ remover' = "marked"
  /\ UNCHANGED <<queue, list, passVars, grace, waiters, callVars, overran>>

WakeOnRemove ==
  /\ remover = "marked"
  /\ remover' = "done"
  /\ waiters' = {}
  /\ UNCHANGED <<queue, list, passVars, grace, callVars, goingAway, overran>>

-----------------------------------------------------------------------------
(* The calls on a file.                                                    *)

(* A walk in progress may still reach a queue that is added at the tail.   *)
OpenFile(f) ==
  /\ FileGoes(f, "closed", "idle")
  /\ ~goingAway
  /\ list' = list \union {f}
  /\ queue' = [queue EXCEPT ![f] = NewRing]
  /\ \/ todo' = todo
     \/ drv = "walk" /\ todo' = todo \union {f}
  /\ UNCHANGED <<drv, left, grace, waiters, op, got, removeVars, overran>>

(* senseact_read_file up to the wait; with O_NONBLOCK it returns -EAGAIN   *)
(* on an empty ring, which changes nothing.  A select or poll of the file  *)
(* waits in the same way.                                                  *)
BeginCall(f, call) ==
  /\ f \in Reader
  /\ FileGoes(f, "idle", "prepare")
  /\ call = "read" => ~goingAway
  /\ op' = [op EXCEPT ![f] = call]
  /\ UNCHANGED <<queue, list, passVars, grace, waiters, got, removeVars, overran>>

(* prepare_to_wait or poll_wait: on the wait queue before the condition is *)
(* tested.                                                                 *)
PrepareToWait(f) ==
  /\ FileGoes(f, "prepare", "test")
  /\ waiters' = waiters \union {f}
  /\ UNCHANGED <<queue, list, passVars, grace, op, got, removeVars, overran>>

FallAsleep(f) ==
  /\ FileGoes(f, "test", "asleep")
  /\ ~Condition(f)
  /\ UNCHANGED <<queue, list, passVars, grace, waiters, op, got, removeVars, overran>>

LeaveWait(f) ==
  /\ pc[f] = "test" /\ Condition(f)
  /\ waiters' = waiters \ {f}
  /\ \/ /\ op[f] = "poll"
        /\ CallReturns(f)
     \/ /\ op[f] = "read"
        /\ FileGoes(f, "test", "woken")
        /\ UNCHANGED <<op, got, overran>>
  /\ UNCHANGED <<queue, list, passVars, grace, removeVars>>

(* A wake-up took the process off the wait queue: it tests again. *)
WakeUp(f) ==
  /\ f \notin waiters
  /\ FileGoes(f, "asleep", "prepare")
  /\ UNCHANGED <<queue, list, passVars, grace, waiters, op, got, removeVars, overran>>

(* A signal ends the wait. *)
Interrupted(f) ==
  /\ pc[f] = "asleep"
  /\ waiters' = waiters \ {f}
  /\ CallReturns(f)
  /\ UNCHANGED <<queue, list, passVars, grace, removeVars>>

(* After the wait going_away is tested again: -ENODEV. *)
ReadRefused(f) ==
  /\ pc[f] = "woken" /\ goingAway
  /\ CallReturns(f)
  /\ UNCHANGED <<queue, list, passVars, grace, waiters, removeVars>>

BeginFetch(f) ==
  /\ FileGoes(f, "woken", "fetch")
  /\ ~goingAway
  /\ UNCHANGED <<queue, list, passVars, grace, waiters, op, got, removeVars, overran>>

FetchAction(f) ==
  /\ pc[f] = "fetch"
  /\ got[f] < ReadMax /\ ~Empty(queue[f])
  /\ queue' = [queue EXCEPT ![f] = Fetched(@)]
  /\ got' = [got EXCEPT ![f] = @ + 1]
  /\ UNCHANGED <<list, passVars, grace, waiters, pc, op, removeVars, overran>>

(* copy_to_user fails: the action is lost, and -EFAULT hides the others.   *)
CopyFaults(f) ==
  /\ pc[f] = "fetch"
  /\ got[f] < ReadMax /\ ~Empty(queue[f])
  /\ queue' = [queue EXCEPT ![f] = Fetched(@)]
  /\ CallReturns(f)
  /\ UNCHANGED <<list, passVars, grace, waiters, removeVars>>

ReadReturns(f) ==
  /\ pc[f] = "fetch"
  /\ got[f] = ReadMax \/ Empty(queue[f])
  /\ CallReturns(f)
  /\ UNCHANGED <<queue, list, passVars, grace, waiters, removeVars>>

(* senseact_release_file: list_del_rcu leaves a walk in progress free to   *)
(* visit the queue or to miss it; kfree comes after synchronize_rcu.       *)
DetachQueue(f) ==
  /\ FileGoes(f, "idle", "detached")
  /\ list' = list \ {f}
  /\ \/ todo' = todo
     \/ todo' = todo \ {f}
  /\ grace' = IF drv = "walk" THEN grace \union {f} ELSE grace
  /\ UNCHANGED <<queue, drv, left, waiters, op, got, removeVars, overran>>

FreeQueue(f) ==
  /\ f \notin grace
  /\ FileGoes(f, "detached", "closed")
  /\ UNCHANGED <<queue, list, passVars, grace, waiters, op, got, removeVars, overran>>

-----------------------------------------------------------------------------
DriverNext ==
  \/ \E n \in 1..MaxBatch : PassActions(n)
  \/ BeginWalk
  \/ \E f \in File, a \in Action : InsertInto(f, a)
  \/ EndWalk
  \/ WakeReaders

FileNext(f) ==
  \/ OpenFile(f) \/ \E call \in {"read", "poll"} : BeginCall(f, call)
  \/ PrepareToWait(f) \/ FallAsleep(f) \/ LeaveWait(f) \/ WakeUp(f) \/ Interrupted(f)
  \/ ReadRefused(f) \/ BeginFetch(f) \/ FetchAction(f) \/ CopyFaults(f) \/ ReadReturns(f)
  \/ DetachQueue(f) \/ FreeQueue(f)

Next ==
  \/ DriverNext
  \/ MarkGoingAway \/ WakeOnRemove
  \/ \E f \in File : FileNext(f)

Spec == Init /\ [][Next]_vars

(* A batch that was begun, a removal that was begun and a process that can *)
(* run go on.  Nothing makes the driver pass another batch, a process call *)
(* read or poll, or the device go away, and no signal or fault has to come.   *)
Fairness ==
  /\ WF_vars(BeginWalk)
  /\ WF_vars(\E f \in File, a \in Action : InsertInto(f, a))
  /\ WF_vars(EndWalk)
  /\ WF_vars(WakeReaders)
  /\ WF_vars(WakeOnRemove)
  /\ \A f \in File :
       WF_vars(\/ PrepareToWait(f) \/ FallAsleep(f) \/ LeaveWait(f) \/ WakeUp(f)
               \/ ReadRefused(f) \/ BeginFetch(f) \/ FetchAction(f) \/ ReadReturns(f)
               \/ FreeQueue(f))

FairSpec == Spec /\ Fairness

-----------------------------------------------------------------------------
(* The walk inserts into allocated queues only: a release that overlaps it *)
(* frees the queue after the walk (synchronize_rcu before kfree).          *)
NoInsertAfterFree == \A f \in todo : pc[f] # "closed"

(* No wake-up is lost: a reader sleeps on data, or on a device going away, *)
(* only while the wake-up for it is still to come.  Data without a pending *)
(* batch, or an unregistered device, never leaves a process asleep.        *)
NoLostWakeUp ==
  \A f \in File :
    pc[f] = "asleep" /\ f \in waiters =>
      /\ ~Empty(queue[f]) => drv # "idle"
      /\ goingAway => remover = "marked"

(* A blocking read comes back with nothing, which readers such as the tool *)
(* senseact take for the end of the file, only when the ring overran while *)
(* the read was under way.                                                 *)
EmptyReadOnlyAfterOverrun ==
  \A f \in File :
    pc[f] = "fetch" /\ got[f] = 0 /\ Empty(queue[f]) => overran[f]

(* Every call still under way on a device that goes away returns.          *)
CallsEndOnRemoval == \A f \in File : goingAway /\ op[f] # "none" ~> op[f] = "none"

(* A process asleep on data is woken and returns, unless the data is lost  *)
(* to an overrun first.                                                    *)
DataWakesReader ==
  \A f \in File :
    pc[f] = "asleep" /\ ~Empty(queue[f]) ~> op[f] = "none" \/ Empty(queue[f])

(* A release ends although the driver keeps walking the list.              *)
ReleaseEnds == \A f \in File : pc[f] = "detached" ~> pc[f] = "closed"
=============================================================================
