------------------------- MODULE SenseactPoll_proofs -------------------------
(***************************************************************************)
(* Proofs about the shared workqueue of polled devices, for any number of  *)
(* devices, whether they are unregistered while in use or not.             *)
(***************************************************************************)
EXTENDS SenseactPoll, FiniteSetTheorems, TLAPS

(* The mutex belongs to the call that is between lock and unlock.          *)
MutexInv == \A d \in PollDevice : holder = d <=> pc[d] \in {"starting", "stopping"}

(* The count is exact; a workqueue that exists without users is about to   *)
(* be destroyed by the call that has the mutex.                            *)
CountInv ==
  /\ users = Cardinality(Users)
  /\ users > 0 => wq = "alive"
  /\ wq = "alive" /\ users = 0 => \E d \in PollDevice : pc[d] = "stopping"

(* A work is pending or runs only between open and the end of the cancel,  *)
(* which alone takes its PENDING bit.                                      *)
WorkInv ==
  /\ NoPollWhenClosed
  /\ \A d \in PollDevice : pending[d] = "grabbed" => pc[d] = "canceling"

(* What is on the list is pending there, once.                             *)
ListInv ==
  /\ \A i \in 1..Len(worklist) : pending[worklist[i]] = "list"
  /\ \A i, j \in 1..Len(worklist) : worklist[i] = worklist[j] => i = j

IInv == TypeOK /\ MutexInv /\ CountInv /\ WorkInv /\ ListInv

-----------------------------------------------------------------------------
LEMMA InitIInv == Init => IInv
<1> SUFFICES ASSUME Init PROVE IInv
  OBVIOUS
<1> USE PollDeviceAssumption DEF Init
<1>1. Users = {}
  BY DEF Users
<1>2. Cardinality({}) = 0 /\ Cardinality(PollDevice) \in Nat
  BY FS_EmptySet, FS_CardinalityType
<1>3. TypeOK
  BY <1>2 DEF TypeOK, PcState
<1>4. CountInv
  BY <1>1, <1>2 DEF CountInv
<1>5. MutexInv /\ WorkInv /\ ListInv
  BY DEF MutexInv, WorkInv, NoPollWhenClosed, ListInv
<1> QED BY <1>3, <1>4, <1>5 DEF IInv

(* Adding a user to the count and taking one away. *)
LEMMA UserCount ==
  /\ Cardinality(Users) \in Nat
  /\ Cardinality(Users) = 0 <=> Users = {}
  /\ \A d \in PollDevice \ Users :
       /\ Cardinality(Users \union {d}) = Cardinality(Users) + 1
       /\ Cardinality(Users) + 1 <= Cardinality(PollDevice)
  /\ \A d \in Users : Cardinality(Users \ {d}) = Cardinality(Users) - 1
<1>1. IsFiniteSet(Users) /\ Users \subseteq PollDevice
  BY PollDeviceAssumption, FS_Subset DEF Users
<1>2. Cardinality(Users) \in Nat /\ (Cardinality(Users) = 0 <=> Users = {})
  BY <1>1, FS_CardinalityType, FS_EmptySet
<1>3. ASSUME NEW d \in PollDevice \ Users
      PROVE  /\ Cardinality(Users \union {d}) = Cardinality(Users) + 1
             /\ Cardinality(Users) + 1 <= Cardinality(PollDevice)
  <2>1. Cardinality(Users \union {d}) = Cardinality(Users) + 1
    BY <1>1, <1>3, FS_AddElement
  <2>2. Cardinality(Users \union {d}) <= Cardinality(PollDevice)
    BY <1>1, <1>3, PollDeviceAssumption, FS_Subset
  <2> QED BY <2>1, <2>2
<1>4. \A d \in Users : Cardinality(Users \ {d}) = Cardinality(Users) - 1
  BY <1>1, FS_RemoveElement
<1> QED BY <1>1, <1>2, <1>3, <1>4

(* What leaves the count, the workqueue and the calls that use them alone. *)
Idle(d) ==
  \/ DriverStep(d) \/ BeginOpen(d) \/ LockInterrupted(d) \/ LockToStart(d)
  \/ CreateFails(d) \/ QueueFirstWork(d) \/ BeginClose(d) \/ GrabPending(d)
  \/ WorkCanceled(d) \/ WorkStep(d)

LEMMA StepCases ==
  ASSUME NEW d \in PollDevice,
         \/ DriverStep(d) \/ BeginOpen(d) \/ LockInterrupted(d) \/ OpenStep(d)
         \/ BeginClose(d) \/ CloseStep(d) \/ WorkStep(d)
  PROVE  Idle(d) \/ StartWorkqueue(d) \/ LockToStop(d) \/ StopWorkqueue(d)
BY DEF Idle, OpenStep, CloseStep

LEMMA IdleFrame ==
  ASSUME IInv, NEW d \in PollDevice, Idle(d)
  PROVE  UNCHANGED <<users, wq>> /\ Users' = Users
<1> USE DEF IInv, TypeOK, Idle, DevGoes, Goes
<1>1. CASE DriverStep(d) \/ WorkStep(d) \/ GrabPending(d)
  BY <1>1 DEF DriverStep, AllocatePollDevice, RegisterPollDevice, UnregisterPollDevice,
       FreePollDevice, WorkStep, TimerExpires, RunWork, WorkReturns, GrabPending,
       startVars, queueVars, Users
<1>2. CASE BeginOpen(d) \/ LockInterrupted(d) \/ LockToStart(d) \/ CreateFails(d)
  BY <1>2 DEF BeginOpen, LockInterrupted, LockToStart, CreateFails, startVars, Users
<1>3. CASE QueueFirstWork(d) \/ BeginClose(d) \/ WorkCanceled(d)
  BY <1>3 DEF QueueFirstWork, BeginClose, WorkCanceled, startVars, Users
<1> QED BY <1>1, <1>2, <1>3

-----------------------------------------------------------------------------
(* The list stays a sequence of devices.                                   *)
LEMMA ListType ==
  ASSUME worklist \in Seq(PollDevice), NEW i \in 1..Len(worklist)
  PROVE  /\ Without(i) \in Seq(PollDevice)
         /\ Len(Without(i)) = Len(worklist) - 1
         /\ \A j \in 1..(Len(worklist) - 1) :
              Without(i)[j] = IF j < i THEN worklist[j] ELSE worklist[j + 1]
<1>1. Len(worklist) - 1 \in Nat
  OBVIOUS
<1>2. Without(i) \in [1..(Len(worklist) - 1) -> PollDevice]
  BY <1>1 DEF Without
<1>3. Without(i) \in Seq(PollDevice)
  BY <1>1, <1>2
<1>4. Len(Without(i)) = Len(worklist) - 1
  BY <1>1, <1>2, <1>3
<1> QED BY <1>3, <1>4 DEF Without

LEMMA TypeStep ==
  ASSUME IInv, NEW d \in PollDevice,
         Idle(d) \/ StartWorkqueue(d) \/ LockToStop(d) \/ StopWorkqueue(d)
  PROVE  TypeOK'
<1> USE PollDeviceAssumption DEF IInv, TypeOK, PcState, DevGoes, Goes, startVars, queueVars
<1>1. CASE DriverStep(d)
  BY <1>1 DEF DriverStep, AllocatePollDevice, RegisterPollDevice, UnregisterPollDevice,
       FreePollDevice
<1>2. CASE BeginOpen(d) \/ LockInterrupted(d) \/ LockToStart(d) \/ CreateFails(d)
  BY <1>2 DEF BeginOpen, LockInterrupted, LockToStart, CreateFails
<1>3. CASE QueueFirstWork(d) \/ BeginClose(d) \/ WorkCanceled(d)
  BY <1>3 DEF QueueFirstWork, BeginClose, WorkCanceled, QueueDelayedWork
<1>4. CASE GrabPending(d)
  BY <1>4, ListType DEF GrabPending
<1>5. CASE TimerExpires(d)
  BY <1>5 DEF TimerExpires
<1>6. CASE RunWork(d)
  BY <1>6 DEF RunWork
<1>7. CASE WorkReturns(d)
  BY <1>7 DEF WorkReturns, QueueDelayedWork
<1>8. CASE StartWorkqueue(d)
  <2>1. users + 1 \in 0..Cardinality(PollDevice)
    <3>1. d \notin Users
      BY <1>8 DEF StartWorkqueue, Users
    <3>2. Cardinality(Users) + 1 <= Cardinality(PollDevice)
      BY <3>1, UserCount
    <3>3. Cardinality(PollDevice) \in Nat /\ users = Cardinality(Users)
      BY FS_CardinalityType DEF CountInv
    <3> QED BY <3>2, <3>3
  <2> QED BY <1>8, <2>1 DEF StartWorkqueue
<1>9. CASE LockToStop(d)
  <2>1. users - 1 \in 0..Cardinality(PollDevice)
    <3>1. d \in Users
      BY <1>9 DEF LockToStop, Users
    <3>2. Cardinality(Users) # 0
      BY <3>1, UserCount
    <3>3. Cardinality(PollDevice) \in Nat /\ users = Cardinality(Users)
      BY FS_CardinalityType DEF CountInv
    <3> QED BY <3>2, <3>3
  <2> QED BY <1>9, <2>1 DEF LockToStop
<1>10. CASE StopWorkqueue(d)
  BY <1>10 DEF StopWorkqueue
<1> QED BY <1>1, <1>2, <1>3, <1>4, <1>5, <1>6, <1>7, <1>8, <1>9, <1>10 DEF Idle, WorkStep

LEMMA MutexStep ==
  ASSUME IInv, NEW d \in PollDevice,
         Idle(d) \/ StartWorkqueue(d) \/ LockToStop(d) \/ StopWorkqueue(d)
  PROVE  MutexInv'
<1> USE PollDeviceAssumption DEF IInv, TypeOK, MutexInv, Goes, startVars
<1>1. CASE DriverStep(d) \/ WorkStep(d) \/ GrabPending(d)
  <2>1. UNCHANGED <<holder, pc>>
    BY <1>1 DEF DriverStep, AllocatePollDevice, RegisterPollDevice, UnregisterPollDevice,
         FreePollDevice, WorkStep, TimerExpires, RunWork, WorkReturns, GrabPending
  <2> QED BY <2>1
<1>2. CASE BeginOpen(d) \/ LockInterrupted(d) \/ LockToStart(d) \/ CreateFails(d)
  BY <1>2 DEF BeginOpen, LockInterrupted, LockToStart, CreateFails
<1>3. CASE QueueFirstWork(d) \/ BeginClose(d) \/ WorkCanceled(d)
  BY <1>3 DEF QueueFirstWork, BeginClose, WorkCanceled
<1>4. CASE StartWorkqueue(d) \/ LockToStop(d) \/ StopWorkqueue(d)
  BY <1>4 DEF StartWorkqueue, LockToStop, StopWorkqueue
<1> QED BY <1>1, <1>2, <1>3, <1>4 DEF Idle

LEMMA CountStep ==
  ASSUME IInv, NEW d \in PollDevice,
         Idle(d) \/ StartWorkqueue(d) \/ LockToStop(d) \/ StopWorkqueue(d)
  PROVE  CountInv'
<1> USE DEF IInv, TypeOK, CountInv
<1>1. CASE Idle(d)
  <2>1. UNCHANGED <<users, wq>> /\ Users' = Users
    BY <1>1, IdleFrame
  <2>2. ASSUME NEW e \in PollDevice, pc[e] = "stopping"
        PROVE  pc'[e] = "stopping"
    BY <1>1, <2>2 DEF Idle, DriverStep, AllocatePollDevice, RegisterPollDevice,
         UnregisterPollDevice, FreePollDevice, BeginOpen, LockInterrupted, LockToStart,
         CreateFails, QueueFirstWork, BeginClose, GrabPending, WorkCanceled, WorkStep,
         TimerExpires, RunWork, WorkReturns, Goes
  <2> QED BY <2>1, <2>2
<1>2. CASE StartWorkqueue(d)
  <2>1. d \notin Users /\ Users' = Users \union {d}
    BY <1>2 DEF StartWorkqueue, Goes, Users
  <2>2. users' = Cardinality(Users') /\ users' > 0
    BY <1>2, <2>1, UserCount DEF StartWorkqueue
  <2>3. wq' = "alive"
    BY <1>2, UserCount DEF StartWorkqueue
  <2> QED BY <2>2, <2>3
<1>3. CASE LockToStop(d)
  <2>1. d \in Users /\ Users' = Users \ {d}
    BY <1>3 DEF LockToStop, Goes, Users
  <2>2. users' = Cardinality(Users')
    BY <1>3, <2>1, UserCount DEF LockToStop
  <2>3. wq' = "alive"
    BY <1>3, <2>1, UserCount DEF LockToStop
  <2>4. pc'[d] = "stopping"
    BY <1>3 DEF LockToStop, Goes
  <2> QED BY <2>2, <2>3, <2>4
<1>4. CASE StopWorkqueue(d)
  <2>1. users' = users /\ Users' = Users
    BY <1>4 DEF StopWorkqueue, Goes, Users
  <2>2. wq' = IF users = 0 THEN "destroyed" ELSE wq
    BY <1>4 DEF StopWorkqueue
  <2> QED BY <2>1, <2>2, UserCount
<1> QED BY <1>1, <1>2, <1>3, <1>4

LEMMA WorkAndListStep ==
  ASSUME IInv, NEW d \in PollDevice,
         Idle(d) \/ StartWorkqueue(d) \/ LockToStop(d) \/ StopWorkqueue(d)
  PROVE  WorkInv' /\ ListInv'
<1> USE PollDeviceAssumption
    DEF IInv, TypeOK, WorkInv, NoPollWhenClosed, Goes, startVars, queueVars
<1>1. CASE DriverStep(d)
  BY SMTT(20), <1>1 DEF DriverStep, AllocatePollDevice, RegisterPollDevice, UnregisterPollDevice,
       FreePollDevice, ListInv
<1>2. CASE BeginOpen(d) \/ LockInterrupted(d) \/ LockToStart(d) \/ CreateFails(d) \/ BeginClose(d)
  BY SMTT(20), <1>2 DEF BeginOpen, LockInterrupted, LockToStart, CreateFails, BeginClose, ListInv
<1>3. CASE StartWorkqueue(d) \/ LockToStop(d) \/ StopWorkqueue(d)
  BY <1>3 DEF StartWorkqueue, LockToStop, StopWorkqueue, ListInv
<1>4. CASE QueueFirstWork(d)
  BY <1>4 DEF QueueFirstWork, QueueDelayedWork, ListInv
<1>5. CASE WorkCanceled(d)
  BY <1>5 DEF WorkCanceled, ListInv
<1>6. CASE GrabPending(d)
  <2>1. WorkInv'
    BY <1>6 DEF GrabPending
  <2>2. CASE pending[d] # "list" /\ UNCHANGED worklist
    BY <1>6, <2>2 DEF GrabPending, ListInv
  <2>3. CASE \E i \in 1..Len(worklist) : worklist[i] = d /\ worklist' = Without(i)
    <3>1. PICK i \in 1..Len(worklist) : worklist[i] = d /\ worklist' = Without(i)
      BY <2>3
    <3>2. /\ Len(worklist') = Len(worklist) - 1
          /\ \A j \in 1..(Len(worklist) - 1) :
               worklist'[j] = IF j < i THEN worklist[j] ELSE worklist[j + 1]
      BY <3>1, ListType
    <3>3. \A j \in 1..Len(worklist) : j # i => worklist[j] # d
      BY <3>1 DEF ListInv
    <3> DEFINE old(j) == IF j < i THEN j ELSE j + 1
    <3>4. ASSUME NEW j \in 1..Len(worklist')
          PROVE  /\ old(j) \in 1..Len(worklist) /\ old(j) # i
                 /\ worklist'[j] = worklist[old(j)]
                 /\ pending[worklist'[j]] = "list" /\ worklist'[j] # d
      <4>1. /\ old(j) \in 1..Len(worklist) /\ old(j) # i
            /\ worklist'[j] = worklist[old(j)]
        BY <3>1, <3>2
      <4> HIDE DEF old
      <4> QED BY <3>3, <4>1 DEF ListInv
    <3>5. ASSUME NEW j \in 1..Len(worklist'), NEW k \in 1..Len(worklist'),
                 worklist'[j] = worklist'[k]
          PROVE  j = k
      <4>1. worklist[old(j)] = worklist[old(k)]
        BY <3>4, <3>5
      <4>2. old(j) = old(k)
        <5> HIDE DEF old
        <5> QED BY <3>4, <4>1 DEF ListInv
      <4> QED BY <3>2, <4>2
    <3>6. \A j \in 1..Len(worklist') : pending'[worklist'[j]] = "list"
      BY <1>6, <3>4 DEF GrabPending
    <3> QED BY <2>1, <3>5, <3>6 DEF ListInv
  <2> QED BY <1>6, <2>2, <2>3 DEF GrabPending
<1>7. CASE TimerExpires(d)
  <2>1. WorkInv'
    BY <1>7 DEF TimerExpires
  <2>2. \A j \in 1..Len(worklist) : worklist[j] # d /\ pending'[worklist[j]] = "list"
    BY <1>7 DEF TimerExpires, ListInv
  <2>3. /\ Len(worklist') = Len(worklist) + 1
        /\ \A j \in 1..Len(worklist) : worklist'[j] = worklist[j]
        /\ worklist'[Len(worklist) + 1] = d
    BY <1>7 DEF TimerExpires
  <2>4. pending'[d] = "list"
    BY <1>7 DEF TimerExpires
  <2>5. Len(worklist) \in Nat
    OBVIOUS
  <2>6. ASSUME NEW j \in 1..Len(worklist')
        PROVE  j \in 1..Len(worklist) \/ j = Len(worklist) + 1
    BY <2>3, <2>5
  <2>7. \A j \in 1..Len(worklist') : pending'[worklist'[j]] = "list"
    BY <2>2, <2>3, <2>4, <2>6
  <2>8. ASSUME NEW j \in 1..Len(worklist'), NEW k \in 1..Len(worklist'),
               worklist'[j] = worklist'[k]
        PROVE  j = k
    <3>1. CASE j \in 1..Len(worklist) /\ k \in 1..Len(worklist)
      <4>1. worklist[j] = worklist[k]
        BY <2>3, <2>8, <3>1
      <4> QED BY <3>1, <4>1 DEF ListInv
    <3>2. CASE j = Len(worklist) + 1 \/ k = Len(worklist) + 1
      BY <2>2, <2>3, <2>6, <2>8, <3>2
    <3> QED BY <2>6, <3>1, <3>2
  <2> QED BY <2>1, <2>7, <2>8 DEF ListInv
<1>8. CASE RunWork(d)
  <2>1. Len(worklist) > 0 /\ worklist[1] = d
    BY <1>8 DEF RunWork
  <2>2. pending[d] = "list"
    BY <2>1 DEF ListInv
  <2>3. WorkInv'
    BY <1>8, <2>2 DEF RunWork
  <2>4. /\ Len(worklist') = Len(worklist) - 1
        /\ \A j \in 1..(Len(worklist) - 1) : worklist'[j] = worklist[j + 1]
    BY <1>8, <2>1 DEF RunWork
  <2>5. ASSUME NEW j \in 1..Len(worklist')
        PROVE  worklist'[j] # d /\ pending[worklist'[j]] = "list"
    <3>1. /\ j + 1 \in 1..Len(worklist) /\ 1 \in 1..Len(worklist)
          /\ worklist'[j] = worklist[j + 1] /\ j + 1 # 1
      BY <2>1, <2>4
    <3> QED BY <2>1, <3>1 DEF ListInv
  <2>6. \A j \in 1..Len(worklist') : pending'[worklist'[j]] = "list"
    BY <1>8, <2>5 DEF RunWork
  <2>7. ASSUME NEW j \in 1..Len(worklist'), NEW k \in 1..Len(worklist'),
               worklist'[j] = worklist'[k]
        PROVE  j = k
    <3>1. /\ j + 1 \in 1..Len(worklist) /\ k + 1 \in 1..Len(worklist)
          /\ worklist[j + 1] = worklist[k + 1]
      BY <2>1, <2>4, <2>7
    <3>2. j + 1 = k + 1
      BY <3>1 DEF ListInv
    <3> QED BY <3>2
  <2> QED BY <2>3, <2>6, <2>7 DEF ListInv
<1>9. CASE WorkReturns(d)
  BY <1>9 DEF WorkReturns, QueueDelayedWork, ListInv
<1> QED BY <1>1, <1>2, <1>3, <1>4, <1>5, <1>6, <1>7, <1>8, <1>9 DEF Idle, WorkStep

LEMMA Stutter == IInv /\ UNCHANGED vars => IInv'
BY DEF IInv, TypeOK, MutexInv, CountInv, Users, WorkInv, NoPollWhenClosed, ListInv, vars,
       startVars, queueVars

-----------------------------------------------------------------------------
(* The inductive invariant holds always.                                   *)
THEOREM Invariance == Spec => []IInv
<1>1. ASSUME IInv, Next PROVE IInv'
  <2>1. PICK d \in PollDevice :
          \/ DriverStep(d) \/ BeginOpen(d) \/ LockInterrupted(d) \/ OpenStep(d)
          \/ BeginClose(d) \/ CloseStep(d) \/ WorkStep(d)
    BY <1>1 DEF Next
  <2>2. Idle(d) \/ StartWorkqueue(d) \/ LockToStop(d) \/ StopWorkqueue(d)
    BY <2>1, StepCases
  <2> QED
    BY <1>1, <2>2, TypeStep, MutexStep, CountStep, WorkAndListStep DEF IInv
<1> QED BY <1>1, InitIInv, Stutter, PTL DEF Spec

(* Every variable has its type: in particular the count of users is        *)
(* between zero and the number of devices.                                 *)
THEOREM TypeCorrect == Spec => []TypeOK
<1>1. IInv => TypeOK
  BY DEF IInv
<1> QED BY <1>1, Invariance, PTL

(* The workqueue exists exactly while an opened device uses it.            *)
THEOREM WorkqueueFollowsUsers == Spec => []WorkqueueIffUsed
<1>1. IInv => WorkqueueIffUsed
  BY PollDeviceAssumption DEF IInv, TypeOK, CountInv, MutexInv, WorkqueueIffUsed
<1> QED BY <1>1, Invariance, PTL

(* No work is pending or runs without a workqueue: a device that has work  *)
(* is among the users, so the count is not zero.                           *)
THEOREM WorkHasItsQueue == Spec => []WorkOnLiveWorkqueue
<1>1. ASSUME IInv PROVE WorkOnLiveWorkqueue
  <2> SUFFICES ASSUME NEW d \in PollDevice, pending[d] # "no" \/ worker = d
               PROVE  wq = "alive"
    BY DEF WorkOnLiveWorkqueue
  <2>1. d \in Users
    BY <1>1 DEF IInv, WorkInv, NoPollWhenClosed, Users
  <2>2. users > 0
    BY <1>1, <2>1, UserCount DEF IInv, CountInv
  <2> QED BY <1>1, <2>2 DEF IInv, CountInv
<1> QED BY <1>1, Invariance, PTL

(* A device that is not open is not polled.                                *)
THEOREM ClosedIsNotPolled == Spec => []NoPollWhenClosed
<1>1. IInv => NoPollWhenClosed
  BY DEF IInv, WorkInv
<1> QED BY <1>1, Invariance, PTL
=============================================================================
