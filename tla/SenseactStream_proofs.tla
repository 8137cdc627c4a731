------------------------ MODULE SenseactStream_proofs ------------------------
(***************************************************************************)
(* Proofs about the way of actions to the readers of a senseact device,    *)
(* for any number of files, any size of the ring, any batches and reads.   *)
(***************************************************************************)
EXTENDS SenseactStream, TLAPS

(* The list holds the queues of the files that are open.                   *)
Listed == {f \in File : pc[f] \notin {"closed", "detached"}}

(* Outside a walk nothing is left to visit and nobody waits for its end;   *)
(* a queue the walk can still visit is on the list, or its release waits   *)
(* for the walk.                                                           *)
WalkInv ==
  /\ list = Listed
  /\ drv # "walk" => todo = {} /\ grace = {}
  /\ drv = "walk" => left > 0
  /\ \A f \in todo : f \in Listed \/ (pc[f] = "detached" /\ f \in grace)

(* The mark and the remover agree; who sleeps has a wake-up to come.       *)
SleepInv ==
  /\ goingAway <=> remover # "no"
  /\ NoLostWakeUp

(* What a read has found is still there, unless the device goes away or    *)
(* the ring overran; only the fetch copies.                                *)
ReadInv ==
  \A f \in File :
    /\ pc[f] # "fetch" => got[f] = 0
    /\ pc[f] \in {"woken", "fetch"} => op[f] = "read"
    /\ pc[f] = "woken" /\ Empty(queue[f]) => overran[f] \/ goingAway
    /\ pc[f] = "fetch" /\ got[f] = 0 /\ Empty(queue[f]) => overran[f]

IInv == TypeOK /\ WalkInv /\ SleepInv /\ ReadInv

-----------------------------------------------------------------------------
(* The ring: indices stay in it, and an insertion leaves it empty only     *)
(* when all its slots but one were outstanding.                            *)
LEMMA RingInserted ==
  ASSUME NEW q \in Ring, NEW a \in Action
  PROVE  /\ Inserted(q, a) \in Ring
         /\ Empty(Inserted(q, a)) => Outstanding(q) = BufferSize - 1
<1>1. q.head \in Slot /\ q.tail \in Slot /\ q.buffer \in [Slot -> Action \union {NoAction}]
  BY DEF Ring
<1>2. (q.head + 1) % BufferSize = Wrap(q.head + 1) /\ Wrap(q.head + 1) \in Slot
  BY SMTT(20), <1>1, BufferSizeAssumption DEF Wrap, Slot
<1>3. Inserted(q, a).head = Wrap(q.head + 1) /\ Inserted(q, a).tail = q.tail
  BY <1>2 DEF Inserted, Ring
<1>4. Inserted(q, a) \in Ring
  BY <1>1, <1>2 DEF Inserted, Ring
<1>5. Wrap(q.head + 1) = q.tail => Outstanding(q) = BufferSize - 1
  BY <1>1, BufferSizeAssumption DEF Outstanding, Wrap, Slot
<1> QED BY <1>3, <1>4, <1>5 DEF Empty

LEMMA RingFetched ==
  ASSUME NEW q \in Ring
  PROVE  Fetched(q) \in Ring
<1>1. q.head \in Slot /\ q.tail \in Slot
  BY DEF Ring
<1>2. Masked(q.tail + 1) \in Slot
  BY <1>1, BufferSizeAssumption DEF Masked, Slot
<1> QED BY <1>2 DEF Fetched, Ring

LEMMA RingNew == NewRing \in Ring /\ Empty(NewRing)
  BY BufferSizeAssumption DEF NewRing, Ring, Empty, Slot

-----------------------------------------------------------------------------
LEMMA InitIInv == Init => IInv
<1> SUFFICES ASSUME Init PROVE IInv
  OBVIOUS
<1> USE DEF Init
<1>1. TypeOK
  <2>1. queue \in [File -> Ring] /\ got \in [File -> 0..ReadMax] /\ left \in 0..MaxBatch
    BY RingNew, StreamAssumption
  <2> QED BY <2>1 DEF TypeOK, FileState
<1>2. WalkInv /\ SleepInv /\ ReadInv
  BY DEF WalkInv, Listed, SleepInv, NoLostWakeUp, ReadInv
<1> QED BY <1>1, <1>2 DEF IInv

(* The driver and the removal leave the calls alone.                       *)
LEMMA DriverStepIInv ==
  ASSUME IInv, DriverNext \/ MarkGoingAway \/ WakeOnRemove
  PROVE  IInv'
<1> USE StreamAssumption DEF IInv
<1>1. pc' = pc /\ op' = op /\ got' = got /\ list' = list /\ Listed' = Listed
  BY DEF DriverNext, PassActions, BeginWalk, InsertInto, EndWalk, WakeReaders, MarkGoingAway,
         WakeOnRemove, callVars, Listed
<1> USE <1>1
<1>2. ASSUME NEW n \in 1..MaxBatch, PassActions(n) PROVE IInv'
  <2>1. TypeOK'
    BY <1>2 DEF PassActions, TypeOK, removeVars
  <2>2. WalkInv'
    BY <1>2 DEF PassActions, WalkInv, removeVars
  <2>3. SleepInv' /\ ReadInv'
    BY <1>2 DEF PassActions, SleepInv, NoLostWakeUp, ReadInv, removeVars
  <2> QED BY <2>1, <2>2, <2>3
<1>3. CASE BeginWalk
  <2>1. TypeOK'
    BY <1>3 DEF BeginWalk, TypeOK, removeVars
  <2>2. WalkInv'
    BY <1>3 DEF BeginWalk, WalkInv
  <2>3. SleepInv' /\ ReadInv'
    BY <1>3 DEF BeginWalk, SleepInv, NoLostWakeUp, ReadInv, removeVars
  <2> QED BY <2>1, <2>2, <2>3
<1>4. ASSUME NEW f \in File, NEW a \in Action, InsertInto(f, a) PROVE IInv'
  <2>1. queue[f] \in Ring
    BY DEF TypeOK
  <2>2. /\ queue'[f] = Inserted(queue[f], a) /\ queue'[f] \in Ring
        /\ \A g \in File \ {f} : queue'[g] = queue[g] /\ overran'[g] = overran[g]
    BY <1>4, <2>1, RingInserted DEF InsertInto, TypeOK
  <2>3. /\ overran[f] => overran'[f]
        /\ op[f] = "read" /\ Empty(queue'[f]) => overran'[f]
    BY <1>4, <2>1, <2>2, RingInserted DEF InsertInto, TypeOK
  <2>4. TypeOK'
    BY <1>4, <2>1, <2>2 DEF InsertInto, TypeOK, removeVars
  <2>5. WalkInv'
    BY <1>4 DEF InsertInto, WalkInv, removeVars
  <2>6. SleepInv'
    BY <1>4 DEF InsertInto, SleepInv, NoLostWakeUp, removeVars
  <2>7. ReadInv'
    BY <1>4, <2>2, <2>3 DEF InsertInto, ReadInv, removeVars
  <2> QED BY <2>4, <2>5, <2>6, <2>7
<1>5. CASE EndWalk
  <2>1. TypeOK'
    BY <1>5 DEF EndWalk, TypeOK, WalkInv, removeVars
  <2>2. WalkInv'
    BY <1>5 DEF EndWalk, WalkInv, removeVars
  <2>3. SleepInv' /\ ReadInv'
    BY <1>5 DEF EndWalk, SleepInv, NoLostWakeUp, ReadInv, removeVars
  <2> QED BY <2>1, <2>2, <2>3
<1>6. CASE WakeReaders \/ WakeOnRemove
  <2>1. TypeOK'
    BY <1>6 DEF WakeReaders, WakeOnRemove, TypeOK, removeVars, passVars
  <2>2. WalkInv'
    BY <1>6 DEF WakeReaders, WakeOnRemove, WalkInv, removeVars, passVars
  <2>3. SleepInv' /\ ReadInv'
    BY <1>6 DEF WakeReaders, WakeOnRemove, SleepInv, NoLostWakeUp, ReadInv, removeVars, passVars
  <2> QED BY <2>1, <2>2, <2>3
<1>7. CASE MarkGoingAway
  <2>1. TypeOK' /\ WalkInv'
    BY <1>7 DEF MarkGoingAway, TypeOK, WalkInv, passVars
  <2>2. SleepInv' /\ ReadInv'
    BY <1>7 DEF MarkGoingAway, SleepInv, NoLostWakeUp, ReadInv, passVars
  <2> QED BY <2>1, <2>2
<1> QED BY <1>2, <1>3, <1>4, <1>5, <1>6, <1>7 DEF DriverNext

-----------------------------------------------------------------------------
(* The calls on one file leave what belongs to the others alone.           *)
LEMMA FileFrame ==
  ASSUME TypeOK, NEW f \in File, FileNext(f)
  PROVE  /\ UNCHANGED <<drv, left, removeVars>>
         /\ \A g \in File \ {f} : /\ pc'[g] = pc[g] /\ op'[g] = op[g] /\ got'[g] = got[g]
                                  /\ queue'[g] = queue[g] /\ overran'[g] = overran[g]
                                  /\ g \in waiters' <=> g \in waiters
                                  /\ g \in todo' <=> g \in todo
                                  /\ g \in grace' <=> g \in grace
                                  /\ g \in list' <=> g \in list
BY DEF TypeOK, FileNext, OpenFile, BeginCall, PrepareToWait, FallAsleep, LeaveWait, WakeUp, Interrupted,
       ReadRefused, BeginFetch, FetchAction, CopyFaults, ReadReturns, DetachQueue, FreeQueue,
       FileGoes, CallReturns, passVars, removeVars

LEMMA FileTypes ==
  ASSUME TypeOK, NEW f \in File, FileNext(f)
  PROVE  TypeOK'
<1> USE StreamAssumption DEF TypeOK, FileGoes, FileState
<1>1. CASE OpenFile(f)
  BY <1>1, RingNew DEF OpenFile, removeVars
<1>2. ASSUME NEW call \in {"read", "poll"}, BeginCall(f, call) PROVE TypeOK'
  BY <1>2 DEF BeginCall, removeVars, passVars
<1>3. CASE PrepareToWait(f) \/ FallAsleep(f) \/ WakeUp(f) \/ BeginFetch(f)
  BY <1>3 DEF PrepareToWait, FallAsleep, WakeUp, BeginFetch, removeVars, passVars
<1>0. CallReturns(f) => /\ pc' \in [File -> FileState]
                        /\ op' \in [File -> {"none", "read", "poll"}]
                        /\ got' \in [File -> 0..ReadMax]
                        /\ overran' \in [File -> BOOLEAN]
  BY DEF CallReturns
<1>4. CASE LeaveWait(f)
  BY <1>0, <1>4 DEF LeaveWait, removeVars, passVars
<1>7. CASE Interrupted(f) \/ ReadRefused(f) \/ ReadReturns(f)
  BY <1>0, <1>7 DEF Interrupted, ReadRefused, ReadReturns, removeVars, passVars
<1>5. CASE FetchAction(f) \/ CopyFaults(f)
  <2>1. Fetched(queue[f]) \in Ring
    BY RingFetched
  <2>2. CASE FetchAction(f)
    BY <2>1, <2>2 DEF FetchAction, removeVars, passVars
  <2>3. CASE CopyFaults(f)
    BY <1>0, <2>1, <2>3 DEF CopyFaults, removeVars, passVars
  <2> QED BY <1>5, <2>2, <2>3
<1>6. CASE DetachQueue(f) \/ FreeQueue(f)
  BY <1>6 DEF DetachQueue, FreeQueue, removeVars, passVars
<1> QED BY <1>1, <1>2, <1>3, <1>4, <1>5, <1>6, <1>7 DEF FileNext

(* A file is put on the list as it is opened; a release waits for a walk.  *)
LEMMA FileWalk ==
  ASSUME TypeOK, WalkInv, NEW f \in File, FileNext(f)
  PROVE  WalkInv'
<1> USE DEF TypeOK, WalkInv, Listed, FileGoes
<1>1. CASE OpenFile(f)
  BY <1>1 DEF OpenFile
<1>2. CASE DetachQueue(f)
  BY <1>2 DEF DetachQueue
<1>3. CASE FreeQueue(f)
  BY <1>3 DEF FreeQueue, passVars
<1>4. CASE ~(OpenFile(f) \/ DetachQueue(f) \/ FreeQueue(f))
  <2>1. /\ UNCHANGED <<list, drv, left, todo, grace>>
        /\ f \in Listed /\ f \in Listed'
    BY <1>4 DEF FileNext, BeginCall, PrepareToWait, FallAsleep, LeaveWait, WakeUp, Interrupted,
                ReadRefused, BeginFetch, FetchAction, CopyFaults, ReadReturns, CallReturns,
                passVars
  <2>2. Listed' = Listed
    BY <2>1, FileFrame
  <2> QED BY <2>1, <2>2, FileFrame
<1> QED BY <1>1, <1>2, <1>3, <1>4

(* A process goes to sleep on an empty ring of a device that stays.        *)
LEMMA FileSleep ==
  ASSUME TypeOK, SleepInv, NEW f \in File, FileNext(f)
  PROVE  SleepInv'
<1> USE DEF TypeOK, SleepInv, NoLostWakeUp, FileGoes
<1>1. UNCHANGED <<drv, goingAway, remover>>
  BY FileFrame DEF removeVars
<1>2. CASE FallAsleep(f)
  BY <1>1, <1>2, FileFrame DEF FallAsleep, Condition
<1>3. CASE ~FallAsleep(f)
  <2>1. pc'[f] # "asleep"
    BY <1>3 DEF FileNext, OpenFile, BeginCall, PrepareToWait, LeaveWait, WakeUp, Interrupted,
                ReadRefused, BeginFetch, FetchAction, CopyFaults, ReadReturns, DetachQueue,
                FreeQueue, CallReturns
  <2> QED BY <1>1, <2>1, FileFrame
<1> QED BY <1>2, <1>3

(* A read goes on to fetch when it has found something.                    *)
LEMMA FileRead ==
  ASSUME TypeOK, ReadInv, NEW f \in File, FileNext(f)
  PROVE  ReadInv'
<1> DEFINE ReadOk ==
      /\ pc[f] # "fetch" => got[f] = 0
      /\ pc[f] \in {"woken", "fetch"} => op[f] = "read"
      /\ pc[f] = "woken" /\ Empty(queue[f]) => overran[f] \/ goingAway
      /\ pc[f] = "fetch" /\ got[f] = 0 /\ Empty(queue[f]) => overran[f]
<1>1. goingAway' = goingAway
  BY FileFrame DEF removeVars
<1>2. ReadOk
  BY DEF ReadInv
<1>3. ReadOk'
  <2> USE <1>1, <1>2 DEF TypeOK, FileGoes
  <2>1. CASE LeaveWait(f)
    BY <2>1 DEF LeaveWait, Condition, CallReturns
  <2>2. CASE BeginFetch(f)
    BY <2>2 DEF BeginFetch
  <2>3. CASE FetchAction(f)
    BY <2>3, StreamAssumption DEF FetchAction
  <2>4. CASE OpenFile(f) \/ (\E call \in {"read", "poll"} : BeginCall(f, call))
    BY <2>4 DEF OpenFile, BeginCall
  <2>5. CASE PrepareToWait(f) \/ FallAsleep(f) \/ WakeUp(f) \/ DetachQueue(f) \/ FreeQueue(f)
    BY <2>5 DEF PrepareToWait, FallAsleep, WakeUp, DetachQueue, FreeQueue
  <2>6. CASE Interrupted(f) \/ ReadRefused(f) \/ CopyFaults(f) \/ ReadReturns(f)
    BY <2>6 DEF Interrupted, ReadRefused, CopyFaults, ReadReturns, CallReturns
  <2> QED BY <2>1, <2>2, <2>3, <2>4, <2>5, <2>6 DEF FileNext
<1> QED BY <1>1, <1>3, FileFrame DEF ReadInv

LEMMA StepIInv == IInv /\ [Next]_vars => IInv'
<1> SUFFICES ASSUME IInv, [Next]_vars PROVE IInv'
  OBVIOUS
<1>1. CASE DriverNext \/ MarkGoingAway \/ WakeOnRemove
  BY <1>1, DriverStepIInv
<1>2. ASSUME NEW f \in File, FileNext(f) PROVE IInv'
  BY <1>2, FileTypes, FileWalk, FileSleep, FileRead DEF IInv
<1>3. CASE UNCHANGED vars
  BY <1>3 DEF vars, passVars, callVars, removeVars, IInv, TypeOK, WalkInv, Listed, SleepInv,
              NoLostWakeUp, ReadInv
<1> QED BY <1>1, <1>2, <1>3 DEF Next

-----------------------------------------------------------------------------
(* The inductive invariant holds in every state.                           *)
THEOREM Invariance == Spec => []IInv
BY InitIInv, StepIInv, PTL DEF Spec

(* The types of the stream: a read never copies beyond its buffer, and the *)
(* batch never runs below zero.                                            *)
THEOREM TypeCorrect == Spec => []TypeOK
<1>1. IInv => TypeOK
  BY DEF IInv
<1> QED BY Invariance, <1>1, PTL

(* The driver inserts into no queue that was freed: synchronize_rcu comes  *)
(* before kfree in senseact_release_file.                                  *)
THEOREM WalkMeetsLiveQueues == Spec => []NoInsertAfterFree
<1>1. IInv => NoInsertAfterFree
  BY DEF IInv, WalkInv, Listed, TypeOK, NoInsertAfterFree
<1> QED BY Invariance, <1>1, PTL

(* Nobody sleeps on data or on a removal whose wake-up is over: readers    *)
(* are on the wait queue before they test, senseact_pass_actions and       *)
(* senseact_unregister_device wake after they change what is tested.       *)
THEOREM WakeUpsArrive == Spec => []NoLostWakeUp
<1>1. IInv => NoLostWakeUp
  BY DEF IInv, SleepInv
<1> QED BY Invariance, <1>1, PTL

(* A blocking read of senseact_read_file returns zero only after an        *)
(* overrun: nothing but its reader and an overrun empties a ring.          *)
THEOREM ReadsReturnSomething == Spec => []EmptyReadOnlyAfterOverrun
<1>1. IInv => EmptyReadOnlyAfterOverrun
  BY DEF IInv, ReadInv, EmptyReadOnlyAfterOverrun
<1> QED BY Invariance, <1>1, PTL
=============================================================================
