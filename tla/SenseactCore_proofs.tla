------------------------- MODULE SenseactCore_proofs -------------------------
(***************************************************************************)
(* Proofs about open, release and unregister of senseact devices, for any  *)
(* number of devices, files and minors.  They assume that a device node    *)
(* exists only while its device is registered (~StaticNodes).              *)
(***************************************************************************)
EXTENDS SenseactCore, FiniteSetTheorems, TLAPS

(* A file refers to a device from get_device to put_device.                *)
FileInv == \A f \in File : pc[f] = "closed" <=> fdev[f] = NoDevice

(* The count is one for each file, and one for the driver until it frees   *)
(* or unregisters the device.                                              *)
DriverHolds(d) == Added(d) \/ drv[d] \in {"allocated", "failed"}

RefInv ==
  \A d \in Device :
    /\ refs[d] = Cardinality(Holders(d)) + IF DriverHolds(d) THEN 1 ELSE 0
    /\ mem[d] = IF drv[d] = "none" THEN "none"
                ELSE IF drv[d] = "gone" /\ Holders(d) = {} THEN "freed" ELSE "live"
    /\ Holders(d) # {} => ops[d] /\ (Added(d) \/ drv[d] = "gone")
    /\ Added(d) => ops[d]

(* The mutex is held across a callback by the file that runs it, users     *)
(* counts the user files, and the driver follows the two.                  *)
UserOk(d) ==
  /\ users[d] = Cardinality(UserFiles(d))
  /\ \A f \in File : mutex[d] = f <=> f \in InCallback(d)
  /\ mutex[d] = NoFile => (driverOpen[d] <=> UserFiles(d) # {})
  /\ \A f \in InCallback(d) :
       /\ pc[f] = "opening" => ~driverOpen[d] /\ UserFiles(d) = {f}
       /\ pc[f] = "closing" => driverOpen[d] /\ UserFiles(d) = {}
       /\ pc[f] = "flushing" => driverOpen[d]

UserInv == \A d \in Device : UserOk(d)

(* A device going away is marked, and no open or flush of a file is inside *)
(* the driver any more; the queue list holds what is attached; the files   *)
(* that may be or become users after the hang-up have been signalled.      *)
Attached(d) ==
  {f \in File : pc[f] \in {"attached", "opening", "open", "flushing", "undo"} /\ fdev[f] = d}

HupInv ==
  \A d \in Device :
    /\ drv[d] \in {"marked", "signalled", "cleared", "flushing", "flushed"} => goingAway[d]
    /\ drv[d] = "gone" /\ Holders(d) # {} => goingAway[d]
    /\ goingAway[d] => \A f \in InCallback(d) : pc[f] = "closing"
    /\ queues[d] = Attached(d)
    /\ \A f \in File :
         /\ pc[f] \in {"opening", "open", "flushing"}
         /\ fdev[f] = d
         /\ drv[d] \in {"signalled", "cleared", "flushing", "flushed", "gone"}
         => hup[f]

(* A slot that is not empty names a device that has this minor.            *)
SlotInv ==
  \A d \in Device :
    /\ drv[d] # "none" => minor[d] \in Minor
    /\ \A m \in Minor : table[m] = d => minor[d] = m /\ drv[d] # "none"
    /\ drv[d] \in {"raw", "allocated", "failed", "registered", "removing", "marked",
                   "signalled"} => table[minor[d]] = d
    /\ drv[d] \in {"cleared", "flushing", "flushed"} => \A m \in Minor : table[m] # d

IInv == TypeOK /\ FileInv /\ RefInv /\ UserInv /\ HupInv /\ SlotInv

-----------------------------------------------------------------------------
LEMMA InitIInv == Init => IInv
<1> SUFFICES ASSUME Init PROVE IInv
  OBVIOUS
<1> USE CoreAssumption DEF Init
<1>1. TypeOK
  BY DEF TypeOK, DrvState, FileState
<1>2. FileInv /\ SlotInv
  BY DEF FileInv, SlotInv
<1>3. \A d \in Device : Holders(d) = {} /\ UserFiles(d) = {} /\ InCallback(d) = {} /\ Attached(d) = {}
  BY DEF Holders, UserFiles, InCallback, Attached
<1>4. Cardinality({}) = 0
  BY FS_EmptySet
<1>5. RefInv
  <2>1. \A d \in Device : ~Added(d) /\ ~DriverHolds(d) /\ Cardinality(Holders(d)) = 0
    BY <1>3, <1>4 DEF DriverHolds, Added
  <2> QED BY <1>3, <2>1 DEF RefInv
<1>6. UserInv
  <2>1. \A d \in Device : users[d] = Cardinality(UserFiles(d))
    BY <1>3, <1>4
  <2>2. \A d \in Device : \A f \in File : mutex[d] # f /\ f \notin InCallback(d)
    BY <1>3
  <2>3. \A d \in Device : ~driverOpen[d]
    OBVIOUS
  <2> QED BY <1>3, <2>1, <2>2, <2>3 DEF UserInv, UserOk
<1>7. HupInv
  BY <1>3 DEF HupInv
<1> QED BY <1>1, <1>2, <1>5, <1>6, <1>7 DEF IInv

(* The sets of files of a device are finite, and empty exactly when their  *)
(* cardinality is zero.                                                    *)
LEMMA FilesCount ==
  ASSUME NEW S \in SUBSET File
  PROVE  /\ IsFiniteSet(S)
         /\ Cardinality(S) \in Nat
         /\ Cardinality(S) = 0 <=> S = {}
         /\ \A f \in File \ S : Cardinality(S \union {f}) = Cardinality(S) + 1
         /\ \A f \in S : Cardinality(S \ {f}) = Cardinality(S) - 1
<1>1. IsFiniteSet(S)
  BY CoreAssumption, FS_Subset
<1>2. Cardinality(S) \in Nat /\ (Cardinality(S) = 0 <=> S = {})
  BY <1>1, FS_CardinalityType, FS_EmptySet
<1>3. \A f \in File \ S : Cardinality(S \union {f}) = Cardinality(S) + 1
  BY <1>1, FS_AddElement
<1>4. \A f \in S : Cardinality(S \ {f}) = Cardinality(S) - 1
  BY <1>1, FS_RemoveElement
<1> QED BY <1>1, <1>2, <1>3, <1>4

(* What the two sides leave alone. *)
LEMMA DriverFrame ==
  ASSUME NEW d \in Device, DriverStep(d)
  PROVE  UNCHANGED <<useVars, pc, fdev>>
BY DEF DriverStep, AllocateSlot, InitialiseDevice, RegisterDevice, FreeDevice, RemoveDevice,
       MarkGoingAway, SignalHup, ClearSlot, FlushOnRemove, FlushOnRemoveReturns,
       UnregisterDevice, fileVars

LEMMA FileFrame ==
  ASSUME NEW f \in File, FileStep(f)
  PROVE  UNCHANGED <<table, minor, drv, goingAway, ops>>
BY DEF FileStep, LookUp, QueueAllocationFails, AttachQueue, OpenInterrupted, OpenRefused,
       OpenDevice, OpenReturns, FlushFile, FlushReturns, DetachQueue, CloseDevice,
       CloseReturns, PutFile, lifeVars, drvVars

(* A file inside a call refers to a device.                                *)
LEMMA FileDevice ==
  ASSUME TypeOK, FileInv, NEW f \in File, pc[f] # "closed"
  PROVE  fdev[f] \in Device
BY DEF TypeOK, FileInv

-----------------------------------------------------------------------------
(* The table of minors.                                                    *)

LEMMA SlotStep ==
  ASSUME TypeOK, SlotInv, Next
  PROVE  SlotInv'
<1> USE CoreAssumption
<1>1. ASSUME NEW f \in File, FileStep(f) PROVE SlotInv'
  BY <1>1, FileFrame DEF SlotInv
<1>2. ASSUME NEW d \in Device, DriverStep(d) PROVE SlotInv'
  <2>1. ASSUME NEW m \in Minor, AllocateSlot(d, m) PROVE SlotInv'
    BY <2>1 DEF AllocateSlot, SlotInv, TypeOK, DrvGoes
  <2>2. CASE ClearSlot(d)
    BY <2>2 DEF ClearSlot, SlotInv, TypeOK, DrvGoes
  <2>3. CASE FreeDevice(d) \/ UnregisterDevice(d)
    BY <2>3 DEF FreeDevice, UnregisterDevice, SlotInv, TypeOK, DrvGoes
  <2>4. CASE FlushOnRemove(d) \/ FlushOnRemoveReturns(d)
    BY <2>4 DEF FlushOnRemove, FlushOnRemoveReturns, SlotInv, TypeOK, DrvGoes, lifeVars
  <2>5. ASSUME NEW ok \in BOOLEAN, RegisterDevice(d, ok) PROVE SlotInv'
    BY <2>5 DEF RegisterDevice, SlotInv, TypeOK, DrvGoes, lifeVars
  <2>6. CASE InitialiseDevice(d) \/ RemoveDevice(d) \/ MarkGoingAway(d) \/ SignalHup(d)
    BY <2>6 DEF InitialiseDevice, RemoveDevice, MarkGoingAway, SignalHup,
                SlotInv, TypeOK, DrvGoes, lifeVars
  <2> QED BY <1>2, <2>1, <2>2, <2>3, <2>4, <2>5, <2>6 DEF DriverStep
<1>3. CASE Rest
  BY <1>3 DEF Rest, vars, lifeVars, drvVars, SlotInv
<1> QED BY <1>1, <1>2, <1>3 DEF Next

-----------------------------------------------------------------------------
(* The references: each file is counted once, the driver is counted once,  *)
(* and the last of them frees the device.                                  *)

LEMMA RefStepDriver ==
  ASSUME TypeOK, RefInv, NEW d \in Device, DriverStep(d)
  PROVE  RefInv'
<1>1. \A e \in Device : Holders(e)' = Holders(e)
  BY DriverFrame DEF Holders
<1>2. \A e \in Device : /\ Cardinality(Holders(e)) \in Nat
                        /\ Cardinality(Holders(e)) = 0 <=> Holders(e) = {}
  BY FilesCount DEF Holders
<1> USE <1>1, <1>2 DEF RefInv, DriverHolds, Added, DrvGoes, TypeOK
<1>3. ASSUME NEW m \in Minor, AllocateSlot(d, m) PROVE RefInv'
  BY <1>3 DEF AllocateSlot
<1>4. CASE InitialiseDevice(d)
  BY <1>4 DEF InitialiseDevice
<1>5. ASSUME NEW ok \in BOOLEAN, RegisterDevice(d, ok) PROVE RefInv'
  BY <1>5 DEF RegisterDevice, lifeVars
<1>6. CASE FreeDevice(d) \/ UnregisterDevice(d)
  <2>1. /\ drv[d] # "gone" /\ drv[d] # "none" /\ DriverHolds(d)
        /\ drv' = [drv EXCEPT ![d] = "gone"]
        /\ PutDevice(d)
        /\ ops' = ops
    BY <1>6 DEF FreeDevice, UnregisterDevice
  <2>2. ~DriverHolds(d)'
    BY <2>1
  <2>3. refs[d] = Cardinality(Holders(d)) + 1
    BY <2>1
  <2> QED BY <2>1, <2>2, <2>3 DEF PutDevice
<1>7. CASE \/ RemoveDevice(d) \/ MarkGoingAway(d) \/ SignalHup(d) \/ ClearSlot(d)
           \/ FlushOnRemove(d) \/ FlushOnRemoveReturns(d)
  <2>1. /\ UNCHANGED <<mem, refs, ops>>
        /\ Added(d) /\ Added(d)'
        /\ \A e \in Device \ {d} : drv'[e] = drv[e]
    BY <1>7 DEF RemoveDevice, MarkGoingAway, SignalHup, ClearSlot, FlushOnRemove,
                FlushOnRemoveReturns, lifeVars
  <2> QED BY <2>1
<1> QED BY <1>3, <1>4, <1>5, <1>6, <1>7 DEF DriverStep

LEMMA RefStepFile ==
  ASSUME ~StaticNodes, TypeOK, FileInv, RefInv, NEW f \in File, FileStep(f)
  PROVE  RefInv'
<1> USE CoreAssumption
<1>1. \A e \in Device : /\ Cardinality(Holders(e)) \in Nat
                        /\ Cardinality(Holders(e)) = 0 <=> Holders(e) = {}
  BY FilesCount DEF Holders
<1>2. UNCHANGED <<drv, ops>>
  BY FileFrame
<1>3. \A e \in Device : DriverHolds(e)' = DriverHolds(e) /\ Added(e)' = Added(e)
  BY <1>2 DEF DriverHolds, Added
<1>4. ASSUME NEW m \in Minor, LookUp(f, m) PROVE RefInv'
  <2>0. PICK d \in Device : d = table[m]
    BY <1>4 DEF LookUp, TypeOK
  <2>1. d \in Device /\ Added(d)
    BY <1>4, <2>0 DEF LookUp
  <2>2. f \notin Holders(d)
    BY <1>4 DEF LookUp, FileGoes, Holders
  <2>3. /\ Holders(d)' = Holders(d) \union {f}
        /\ \A e \in Device \ {d} : Holders(e)' = Holders(e)
    BY <1>4, <2>0, <2>1 DEF LookUp, FileGoes, Holders, TypeOK, FileInv
  <2>4. Cardinality(Holders(d)') = Cardinality(Holders(d)) + 1
    BY ZenonT(30), <2>2, <2>3, FilesCount DEF Holders
  <2>5. refs' = [refs EXCEPT ![d] = @ + 1] /\ mem' = mem
    BY <1>4, <2>0 DEF LookUp, GetDevice
  <2>6. ops[d] /\ drv[d] # "gone" /\ drv[d] # "none"
    <3>1. Added(d) => drv[d] # "gone" /\ drv[d] # "none"
      BY DEF Added
    <3>2. ops[d]
      BY <2>1 DEF RefInv
    <3> QED BY <2>1, <3>1, <3>2
  <2> DEFINE RefOk(e) ==
        /\ refs'[e] = Cardinality(Holders(e)') + IF DriverHolds(e) THEN 1 ELSE 0
        /\ mem'[e] = IF drv[e] = "none" THEN "none"
                     ELSE IF drv[e] = "gone" /\ Holders(e)' = {} THEN "freed" ELSE "live"
        /\ Holders(e)' # {} => ops[e] /\ (Added(e) \/ drv[e] = "gone")
  <2>7. \A e \in Device : RefOk(e)
    <3> SUFFICES ASSUME NEW e \in Device
                 PROVE  RefOk(e)
      OBVIOUS
    <3>1. CASE e = d
      <4>1. /\ refs[d] = Cardinality(Holders(d)) + IF DriverHolds(d) THEN 1 ELSE 0
            /\ mem[d] = IF drv[d] = "none" THEN "none"
                        ELSE IF drv[d] = "gone" /\ Holders(d) = {} THEN "freed" ELSE "live"
        BY <2>1 DEF RefInv
      <4>2. Cardinality(Holders(d)) \in Nat /\ refs[d] \in Nat
        BY <2>1, <1>1 DEF TypeOK
      <4>3. refs'[d] = refs[d] + 1
        BY <2>1, <2>5 DEF TypeOK
      <4>4. refs'[d] = Cardinality(Holders(d)') + IF DriverHolds(d) THEN 1 ELSE 0
        BY <4>1, <4>2, <4>3, <2>4
      <4>5. mem'[d] = IF drv[d] = "none" THEN "none"
                      ELSE IF drv[d] = "gone" /\ Holders(d)' = {} THEN "freed" ELSE "live"
        BY <4>1, <4>2, <2>3, <2>5, <2>6 DEF TypeOK
      <4>6. RefOk(d)
        BY <4>4, <4>5, <2>1, <2>6
      <4> QED BY <3>1, <4>6
    <3>2. CASE e # d
      BY <3>2, <2>1, <2>3, <2>5 DEF RefInv, TypeOK
    <3> QED BY <3>1, <3>2
  <2> QED BY <2>7, <1>2, <1>3 DEF RefInv
<1>5. CASE PutFile(f)
  <2>0. PICK d \in Device : d = fdev[f]
    BY <1>5, FileDevice DEF PutFile, FileGoes
  <2>1. d \in Device /\ f \in Holders(d)
    BY <1>5, <2>0 DEF PutFile, FileGoes, Holders
  <2>2. /\ Holders(d)' = Holders(d) \ {f}
        /\ \A e \in Device \ {d} : Holders(e)' = Holders(e)
    <3>1. /\ pc'[f] = "closed"
          /\ \A g \in File \ {f} : pc'[g] = pc[g] /\ fdev'[g] = fdev[g]
          /\ fdev[f] = d
      BY <1>5, <2>0 DEF PutFile, FileGoes, TypeOK
    <3> QED BY <2>1, <3>1 DEF Holders
  <2>3. Cardinality(Holders(d)') = Cardinality(Holders(d)) - 1
    BY <2>1, <2>2, FilesCount DEF Holders
  <2>4. Cardinality(Holders(d)') \in Nat /\ (Cardinality(Holders(d)') = 0 <=> Holders(d)' = {})
    BY <2>2, FilesCount DEF Holders
  <2>5. /\ refs' = [refs EXCEPT ![d] = @ - 1]
        /\ mem' = [mem EXCEPT ![d] = IF refs[d] = 1 THEN "freed" ELSE @]
    BY <1>5, <2>0 DEF PutFile, PutDevice
  <2>6. ops[d] /\ (Added(d) \/ drv[d] = "gone") /\ drv[d] # "none"
        /\ (DriverHolds(d) <=> drv[d] # "gone")
    <3>1. ops[d] /\ (Added(d) \/ drv[d] = "gone")
      BY <2>1 DEF RefInv
    <3>2. Added(d) => drv[d] # "gone" /\ drv[d] # "none"
      BY DEF Added
    <3> QED BY <3>1, <3>2 DEF DriverHolds
  <2> DEFINE RefOk(e) ==
        /\ refs'[e] = Cardinality(Holders(e)') + IF DriverHolds(e) THEN 1 ELSE 0
        /\ mem'[e] = IF drv[e] = "none" THEN "none"
                     ELSE IF drv[e] = "gone" /\ Holders(e)' = {} THEN "freed" ELSE "live"
        /\ Holders(e)' # {} => ops[e] /\ (Added(e) \/ drv[e] = "gone")
  <2>7. \A e \in Device : RefOk(e)
    <3> SUFFICES ASSUME NEW e \in Device
                 PROVE  RefOk(e)
      OBVIOUS
    <3>1. CASE e = d
      <4>1. /\ refs[d] = Cardinality(Holders(d)) + IF DriverHolds(d) THEN 1 ELSE 0
            /\ mem[d] = IF drv[d] = "none" THEN "none"
                        ELSE IF drv[d] = "gone" /\ Holders(d) = {} THEN "freed" ELSE "live"
        BY <2>1 DEF RefInv
      <4>2. Cardinality(Holders(d)) \in Nat /\ refs[d] \in Nat
        BY <2>1, <1>1 DEF TypeOK
      <4>3. refs'[d] = refs[d] - 1
        BY <2>1, <2>5 DEF TypeOK
      <4>4. refs'[d] = Cardinality(Holders(d)') + IF DriverHolds(d) THEN 1 ELSE 0
        BY <4>1, <4>2, <4>3, <2>3
      <4>5. mem'[d] = IF drv[d] = "none" THEN "none"
                      ELSE IF drv[d] = "gone" /\ Holders(d)' = {} THEN "freed" ELSE "live"
        BY <4>1, <4>2, <2>1, <2>3, <2>4, <2>5, <2>6 DEF TypeOK
      <4>6. RefOk(d)
        BY <4>4, <4>5, <2>6
      <4> QED BY <3>1, <4>6
    <3>2. CASE e # d
      BY <3>2, <2>1, <2>2, <2>5 DEF RefInv, TypeOK
    <3> QED BY <3>1, <3>2
  <2> QED BY <2>7, <1>2, <1>3 DEF RefInv
<1>6. CASE \/ QueueAllocationFails(f) \/ AttachQueue(f) \/ OpenInterrupted(f)
           \/ OpenRefused(f) \/ OpenDevice(f) \/ (\E ok \in BOOLEAN : OpenReturns(f, ok))
           \/ FlushFile(f) \/ FlushReturns(f) \/ DetachQueue(f) \/ CloseDevice(f)
           \/ CloseReturns(f)
  <2>1. /\ UNCHANGED <<mem, refs, fdev>>
        /\ \A g \in File : pc'[g] = "closed" <=> pc[g] = "closed"
    BY <1>6 DEF QueueAllocationFails, AttachQueue, OpenInterrupted, OpenRefused, OpenDevice,
                OpenReturns, FlushFile, FlushReturns, DetachQueue, CloseDevice,
                CloseReturns, lifeVars, FileGoes, TypeOK
  <2>2. \A e \in Device : Holders(e)' = Holders(e)
    BY <2>1 DEF Holders
  <2> QED BY <2>1, <2>2, <1>2, <1>3 DEF RefInv
<1> QED BY <1>4, <1>5, <1>6 DEF FileStep

-----------------------------------------------------------------------------
(* The users: only files take part, and of those one at a time.            *)

(* A step of f on its device d leaves the sets of every other device, and  *)
(* the membership of every other file, alone.                              *)
LEMMA OthersKeepTheirPlace ==
  ASSUME TypeOK, NEW f \in File, NEW a, NEW b, FileGoes(f, a, b), fdev' = fdev
  PROVE  /\ \A e \in Device \ {fdev[f]} :
              /\ UserFiles(e)' = UserFiles(e)
              /\ InCallback(e)' = InCallback(e)
              /\ Attached(e)' = Attached(e)
         /\ \A g \in File \ {f} : pc'[g] = pc[g]
         /\ pc[f] = a /\ pc'[f] = b
<1>1. \A g \in File \ {f} : pc'[g] = pc[g]
  BY DEF FileGoes, TypeOK
<1>2. pc[f] = a /\ pc'[f] = b
  BY DEF FileGoes, TypeOK
<1> QED BY <1>1, <1>2 DEF UserFiles, InCallback, Attached

(* While a call of a file is inside the driver the file owns the mutex, so *)
(* a step that finds the mutex free finds nobody inside.                   *)
LEMMA FreeMutex ==
  ASSUME UserInv, NEW d \in Device, mutex[d] = NoFile
  PROVE  InCallback(d) = {}
<1>1. \A f \in File : f \notin InCallback(d)
  BY CoreAssumption DEF UserInv, UserOk
<1> QED BY <1>1 DEF InCallback

(* A step of f that changes its own device only.                           *)
LEMMA OneDevice ==
  ASSUME TypeOK, UserInv, NEW f \in File, NEW a, NEW b, FileGoes(f, a, b), fdev' = fdev,
         NEW d \in Device, fdev[f] = d,
         \A e \in Device \ {d} : /\ users'[e] = users[e]
                                 /\ mutex'[e] = mutex[e]
                                 /\ driverOpen'[e] = driverOpen[e],
         UserOk(d)'
  PROVE  UserInv'
<1> SUFFICES ASSUME NEW e \in Device \ {d} PROVE UserOk(e)'
  BY DEF UserInv
<1>1. /\ UserFiles(e)' = UserFiles(e)
      /\ InCallback(e)' = InCallback(e)
  BY OthersKeepTheirPlace
<1>2. \A g \in InCallback(e) : pc'[g] = pc[g]
  <2>1. f \notin InCallback(e)
    BY DEF InCallback
  <2> QED BY <2>1, OthersKeepTheirPlace DEF InCallback
<1>3. UserOk(e)
  BY DEF UserInv
<1> QED BY <1>1, <1>2, <1>3 DEF UserOk

(* A step outside the driver, by a file that stays or stays not a user.    *)
LEMMA NoUserStep ==
  ASSUME TypeOK, UserInv, UNCHANGED <<users, mutex, driverOpen>>,
         \A e \in Device : /\ UserFiles(e)' = UserFiles(e)
                           /\ InCallback(e)' = InCallback(e)
                           /\ \A g \in InCallback(e) : pc'[g] = pc[g]
  PROVE  UserInv'
BY DEF UserInv, UserOk

LEMMA UserStepFile ==
  ASSUME TypeOK, FileInv, RefInv, UserInv, NEW f \in File, FileStep(f)
  PROVE  UserInv'
<1> USE CoreAssumption
<1>1. \A e \in Device : /\ UserOk(e)
                        /\ Cardinality(UserFiles(e)) \in Nat
                        /\ Cardinality(UserFiles(e)) = 0 <=> UserFiles(e) = {}
  BY FilesCount DEF UserFiles, UserInv
<1>2. ASSUME NEW m \in Minor, LookUp(f, m) PROVE UserInv'
  <2>1. /\ pc[f] = "closed" /\ pc'[f] = "looked_up"
        /\ \A g \in File \ {f} : pc'[g] = pc[g] /\ fdev'[g] = fdev[g]
    BY <1>2 DEF LookUp, FileGoes, TypeOK
  <2>2. \A e \in Device : /\ UserFiles(e)' = UserFiles(e)
                          /\ InCallback(e)' = InCallback(e)
                          /\ \A g \in InCallback(e) : pc'[g] = pc[g]
    BY <2>1 DEF UserFiles, InCallback
  <2> QED BY <1>2, <2>2, NoUserStep DEF LookUp, useVars
<1>3. CASE PutFile(f)
  <2>1. /\ pc[f] = "put" /\ pc'[f] = "closed"
        /\ \A g \in File \ {f} : pc'[g] = pc[g] /\ fdev'[g] = fdev[g]
    BY <1>3 DEF PutFile, FileGoes, TypeOK
  <2>2. \A e \in Device : /\ UserFiles(e)' = UserFiles(e)
                          /\ InCallback(e)' = InCallback(e)
                          /\ \A g \in InCallback(e) : pc'[g] = pc[g]
    BY <2>1 DEF UserFiles, InCallback
  <2> QED BY <1>3, <2>2, NoUserStep DEF PutFile, useVars
<1>4. CASE \/ QueueAllocationFails(f) \/ AttachQueue(f) \/ OpenInterrupted(f)
           \/ OpenRefused(f) \/ DetachQueue(f)
  <2>1. /\ \/ pc[f] \in {"looked_up", "attached", "undo"} /\ pc'[f] \in {"put", "attached", "undo"}
           \/ pc[f] = "open" /\ pc'[f] = "detached"
        /\ \A g \in File \ {f} : pc'[g] = pc[g]
        /\ fdev' = fdev
    BY <1>4 DEF QueueAllocationFails, AttachQueue, OpenInterrupted, OpenRefused, DetachQueue,
                FileGoes, TypeOK
  <2>2. \A e \in Device : /\ UserFiles(e)' = UserFiles(e)
                          /\ InCallback(e)' = InCallback(e)
                          /\ \A g \in InCallback(e) : pc'[g] = pc[g]
    BY <2>1 DEF UserFiles, InCallback
  <2>3. UNCHANGED <<users, mutex, driverOpen>>
    BY <1>4 DEF QueueAllocationFails, AttachQueue, OpenInterrupted, OpenRefused, DetachQueue,
                useVars
  <2> QED BY <2>2, <2>3, NoUserStep
<1>5. CASE OpenDevice(f)
  <2>1. PICK d \in Device : d = fdev[f]
    BY <1>5, FileDevice DEF OpenDevice, FileGoes
  <2> DEFINE first == users[d] = 0 /\ ops[d]
             to == IF first THEN "opening" ELSE "open"
  <2>2. /\ FileGoes(f, "attached", to)
        /\ fdev' = fdev
        /\ mutex[d] = NoFile
        /\ users' = [users EXCEPT ![d] = @ + 1]
        /\ mutex' = [mutex EXCEPT ![d] = IF first THEN f ELSE NoFile]
        /\ driverOpen' = driverOpen
    BY <1>5, <2>1 DEF OpenDevice
  <2>3. /\ pc[f] = "attached" /\ pc'[f] = to
        /\ \A g \in File \ {f} : pc'[g] = pc[g]
    BY <2>2 DEF FileGoes, TypeOK
  <2>4. f \notin UserFiles(d) /\ UserFiles(d)' = UserFiles(d) \union {f}
    BY <2>1, <2>2, <2>3 DEF UserFiles
  <2>5. Cardinality(UserFiles(d)') = Cardinality(UserFiles(d)) + 1
    BY <2>4, FilesCount DEF UserFiles
  <2>6. InCallback(d) = {}
    BY <2>2, FreeMutex
  <2>7. InCallback(d)' = IF first THEN {f} ELSE {}
    BY <2>1, <2>2, <2>3, <2>6 DEF InCallback
  <2>8. ops[d]
    BY <2>1, <2>3 DEF RefInv, Holders
  <2>9. /\ users'[d] = users[d] + 1
        /\ mutex'[d] = IF first THEN f ELSE NoFile
        /\ driverOpen'[d] = driverOpen[d]
    BY <2>2 DEF TypeOK
  <2>10. /\ users[d] = Cardinality(UserFiles(d))
         /\ driverOpen[d] <=> UserFiles(d) # {}
    BY <1>1, <2>2 DEF UserOk
  <2>11. first <=> UserFiles(d) = {}
    BY <1>1, <2>8, <2>10
  <2> HIDE DEF first
  <2>12. UserOk(d)'
    BY <2>3, <2>4, <2>5, <2>7, <2>9, <2>10, <2>11 DEF UserOk
  <2>13. \A e \in Device \ {d} : /\ users'[e] = users[e]
                                 /\ mutex'[e] = mutex[e]
                                 /\ driverOpen'[e] = driverOpen[e]
    BY <2>2 DEF TypeOK
  <2> QED BY <2>1, <2>2, <2>12, <2>13, OneDevice
<1>6. ASSUME NEW ok \in BOOLEAN, OpenReturns(f, ok) PROVE UserInv'
  <2>1. PICK d \in Device : d = fdev[f]
    BY <1>6, FileDevice DEF OpenReturns, FileGoes
  <2> DEFINE to == IF ok THEN "open" ELSE "undo"
  <2>2. /\ FileGoes(f, "opening", to)
        /\ fdev' = fdev
        /\ users' = [users EXCEPT ![d] = IF ok THEN @ ELSE @ - 1]
        /\ driverOpen' = [driverOpen EXCEPT ![d] = ok]
        /\ mutex' = [mutex EXCEPT ![d] = NoFile]
    BY <1>6, <2>1 DEF OpenReturns
  <2>3. /\ pc[f] = "opening" /\ pc'[f] = to
        /\ \A g \in File \ {f} : pc'[g] = pc[g]
    BY <2>2 DEF FileGoes, TypeOK
  <2>4. f \in InCallback(d) /\ mutex[d] = f /\ UserFiles(d) = {f}
    BY <1>1, <2>1, <2>3 DEF UserOk, InCallback
  <2>5. InCallback(d) = {f}
    BY <1>1, <2>4 DEF UserOk, InCallback
  <2>6. InCallback(d)' = {}
    BY <2>1, <2>2, <2>3, <2>5 DEF InCallback
  <2>7. UserFiles(d)' = IF ok THEN {f} ELSE {}
    BY <2>1, <2>2, <2>3, <2>4 DEF UserFiles
  <2>8. Cardinality({f}) = 1 /\ Cardinality({}) = 0
    BY FS_Singleton, FS_EmptySet
  <2>9. /\ users'[d] = IF ok THEN users[d] ELSE users[d] - 1
        /\ driverOpen'[d] = ok
        /\ mutex'[d] = NoFile
        /\ users[d] = 1
    BY <1>1, <2>2, <2>4, <2>8 DEF TypeOK, UserOk
  <2>10. UserOk(d)'
    BY <2>6, <2>7, <2>8, <2>9 DEF UserOk
  <2>11. \A e \in Device \ {d} : /\ users'[e] = users[e]
                                 /\ mutex'[e] = mutex[e]
                                 /\ driverOpen'[e] = driverOpen[e]
    BY <2>2 DEF TypeOK
  <2> QED BY <2>1, <2>2, <2>10, <2>11, OneDevice
<1>7. CASE FlushFile(f)
  <2>1. PICK d \in Device : d = fdev[f]
    BY <1>7, FileDevice DEF FlushFile, FileGoes
  <2>2. /\ FileGoes(f, "open", "flushing")
        /\ UNCHANGED <<fdev, users, driverOpen>>
        /\ mutex[d] = NoFile
        /\ mutex' = [mutex EXCEPT ![d] = f]
    BY <1>7, <2>1 DEF FlushFile
  <2>3. /\ pc[f] = "open" /\ pc'[f] = "flushing"
        /\ \A g \in File \ {f} : pc'[g] = pc[g]
    BY <2>2 DEF FileGoes, TypeOK
  <2>4. UserFiles(d)' = UserFiles(d) /\ f \in UserFiles(d)
    BY <2>1, <2>2, <2>3 DEF UserFiles
  <2>5. InCallback(d)' = {f}
    BY <2>1, <2>2, <2>3, FreeMutex DEF InCallback
  <2>6. mutex'[d] = f /\ driverOpen[d]
    BY <1>1, <2>2, <2>4 DEF TypeOK, UserOk
  <2>7. UserOk(d)'
    BY <1>1, <2>2, <2>3, <2>4, <2>5, <2>6 DEF UserOk
  <2>8. \A e \in Device \ {d} : mutex'[e] = mutex[e]
    BY <2>2 DEF TypeOK
  <2> QED BY <2>1, <2>2, <2>7, <2>8, OneDevice
<1>8. CASE FlushReturns(f)
  <2>1. PICK d \in Device : d = fdev[f]
    BY <1>8, FileDevice DEF FlushReturns, FileGoes
  <2>2. /\ FileGoes(f, "flushing", "open")
        /\ UNCHANGED <<fdev, users, driverOpen>>
        /\ mutex' = [mutex EXCEPT ![d] = NoFile]
    BY <1>8, <2>1 DEF FlushReturns
  <2>3. /\ pc[f] = "flushing" /\ pc'[f] = "open"
        /\ \A g \in File \ {f} : pc'[g] = pc[g]
    BY <2>2 DEF FileGoes, TypeOK
  <2>4. UserFiles(d)' = UserFiles(d) /\ f \in UserFiles(d)
    BY <2>1, <2>2, <2>3 DEF UserFiles
  <2>5. f \in InCallback(d) /\ driverOpen[d]
    BY <1>1, <2>1, <2>3 DEF UserOk, InCallback
  <2>6. InCallback(d) = {f}
    BY <1>1, <2>5 DEF UserOk, InCallback
  <2>7. InCallback(d)' = {} /\ mutex'[d] = NoFile
    BY <2>1, <2>2, <2>3, <2>6 DEF InCallback, TypeOK
  <2>8. UserOk(d)'
    BY <1>1, <2>2, <2>4, <2>5, <2>7 DEF UserOk
  <2>9. \A e \in Device \ {d} : mutex'[e] = mutex[e]
    BY <2>2 DEF TypeOK
  <2> QED BY <2>1, <2>2, <2>8, <2>9, OneDevice
<1>9. CASE CloseDevice(f)
  <2>1. PICK d \in Device : d = fdev[f]
    BY <1>9, FileDevice DEF CloseDevice, FileGoes
  <2> DEFINE last == users[d] = 1 /\ ops[d]
             to == IF last THEN "closing" ELSE "put"
  <2>2. /\ FileGoes(f, "detached", to)
        /\ fdev' = fdev
        /\ mutex[d] = NoFile
        /\ users' = [users EXCEPT ![d] = @ - 1]
        /\ mutex' = [mutex EXCEPT ![d] = IF last THEN f ELSE NoFile]
        /\ driverOpen' = driverOpen
    BY <1>9, <2>1 DEF CloseDevice
  <2>3. /\ pc[f] = "detached" /\ pc'[f] = to
        /\ \A g \in File \ {f} : pc'[g] = pc[g]
    BY <2>2 DEF FileGoes, TypeOK
  <2>4. f \in UserFiles(d) /\ UserFiles(d)' = UserFiles(d) \ {f}
    BY <2>1, <2>2, <2>3 DEF UserFiles
  <2>5. Cardinality(UserFiles(d)') = Cardinality(UserFiles(d)) - 1
    BY <2>4, FilesCount DEF UserFiles
  <2>6. Cardinality(UserFiles(d)') = 0 <=> UserFiles(d)' = {}
    BY <2>4, FilesCount DEF UserFiles
  <2>7. InCallback(d)' = IF last THEN {f} ELSE {}
    BY <2>1, <2>2, <2>3, FreeMutex DEF InCallback
  <2>8. ops[d]
    BY <2>1, <2>3 DEF RefInv, Holders
  <2>9. /\ users'[d] = users[d] - 1
        /\ mutex'[d] = IF last THEN f ELSE NoFile
        /\ driverOpen'[d] = driverOpen[d]
    BY <2>2 DEF TypeOK
  <2>10. users[d] = Cardinality(UserFiles(d)) /\ driverOpen[d]
    BY <1>1, <2>2, <2>4 DEF UserOk
  <2>11. last <=> UserFiles(d)' = {}
    BY <1>1, <2>5, <2>6, <2>8, <2>10
  <2> HIDE DEF last
  <2>12. UserOk(d)'
    BY <2>3, <2>5, <2>7, <2>9, <2>10, <2>11 DEF UserOk
  <2>13. \A e \in Device \ {d} : /\ users'[e] = users[e]
                                 /\ mutex'[e] = mutex[e]
                                 /\ driverOpen'[e] = driverOpen[e]
    BY <2>2 DEF TypeOK
  <2> QED BY <2>1, <2>2, <2>12, <2>13, OneDevice
<1>10. CASE CloseReturns(f)
  <2>1. PICK d \in Device : d = fdev[f]
    BY <1>10, FileDevice DEF CloseReturns, FileGoes
  <2>2. /\ FileGoes(f, "closing", "put")
        /\ UNCHANGED <<fdev, users>>
        /\ driverOpen' = [driverOpen EXCEPT ![d] = FALSE]
        /\ mutex' = [mutex EXCEPT ![d] = NoFile]
    BY <1>10, <2>1 DEF CloseReturns
  <2>3. /\ pc[f] = "closing" /\ pc'[f] = "put"
        /\ \A g \in File \ {f} : pc'[g] = pc[g]
    BY <2>2 DEF FileGoes, TypeOK
  <2>4. UserFiles(d)' = UserFiles(d)
    BY <2>1, <2>2, <2>3 DEF UserFiles
  <2>5. f \in InCallback(d) /\ UserFiles(d) = {}
    BY <1>1, <2>1, <2>3 DEF UserOk, InCallback
  <2>6. InCallback(d) = {f}
    BY <1>1, <2>5 DEF UserOk, InCallback
  <2>7. InCallback(d)' = {} /\ mutex'[d] = NoFile /\ ~driverOpen'[d]
    BY <2>1, <2>2, <2>3, <2>6 DEF InCallback, TypeOK
  <2>8. UserOk(d)'
    BY <1>1, <2>2, <2>4, <2>5, <2>7 DEF UserOk
  <2>9. \A e \in Device \ {d} : mutex'[e] = mutex[e] /\ driverOpen'[e] = driverOpen[e]
    BY <2>2 DEF TypeOK
  <2> QED BY <2>1, <2>2, <2>8, <2>9, OneDevice
<1> QED BY <1>2, <1>3, <1>4, <1>5, <1>6, <1>7, <1>8, <1>9, <1>10 DEF FileStep

-----------------------------------------------------------------------------
(* The hang-up.                                                            *)

LEMMA HupStepDriver ==
  ASSUME TypeOK, RefInv, UserInv, HupInv, NEW d \in Device, DriverStep(d)
  PROVE  HupInv'
<1>1. /\ UNCHANGED <<queues, mutex, pc, fdev>>
      /\ \A e \in Device : /\ Holders(e)' = Holders(e)
                           /\ InCallback(e)' = InCallback(e)
                           /\ Attached(e)' = Attached(e)
  BY DriverFrame DEF Holders, InCallback, Attached, useVars
<1> USE <1>1 DEF HupInv, TypeOK, DrvGoes
<1>2. ASSUME NEW m \in Minor, AllocateSlot(d, m) PROVE HupInv'
  BY <1>2 DEF AllocateSlot, fileVars
<1>3. CASE InitialiseDevice(d) \/ RemoveDevice(d)
  BY <1>3 DEF InitialiseDevice, RemoveDevice, fileVars
<1>4. ASSUME NEW ok \in BOOLEAN, RegisterDevice(d, ok) PROVE HupInv'
  BY <1>4 DEF RegisterDevice, fileVars
<1>5. CASE FreeDevice(d)
  <2>1. Holders(d) = {}
    BY <1>5 DEF FreeDevice, RefInv, Added
  <2>2. \A f \in File : pc[f] # "closed" => fdev[f] # d
    BY <2>1 DEF Holders
  <2> QED BY <1>5, <2>1, <2>2 DEF FreeDevice, fileVars
<1>6. CASE MarkGoingAway(d)
  <2>1. InCallback(d) = {}
    BY <1>6, FreeMutex DEF MarkGoingAway
  <2> QED BY <1>6, <2>1 DEF MarkGoingAway, fileVars
<1>7. CASE SignalHup(d)
  <2>1. \A f \in File : hup'[f] <=> (hup[f] \/ f \in queues[d])
    BY <1>7 DEF SignalHup
  <2>2. \A f \in File : pc[f] \in {"opening", "open", "flushing"} /\ fdev[f] = d => hup'[f]
    BY <2>1 DEF Attached
  <2> QED BY <1>7, <2>1, <2>2 DEF SignalHup
<1>8. CASE ClearSlot(d) \/ FlushOnRemove(d) \/ FlushOnRemoveReturns(d) \/ UnregisterDevice(d)
  <2>1. /\ drv[d] \in {"signalled", "cleared", "flushing", "flushed"}
        /\ drv'[d] \in {"cleared", "flushing", "flushed", "gone"}
        /\ \A e \in Device \ {d} : drv'[e] = drv[e]
        /\ UNCHANGED <<goingAway, hup>>
    BY <1>8 DEF ClearSlot, FlushOnRemove, FlushOnRemoveReturns, UnregisterDevice, fileVars
  <2> QED BY <2>1
<1> QED BY <1>2, <1>3, <1>4, <1>5, <1>6, <1>7, <1>8 DEF DriverStep

LEMMA HupStepFile ==
  ASSUME TypeOK, FileInv, RefInv, HupInv, NEW f \in File, FileStep(f),
         ~StaticNodes
  PROVE  HupInv'
<1> USE CoreAssumption
<1>1. UNCHANGED <<drv, goingAway>>
  BY FileFrame
<1>2. CASE AttachQueue(f)
  <2>1. PICK d \in Device : d = fdev[f]
    BY <1>2, FileDevice DEF AttachQueue, FileGoes
  <2>2. /\ FileGoes(f, "looked_up", "attached")
        /\ fdev' = fdev
        /\ queues' = [queues EXCEPT ![d] = @ \union {f}]
        /\ hup' = [hup EXCEPT ![f] = FALSE]
    BY <1>2, <2>1 DEF AttachQueue
  <2>3. /\ pc[f] = "looked_up" /\ pc'[f] = "attached"
        /\ \A g \in File \ {f} : pc'[g] = pc[g] /\ hup'[g] = hup[g]
    BY <2>2 DEF FileGoes, TypeOK
  <2>4. \A e \in Device : Holders(e)' = Holders(e) /\ InCallback(e)' = InCallback(e)
    BY <2>2, <2>3 DEF Holders, InCallback
  <2>5. \A e \in Device : Attached(e)' = IF e = d THEN Attached(e) \union {f} ELSE Attached(e)
    BY <2>1, <2>2, <2>3 DEF Attached
  <2>6. \A e \in Device : \A g \in InCallback(e) : pc'[g] = pc[g]
    BY <2>3 DEF InCallback
  <2> QED BY <1>1, <2>2, <2>3, <2>4, <2>5, <2>6 DEF HupInv, TypeOK
<1>3. CASE DetachQueue(f)
  <2>1. PICK d \in Device : d = fdev[f]
    BY <1>3, FileDevice DEF DetachQueue, FileGoes
  <2>2. /\ UNCHANGED <<fdev, hup>>
        /\ queues' = [queues EXCEPT ![d] = @ \ {f}]
        /\ pc[f] \in {"open", "undo"} /\ pc'[f] \in {"detached", "put"}
        /\ \A g \in File \ {f} : pc'[g] = pc[g]
    BY <1>3, <2>1 DEF DetachQueue, FileGoes, TypeOK
  <2>3. \A e \in Device : Holders(e)' = Holders(e) /\ InCallback(e)' = InCallback(e)
    BY <2>2 DEF Holders, InCallback
  <2>4. \A e \in Device : Attached(e)' = IF e = d THEN Attached(e) \ {f} ELSE Attached(e)
    BY <2>1, <2>2 DEF Attached
  <2>5. \A e \in Device : \A g \in InCallback(e) : pc'[g] = pc[g]
    BY <2>2 DEF InCallback
  <2> QED BY <1>1, <2>2, <2>3, <2>4, <2>5 DEF HupInv, TypeOK
<1>4. ASSUME NEW m \in Minor, LookUp(f, m) PROVE HupInv'
  <2>1. PICK d \in Device : d = table[m]
    BY <1>4 DEF LookUp, TypeOK
  <2>2. /\ pc[f] = "closed" /\ pc'[f] = "looked_up" /\ fdev'[f] = d
        /\ \A g \in File \ {f} : pc'[g] = pc[g] /\ fdev'[g] = fdev[g]
        /\ UNCHANGED <<queues, hup>>
    BY <1>4, <2>1 DEF LookUp, FileGoes, TypeOK, useVars
  <2>3. Added(d)
    BY <1>4, <2>1 DEF LookUp
  <2>4. \A e \in Device : /\ InCallback(e)' = InCallback(e)
                          /\ Attached(e)' = Attached(e)
                          /\ Holders(e)' # {} => Holders(e) # {} \/ e = d
    BY <2>2 DEF Holders, InCallback, Attached
  <2>5. \A e \in Device : \A g \in InCallback(e) : pc'[g] = pc[g]
    BY <2>2 DEF InCallback
  <2>6. drv[d] # "gone"
    BY <2>3 DEF Added
  <2> QED BY <1>1, <2>2, <2>4, <2>5, <2>6 DEF HupInv
<1>5. CASE PutFile(f)
  <2>1. /\ pc[f] = "put" /\ pc'[f] = "closed" /\ fdev'[f] = NoDevice
        /\ \A g \in File \ {f} : pc'[g] = pc[g] /\ fdev'[g] = fdev[g]
        /\ UNCHANGED <<queues, hup>>
    BY <1>5 DEF PutFile, FileGoes, TypeOK, useVars
  <2>2. \A e \in Device : /\ InCallback(e)' = InCallback(e)
                          /\ Attached(e)' = Attached(e)
                          /\ Holders(e)' # {} => Holders(e) # {}
    BY <2>1 DEF Holders, InCallback, Attached
  <2>3. \A e \in Device : \A g \in InCallback(e) : pc'[g] = pc[g]
    BY <2>1 DEF InCallback
  <2> QED BY <1>1, <2>1, <2>2, <2>3 DEF HupInv
<1>6. CASE QueueAllocationFails(f)
  <2>1. /\ pc[f] = "looked_up" /\ pc'[f] = "put"
        /\ \A g \in File \ {f} : pc'[g] = pc[g]
        /\ UNCHANGED <<queues, hup, fdev>>
    BY <1>6 DEF QueueAllocationFails, FileGoes, TypeOK, useVars
  <2>2. \A e \in Device : /\ InCallback(e)' = InCallback(e)
                          /\ Attached(e)' = Attached(e)
                          /\ Holders(e)' = Holders(e)
    BY <2>1 DEF Holders, InCallback, Attached
  <2>3. \A e \in Device : \A g \in InCallback(e) : pc'[g] = pc[g]
    BY <2>1 DEF InCallback
  <2> QED BY <1>1, <2>1, <2>2, <2>3 DEF HupInv
<1>7. CASE CloseDevice(f) \/ CloseReturns(f)
  <2>1. /\ pc[f] \in {"detached", "closing"} /\ pc'[f] \in {"closing", "put"}
        /\ \A g \in File \ {f} : pc'[g] = pc[g]
        /\ UNCHANGED <<queues, hup, fdev>>
    BY <1>7 DEF CloseDevice, CloseReturns, FileGoes, TypeOK
  <2>2. \A e \in Device : /\ Attached(e)' = Attached(e)
                          /\ Holders(e)' = Holders(e)
    BY <2>1 DEF Holders, Attached
  <2>3. \A e \in Device : \A g \in InCallback(e)' :
          \/ g = f /\ pc'[g] = "closing"
          \/ g # f /\ g \in InCallback(e) /\ pc'[g] = pc[g]
    BY <2>1 DEF InCallback
  <2> QED BY <1>1, <2>1, <2>2, <2>3 DEF HupInv
<1>8. CASE \/ OpenInterrupted(f) \/ OpenRefused(f) \/ (\E ok \in BOOLEAN : OpenReturns(f, ok))
           \/ FlushReturns(f)
  <2>1. /\ \/ pc[f] = "attached" /\ pc'[f] = "undo"
           \/ pc[f] = "opening" /\ pc'[f] \in {"open", "undo"}
           \/ pc[f] = "flushing" /\ pc'[f] = "open"
        /\ \A g \in File \ {f} : pc'[g] = pc[g]
        /\ UNCHANGED <<queues, hup, fdev>>
    BY <1>8 DEF OpenInterrupted, OpenRefused, OpenReturns, FlushReturns, FileGoes, TypeOK, useVars
  <2>2. \A e \in Device : /\ Attached(e)' = Attached(e)
                          /\ Holders(e)' = Holders(e)
    BY <2>1 DEF Holders, Attached
  <2>3. \A e \in Device : \A g \in InCallback(e)' :
          g # f /\ g \in InCallback(e) /\ pc'[g] = pc[g]
    BY <2>1 DEF InCallback
  <2> QED BY <1>1, <2>1, <2>2, <2>3 DEF HupInv
<1>9. CASE OpenDevice(f) \/ FlushFile(f)
  <2>1. PICK d \in Device : d = fdev[f]
    BY <1>9, FileDevice DEF OpenDevice, FlushFile, FileGoes
  <2>2. /\ \/ pc[f] = "attached" /\ pc'[f] \in {"opening", "open"}
           \/ pc[f] = "open" /\ pc'[f] = "flushing"
        /\ \A g \in File \ {f} : pc'[g] = pc[g]
        /\ UNCHANGED <<queues, hup, fdev>>
        /\ ~goingAway[d]
    BY <1>9, <2>1 DEF OpenDevice, FlushFile, FileGoes, TypeOK
  <2>3. \A e \in Device : /\ Attached(e)' = Attached(e)
                          /\ Holders(e)' = Holders(e)
    BY <2>2 DEF Holders, Attached
  <2>4. \A e \in Device : \A g \in InCallback(e)' :
          \/ e = d
          \/ g # f /\ g \in InCallback(e) /\ pc'[g] = pc[g]
    BY <2>1, <2>2 DEF InCallback
  <2>5. f \in Holders(d)
    BY <2>1, <2>2 DEF Holders
  <2>6. drv[d] \notin {"signalled", "cleared", "flushing", "flushed", "gone"}
    BY <2>2, <2>5 DEF HupInv
  <2> QED BY <1>1, <2>1, <2>2, <2>3, <2>4, <2>6 DEF HupInv
<1> QED BY <1>2, <1>3, <1>4, <1>5, <1>6, <1>7, <1>8, <1>9 DEF FileStep

-----------------------------------------------------------------------------
(* Types: counts stay natural because no path drops a reference or a user  *)
(* that it did not take.                                                   *)

LEMMA TypeStepDriver ==
  ASSUME TypeOK, RefInv, SlotInv, NEW d \in Device, DriverStep(d)
  PROVE  TypeOK'
<1>1. UNCHANGED <<useVars, pc, fdev>>
  BY DriverFrame
<1> USE <1>1 DEF TypeOK, DrvGoes, DrvState, useVars
<1>2. ASSUME NEW m \in Minor, AllocateSlot(d, m) PROVE TypeOK'
  BY <1>2, CoreAssumption DEF AllocateSlot, fileVars, Minor
<1>3. CASE InitialiseDevice(d)
  BY <1>3 DEF InitialiseDevice, fileVars
<1>4. ASSUME NEW ok \in BOOLEAN, RegisterDevice(d, ok) PROVE TypeOK'
  BY <1>4 DEF RegisterDevice, lifeVars, fileVars
<1>5. CASE FreeDevice(d) \/ UnregisterDevice(d)
  <2>1. DriverHolds(d) /\ PutDevice(d) /\ drv' = [drv EXCEPT ![d] = "gone"]
        /\ UNCHANGED <<table, minor, goingAway, ops, hup>>
    BY <1>5 DEF FreeDevice, UnregisterDevice, DriverHolds, Added, fileVars
  <2>2. Cardinality(Holders(d)) \in Nat
    BY FilesCount DEF Holders
  <2>3. refs[d] - 1 \in Nat
    BY <2>1, <2>2 DEF RefInv
  <2> QED BY <2>1, <2>3 DEF PutDevice
<1>6. CASE RemoveDevice(d) \/ MarkGoingAway(d)
  BY <1>6 DEF RemoveDevice, MarkGoingAway, lifeVars, fileVars
<1>7. CASE SignalHup(d)
  BY <1>7 DEF SignalHup, lifeVars
<1>8. CASE ClearSlot(d)
  BY <1>8 DEF ClearSlot, fileVars
<1>9. CASE FlushOnRemove(d) \/ FlushOnRemoveReturns(d)
  BY <1>9 DEF FlushOnRemove, FlushOnRemoveReturns, lifeVars, fileVars
<1> QED BY <1>2, <1>3, <1>4, <1>5, <1>6, <1>7, <1>8, <1>9 DEF DriverStep

LEMMA TypeStepFile ==
  ASSUME TypeOK, FileInv, RefInv, UserInv, NEW f \in File, FileStep(f)
  PROVE  TypeOK'
<1>1. UNCHANGED <<table, minor, drv, goingAway, ops>>
  BY FileFrame
<1>2. pc[f] # "closed" => /\ fdev[f] \in Device
                          /\ UserOk(fdev[f])
                          /\ f \in Holders(fdev[f])
  BY FileDevice DEF UserInv, Holders
<1> USE <1>1 DEF TypeOK, FileGoes, FileState
<1>3. ASSUME NEW m \in Minor, LookUp(f, m) PROVE TypeOK'
  BY <1>3 DEF LookUp, GetDevice, useVars
<1>4. CASE PutFile(f)
  <2>1. PICK d \in Device : d = fdev[f]
    BY <1>2, <1>4 DEF PutFile
  <2>2. f \in Holders(d)
    BY <1>2, <1>4, <2>1 DEF PutFile
  <2>3. Cardinality(Holders(d)) \in Nat /\ Cardinality(Holders(d)) # 0
    BY <2>2, FilesCount DEF Holders
  <2>4. refs[d] - 1 \in Nat
    BY <2>3 DEF RefInv
  <2> QED BY <1>4, <2>1, <2>4 DEF PutFile, PutDevice, useVars
<1>5. CASE QueueAllocationFails(f) \/ OpenInterrupted(f) \/ OpenRefused(f)
  BY <1>5 DEF QueueAllocationFails, OpenInterrupted, OpenRefused, lifeVars, useVars
<1>6. CASE AttachQueue(f) \/ DetachQueue(f)
  <2>1. fdev[f] \in Device
    BY <1>2, <1>6 DEF AttachQueue, DetachQueue
  <2>2. hup' \in [File -> BOOLEAN]
    BY <1>6 DEF AttachQueue, DetachQueue
  <2>3. queues' \in [Device -> SUBSET File]
    <3>1. queues[fdev[f]] \union {f} \in SUBSET File /\ queues[fdev[f]] \ {f} \in SUBSET File
      BY <2>1
    <3>2. queues' = [queues EXCEPT ![fdev[f]] = queues[fdev[f]] \union {f}]
          \/ queues' = [queues EXCEPT ![fdev[f]] = queues[fdev[f]] \ {f}]
      BY <1>6 DEF AttachQueue, DetachQueue
    <3> QED BY <2>1, <3>1, <3>2
  <2>4. pc' \in [File -> FileState]
    BY <1>6 DEF AttachQueue, DetachQueue
  <2> QED BY <1>6, <2>2, <2>3, <2>4 DEF AttachQueue, DetachQueue, lifeVars
<1>7. CASE OpenDevice(f)
  BY <1>2, <1>7 DEF OpenDevice, lifeVars
<1>8. CASE FlushFile(f) \/ FlushReturns(f) \/ CloseReturns(f)
  <2>1. mutex' \in [Device -> File \union {NoFile}] /\ driverOpen' \in [Device -> BOOLEAN]
    BY ZenonT(30), <1>8 DEF FlushFile, FlushReturns, CloseReturns
  <2>2. pc' \in [File -> FileState]
    BY <1>8 DEF FlushFile, FlushReturns, CloseReturns
  <2> QED BY <1>8, <2>1, <2>2 DEF FlushFile, FlushReturns, CloseReturns, lifeVars
<1>9. CASE CloseDevice(f)
  <2>1. PICK d \in Device : d = fdev[f]
    BY <1>2, <1>9 DEF CloseDevice
  <2>2. f \in UserFiles(d) /\ UserOk(d)
    BY <1>2, <1>9, <2>1 DEF CloseDevice, UserFiles
  <2>3. Cardinality(UserFiles(d)) \in Nat /\ Cardinality(UserFiles(d)) # 0
    BY <2>2, FilesCount DEF UserFiles
  <2>4. users[d] - 1 \in Nat
    BY <2>2, <2>3 DEF UserOk
  <2> QED BY <1>9, <2>1, <2>4 DEF CloseDevice, lifeVars
<1>10. ASSUME NEW ok \in BOOLEAN, OpenReturns(f, ok) PROVE TypeOK'
  <2>1. PICK d \in Device : d = fdev[f]
    BY <1>2, <1>10 DEF OpenReturns
  <2>2. f \in InCallback(d) /\ UserOk(d) /\ pc[f] = "opening"
    BY <1>2, <1>10, <2>1 DEF OpenReturns, InCallback
  <2>3. users[d] = 1
    BY <2>2, FS_Singleton DEF UserOk
  <2> QED BY <1>10, <2>1, <2>3 DEF OpenReturns, lifeVars
<1> QED BY <1>3, <1>4, <1>5, <1>6, <1>7, <1>8, <1>9, <1>10 DEF FileStep

LEMMA FileInvStep ==
  ASSUME TypeOK, FileInv, Next
  PROVE  FileInv'
<1> USE CoreAssumption DEF FileInv
<1>1. ASSUME NEW d \in Device, DriverStep(d) PROVE FileInv'
  BY <1>1, DriverFrame
<1>2. ASSUME NEW f \in File, FileStep(f) PROVE FileInv'
  <2> USE DEF FileGoes, TypeOK
  <2>1. ASSUME NEW m \in Minor, LookUp(f, m) PROVE FileInv'
    BY <2>1 DEF LookUp
  <2>2. CASE PutFile(f)
    BY <2>2 DEF PutFile
  <2>3. CASE \/ QueueAllocationFails(f) \/ AttachQueue(f) \/ OpenInterrupted(f)
             \/ OpenRefused(f) \/ OpenDevice(f) \/ (\E ok \in BOOLEAN : OpenReturns(f, ok))
             \/ FlushFile(f) \/ FlushReturns(f) \/ DetachQueue(f) \/ CloseDevice(f)
             \/ CloseReturns(f)
    BY <2>3 DEF QueueAllocationFails, AttachQueue, OpenInterrupted, OpenRefused, OpenDevice,
                OpenReturns, FlushFile, FlushReturns, DetachQueue, CloseDevice, CloseReturns
  <2> QED BY <1>2, <2>1, <2>2, <2>3 DEF FileStep
<1>3. CASE Rest
  BY <1>3 DEF Rest, vars, fileVars
<1> QED BY <1>1, <1>2, <1>3 DEF Next

LEMMA StutterIInv ==
  ASSUME IInv, UNCHANGED vars
  PROVE  IInv'
<1> USE DEF vars, lifeVars, drvVars, useVars, fileVars, IInv
<1>1. \A d \in Device : /\ Holders(d)' = Holders(d)
                        /\ UserFiles(d)' = UserFiles(d)
                        /\ InCallback(d)' = InCallback(d)
                        /\ Attached(d)' = Attached(d)
                        /\ Added(d)' = Added(d)
                        /\ DriverHolds(d)' = DriverHolds(d)
  BY DEF Holders, UserFiles, InCallback, Attached, Added, DriverHolds
<1>2. TypeOK' /\ FileInv' /\ SlotInv'
  BY DEF TypeOK, FileInv, SlotInv
<1>3. RefInv'
  BY <1>1 DEF RefInv
<1>4. UserInv'
  BY <1>1 DEF UserInv, UserOk, InCallback
<1>5. HupInv'
  BY <1>1 DEF HupInv, InCallback
<1> QED BY <1>2, <1>3, <1>4, <1>5

LEMMA StepIInv ==
  ASSUME ~StaticNodes, IInv, [Next]_vars
  PROVE  IInv'
<1> USE DEF IInv
<1>1. ASSUME NEW d \in Device, DriverStep(d) PROVE IInv'
  <2>1. UserInv'
    <3>1. \A e \in Device : /\ UserFiles(e)' = UserFiles(e)
                            /\ InCallback(e)' = InCallback(e)
      BY <1>1, DriverFrame DEF UserFiles, InCallback
    <3> QED BY <1>1, <3>1, DriverFrame, NoUserStep DEF useVars
  <2>2. Next
    BY <1>1 DEF Next
  <2> QED BY <1>1, <2>1, <2>2, TypeStepDriver, FileInvStep, RefStepDriver, HupStepDriver,
             SlotStep
<1>2. ASSUME NEW f \in File, FileStep(f) PROVE IInv'
  <2>1. Next
    BY <1>2 DEF Next
  <2> QED BY <1>2, <2>1, TypeStepFile, FileInvStep, RefStepFile, UserStepFile, HupStepFile,
             SlotStep
<1>3. CASE UNCHANGED vars
  BY <1>3, StutterIInv
<1> QED BY <1>1, <1>2, <1>3 DEF Next, Rest

-----------------------------------------------------------------------------
(* The inductive invariant holds in every state.                           *)
THEOREM Invariance ==
  ASSUME ~StaticNodes
  PROVE  Spec => []IInv
<1>1. IInv /\ [Next]_vars => IInv'
  BY StepIInv
<1> QED BY InitIInv, <1>1, PTL DEF Spec

(* The types of the core, with reference and user counts that never fall   *)
(* below zero.                                                             *)
THEOREM TypeCorrect ==
  ASSUME ~StaticNodes
  PROVE  Spec => []TypeOK
<1>1. IInv => TypeOK
  BY DEF IInv
<1> QED BY Invariance, <1>1, PTL

(* A device is freed when, and not before, its driver has let go of it and *)
(* the last call on one of its files has returned.                         *)
THEOREM DeviceLifetime ==
  ASSUME ~StaticNodes
  PROVE  Spec => []FreedExactlyWhenUnused
<1>1. IInv => FreedExactlyWhenUnused
  <2> SUFFICES ASSUME IInv, NEW d \in Device
               PROVE  /\ Holders(d) # {} \/ Added(d) => mem[d] = "live"
                      /\ drv[d] = "gone" /\ Holders(d) = {} => mem[d] = "freed"
    BY DEF FreedExactlyWhenUnused
  <2>1. Added(d) => drv[d] # "gone" /\ drv[d] # "none"
    BY DEF Added
  <2> QED BY <2>1 DEF IInv, RefInv
<1> QED BY Invariance, <1>1, PTL

(* Outside its callbacks a driver is open exactly while files use it.      *)
THEOREM DriverFollowsUsers ==
  ASSUME ~StaticNodes
  PROVE  Spec => []DriverOpenIffUsed
<1>1. IInv => DriverOpenIffUsed
  BY DEF IInv, UserInv, UserOk, DriverOpenIffUsed
<1> QED BY Invariance, <1>1, PTL

(* No open file misses the hang-up of an unregistered device.              *)
THEOREM NoFileMissesHup ==
  ASSUME ~StaticNodes
  PROVE  Spec => []EveryOpenFileHungUp
<1>1. IInv => EveryOpenFileHungUp
  <2> SUFFICES ASSUME IInv, NEW f \in File,
                      pc[f] \in {"opening", "open", "flushing"},
                      drv[fdev[f]] \in {"signalled", "cleared", "flushing", "flushed", "gone"}
               PROVE  hup[f]
    BY DEF EveryOpenFileHungUp
  <2>1. fdev[f] \in Device
    BY FileDevice DEF IInv
  <2> QED BY <2>1 DEF IInv, HupInv
<1> QED BY Invariance, <1>1, PTL

(* Each device keeps its own slot, and clears no other.                    *)
THEOREM SlotOwnership ==
  ASSUME ~StaticNodes
  PROVE  Spec => []SlotIsOwned
<1>1. IInv => SlotIsOwned
  BY DEF IInv, SlotInv, SlotIsOwned
<1> QED BY Invariance, <1>1, PTL

(* The flush of an unregistering device meets no open() and no flush().    *)
THEOREM RemovalFlush ==
  ASSUME ~StaticNodes
  PROVE  Spec => []FlushMeetsOnlyClose
<1>1. IInv => FlushMeetsOnlyClose
  BY DEF IInv, HupInv, FlushMeetsOnlyClose
<1> QED BY Invariance, <1>1, PTL

-----------------------------------------------------------------------------
(* Implementation of DeviceSession: every step is a step, or a stutter, of *)
(* the sessions of every device.                                           *)

SessionStep(d) == [Session(d)!Next]_(Session(d)!vars)

LEMMA SessionInitially == ASSUME Init, NEW d \in Device PROVE Session(d)!Init
BY DEF Init, Session!Init, UserFiles

(* What a session is made of. *)
LEMMA SessionStutters ==
  ASSUME NEW d \in Device,
         UserFiles(d)' = UserFiles(d),
         driverOpen'[d] = driverOpen[d],
         goingAway'[d] = goingAway[d],
         mem'[d] = "freed" <=> mem[d] = "freed"
  PROVE  SessionStep(d)
BY DEF SessionStep, Session!vars

(* A free mutex: the driver is open exactly for the sessions. *)
LEMMA FreeMutexSession ==
  ASSUME UserInv, NEW d \in Device, mutex[d] = NoFile
  PROVE  driverOpen[d] <=> UserFiles(d) # {}
BY DEF UserInv, UserOk

(* Without a file that refers to the device there is no session, and no    *)
(* callback runs.                                                          *)
LEMMA UnheldSession ==
  ASSUME TypeOK, UserInv, NEW d \in Device,
         \A f \in Holders(d) : pc[f] = "put"
  PROVE  UserFiles(d) = {} /\ ~driverOpen[d]
<1>1. UserFiles(d) = {} /\ InCallback(d) = {}
  BY DEF UserFiles, InCallback, Holders
<1>2. mutex[d] = NoFile
  BY <1>1 DEF UserInv, UserOk, TypeOK
<1> QED BY <1>1, <1>2, FreeMutexSession

(* Of the driver's steps, the mark and the last put matter.                *)
LEMMA DriverImplements ==
  ASSUME IInv, NEW d \in Device, DriverStep(d), NEW e \in Device
  PROVE  SessionStep(e)
<1> USE DEF IInv
<1>1. UserFiles(e)' = UserFiles(e) /\ driverOpen' = driverOpen
  BY DriverFrame DEF UserFiles, useVars
<1>2. ASSUME NEW m \in Minor, AllocateSlot(d, m) PROVE SessionStep(e)
  <2>1. mem[d] = "none" /\ goingAway' = goingAway /\ mem' = [mem EXCEPT ![d] = "live"]
    BY <1>2 DEF AllocateSlot, DrvGoes, RefInv
  <2> QED BY <1>1, <2>1, SessionStutters DEF TypeOK
<1>3. CASE MarkGoingAway(d)
  <2>1. mutex[d] = NoFile /\ goingAway' = [goingAway EXCEPT ![d] = TRUE] /\ mem' = mem
    BY <1>3 DEF MarkGoingAway, lifeVars
  <2>2. CASE e = d /\ ~goingAway[d]
    <3>1. driverOpen[d] <=> UserFiles(d) # {}
      BY <2>1, FreeMutexSession
    <3>2. Session(d)!Leave
      BY <1>1, <2>1, <2>2, <3>1 DEF Session!Leave, TypeOK
    <3> QED BY <2>2, <3>2 DEF SessionStep, Session!Next
  <2>3. CASE e # d \/ goingAway[d]
    BY <1>1, <2>1, <2>3, SessionStutters DEF TypeOK
  <2> QED BY <2>2, <2>3
<1>4. CASE FreeDevice(d) \/ UnregisterDevice(d)
  <2>1. DriverHolds(d) /\ drv[d] # "gone" /\ drv[d] # "none" /\ PutDevice(d) /\ goingAway' = goingAway
    BY <1>4 DEF FreeDevice, UnregisterDevice, DriverHolds, Added, DrvGoes
  <2>2. mem' = [mem EXCEPT ![d] = IF refs[d] = 1 THEN "freed" ELSE @] /\ mem[d] = "live"
    BY <2>1 DEF PutDevice, RefInv
  <2>3. CASE e = d /\ refs[d] = 1
    <3>1. Cardinality(Holders(d)) \in Nat /\ (Cardinality(Holders(d)) = 0 <=> Holders(d) = {})
      BY FilesCount DEF Holders
    <3>2. refs[d] = Cardinality(Holders(d)) + 1
      BY <2>1 DEF RefInv
    <3>3. Holders(d) = {}
      BY <2>3, <3>1, <3>2
    <3>4. UserFiles(d) = {} /\ ~driverOpen[d]
      BY <3>3, UnheldSession
    <3>5. Session(d)!Free
      BY <1>1, <2>1, <2>2, <2>3, <3>4 DEF Session!Free, TypeOK
    <3> QED BY <2>3, <3>5 DEF SessionStep, Session!Next
  <2>4. CASE e # d \/ refs[d] # 1
    BY <1>1, <2>1, <2>2, <2>4, SessionStutters DEF TypeOK
  <2> QED BY <2>3, <2>4
<1>5. CASE \/ InitialiseDevice(d) \/ (\E ok \in BOOLEAN : RegisterDevice(d, ok))
           \/ RemoveDevice(d) \/ SignalHup(d) \/ ClearSlot(d)
           \/ FlushOnRemove(d) \/ FlushOnRemoveReturns(d)
  <2>1. mem' = mem /\ goingAway' = goingAway
    BY <1>5 DEF InitialiseDevice, RegisterDevice, RemoveDevice, SignalHup, ClearSlot,
                FlushOnRemove, FlushOnRemoveReturns, lifeVars
  <2> QED BY <1>1, <2>1, SessionStutters
<1> QED BY <1>2, <1>3, <1>4, <1>5 DEF DriverStep

(* A file joins as it is counted as a user, parts as it is discounted, and *)
(* between callback and return of the mutex the driver starts or stops.    *)
LEMMA FileImplements ==
  ASSUME IInv, NEW f \in File, FileStep(f), NEW e \in Device
  PROVE  SessionStep(e)
<1> USE DEF IInv
<1>1. goingAway' = goingAway
  BY FileFrame
<1>2. ASSUME NEW m \in Minor, LookUp(f, m) PROVE SessionStep(e)
  <2>1. /\ pc[f] = "closed" /\ pc'[f] = "looked_up"
        /\ \A g \in File \ {f} : pc'[g] = pc[g] /\ fdev'[g] = fdev[g]
        /\ UNCHANGED <<mem, driverOpen>>
    BY <1>2 DEF LookUp, FileGoes, TypeOK, useVars
  <2>2. UserFiles(e)' = UserFiles(e)
    BY <2>1 DEF UserFiles
  <2> QED BY <1>1, <2>1, <2>2, SessionStutters
<1>3. CASE \/ QueueAllocationFails(f) \/ AttachQueue(f) \/ OpenInterrupted(f) \/ OpenRefused(f)
           \/ FlushFile(f) \/ FlushReturns(f) \/ DetachQueue(f)
  <2>1. /\ \/ pc[f] \in {"looked_up", "attached", "undo"} /\ pc'[f] \in {"put", "attached", "undo"}
           \/ pc[f] \in {"open", "flushing"} /\ pc'[f] \in {"open", "flushing", "detached"}
        /\ \A g \in File \ {f} : pc'[g] = pc[g]
        /\ UNCHANGED <<mem, driverOpen, fdev>>
    BY <1>3 DEF QueueAllocationFails, AttachQueue, OpenInterrupted, OpenRefused, FlushFile,
                FlushReturns, DetachQueue, FileGoes, TypeOK, useVars, lifeVars
  <2>2. UserFiles(e)' = UserFiles(e)
    BY <2>1 DEF UserFiles
  <2> QED BY <1>1, <2>1, <2>2, SessionStutters
<1>4. CASE OpenDevice(f)
  <2>1. PICK d \in Device : d = fdev[f]
    BY <1>4, FileDevice DEF OpenDevice, FileGoes
  <2>2. /\ pc[f] = "attached" /\ pc'[f] \in {"opening", "open"}
        /\ \A g \in File \ {f} : pc'[g] = pc[g]
        /\ mutex[d] = NoFile /\ ~goingAway[d]
        /\ UNCHANGED <<mem, driverOpen, fdev>>
    BY <1>4, <2>1 DEF OpenDevice, FileGoes, TypeOK, lifeVars
  <2>3. /\ f \notin UserFiles(d) /\ UserFiles(d)' = UserFiles(d) \union {f}
        /\ e # d => UserFiles(e)' = UserFiles(e)
    BY <2>1, <2>2 DEF UserFiles
  <2>4. driverOpen[d] <=> UserFiles(d) # {}
    BY <2>2, FreeMutexSession
  <2>5. mem[d] # "freed"
    BY <2>1, <2>2 DEF Holders, RefInv, Added
  <2>6. Session(d)!Join(f)
    BY <1>1, <2>2, <2>3, <2>4, <2>5 DEF Session!Join
  <2>7. SessionStep(d)
    BY <2>6 DEF SessionStep, Session!Next
  <2>8. e # d => SessionStep(e)
    BY <1>1, <2>2, <2>3, SessionStutters
  <2> QED BY <2>7, <2>8
<1>5. ASSUME NEW ok \in BOOLEAN, OpenReturns(f, ok) PROVE SessionStep(e)
  <2>1. PICK d \in Device : d = fdev[f]
    BY <1>5, FileDevice DEF OpenReturns, FileGoes
  <2>2. /\ pc[f] = "opening" /\ pc'[f] = IF ok THEN "open" ELSE "undo"
        /\ \A g \in File \ {f} : pc'[g] = pc[g]
        /\ driverOpen' = [driverOpen EXCEPT ![d] = ok]
        /\ UNCHANGED <<mem, fdev>>
    BY <1>5, <2>1 DEF OpenReturns, FileGoes, TypeOK, lifeVars
  <2>3. f \in InCallback(d)
    BY <2>1, <2>2 DEF InCallback
  <2>4. ~driverOpen[d] /\ UserFiles(d) = {f} /\ ~goingAway[d]
    BY <2>2, <2>3 DEF UserInv, UserOk, HupInv
  <2>5. /\ UserFiles(d)' = IF ok THEN {f} ELSE {}
        /\ e # d => UserFiles(e)' = UserFiles(e)
    BY <2>1, <2>2, <2>4 DEF UserFiles
  <2>6. driverOpen'[d] = ok /\ (e # d => driverOpen'[e] = driverOpen[e])
    BY <2>2 DEF TypeOK
  <2>7. ASSUME ok PROVE SessionStep(d)
    <3>1. driverOpen'[d] = TRUE /\ UserFiles(d)' = UserFiles(d) /\ UserFiles(d) # {}
      BY <2>2, <2>4, <2>5, <2>7 DEF TypeOK
    <3>2. Session(d)!DriverStarts
      BY <1>1, <2>2, <2>4, <3>1 DEF Session!DriverStarts
    <3> QED BY <3>2 DEF SessionStep, Session!Next
  <2>8. ASSUME ~ok PROVE SessionStep(d)
    <3>1. driverOpen' = driverOpen
      BY <2>2, <2>4, <2>8 DEF TypeOK
    <3>2. UserFiles(d)' = {} /\ UserFiles(d) # {}
      BY <2>4, <2>5, <2>8
    <3>3. Session(d)!DriverFails
      BY <1>1, <2>2, <2>4, <3>1, <3>2 DEF Session!DriverFails
    <3> QED BY <3>3 DEF SessionStep, Session!Next
  <2>9. e # d => SessionStep(e)
    BY <1>1, <2>2, <2>5, <2>6, SessionStutters
  <2> QED BY <2>7, <2>8, <2>9
<1>6. CASE CloseDevice(f)
  <2>1. PICK d \in Device : d = fdev[f]
    BY <1>6, FileDevice DEF CloseDevice, FileGoes
  <2>2. /\ pc[f] = "detached" /\ pc'[f] \in {"closing", "put"}
        /\ \A g \in File \ {f} : pc'[g] = pc[g]
        /\ mutex[d] = NoFile
        /\ UNCHANGED <<mem, driverOpen, fdev>>
    BY <1>6, <2>1 DEF CloseDevice, FileGoes, TypeOK, lifeVars
  <2>3. /\ f \in UserFiles(d) /\ UserFiles(d)' = UserFiles(d) \ {f}
        /\ e # d => UserFiles(e)' = UserFiles(e)
    BY <2>1, <2>2 DEF UserFiles
  <2>4. driverOpen[d]
    BY <2>2, <2>3, FreeMutexSession
  <2>5. Session(d)!Part(f)
    BY <1>1, <2>2, <2>3, <2>4 DEF Session!Part
  <2>6. SessionStep(d)
    BY <2>5 DEF SessionStep, Session!Next
  <2>7. e # d => SessionStep(e)
    BY <1>1, <2>2, <2>3, SessionStutters
  <2> QED BY <2>6, <2>7
<1>7. CASE CloseReturns(f)
  <2>1. PICK d \in Device : d = fdev[f]
    BY <1>7, FileDevice DEF CloseReturns, FileGoes
  <2>2. /\ pc[f] = "closing" /\ pc'[f] = "put"
        /\ \A g \in File \ {f} : pc'[g] = pc[g]
        /\ driverOpen' = [driverOpen EXCEPT ![d] = FALSE]
        /\ UNCHANGED <<mem, fdev>>
    BY <1>7, <2>1 DEF CloseReturns, FileGoes, TypeOK, lifeVars
  <2>3. f \in InCallback(d)
    BY <2>1, <2>2 DEF InCallback
  <2>4. driverOpen[d] /\ UserFiles(d) = {}
    BY <2>2, <2>3 DEF UserInv, UserOk
  <2>5. UserFiles(e)' = UserFiles(e) /\ UserFiles(d)' = UserFiles(d)
    BY <2>2 DEF UserFiles
  <2>6. ~driverOpen'[d] /\ (e # d => driverOpen'[e] = driverOpen[e])
    BY <2>2 DEF TypeOK
  <2>7. driverOpen'[d] = FALSE
    BY <2>2 DEF TypeOK
  <2>8. Session(d)!DriverStops
    BY <1>1, <2>2, <2>4, <2>5, <2>7 DEF Session!DriverStops
  <2>9. SessionStep(d)
    BY <2>8 DEF SessionStep, Session!Next
  <2>10. e # d => SessionStep(e)
    BY <1>1, <2>2, <2>5, <2>6, SessionStutters
  <2> QED BY <2>9, <2>10
<1>8. CASE PutFile(f)
  <2>1. PICK d \in Device : d = fdev[f]
    BY <1>8, FileDevice DEF PutFile, FileGoes
  <2>2. /\ pc[f] = "put" /\ pc'[f] = "closed"
        /\ \A g \in File \ {f} : pc'[g] = pc[g] /\ fdev'[g] = fdev[g]
        /\ mem' = [mem EXCEPT ![d] = IF refs[d] = 1 THEN "freed" ELSE @]
        /\ driverOpen' = driverOpen
    BY <1>8, <2>1 DEF PutFile, PutDevice, FileGoes, TypeOK, useVars
  <2>3. UserFiles(e)' = UserFiles(e)
    BY <2>2 DEF UserFiles
  <2>4. CASE e = d /\ refs[d] = 1
    <3>1. f \in Holders(d)
      BY <2>1, <2>2 DEF Holders
    <3>2. /\ Cardinality(Holders(d)) \in Nat /\ Cardinality(Holders(d)) # 0
          /\ Cardinality(Holders(d) \ {f}) = Cardinality(Holders(d)) - 1
          /\ Cardinality(Holders(d) \ {f}) = 0 <=> Holders(d) \ {f} = {}
      <4>1. Holders(d) \in SUBSET File /\ Holders(d) \ {f} \in SUBSET File
        BY DEF Holders
      <4> QED BY <3>1, <4>1, FilesCount
    <3>3. refs[d] = Cardinality(Holders(d)) + IF DriverHolds(d) THEN 1 ELSE 0
      BY DEF RefInv
    <3>4. \A g \in Holders(d) : pc[g] = "put"
      BY <2>2, <2>4, <3>2, <3>3
    <3>5. UserFiles(d) = {} /\ ~driverOpen[d]
      BY <3>4, UnheldSession
    <3>6. mem[d] # "freed"
      BY <3>1 DEF RefInv, Added
    <3>7. Session(d)!Free
      BY <1>1, <2>2, <2>3, <2>4, <3>5, <3>6 DEF Session!Free, TypeOK
    <3> QED BY <2>4, <3>7 DEF SessionStep, Session!Next
  <2>5. CASE e # d \/ refs[d] # 1
    BY <1>1, <2>2, <2>3, <2>5, SessionStutters DEF TypeOK
  <2> QED BY <2>4, <2>5
<1> QED BY <1>2, <1>3, <1>4, <1>5, <1>6, <1>7, <1>8 DEF FileStep

LEMMA StepImplements ==
  ASSUME IInv, [Next]_vars, NEW d \in Device
  PROVE  SessionStep(d)
<1>1. CASE UNCHANGED vars
  <2>1. UserFiles(d)' = UserFiles(d)
    BY <1>1 DEF vars, fileVars, UserFiles
  <2> QED BY <1>1, <2>1, SessionStutters DEF vars, lifeVars, drvVars, useVars
<1> QED BY <1>1, DriverImplements, FileImplements DEF Next, Rest

(* Towards every driver the core keeps the sessions of DeviceSession: open *)
(* for the first user and close for the last, none let in behind a failing *)
(* open or a mark, and the memory outlives them.                           *)
THEOREM CoreImplementsSessions ==
  ASSUME ~StaticNodes
  PROVE  Spec => ImplementsSessions
<1>1. Init => \A d \in Device : Session(d)!Init
  BY SessionInitially
<1>2. IInv /\ [Next]_vars => \A d \in Device : SessionStep(d)
  BY StepImplements
<1>3. IInv /\ [Next]_vars => [\A d \in Device : [Session(d)!Next]_(Session(d)!vars)]_vars
  BY <1>2 DEF SessionStep
<1> QED BY <1>1, <1>3, Invariance, PTL DEF Spec, ImplementsSessions
=============================================================================
