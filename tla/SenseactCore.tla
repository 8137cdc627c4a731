---------------------------- MODULE SenseactCore ----------------------------
(***************************************************************************)
(* The life of senseact devices and of the files opened on them            *)
(* (senseact/trunk/drivers/senseact.c).  A driver thread per device        *)
(* allocates, registers and unregisters it; meanwhile any process may open *)
(* and release the device file.  The two meet in the table of minors, the  *)
(* reference count of the embedded struct device, the mutex with users and *)
(* going_away, and the list of queues.  Each action is what one lock       *)
(* protects, or what runs between two locks.                               *)
(***************************************************************************)
EXTENDS Integers, FiniteSets

CONSTANTS
  Device,       \* struct senseact_device objects, each allocated once
  File,         \* struct file objects of user processes
  NumMinors,    \* SENSEACT_DEVICES (32 in the code)
  NoDevice,     \* an empty slot of senseact_table
  NoFile,       \* owner of a free mutex
  HasFlush,     \* the driver sets senseact->flush
  StaticNodes   \* a device node may exist before its device is registered

ASSUME CoreAssumption ==
  /\ IsFiniteSet(File)
  /\ NumMinors \in Nat
  /\ NoDevice \notin Device
  /\ NoFile \notin File
  /\ HasFlush \in BOOLEAN
  /\ StaticNodes \in BOOLEAN

Minor == 0..(NumMinors - 1)

VARIABLES
  table,       \* senseact_table
  minor,       \* senseact->minor
  mem,         \* memory of the device: "none", "live" or "freed"
  refs,        \* reference count of senseact->dev
  drv,         \* where the driver of the device is
  goingAway,   \* senseact->going_away
  ops,         \* senseact->open and senseact->close are set
  users,       \* senseact->users
  mutex,       \* the file whose call holds senseact->mutex across a callback
  driverOpen,  \* the open callback succeeded and close was not called since
  queues,      \* senseact->queue_list, as the set of files owning the queues
  pc,          \* where the open, flush or release call of a file is
  fdev,        \* the device the file refers to
  hup          \* POLL_HUP was signalled to the file

lifeVars == <<table, minor, mem, refs>>
drvVars  == <<drv, goingAway, ops>>
useVars  == <<users, mutex, driverOpen, queues>>
fileVars == <<pc, fdev, hup>>
vars     == <<lifeVars, drvVars, useVars, fileVars>>

DrvState == {"none", "raw", "allocated", "failed", "registered", "removing", "marked",
             "signalled", "cleared", "flushing", "flushed", "gone"}

FileState == {"closed", "looked_up", "attached", "opening", "open", "flushing",
              "undo", "detached", "closing", "put"}

(* device_add has been done, device_del not yet. *)
Added(d) == drv[d] \in {"registered", "removing", "marked", "signalled", "cleared",
                        "flushing", "flushed"}

Init ==
  /\ table = [m \in Minor |-> NoDevice]
  /\ minor = [d \in Device |-> 0]
  /\ mem = [d \in Device |-> "none"]
  /\ refs = [d \in Device |-> 0]
  /\ drv = [d \in Device |-> "none"]
  /\ goingAway = [d \in Device |-> FALSE]
  /\ ops = [d \in Device |-> FALSE]
  /\ users = [d \in Device |-> 0]
  /\ mutex = [d \in Device |-> NoFile]
  /\ driverOpen = [d \in Device |-> FALSE]
  /\ queues = [d \in Device |-> {}]
  /\ pc = [f \in File |-> "closed"]
  /\ fdev = [f \in File |-> NoDevice]
  /\ hup = [f \in File |-> FALSE]

GetDevice(d) == refs' = [refs EXCEPT ![d] = @ + 1]

(* The last put runs senseact_dev_release, which frees the device. *)
PutDevice(d) ==
  /\ refs' = [refs EXCEPT ![d] = @ - 1]
  /\ mem' = [mem EXCEPT ![d] = IF refs[d] = 1 THEN "freed" ELSE @]

DrvGoes(d, from, to) ==
  /\ drv[d] = from
  /\ drv' = [drv EXCEPT ![d] = to]

FileGoes(f, from, to) ==
  /\ pc[f] = from
  /\ pc' = [pc EXCEPT ![f] = to]

-----------------------------------------------------------------------------
(* Plausible slips of the code, each of which one of the properties below  *)
(* has to notice; no action uses them.                                     *)

(* A failing allocation of the queue returns without put_device. *)
QueueAllocationLeaks(f) ==
  /\ FileGoes(f, "looked_up", "closed")
  /\ fdev' = [fdev EXCEPT ![f] = NoDevice]
  /\ UNCHANGED <<lifeVars, drvVars, useVars, hup>>

(* going_away is not tested. *)
OpenDeviceUnmarked(f) ==
  LET d == fdev[f]
      first == users[d] = 0 /\ ops[d]
  IN /\ FileGoes(f, "attached", IF first THEN "opening" ELSE "open")
     /\ mutex[d] = NoFile
     /\ users' = [users EXCEPT ![d] = @ + 1]
     /\ mutex' = [mutex EXCEPT ![d] = IF first THEN f ELSE NoFile]
     /\ UNCHANGED <<lifeVars, drvVars, driverOpen, queues, fdev, hup>>

(* The table keeps an unregistered device. *)
ClearNoSlot(d) ==
  /\ DrvGoes(d, "signalled", "cleared")
  /\ UNCHANGED <<lifeVars, goingAway, ops, useVars, fileVars>>

(* The driver is closed for every user. *)
CloseDeviceAlways(f) ==
  LET d == fdev[f]
  IN /\ FileGoes(f, "detached", IF ops[d] THEN "closing" ELSE "put")
     /\ mutex[d] = NoFile
     /\ users' = [users EXCEPT ![d] = @ - 1]
     /\ mutex' = [mutex EXCEPT ![d] = IF ops[d] THEN f ELSE NoFile]
     /\ UNCHANGED <<lifeVars, drvVars, driverOpen, queues, fdev, hup>>

(* The paths of flush and of a refused open forget mutex_unlock. *)
FlushReturnsLocked(f) ==
  /\ FileGoes(f, "flushing", "open")
  /\ UNCHANGED <<lifeVars, drvVars, useVars, fdev, hup>>

OpenRefusedLocked(f) ==
  /\ FileGoes(f, "attached", "undo")
  /\ mutex[fdev[f]] = NoFile
  /\ goingAway[fdev[f]]
  /\ mutex' = [mutex EXCEPT ![fdev[f]] = f]
  /\ UNCHANGED <<lifeVars, drvVars, users, driverOpen, queues, fdev, hup>>

-----------------------------------------------------------------------------
(* The driver's side.                                                      *)

(* senseact_allocate_device: the lowest free slot is taken, and visible to *)
(* open, before the device is initialised.                                 *)
AllocateSlot(d, m) ==
  /\ DrvGoes(d, "none", "raw")
  /\ table[m] = NoDevice
  /\ \A k \in Minor : k < m => table[k] # NoDevice
  /\ table' = [table EXCEPT ![m] = d]
  /\ minor' = [minor EXCEPT ![d] = m]
  /\ mem' = [mem EXCEPT ![d] = "live"]
  /\ UNCHANGED <<refs, goingAway, ops, useVars, fileVars>>

(* device_initialize sets the count to one whatever it was before. *)
InitialiseDevice(d) ==
  /\ DrvGoes(d, "raw", "allocated")
  /\ refs' = [refs EXCEPT ![d] = 1]
  /\ UNCHANGED <<table, minor, mem, goingAway, ops, useVars, fileVars>>

(* senseact_register_poll_device sets the callbacks, then device_add may   *)
(* fail, and does when a device of the same name is still there.           *)
RegisterDevice(d, ok) ==
  /\ DrvGoes(d, "allocated", IF ok THEN "registered" ELSE "failed")
  /\ ok => \A e \in Device : Added(e) => minor[e] # minor[d]
  /\ ops' = [ops EXCEPT ![d] = TRUE]
  /\ UNCHANGED <<lifeVars, goingAway, useVars, fileVars>>

(* senseact_free_device drops the reference; the table keeps the slot. *)
FreeDevice(d) ==
  /\ \/ DrvGoes(d, "allocated", "gone")
     \/ DrvGoes(d, "failed", "gone")
  /\ PutDevice(d)
  /\ UNCHANGED <<table, minor, goingAway, ops, useVars, fileVars>>

(* senseact_unregister_device is called. *)
RemoveDevice(d) ==
  /\ DrvGoes(d, "registered", "removing")
  /\ UNCHANGED <<lifeVars, goingAway, ops, useVars, fileVars>>

MarkGoingAway(d) ==
  /\ DrvGoes(d, "removing", "marked")
  /\ mutex[d] = NoFile
  /\ goingAway' = [goingAway EXCEPT ![d] = TRUE]
  /\ UNCHANGED <<lifeVars, ops, useVars, fileVars>>

(* kill_fasync(POLL_HUP) for every queue on the list, then the wake-up. *)
SignalHup(d) ==
  /\ DrvGoes(d, "marked", "signalled")
  /\ hup' = [f \in File |-> hup[f] \/ f \in queues[d]]
  /\ UNCHANGED <<lifeVars, goingAway, ops, useVars, pc, fdev>>

ClearSlot(d) ==
  /\ DrvGoes(d, "signalled", "cleared")
  /\ table' = [table EXCEPT ![minor[d]] = NoDevice]
  /\ UNCHANGED <<minor, mem, refs, goingAway, ops, useVars, fileVars>>

(* users is read and flush called without the mutex. *)
FlushOnRemove(d) ==
  /\ DrvGoes(d, "cleared", IF users[d] # 0 /\ HasFlush THEN "flushing" ELSE "flushed")
  /\ UNCHANGED <<lifeVars, goingAway, ops, useVars, fileVars>>

FlushOnRemoveReturns(d) ==
  /\ DrvGoes(d, "flushing", "flushed")
  /\ UNCHANGED <<lifeVars, goingAway, ops, useVars, fileVars>>

(* device_unregister: device_del and the driver's put. *)
UnregisterDevice(d) ==
  /\ DrvGoes(d, "flushed", "gone")
  /\ PutDevice(d)
  /\ UNCHANGED <<table, minor, goingAway, ops, useVars, fileVars>>

-----------------------------------------------------------------------------
(* The user's side: senseact_open_file.                                    *)

LookUp(f, m) ==
  /\ FileGoes(f, "closed", "looked_up")
  /\ table[m] # NoDevice
  /\ StaticNodes \/ Added(table[m])
  /\ fdev' = [fdev EXCEPT ![f] = table[m]]
  /\ GetDevice(table[m])
  /\ UNCHANGED <<table, minor, mem, drvVars, useVars, hup>>

QueueAllocationFails(f) ==
  /\ FileGoes(f, "looked_up", "put")
  /\ UNCHANGED <<lifeVars, drvVars, useVars, fdev, hup>>

AttachQueue(f) ==
  /\ FileGoes(f, "looked_up", "attached")
  /\ queues' = [queues EXCEPT ![fdev[f]] = @ \union {f}]
  /\ hup' = [hup EXCEPT ![f] = FALSE]
  /\ UNCHANGED <<lifeVars, drvVars, users, mutex, driverOpen, fdev>>

(* senseact_open_device: interrupted, refused, or counted as a user.  The  *)
(* first user keeps the mutex while the driver's open callback runs.       *)
OpenInterrupted(f) ==
  /\ FileGoes(f, "attached", "undo")
  /\ UNCHANGED <<lifeVars, drvVars, useVars, fdev, hup>>

OpenRefused(f) ==
  /\ FileGoes(f, "attached", "undo")
  /\ mutex[fdev[f]] = NoFile
  /\ goingAway[fdev[f]]
  /\ UNCHANGED <<lifeVars, drvVars, useVars, fdev, hup>>

OpenDevice(f) ==
  LET d == fdev[f]
      first == users[d] = 0 /\ ops[d]
  IN /\ FileGoes(f, "attached", IF first THEN "opening" ELSE "open")
     /\ mutex[d] = NoFile
     /\ ~goingAway[d]
     /\ users' = [users EXCEPT ![d] = @ + 1]
     /\ mutex' = [mutex EXCEPT ![d] = IF first THEN f ELSE NoFile]
     /\ UNCHANGED <<lifeVars, drvVars, driverOpen, queues, fdev, hup>>

OpenReturns(f, ok) ==
  LET d == fdev[f]
  IN /\ FileGoes(f, "opening", IF ok THEN "open" ELSE "undo")
     /\ users' = [users EXCEPT ![d] = IF ok THEN @ ELSE @ - 1]
     /\ driverOpen' = [driverOpen EXCEPT ![d] = ok]
     /\ mutex' = [mutex EXCEPT ![d] = NoFile]
     /\ UNCHANGED <<lifeVars, drvVars, queues, fdev, hup>>

(* senseact_flush_file: on every close of a descriptor of the file. *)
FlushFile(f) ==
  /\ FileGoes(f, "open", "flushing")
  /\ HasFlush
  /\ mutex[fdev[f]] = NoFile
  /\ ~goingAway[fdev[f]]
  /\ mutex' = [mutex EXCEPT ![fdev[f]] = f]
  /\ UNCHANGED <<lifeVars, drvVars, users, driverOpen, queues, fdev, hup>>

FlushReturns(f) ==
  /\ FileGoes(f, "flushing", "open")
  /\ mutex' = [mutex EXCEPT ![fdev[f]] = NoFile]
  /\ UNCHANGED <<lifeVars, drvVars, users, driverOpen, queues, fdev, hup>>

(* senseact_release_file, and the error path of senseact_open_file: both   *)
(* detach the queue, only the first goes on to senseact_close_device.      *)
DetachQueue(f) ==
  /\ \/ FileGoes(f, "open", "detached")
     \/ FileGoes(f, "undo", "put")
  /\ queues' = [queues EXCEPT ![fdev[f]] = @ \ {f}]
  /\ UNCHANGED <<lifeVars, drvVars, users, mutex, driverOpen, fdev, hup>>

CloseDevice(f) ==
  LET d == fdev[f]
      last == users[d] = 1 /\ ops[d]
  IN /\ FileGoes(f, "detached", IF last THEN "closing" ELSE "put")
     /\ mutex[d] = NoFile
     /\ users' = [users EXCEPT ![d] = @ - 1]
     /\ mutex' = [mutex EXCEPT ![d] = IF last THEN f ELSE NoFile]
     /\ UNCHANGED <<lifeVars, drvVars, driverOpen, queues, fdev, hup>>

CloseReturns(f) ==
  LET d == fdev[f]
  IN /\ FileGoes(f, "closing", "put")
     /\ driverOpen' = [driverOpen EXCEPT ![d] = FALSE]
     /\ mutex' = [mutex EXCEPT ![d] = NoFile]
     /\ UNCHANGED <<lifeVars, drvVars, users, queues, fdev, hup>>

PutFile(f) ==
  /\ FileGoes(f, "put", "closed")
  /\ PutDevice(fdev[f])
  /\ fdev' = [fdev EXCEPT ![f] = NoDevice]
  /\ UNCHANGED <<table, minor, drvVars, useVars, hup>>

-----------------------------------------------------------------------------
DriverStep(d) ==
  \/ \E m \in Minor : AllocateSlot(d, m)
  \/ InitialiseDevice(d)
  \/ \E ok \in BOOLEAN : RegisterDevice(d, ok)
  \/ FreeDevice(d)
  \/ RemoveDevice(d)
  \/ MarkGoingAway(d)
  \/ SignalHup(d)
  \/ ClearSlot(d)
  \/ FlushOnRemove(d)
  \/ FlushOnRemoveReturns(d)
  \/ UnregisterDevice(d)

FileStep(f) ==
  \/ \E m \in Minor : LookUp(f, m)
  \/ QueueAllocationFails(f)
  \/ AttachQueue(f)
  \/ OpenInterrupted(f)
  \/ OpenRefused(f)
  \/ OpenDevice(f)
  \/ \E ok \in BOOLEAN : OpenReturns(f, ok)
  \/ FlushFile(f)
  \/ FlushReturns(f)
  \/ DetachQueue(f)
  \/ CloseDevice(f)
  \/ CloseReturns(f)
  \/ PutFile(f)

(* Every driver may be gone and every file closed for good. *)
Rest ==
  /\ \A d \in Device : drv[d] \in {"none", "gone"}
  /\ \A f \in File : pc[f] = "closed"
  /\ UNCHANGED vars

Next ==
  \/ \E d \in Device : DriverStep(d)
  \/ \E f \in File : FileStep(f)
  \/ Rest

Spec == Init /\ [][Next]_vars

(* Calls that have started run on: nobody waits for ever between two locks *)
(* and a driver's callback returns.  A mutex that comes free again and     *)
(* again is granted at last to each of its waiters, which queue in order.  *)
(* Nothing makes a process open or release a file, or a driver remove its  *)
(* device.                                                                 *)
Fairness ==
  /\ \A d \in Device :
       /\ SF_vars(MarkGoingAway(d))
       /\ WF_vars(SignalHup(d))
       /\ WF_vars(ClearSlot(d))
       /\ WF_vars(FlushOnRemove(d))
       /\ WF_vars(FlushOnRemoveReturns(d))
       /\ WF_vars(UnregisterDevice(d))
  /\ \A f \in File :
       /\ WF_vars(AttachQueue(f))
       /\ SF_vars(OpenDevice(f) \/ OpenRefused(f))
       /\ WF_vars(\E ok \in BOOLEAN : OpenReturns(f, ok))
       /\ WF_vars(FlushReturns(f))
       /\ WF_vars(pc[f] = "undo" /\ DetachQueue(f))
       /\ SF_vars(CloseDevice(f))
       /\ WF_vars(CloseReturns(f))
       /\ WF_vars(PutFile(f))

FairSpec == Spec /\ Fairness

-----------------------------------------------------------------------------
TypeOK ==
  /\ table \in [Minor -> Device \union {NoDevice}]
  /\ minor \in [Device -> Nat]
  /\ mem \in [Device -> {"none", "live", "freed"}]
  /\ refs \in [Device -> Nat]
  /\ drv \in [Device -> DrvState]
  /\ goingAway \in [Device -> BOOLEAN]
  /\ ops \in [Device -> BOOLEAN]
  /\ users \in [Device -> Nat]
  /\ mutex \in [Device -> File \union {NoFile}]
  /\ driverOpen \in [Device -> BOOLEAN]
  /\ queues \in [Device -> SUBSET File]
  /\ pc \in [File -> FileState]
  /\ fdev \in [File -> Device \union {NoDevice}]
  /\ hup \in [File -> BOOLEAN]

(* The files between get_device and put_device on d. *)
Holders(d) == {f \in File : pc[f] # "closed" /\ fdev[f] = d}

(* The files that senseact_open_device counted and senseact_close_device   *)
(* has not yet discounted.                                                 *)
UserFiles(d) ==
  {f \in File : pc[f] \in {"opening", "open", "flushing", "detached"} /\ fdev[f] = d}

(* A device stays allocated as long as a call on one of its files or its   *)
(* driver refers to it, and is freed when the last of them is through: the *)
(* references taken in senseact_open_file cover every later access, and    *)
(* each path gives its reference back exactly once.                        *)
FreedExactlyWhenUnused ==
  \A d \in Device :
    /\ Holders(d) # {} \/ Added(d) => mem[d] = "live"
    /\ drv[d] = "gone" /\ Holders(d) = {} => mem[d] = "freed"

(* Memory is not freed until the last reference is dropped                 *)
(* (senseact.c:285-286): no file refers to freed memory.                   *)
NoUseAfterFree == \A d \in Device : mem[d] = "freed" => Holders(d) = {}

(* While no callback runs, the driver is open exactly when the device has  *)
(* users: a failing open takes its user back, racing opens and closes call *)
(* open for the first and close for the last user only.                    *)
DriverOpenIffUsed ==
  \A d \in Device : mutex[d] = NoFile => (driverOpen[d] <=> UserFiles(d) # {})

(* Towards each driver the core keeps the sessions that DeviceSession      *)
(* promises: open() and close() alternate and wait for each other, a user  *)
(* is let in only behind a successful open(), and the device outlives its  *)
(* users.                                                                  *)
Session(d) == INSTANCE DeviceSession
                WITH sessions <- UserFiles(d), active <- driverOpen[d],
                     leaving <- goingAway[d], freed <- mem[d] = "freed"

ImplementsSessions ==
  /\ \A d \in Device : Session(d)!Init
  /\ [][\A d \in Device : [Session(d)!Next]_(Session(d)!vars)]_vars

(* From the hang-up of senseact_unregister_device on, every file that is   *)
(* open was told: a queue is attached before going_away is tested, so no   *)
(* open slips in between the mark and the walk over the queues.            *)
EveryOpenFileHungUp ==
  \A f \in File :
    /\ pc[f] \in {"opening", "open", "flushing"}
    /\ drv[fdev[f]] \in {"signalled", "cleared", "flushing", "flushed", "gone"}
    => hup[f]

(* A device that can be opened owns its slot until senseact_unregister_    *)
(* device clears it, and clears no slot but its own, also when another     *)
(* device has taken the minor in the meantime.                             *)
SlotIsOwned ==
  \A d \in Device :
    /\ drv[d] \in {"raw", "allocated", "failed", "registered", "removing", "marked",
                   "signalled"} => table[minor[d]] = d
    /\ drv[d] \in {"cleared", "flushing", "flushed"} =>
         \A m \in Minor : table[m] # d

(* mutex serializes calls to open(), close() and flush() (senseact.h:106). *)
InCallback(d) ==
  {f \in File : pc[f] \in {"opening", "closing", "flushing"} /\ fdev[f] = d}

CallbacksSerialised ==
  \A d \in Device :
    /\ Cardinality(InCallback(d)) <= 1
    /\ drv[d] = "flushing" => InCallback(d) = {}

(* The flush of senseact_unregister_device runs without the mutex; still   *)
(* it meets no open() and no other flush() of the driver, only close().    *)
FlushMeetsOnlyClose ==
  \A d \in Device, f \in File :
    drv[d] = "flushing" /\ f \in InCallback(d) => pc[f] = "closing"

(* A removal that has begun ends, however users open and close files, and  *)
(* the removed device is freed unless a file is kept open on it.           *)
RemovedIsFreed ==
  \A d \in Device :
    /\ drv[d] = "removing" ~> drv[d] = "gone"
    /\ <>(drv[d] = "gone")
         => \/ <>(mem[d] = "freed")
            \/ \E f \in File : <>[](fdev[f] = d /\ pc[f] = "open")

(* An open that was begun is answered, a release that was begun completes. *)
CallsReturn ==
  \A f \in File :
    /\ pc[f] = "looked_up" ~> pc[f] \in {"open", "closed"}
    /\ pc[f] = "detached" ~> pc[f] = "closed"
=============================================================================
