---------------------------- MODULE BebotSnapshot ----------------------------
(***************************************************************************)
(* How the sensors of the robot become the snapshot its programs work on:  *)
(* the poll callbacks of the drivers (senseact/trunk/drivers/bebot-base.c  *)
(* and bebot-ir.c) pass each poll in several batches and end it with a     *)
(* sync; writes are reported in batches of their own in between; a program *)
(* calls bebot_update (senseact/trunk/include/bebot.h), which reads the    *)
(* files in turn and takes over what it collected when it meets the sync.  *)
(*                                                                         *)
(* A value is the number of the poll, or of the write, it comes from.      *)
(* Queues are those of module ActionFifo, which SenseactQueue shows the    *)
(* rings of the core to implement.                                         *)
(***************************************************************************)
EXTENDS Integers, Sequences, FiniteSets

CONSTANTS
  FdCount,          \* opened files: 3 for base, ir0 and ir1, 2 for base and ir
  BaseCount,        \* INCREMENT_COUNT and GETSPEED_COUNT (2 in the code)
  IrCount,          \* sensors of one infrared device (6 or 12 in the code)
  BrightnessCount,  \* BEBOT_BRIGHTNESS_COUNT (12 in the code)
  QueueSize,        \* SENSEACT_BUFFER_SIZE (64 in the code)
  ActionCount,      \* BEBOT_ACTION_COUNT (16 in the code)
  Load              \* bounds: how often each device is polled and written

Fd == 0..(FdCount - 1)

(* Who passes actions to the files of a device. *)
Source == {"poll", "write"}

ASSUME SnapshotAssumption ==
  /\ FdCount \in {2, 3}
  /\ BaseCount \in 1..2
  /\ IrCount \in Nat \ {0} /\ BrightnessCount \in Nat
  /\ QueueSize \in Nat \ {0} /\ ActionCount \in Nat \ {0}
  /\ Load \subseteq [Fd -> [Source -> Nat]]

(* What bebot_update collects, by type and index. *)
Cell ==
  ({"speed"} \X (0..(BaseCount + 1)))
    \union ({"position", "increment"} \X (0..(BaseCount - 1))) \union {<<"angle", 0>>}
    \union ({"brightness"} \X (0..(BrightnessCount - 1)))

SyncSensor == <<"sync", 0>>
SyncActor == <<"sync", 1>>

(* Actions of a type with consecutive indices, passed in one call. *)
Batch(type, first, count) == [j \in 1..count |-> <<type, first + j - 1>>]

(* The two infrared devices see halves of the ring of sensors. *)
Offset(i) == IF i = 2 THEN BrightnessCount \div 2 ELSE 0

VARIABLES
  load,       \* the bounds of this behaviour
  opened,     \* bebot_init has opened the files
  count,      \* polls of, and writes to, each device so far
  todo,       \* batches that the poll, or the write, under way has yet to pass
  rest,       \* rest of the batch that is being passed
  lock,       \* who holds senseact->action_lock
  queue,      \* the queue of the opened file
  fd,         \* the file bebot_update is at
  pc,         \* where bebot_update is
  taken,      \* actions of the read
  buffer,     \* the static arrays of bebot_update
  bebot,      \* the arrays of struct bebot
  shown,      \* history: the poll whose sync was met last
  lost        \* history: polls and writes of which the file missed an action

driverVars == <<count, todo, rest, lock>>
readVars == <<fd, pc, taken>>
clientVars == <<readVars, buffer, bebot, shown>>
vars == <<load, opened, driverVars, queue, clientVars, lost>>

TypeOK ==
  /\ opened \in BOOLEAN
  /\ load \in Load
  /\ \A i \in Fd, who \in Source : count[i][who] \in 0..load[i][who]
  /\ \A i \in Fd : lock[i] \in Source \union {"none"}
  /\ \A i \in Fd : Len(queue[i]) < QueueSize
  /\ fd \in Fd
  /\ pc \in {"idle", "read", "wait", "fetch"}
  /\ taken \in 0..ActionCount
  /\ buffer \in [Cell -> Nat] /\ bebot \in [Cell -> Nat]
  /\ shown \in [Fd -> Nat]
  /\ lost \in [Fd -> SUBSET (Source \X Nat)]

Init ==
  /\ opened = FALSE
  /\ load \in Load
  /\ count = [i \in Fd |-> [who \in Source |-> 0]]
  /\ todo = [i \in Fd |-> [who \in Source |-> <<>>]]
  /\ rest = [i \in Fd |-> [who \in Source |-> <<>>]]
  /\ lock = [i \in Fd |-> "none"]
  /\ queue = [i \in Fd |-> <<>>]
  /\ fd = 0 /\ pc = "idle" /\ taken = 0
  /\ buffer = [c \in Cell |-> 0] /\ bebot = [c \in Cell |-> 0]
  /\ shown = [i \in Fd |-> 0]
  /\ lost = [i \in Fd |-> {}]

-----------------------------------------------------------------------------
(* The drivers.                                                            *)

(* The batches of bebot_base_poll and bebot_ir_poll. *)
PollBatches(i) ==
  IF i = 0
  THEN << Batch("increment", 0, BaseCount), Batch("angle", 0, 1),
          Batch("position", 0, BaseCount), Batch("speed", 2, BaseCount), <<SyncSensor>> >>
  ELSE << Batch("brightness", 0, IrCount), <<SyncSensor>> >>

(* The batches of bebot_base_pass and bebot_ir_pass at the sync of a write *)
WriteBatches(i) ==
  << IF i = 0 THEN Batch("speed", 0, 2) ELSE Batch("enable", 0, IrCount), <<SyncActor>> >>

Busy(i, who) == todo[i][who] # <<>> \/ rest[i][who] # <<>>

(* A poll, or the sync of a write, whose first transfer fails passes       *)
(* nothing. Writes of one device come one after the other (BebotBase).     *)
Begin(i, who) ==
  /\ ~Busy(i, who) /\ count[i][who] < load[i][who]
  /\ count' = [count EXCEPT ![i][who] = @ + 1]
  /\ todo' = [todo EXCEPT ![i][who] = IF who = "poll" THEN PollBatches(i) ELSE WriteBatches(i)]
  /\ UNCHANGED <<load, opened, rest, lock, queue, clientVars, lost>>

(* The transfer of the speeds fails: the rest of the poll is not passed.   *)
SpeedTransferFails ==
  /\ rest[0]["poll"] = <<>> /\ Len(todo[0]["poll"]) = 2
  /\ todo' = [todo EXCEPT ![0]["poll"] = <<>>]
  /\ UNCHANGED <<load, opened, count, rest, lock, queue, clientVars, lost>>

(* senseact_pass_actions takes action_lock ... *)
Pass(i, who) ==
  /\ todo[i][who] # <<>> /\ rest[i][who] = <<>>
  /\ lock' = [lock EXCEPT ![i] = who]
  /\ rest' = [rest EXCEPT ![i][who] = Head(todo[i][who])]
  /\ todo' = [todo EXCEPT ![i][who] = Tail(@)]
  /\ UNCHANGED <<load, opened, count, queue, clientVars, lost>>

(* A slip: without the lock. *)
PassUnlocked(i, who) == Pass(i, who)

PassBatch(i, who) == lock[i] = "none" /\ Pass(i, who)

(* ... and inserts action by action into the queue, if the file is open;   *)
(* one too many and the queue is empty.                                    *)
InsertAction(i, who) ==
  LET action == [cell |-> Head(rest[i][who]), who |-> who, stamp |-> count[i][who]]
      overrun == Len(queue[i]) = QueueSize - 1
  IN /\ rest[i][who] # <<>>
     /\ rest' = [rest EXCEPT ![i][who] = Tail(@)]
     /\ lock' = [lock EXCEPT ![i] = IF Len(rest[i][who]) = 1 THEN "none" ELSE @]
     /\ queue' = [queue EXCEPT ![i] = IF ~opened \/ overrun THEN <<>>
                                      ELSE Append(@, action)]
     /\ lost' = [lost EXCEPT ![i] =
                   IF opened /\ overrun
                   THEN @ \union {<<a.who, a.stamp>> : a \in {action} \union
                                    {queue[i][k] : k \in 1..Len(queue[i])}}
                   ELSE @]
     /\ UNCHANGED <<load, opened, count, todo, clientVars>>

-----------------------------------------------------------------------------
(* The library.                                                            *)

(* bebot_init opens the files, perhaps in the middle of a poll. That it    *)
(* does so one after the other makes no difference, as the devices know    *)
(* nothing of each other.                                                  *)
OpenFiles ==
  /\ ~opened
  /\ opened' = TRUE
  /\ lost' = [i \in Fd |-> {<<who, count[i][who]>> : who \in {w \in Source : Busy(i, w)}}]
  /\ UNCHANGED <<load, driverVars, queue, clientVars>>

NextFd ==
  /\ fd' = IF fd + 1 < FdCount THEN fd + 1 ELSE 0
  /\ pc' = IF fd + 1 < FdCount THEN "read" ELSE "idle"
  /\ taken' = 0

BeginUpdate ==
  /\ pc = "idle" /\ opened
  /\ pc' = "read"
  /\ UNCHANGED <<load, opened, driverVars, queue, fd, taken, buffer, bebot, shown, lost>>

(* The device is gone, or a signal ends the wait: bebot_update returns -1  *)
(* and does not look at the files after this one.                          *)
ReadFails ==
  /\ pc \in {"read", "wait"}
  /\ fd' = 0 /\ pc' = "idle" /\ taken' = 0
  /\ UNCHANGED <<load, opened, driverVars, queue, buffer, bebot, shown, lost>>

(* A slip: a file without news ends the update. *)
NothingToReadEnds ==
  /\ pc = "read" /\ queue[fd] = <<>>
  /\ fd' = 0 /\ pc' = "idle" /\ taken' = 0
  /\ UNCHANGED <<load, opened, driverVars, queue, buffer, bebot, shown, lost>>

(* -EAGAIN *)
NothingToRead ==
  /\ pc = "read" /\ queue[fd] = <<>>
  /\ NextFd
  /\ UNCHANGED <<load, opened, driverVars, queue, buffer, bebot, shown, lost>>

SomethingToRead ==
  /\ pc = "read" /\ queue[fd] # <<>>
  /\ pc' = "wait"
  /\ UNCHANGED <<load, opened, driverVars, queue, fd, taken, buffer, bebot, shown, lost>>

(* The queue that had something may have overrun: then even a non-blocking *)
(* read waits.                                                             *)
EndWait ==
  /\ pc = "wait" /\ queue[fd] # <<>>
  /\ pc' = "fetch"
  /\ UNCHANGED <<load, opened, driverVars, queue, fd, taken, buffer, bebot, shown, lost>>

(* The cell of an action that is read from file i. *)
CellOf(i, action) ==
  IF action.cell[1] = "brightness" THEN <<"brightness", Offset(i) + action.cell[2]>>
                                   ELSE action.cell

(* What the sync of file i takes over: all of the base, or half a ring. *)
Copied(i) ==
  IF i = 0 THEN {c \in Cell : c[1] # "brightness"}
  ELSE {"brightness"} \X (Offset(i)..(Offset(i) + BrightnessCount \div 2 - 1))

(* An action is fetched, and then looked at: the update alone sees what    *)
(* happens in between. The static arrays are taken over at a sync.         *)
Fetch(mayTake, syncs) ==
  LET action == Head(queue[fd])
  IN /\ pc = "fetch" /\ queue[fd] # <<>> /\ mayTake
     /\ queue' = [queue EXCEPT ![fd] = Tail(@)]
     /\ taken' = taken + 1
     /\ buffer' = [c \in Cell |-> IF c = CellOf(fd, action) THEN action.stamp ELSE buffer[c]]
     /\ bebot' = [c \in Cell |-> IF action.cell \in syncs /\ c \in Copied(fd)
                                 THEN buffer[c] ELSE bebot[c]]
     /\ shown' = [shown EXCEPT ![fd] = IF action.cell = SyncSensor THEN action.stamp ELSE @]
     /\ UNCHANGED <<load, opened, driverVars, fd, pc, lost>>

(* Slips: the buffer is overstepped; the index of the sync is not tested.  *)
FetchTooMany == Fetch(taken <= ActionCount, {SyncSensor})
FetchAnySync == Fetch(taken < ActionCount, {SyncSensor, SyncActor})

FetchAction == Fetch(taken < ActionCount, {SyncSensor})

ReadReturns ==
  /\ pc = "fetch"
  /\ queue[fd] = <<>> \/ taken = ActionCount
  /\ NextFd
  /\ UNCHANGED <<load, opened, driverVars, queue, buffer, bebot, shown, lost>>

-----------------------------------------------------------------------------
DriverNext ==
  \/ SpeedTransferFails
  \/ \E i \in Fd :
       \E who \in Source : Begin(i, who) \/ PassBatch(i, who) \/ InsertAction(i, who)

UpdateNext ==
  \/ BeginUpdate \/ NothingToRead \/ SomethingToRead \/ EndWait
  \/ FetchAction \/ ReadReturns

Next == DriverNext \/ OpenFiles \/ UpdateNext \/ ReadFails

Spec == Init /\ [][Next]_vars

(* A program that calls bebot_update again and again, as the loops of      *)
(* avoid.c and wiibot.c do.                                                *)
FairSpec == Spec /\ WF_vars(UpdateNext)

-----------------------------------------------------------------------------
(* The cells a poll of device i reports. *)
Reported(i) ==
  IF i = 0 THEN Copied(0) \ ({"speed"} \X (0..1))
  ELSE {"brightness"} \X (Offset(i)..(Offset(i) + IrCount - 1))

(* What a program sees of a device is one poll, the last whose sync was    *)
(* met, although polls come in pieces, some polls fail half way, writes    *)
(* are reported in between and reads cut batches anywhere; unless the      *)
(* queue overran or was opened in the middle of that poll.                 *)
SnapshotIsOnePoll ==
  \A i \in Fd :
    <<"poll", shown[i]>> \notin lost[i] => \A c \in Reported(i) : bebot[c] = shown[i]

(* The requested speeds a program sees are those of one write, for which   *)
(* both wheels are reported in one batch.                                  *)
RequestIsOneWrite ==
  LET left == bebot[<<"speed", 0>>]
      right == bebot[<<"speed", 1>>]
  IN left # right => <<"write", left>> \in lost[0] \/ <<"write", right>> \in lost[0]

(* The sync of the n-th poll of a device is in its queue. *)
Readable(i, n) ==
  \E k \in 1..Len(queue[i]) : queue[i][k].cell = SyncSensor /\ queue[i][k].stamp = n

Polls(i) == UNION {1..l[i]["poll"] : l \in Load}

(* A completed poll is shown, however often reads have failed before,      *)
(* unless an overrun takes it, or leaves the read of a file before it      *)
(* waiting. (At the last file, a read that fails and one that finds        *)
(* nothing end the update alike.)                                          *)
PollIsShown ==
  <>[][ReadFails => NothingToRead]_vars =>
    \A i \in Fd : \A n \in Polls(i) :
      Readable(i, n) ~> \/ shown[i] >= n
                        \/ <<"poll", n>> \in lost[i]
                        \/ pc = "wait" /\ queue[fd] = <<>>
=============================================================================
