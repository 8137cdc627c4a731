------------------------------ MODULE PlayerIr ------------------------------
(***************************************************************************)
(* The driver of Player for the infrared sensors                           *)
(* (playerstage/trunk/drivers/bebot/bebot_ir.cc).  It is configured for    *)
(* the devices of every kind of robot and works with those that open: what *)
(* they measure is put one after the other into one message, and a request *)
(* for the poses of the sensors is answered accordingly.                   *)
(*                                                                         *)
(* A slot of the message holds the sensor whose action it was last written *)
(* for, not the value: as in PlayerBase, old contents of the stack are     *)
(* taken for actions, of the same device or of another.                    *)
(***************************************************************************)
EXTENDS PlayerServer

CONSTANTS
  IrCounts    \* sensors of each configured device: <<12, 6, 6>>

ASSUME IrCountsAssumption == IrCounts \in Seq(Nat) /\ Len(IrCounts) > 0

IrDev == DOMAIN IrCounts

IrName(i) == CASE i = 1 -> "ir" [] i = 2 -> "ir0" [] OTHER -> "ir1"

VARIABLES
  nodes,      \* configured devices the robot has
  devices,    \* their descriptors
  asked,      \* a request for the poses is in the queue
  poses,      \* the answer to it: sensors in the order of the message
  slots       \* whose values the message holds

irVars == <<nodes, devices, asked, poses, slots>>

Unset == <<0, 0>>

Sensor(i) == {<<i, j>> : j \in 0..(IrCounts[i] - 1)}

AllSensors == UNION {Sensor(i) : i \in IrDev}

(* The positions of the configuration, device after device: those of the   *)
(* first i devices, and all of them.                                       *)
Configured[i \in 0..Len(IrCounts)] ==
  IF i = 0 THEN <<>> ELSE Configured[i - 1] \o [j \in 1..IrCounts[i] |-> <<i, j - 1>>]

Positions == Configured[Len(IrCounts)]

Slot == 0..(Len(Positions) - 1)

IrTypeOK ==
  /\ pc["ir"] \in {"none", "messages", "select", "quit"}
  /\ nodes \subseteq IrDev
  /\ devices \in [IrDev -> Fd \union {NoFd}]
  /\ asked \in BOOLEAN
  /\ Len(poses) <= Len(Positions)
  /\ slots \in [Slot -> AllSensors \union {Unset}]

IrInit(robot) ==
  /\ nodes = robot
  /\ devices = [i \in IrDev |-> NoFd]
  /\ asked = FALSE
  /\ poses = <<>>
  /\ slots = [k \in Slot |-> Unset]

OpenDev == {i \in IrDev : devices[i] # NoFd}

-----------------------------------------------------------------------------
(* The descriptors D are the lowest that are free, in order. *)
OpensAll(D) ==
  LET Taken == {D[i] : i \in {j \in IrDev : D[j] # NoFd}}
  IN /\ \A i \in IrDev : D[i] # NoFd => files[D[i]] = "closed"
     /\ \A i, j \in IrDev : D[i] # NoFd /\ D[j] # NoFd /\ i < j => D[i] < D[j]
     /\ \A n \in Fd : files[n] = "closed" /\ n \notin Taken => \A m \in Taken : m < n
     /\ files' = [n \in Fd |-> IF n \in Taken
                               THEN IrName(CHOOSE i \in IrDev : D[i] = n) ELSE files[n]]

(* In 3.0 a device that does not open is left out; in 2.1 all must open.   *)
(* The arrays of Main are not initialised.                                 *)
IrSetup ==
  /\ SetUp("ir")
  /\ \E D \in [IrDev -> Fd \union {NoFd}] :
       /\ \A i \in IrDev : D[i] # NoFd => i \in nodes
       /\ version = "2.1" => \A i \in IrDev : D[i] # NoFd
       /\ OpensAll(D)
       /\ devices' = D
       /\ ready' = ready \ {IrName(i) : i \in IrDev}
  /\ poses' = <<>>
  /\ slots' = [k \in Slot |-> Unset]
  /\ UNCHANGED <<inbox, nodes, asked>>

(* Setup of 2.1 closes the devices that did open. *)
IrSetupFails ==
  /\ version = "2.1"
  /\ SetupFails("ir")
  /\ UNCHANGED <<dead, files, ready, inbox, irVars>>

(* The sensors of the message as ProcessMessage counts them: it goes over  *)
(* the positions of all devices and copies those of the open ones.         *)
Replied[i \in 0..Len(IrCounts)] ==
  IF i = 0 THEN <<>>
  ELSE Replied[i - 1] \o
         (IF devices[i] = NoFd THEN <<>>
          ELSE SubSeq(Positions, Len(Configured[i - 1]) + 1, Len(Configured[i])))

PoseReply == Replied[Len(IrCounts)]

IrMessages ==
  /\ Goes("ir", "messages", "select") /\ ~cancelled["ir"]
  /\ asked' = FALSE
  /\ poses' = IF asked THEN PoseReply ELSE poses
  /\ UNCHANGED <<processVars, call, subscribed, cancelled, files, ready, inbox, nodes, devices, slots>>

(* A slip: they have, as in the drivers for 2.1. *)
SlotsOfAll[i \in 0..Len(IrCounts)] ==
  IF i = 0 THEN 0 ELSE SlotsOfAll[i - 1] + IrCounts[i]

FirstSlotOfAll(i) == SlotsOfAll[i - 1]

(* The slots of the first i devices as Main counts them: those that are    *)
(* not open have none.                                                     *)
SlotsOf[i \in 0..Len(IrCounts)] ==
  IF i = 0 THEN 0 ELSE SlotsOf[i - 1] + (IF devices[i] = NoFd THEN 0 ELSE IrCounts[i])

FirstSlot(i) == SlotsOf[i - 1]

(* The devices that have a poll are read up to the sync, and published.    *)
(* Reads that end within the batch are not told apart from those.          *)
IrSelect ==
  LET Readable == {i \in OpenDev : files[devices[i]] = IrName(i) /\ IrName(i) \in ready}
      Written == {s \in AllSensors : s[1] \in Readable}
      At(s) == FirstSlot(s[1]) + s[2]
  IN /\ Goes("ir", "select", "messages")
     /\ Readable # {}
     /\ ready' = ready \ {IrName(i) : i \in Readable}
     /\ slots' = [k \in Slot |-> IF \E s \in Written : At(s) = k
                                 THEN CHOOSE s \in Written : At(s) = k ELSE slots[k]]
     /\ inbox' = inbox \union {"ir"}
     /\ UNCHANGED <<processVars, call, subscribed, cancelled, files, nodes, devices, asked, poses>>

(* select fails, say for a signal: Main ends, though there are subscribers *)
IrSelectFails ==
  /\ Goes("ir", "select", AfterMain)
  /\ cancelled' = [cancelled EXCEPT !["ir"] = FALSE]
  /\ UNCHANGED <<processVars, call, subscribed, files, ready, inbox, irVars>>

(* A slip: the thread cannot be cancelled while it waits. *)
IrCancelDisabled == Cancel("ir", {"messages"}) /\ UNCHANGED irVars

IrCancel == Cancel("ir", {"messages", "select"}) /\ UNCHANGED irVars

IrFds == {devices[i] : i \in OpenDev}

IrQuit == MainQuit("ir", IrFds) /\ UNCHANGED irVars

IrShutdown ==
  /\ StopThread("ir") \/ Shutdown("ir", IrFds)
  /\ UNCHANGED irVars

-----------------------------------------------------------------------------
(* A client asks for the poses. *)
AskPoses ==
  /\ subscribed["ir"] /\ ~asked
  /\ asked' = TRUE
  /\ UNCHANGED <<serverVars, nodes, devices, poses, slots>>

IrThread == IrMessages \/ IrSelect \/ IrCancel \/ IrQuit

IrCall == IrSetup \/ IrSetupFails \/ IrShutdown

IrNext == IrThread \/ IrSelectFails \/ IrCall

(* The index at which a client finds the range of a sensor is that of its  *)
(* pose, whichever of the configured devices the robot has, fail to open,  *)
(* or come and go between two sessions: the two functions of the driver    *)
(* that count sensors agree.                                               *)
SlotsFollowPoses ==
  \A k \in Slot : slots[k] # Unset /\ poses # <<>>
                    => k < Len(poses) /\ poses[k + 1] = slots[k]
=============================================================================
