---------------------------- MODULE BebotClient -----------------------------
(***************************************************************************)
(* A program that uses the library of the robot                            *)
(* (senseact/trunk/include/bebot.h): it opens the nodes there are, keeps   *)
(* their descriptors by position, and from the position concludes what it  *)
(* reads.  A read here takes one poll of a device; module BebotSnapshot    *)
(* looks into polls that come in pieces.                                   *)
(***************************************************************************)
EXTENDS BaseUnits, Sequences, FiniteSets, Functions

CONSTANTS
  Scenes    \* what the twelve sensors may measure around the robot

Ring == 0..11    \* BEBOT_BRIGHTNESS_COUNT

ASSUME SceneAssumption == Scenes # {} /\ Scenes \subseteq [Ring -> Nat]

Node == <<"base", "ir", "ir0", "ir1">>

Nodes == {Node[i] : i \in 1..4}

Nothing == <<>>

Dark == [s \in Ring |-> 0]

VARIABLES
  present,   \* nodes of the robot
  gone,      \* nodes of which the device was removed
  fd,        \* bebot.fd, for each descriptor its node
  opened,    \* the descriptors are not closed
  waiting,   \* for each node the poll that waits to be read
  seen,      \* bebot.brightness
  motors,    \* left and right speed of the last request
  scene      \* what there is to measure

clientVars == <<present, gone, fd, opened, waiting, seen, motors, scene>>

ClientTypeOK ==
  /\ present \subseteq Nodes /\ gone \subseteq present
  /\ fd \in Seq(present) /\ Len(fd) <= 3
  /\ opened \in BOOLEAN
  /\ waiting \in [Nodes -> Scenes \union {Dark, Nothing}]
  /\ seen \in [Ring -> Nat]
  /\ motors \in Int \X Int
  /\ scene \in Scenes \union {Dark}

ClientInit(nodes) ==
  /\ present = nodes
  /\ gone = {}
  /\ fd = <<>> /\ opened = FALSE
  /\ waiting = [d \in Nodes |-> Nothing]
  /\ seen = Dark
  /\ motors = <<0, 0>>
  /\ scene = Dark

-----------------------------------------------------------------------------
(* The nodes that open, in order, and their bits. *)
InOrder(nodes) ==
  LET Part(i) == IF Node[i] \in nodes THEN <<Node[i]>> ELSE <<>>
  IN Part(1) \o Part(2) \o Part(3) \o Part(4)

Mask(nodes) ==
  LET Bit(i, value) == IF Node[i] \in nodes THEN value ELSE 0
  IN Bit(1, 1) + Bit(2, 2) + Bit(3, 4) + Bit(4, 8)

(* A slip: the descriptors are counted. *)
AcceptedByNumber(nodes) == Cardinality(nodes) \in {2, 3}

Accepted(nodes) == Mask(nodes) \in {3, 13}

(* The nodes that open. When those are not the ones of a known robot, all  *)
(* are closed, but fd stays; a fourth is not stored.                       *)
bebot_init(nodes) ==
  /\ nodes \subseteq present \ gone
  /\ fd' = IF Len(InOrder(nodes)) > 3 THEN SubSeq(InOrder(nodes), 1, 3) ELSE InOrder(nodes)
  /\ opened' = (Cardinality(nodes) <= 3 /\ Accepted(nodes))
  /\ waiting' = [d \in Nodes |-> Nothing]
  /\ seen' = Dark
  /\ UNCHANGED <<present, gone, motors, scene>>

(* Reading a device that is gone, or a descriptor that is closed, fails.   *)
Fails(i) == ~opened \/ fd[i] \in gone

(* poll returns for data, and for descriptors that fail. *)
bebot_poll == \E i \in DOMAIN fd : Fails(i) \/ waiting[fd[i]] # Nothing

(* The descriptors are read in turn, up to the first that fails. *)
Synced ==
  {i \in DOMAIN fd : waiting[fd[i]] # Nothing /\ \A m \in 1..i : ~Fails(m)}

(* What bebot_update returns is greater than zero. *)
Updated == Synced # {} /\ \A i \in DOMAIN fd : ~Fails(i)

(* The first slot of a descriptor, by its position; the first sensor of a  *)
(* device.                                                                 *)
Offset(i) == IF i = 3 THEN 6 ELSE 0

FirstSensor(d) == IF d = "ir1" THEN 6 ELSE 0

(* Half of the slots are taken over for each infrared device. *)
bebot_update ==
  LET Slots(i) == IF i = 1 THEN {} ELSE Offset(i)..(Offset(i) + 5)
  IN /\ waiting' = [d \in Nodes |->
                      IF \E i \in Synced : fd[i] = d THEN Nothing ELSE waiting[d]]
     /\ seen' = [s \in Ring |->
                   IF \E i \in Synced : s \in Slots(i)
                   THEN LET i == CHOOSE i \in Synced : s \in Slots(i)
                        IN waiting[fd[i]][FirstSensor(fd[i]) + s - Offset(i)]
                   ELSE seen[s]]

(* By the position, the first descriptor is the base. *)
bebot_set_speed(left, right) ==
  motors' = IF ~Fails(1) /\ fd[1] = "base" THEN <<left, right>> ELSE motors

-----------------------------------------------------------------------------
(* Every 250 ms a device is polled. *)
Poll(d) ==
  /\ d \in Range(fd) \ gone /\ opened
  /\ waiting' = [waiting EXCEPT ![d] = scene]
  /\ UNCHANGED <<present, gone, fd, opened, seen, motors, scene>>

Move ==
  /\ scene' \in Scenes
  /\ UNCHANGED <<present, gone, fd, opened, waiting, seen, motors>>

(* Removing the base stops the robot (module BebotBase). *)
RemoveDevice(d) ==
  /\ d \in Range(fd) \ gone
  /\ gone' = gone \union {d}
  /\ waiting' = [waiting EXCEPT ![d] = Nothing]
  /\ motors' = IF d = "base" THEN <<0, 0>> ELSE motors
  /\ UNCHANGED <<present, fd, opened, seen, scene>>

-----------------------------------------------------------------------------
(* The position of a descriptor means what the library takes it to mean,   *)
(* whichever nodes the robot has and whichever of them did open: first the *)
(* base, then the sensors from the slot on where they belong.              *)
DevicesInPlace ==
  opened => \A i \in DOMAIN fd : /\ i = 1 <=> fd[i] = "base"
                                 /\ i > 1 => Offset(i) = FirstSensor(fd[i])
=============================================================================
