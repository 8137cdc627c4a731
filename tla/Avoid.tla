------------------------------- MODULE Avoid --------------------------------
(***************************************************************************)
(* The program avoid (utils/trunk/bebot/avoid.c): a hand at the back of    *)
(* the robot lets it run, it keeps away from obstacles, and hands or walls *)
(* all over its front stop it.  The result of bebot_init is not looked at. *)
(***************************************************************************)
EXTENDS BebotClient

VARIABLES
  avoidPc,   \* where the program is
  run        \* the robot was told to run

avoidVars == <<clientVars, avoidPc, run>>

AvoidTypeOK == ClientTypeOK /\ avoidPc \in {"absent", "init", "loop", "left"} /\ run \in BOOLEAN

AvoidInit(nodes, starts) ==
  /\ ClientInit(nodes)
  /\ avoidPc = IF starts THEN "init" ELSE "absent"
  /\ run = FALSE

-----------------------------------------------------------------------------
(* Values that are noise, or too high, count for nothing. *)
Counted(v) == IF v < 125 \/ v > 1000 THEN 0 ELSE v

Ahead(b) ==
  3000 - 8 * (Counted(b[0]) + Counted(b[11])) - 4 * (Counted(b[1]) + Counted(b[10]))
       - 2 * (Counted(b[2]) + Counted(b[9])) - (Counted(b[3]) + Counted(b[8]))

Turn(b) ==
  8 * (Counted(b[11]) - Counted(b[0])) + 4 * (Counted(b[10]) - Counted(b[1]))
       + 2 * (Counted(b[9]) - Counted(b[2])) + (Counted(b[8]) - Counted(b[3]))

Scale == 20

Straight(b) == IF Ahead(b) > 0 THEN Quotient(Ahead(b), Scale) ELSE 0

Left(b) == Straight(b) - Quotient(Turn(b), Scale)

Right(b) == Straight(b) + Quotient(Turn(b), Scale)

FrontCovered(b) == \A s \in {0, 1, 10, 11} : b[s] > 650

BackCovered(b) == \A s \in {5, 6} : b[s] > 650

-----------------------------------------------------------------------------
Start ==
  /\ avoidPc = "init" /\ avoidPc' = "loop"
  /\ \E nodes \in SUBSET present : bebot_init(nodes)
  /\ UNCHANGED run

(* A slip: the speed is not set when the robot stops. *)
ActWithoutStop(b) ==
  IF run
  THEN IF FrontCovered(b)
       THEN run' = FALSE /\ UNCHANGED motors
       ELSE bebot_set_speed(Left(b), Right(b)) /\ UNCHANGED run
  ELSE run' = BackCovered(b) /\ UNCHANGED motors

(* With what was read the robot stops, drives or begins to run ... *)
Act(b) ==
  IF run
  THEN IF FrontCovered(b)
       THEN bebot_set_speed(0, 0) /\ run' = FALSE
       ELSE bebot_set_speed(Left(b), Right(b)) /\ UNCHANGED run
  ELSE run' = BackCovered(b) /\ UNCHANGED motors

(* ... and nothing is done when a device failed. *)
Round ==
  /\ avoidPc = "loop"
  /\ bebot_poll
  /\ bebot_update
  /\ IF Updated THEN Act(seen') ELSE UNCHANGED <<run, motors>>
  /\ UNCHANGED <<present, gone, fd, opened, scene, avoidPc>>

(* poll fails, for a signal: the devices are closed, and the robot runs on *)
(* at the speed it has.                                                    *)
LeaveLoop ==
  /\ avoidPc = "loop" /\ avoidPc' = "left"
  /\ opened' = FALSE
  /\ UNCHANGED <<present, gone, fd, waiting, seen, motors, scene, run>>

AvoidNext ==
  \/ Start \/ Round \/ LeaveLoop
  \/ /\ avoidPc = "loop"
     /\ Move \/ \E d \in Nodes : Poll(d) \/ RemoveDevice(d)
     /\ UNCHANGED <<avoidPc, run>>

AvoidFairness ==
  /\ WF_avoidVars(Start) /\ WF_avoidVars(Round)
  /\ \A d \in Nodes : WF_avoidVars(Poll(d) /\ UNCHANGED <<avoidPc, run>>)

-----------------------------------------------------------------------------
(* A robot of which the front stays covered comes to a stop and stays,     *)
(* whatever it was about, as long as the program is in its loop and none   *)
(* of its devices fails: the halves of the ring are read from different    *)
(* devices, at different times.                                            *)
ObstacleStopsRobot ==
  <>[](FrontCovered(scene) /\ gone = {} /\ avoidPc # "left") => <>[](motors = <<0, 0>>)
=============================================================================
