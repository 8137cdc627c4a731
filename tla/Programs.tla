------------------------------ MODULE Programs ------------------------------
(***************************************************************************)
(* The programs of a robot: Player with its drivers, avoid, wiibot, or     *)
(* programs that switch infrared sensors.  A behaviour is about one of     *)
(* them, as Scenarios say: they use the same devices, and the robot is     *)
(* driven by one at a time.                                                *)
(***************************************************************************)
EXTENDS Player, Avoid, Wiibot, BebotIr

CONSTANTS
  Scenarios    \* records: program, release, drivers, robot, follows, nodes

ASSUME ScenarioAssumption ==
  Scenarios \subseteq [program : {"player", "avoid", "wiibot", "switch"},
                      release : {"2.1", "3.0"},
                      drivers : SUBSET Driver, robot : SUBSET IrDev,
                      follows : BOOLEAN, nodes : SUBSET Nodes]

vars == <<playerVars, clientVars, avoidPc, run, WiiOwn, bebotIrVars>>

TypeOK == PlayerTypeOK /\ AvoidTypeOK /\ WiiTypeOK /\ BebotIrTypeOK

Init ==
  \E s \in Scenarios :
    /\ PlayerInit(s.release, s.drivers, s.robot, s.follows)
    /\ AvoidInit(s.nodes, s.program = "avoid")
    /\ WiiInit(s.program = "wiibot")
    /\ BebotIrInit(s.program = "switch")

Next ==
  \/ config # {} /\ PlayerNext /\ UNCHANGED <<clientVars, avoidPc, run, WiiOwn, bebotIrVars>>
  \/ AvoidNext /\ UNCHANGED <<playerVars, WiiOwn, bebotIrVars>>
  \/ WiiNext /\ UNCHANGED <<playerVars, avoidPc, run, bebotIrVars>>
  \/ BebotIrNext /\ UNCHANGED <<playerVars, clientVars, avoidPc, run, WiiOwn>>

Spec == Init /\ [][Next]_vars /\ PlayerFairness /\ AvoidFairness /\ WiiFairness

-----------------------------------------------------------------------------
(* The robot stops when what drives it has reason to: avoid for obstacles  *)
(* all over its front, wiibot for the buttons of its remote.               *)
StopsForReason == ObstacleStopsRobot /\ ReleaseStopsRobot
=============================================================================
