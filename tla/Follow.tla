------------------------------- MODULE Follow -------------------------------
(***************************************************************************)
(* The program follow (utils/trunk/player/follow.cc), a client of Player   *)
(* that drives the robot after a coloured blob, or away from obstacles     *)
(* when there is no camera, until it is interrupted.  Which velocity it    *)
(* computes is left open.                                                  *)
(***************************************************************************)
EXTENDS PlayerBase, PlayerIr

VARIABLES
  stage,     \* where the program is
  running,   \* FALSE once SIGINT was caught
  irSeen     \* the proxy of the infrared sensors holds data

followVars == <<stage, running, irSeen>>

Stage == {"absent", "position", "ir", "first read", "geometry", "loop", "read",
             "nap", "second nap", "leave"}

FollowTypeOK == stage \in Stage /\ running \in BOOLEAN /\ irSeen \in BOOLEAN

FollowInit(present) ==
  /\ stage = IF present THEN "position" ELSE "absent"
  /\ running = TRUE
  /\ irSeen = FALSE

FollowGoes(from, to) == stage = from /\ stage' = to

-----------------------------------------------------------------------------
(* The two proxies subscribe one after the other ... *)
Connect ==
  /\ \/ stage = "position" /\ Subscribe("base")
     \/ stage = "ir" /\ Subscribe("ir")
  /\ UNCHANGED <<baseVars, irVars, followVars>>

Connected ==
  /\ ServerIdle
  /\ \/ subscribed["base"] /\ FollowGoes("position", "ir")
     \/ subscribed["ir"] /\ FollowGoes("ir", "first read")
  /\ UNCHANGED <<serverVars, baseVars, irVars, running, irSeen>>

(* ... and the program exits if one of them cannot, as it does when the    *)
(* request for the poses is not answered in time.                          *)
ConnectFails ==
  /\ \/ BaseSetupFails /\ FollowGoes("position", "leave") /\ UNCHANGED irVars
     \/ IrSetupFails /\ FollowGoes("ir", "leave") /\ UNCHANGED baseVars
  /\ UNCHANGED <<running, irSeen>>

GeometryFails ==
  /\ asked /\ FollowGoes("geometry", "leave")
  /\ UNCHANGED <<serverVars, baseVars, irVars, running, irSeen>>

(* PlayerClient::Read blocks until there is a message with data. *)
Reads(d) ==
  /\ d \in inbox
  /\ inbox' = inbox \ {d}
  /\ irSeen' = (irSeen \/ d = "ir")
  /\ UNCHANGED <<processVars, threadVars, files, ready>>

FirstRead ==
  /\ FollowGoes("first read", "geometry")
  /\ \E d \in {"base", "ir"} : Reads(d)
  /\ asked' = TRUE
  /\ UNCHANGED <<baseVars, nodes, devices, poses, slots, running>>

Geometry ==
  /\ ~asked /\ FollowGoes("geometry", "loop")
  /\ UNCHANGED <<serverVars, baseVars, irVars, running, irSeen>>

Loop ==
  /\ running /\ FollowGoes("loop", "read")
  /\ UNCHANGED <<serverVars, baseVars, irVars, running, irSeen>>

(* SetSpeed, unless the infrared sensors have not been heard of yet. *)
Drive ==
  /\ FollowGoes("read", "loop")
  /\ \E d \in {"base", "ir"} : Reads(d)
  /\ IF irSeen' THEN \E v \in Speed : commands' = Queued(v) ELSE commands' = commands
  /\ UNCHANGED <<irVars, device, wheels, removed, running>>

(* A slip: without the nap. *)
StopAndLeave ==
  /\ ~running /\ FollowGoes("loop", "leave")
  /\ commands' = Queued(0)
  /\ UNCHANGED <<serverVars, irVars, device, wheels, removed, running, irSeen>>

Stop ==
  /\ ~running /\ FollowGoes("loop", "nap")
  /\ commands' = Queued(0)
  /\ UNCHANGED <<serverVars, irVars, device, wheels, removed, running, irSeen>>

(* The nap is two intervals of the poll. *)
Nap == stage' = CASE stage = "nap" -> "second nap" [] stage = "second nap" -> "leave" [] OTHER -> stage

(* The proxies and the connection are deleted. *)
Leave ==
  /\ stage = "leave"
  /\ \/ Unsubscribe("base")
     \/ ~subscribed["base"] /\ Unsubscribe("ir")
  /\ UNCHANGED <<baseVars, irVars, followVars>>

(* SIGINT *)
Interrupt ==
  /\ running /\ stage # "absent"
  /\ running' = FALSE
  /\ UNCHANGED <<serverVars, baseVars, irVars, stage, irSeen>>

-----------------------------------------------------------------------------
FollowStep == Connect \/ Connected \/ FirstRead \/ Geometry \/ Loop \/ Drive \/ Stop \/ Leave

(* A robot that is driven by the program stands for good after SIGINT,     *)
(* wherever the program is then, though the velocity of zero only waits in *)
(* the queue of the driver when the program goes to unsubscribe, and the   *)
(* thread is cancelled then. (running does not become TRUE again.)         *)
InterruptStopsRobot ==
  <>[](stage # "absent" /\ ~running) => <>[](wheels = 0)
=============================================================================
