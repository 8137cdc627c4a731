------------------------------- MODULE Player -------------------------------
(***************************************************************************)
(* The Player server with its drivers for the base, the infrared sensors,  *)
(* the camera and the radio network, and with the program follow or with   *)
(* clients that subscribe and unsubscribe as they like.  The drivers do    *)
(* not know of each other, but share the descriptors of the process.       *)
(***************************************************************************)
EXTENDS Follow, CameraV4L2, Olsrd

ASSUME DriverAssumption == {"base", "ir", "camera", "olsrd"} \subseteq Driver

driverVars == <<baseVars, irVars, cameraVars, olsrdVars>>

playerVars == <<serverVars, driverVars, followVars>>

(* What can be behind a descriptor. *)
Behind == {"closed", "base", "camera", "olsrd"} \union {IrName(i) : i \in IrDev}

PlayerTypeOK ==
  /\ ServerTypeOK /\ BaseTypeOK /\ IrTypeOK /\ CameraTypeOK /\ OlsrdTypeOK /\ FollowTypeOK
  /\ files \in [Fd -> Behind]
  /\ ready \subseteq {"base"} \union {IrName(i) : i \in IrDev}
  /\ inbox \subseteq Driver

PlayerInit(release, drivers, robot, follows) ==
  /\ ServerInit(release, drivers)
  /\ BaseInit /\ IrInit(robot) /\ CameraInit /\ OlsrdInit /\ FollowInit(follows)

-----------------------------------------------------------------------------
(* Where follow is a client, it is the only one. *)
Clients ==
  /\ stage = "absent"
  /\ \/ (\E d \in Driver : Subscribe(d) \/ Unsubscribe(d)) /\ UNCHANGED <<driverVars, followVars>>
     \/ AskPoses /\ UNCHANGED <<baseVars, cameraVars, olsrdVars, followVars>>

(* The devices of the senseact core that are open are polled every 250 ms, *)
(* those of the infrared sensors by timers of their own. The thread of the *)
(* base keeps up with that: it has published the last poll, or, when the   *)
(* device is gone and it does not wait any more, emptied its queue.        *)
Tick ==
  LET Polled == {IrName(i) : i \in {j \in IrDev : \E n \in Fd : files[n] = IrName(j)}}
  IN /\ pc["base"] = "read" => "base" \notin ready
     /\ pc["base"] = "messages" => removed
     /\ removed /\ pc["base"] \in {"messages", "read"} => commands = <<>>
     /\ \E S \in SUBSET Polled :
          ready' = ready \union S \union (IF removed \/ pc["base"] # "read" THEN {} ELSE {"base"})
     /\ Nap
     /\ UNCHANGED <<processVars, threadVars, files, inbox, driverVars, running, irSeen>>

FollowNext ==
  /\ FollowStep \/ ConnectFails \/ GeometryFails \/ Interrupt
  /\ UNCHANGED <<cameraVars, olsrdVars>>

BaseSteps ==
  /\ \/ BaseThread \/ BaseSetup \/ BaseShutdown \/ RemoveBase
     \/ stage = "absent" /\ BaseSetupFails
  /\ UNCHANGED <<irVars, cameraVars, olsrdVars, followVars>>

IrSteps ==
  /\ \/ IrThread \/ IrSelectFails \/ IrSetup \/ IrShutdown
     \/ stage = "absent" /\ IrSetupFails
  /\ UNCHANGED <<baseVars, cameraVars, olsrdVars, followVars>>

CameraSteps == CameraNext /\ UNCHANGED <<baseVars, irVars, olsrdVars, followVars>>

OlsrdSteps == OlsrdNext /\ UNCHANGED <<baseVars, irVars, cameraVars, followVars>>

(* An abort of the process ends all of it. *)
PlayerNext ==
  /\ ~dead
  /\ Clients \/ Tick \/ FollowNext \/ BaseSteps \/ IrSteps \/ CameraSteps \/ OlsrdSteps

-----------------------------------------------------------------------------
(* Threads run, calls of the server end, the polls go on; that a picture   *)
(* or an answer of the daemon arrives, a client does something, a device   *)
(* goes away or a call fails is not taken for granted.                     *)
Runs(d) == ~dead /\ pc[d] # "none"
BaseRuns == Runs("base") /\ BaseThread /\ UNCHANGED <<irVars, cameraVars, olsrdVars, followVars>>
IrRuns == Runs("ir") /\ IrThread /\ UNCHANGED <<baseVars, cameraVars, olsrdVars, followVars>>
CameraRuns == Runs("camera") /\ CameraThread /\ UNCHANGED <<baseVars, irVars, olsrdVars, followVars>>
OlsrdRuns == Runs("olsrd") /\ OlsrdThread /\ UNCHANGED <<baseVars, irVars, cameraVars, followVars>>
FollowRuns == ~dead /\ stage # "absent" /\ FollowStep /\ UNCHANGED <<cameraVars, olsrdVars>>

ServerRuns ==
  /\ ~dead /\ ~ServerIdle
  /\ \/ BaseSteps \/ IrSteps \/ CameraSteps \/ OlsrdSteps
     \/ ConnectFails /\ UNCHANGED <<cameraVars, olsrdVars>>
  /\ call' # call

PlayerFairness ==
  /\ WF_playerVars(BaseRuns) /\ WF_playerVars(IrRuns)
  /\ WF_playerVars(CameraRuns) /\ WF_playerVars(OlsrdRuns)
  /\ WF_playerVars(FollowRuns)
  /\ WF_playerVars(ServerRuns)
  /\ WF_playerVars(~dead /\ Tick)

-----------------------------------------------------------------------------
(* The descriptor of a driver.                                             *)
Holds(name, n) == n \in Fd /\ files[n] = name

(* As long as the thread of a driver may use its descriptors, they are its *)
(* own, and no two drivers have the same: none is closed by the driver     *)
(* before its thread is over, and none twice, after another driver was     *)
(* given the number.                                                       *)
OwnDescriptors ==
  /\ pc["base"] # "none" => Holds("base", device)
  /\ pc["ir"] # "none" => \A i \in OpenDev : Holds(IrName(i), devices[i])
  /\ pc["camera"] # "none" => Holds("camera", videoFd)
  /\ pc["olsrd"] \in {"connect", "read", "merge", "close"} => Holds("olsrd", sock)

(* The server gets done with every driver, whatever its thread waits for:  *)
(* each of them comes to a cancellation point, and unsubscribing ends.     *)
ServerGetsDone == []<>(ServerIdle \/ dead)
=============================================================================
