----------------------------- MODULE PlayerBase -----------------------------
(***************************************************************************)
(* The driver of Player for the base of the robot                          *)
(* (playerstage/trunk/drivers/bebot/bebot_base.cc): between two blocking   *)
(* reads of the senseact device it works off the messages of its clients,  *)
(* of which those with a velocity are written to the device.               *)
(*                                                                         *)
(* The loop over the actions of a read runs to its number of bytes and so  *)
(* takes old contents of the stack for actions; the values it publishes    *)
(* are therefore not modelled, only that it publishes.                     *)
(***************************************************************************)
EXTENDS PlayerServer

CONSTANTS
  Speed,       \* velocities clients ask for; 0 is to stand
  QueueLength  \* PLAYER_MSGQUEUE_DEFAULT_MAXLEN of Player

ASSUME SpeedAssumption == 0 \in Speed /\ QueueLength \in Nat \ {0}

VARIABLES
  device,     \* descriptor of the senseact device
  commands,   \* velocities in the driver's queue of messages
  wheels,     \* what the motors were last told
  removed     \* the driver of the base was unbound from its hardware

baseVars == <<device, commands, wheels, removed>>

BaseTypeOK ==
  /\ pc["base"] \in {"none", "messages", "read", "quit"}
  /\ device \in Fd \union {NoFd}
  /\ commands \in Seq(Speed) /\ Len(commands) <= QueueLength
  /\ wheels \in Speed
  /\ removed \in BOOLEAN

BaseInit ==
  /\ device = NoFd
  /\ commands = <<>>
  /\ wheels = 0
  /\ removed = FALSE

(* A message is dropped when the queue is full. *)
Queued(v) == IF Len(commands) < QueueLength THEN Append(commands, v) ELSE commands

-----------------------------------------------------------------------------
BaseSetup ==
  /\ ~removed
  /\ SetUp("base")
  /\ \E n \in Fd : Opens("base", n) /\ device' = n
  /\ ready' = ready \ {"base"}
  /\ UNCHANGED <<inbox, commands, wheels, removed>>

(* The message of the failure is formatted with the descriptor, -1, in     *)
(* place of a name: the process may not survive it.                        *)
BaseSetupFails ==
  /\ SetupFails("base")
  /\ dead' \in BOOLEAN
  /\ device' = NoFd
  /\ UNCHANGED <<files, ready, inbox, commands, wheels, removed>>

(* A velocity is handed on; writing fails when the device is gone. *)
BaseCommand ==
  /\ pc["base"] = "messages" /\ ~cancelled["base"]
  /\ commands # <<>>
  /\ commands' = Tail(commands)
  /\ wheels' = IF files[device] = "base" /\ ~removed THEN Head(commands) ELSE wheels
  /\ UNCHANGED <<serverVars, device, removed>>

BaseWaits ==
  /\ Goes("base", "messages", "read") /\ ~cancelled["base"]
  /\ commands = <<>>
  /\ UNCHANGED <<processVars, call, subscribed, cancelled, files, ready, inbox, baseVars>>

(* A poll is read, up to its sync, and published. *)
BaseRead ==
  /\ Goes("base", "read", "messages")
  /\ files[device] = "base" /\ "base" \in ready
  /\ ready' = ready \ {"base"}
  /\ inbox' = inbox \union {"base"}
  /\ UNCHANGED <<processVars, call, subscribed, cancelled, files, baseVars>>

(* Nothing comes of a device that is gone, and the driver tries again. *)
BaseReadFails ==
  /\ Goes("base", "read", "messages")
  /\ files[device] # "base" \/ removed
  /\ UNCHANGED <<processVars, call, subscribed, cancelled, files, ready, inbox, baseVars>>

BaseCancel == Cancel("base", {"messages", "read"}) /\ UNCHANGED baseVars

BaseQuit == MainQuit("base", {device}) /\ UNCHANGED baseVars

(* A slip: the device is closed before the thread is stopped. *)
BaseShutdownClosingFirst ==
  /\ \/ /\ CallGoes("base", "stop", "join")
        /\ cancelled' = [cancelled EXCEPT !["base"] = pc["base"] # "none"]
        /\ files' = Closed({device})
        /\ UNCHANGED <<processVars, subscribed, pc, ready, inbox>>
     \/ Shutdown("base", {})
  /\ UNCHANGED baseVars

BaseShutdown ==
  /\ StopThread("base") \/ Shutdown("base", {device})
  /\ UNCHANGED baseVars

-----------------------------------------------------------------------------
(* Removing the base stops the robot (module BebotBase). *)
RemoveBase ==
  /\ ~removed
  /\ removed' = TRUE
  /\ wheels' = 0
  /\ ready' = ready \ {"base"}
  /\ UNCHANGED <<processVars, threadVars, files, inbox, device, commands>>

BaseThread ==
  BaseCommand \/ BaseWaits \/ BaseRead \/ BaseReadFails \/ BaseCancel \/ BaseQuit

BaseCall == BaseSetup \/ BaseSetupFails \/ BaseShutdown

BaseNext == BaseThread \/ BaseCall \/ RemoveBase
=============================================================================
