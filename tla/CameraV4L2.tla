----------------------------- MODULE CameraV4L2 -----------------------------
(***************************************************************************)
(* The driver of Player for the camera                                     *)
(* (playerstage/trunk/drivers/camerav4l2/camerav4l2.cc): its thread        *)
(* allocates a frame, reads a picture into it, which blocks until there is *)
(* one, and hands the frame over to Player, which frees it.                *)
(***************************************************************************)
EXTENDS PlayerServer

CONSTANTS
  Skip    \* pictures to leave out between two that are published

ASSUME SkipAssumption == Skip \in Nat

VARIABLES
  videoFd,   \* fd: descriptor of the video device
  frame,     \* data is no null pointer
  heap,      \* frames that are allocated
  index      \* pictures left out since the last that was published

cameraVars == <<videoFd, frame, heap, index>>

CameraTypeOK ==
  /\ pc["camera"] \in {"none", "messages", "grab", "read", "refresh", "quit"}
  /\ videoFd \in Fd \union {NoFd}
  /\ frame \in BOOLEAN
  /\ heap \in Nat
  /\ index \in 0..Skip

CameraInit == videoFd = NoFd /\ frame = FALSE /\ heap = 0 /\ index = 0

-----------------------------------------------------------------------------
CameraSetup ==
  /\ SetUp("camera")
  /\ \E n \in Fd : Opens("camera", n) /\ videoFd' = n
  /\ index' = 0
  /\ UNCHANGED <<ready, inbox, frame, heap>>

(* Without a device, or a descriptor for it ... *)
CameraOpenFails ==
  /\ SetupFails("camera")
  /\ videoFd' = NoFd
  /\ UNCHANGED <<dead, files, ready, inbox, frame, heap, index>>

(* ... or with one that cannot do what the driver needs: it stays open.    *)
InitDeviceFails ==
  /\ SetupFails("camera")
  /\ \E n \in Fd : Opens("camera", n) /\ videoFd' = n
  /\ UNCHANGED <<dead, ready, inbox, frame, heap, index>>

CameraShutdown ==
  /\ StopThread("camera") \/ Shutdown("camera", {videoFd})
  /\ UNCHANGED cameraVars

CameraQuit == MainQuit("camera", {videoFd}) /\ UNCHANGED cameraVars

(* The nap; there are no messages the driver knows. *)
CameraSleep ==
  /\ Goes("camera", "messages", "grab") /\ ~cancelled["camera"]
  /\ UNCHANGED <<processVars, call, subscribed, cancelled, files, ready, inbox, cameraVars>>

(* assert(!data) *)
GrabFrame ==
  /\ IF frame THEN pc["camera"] = "grab" /\ pc' = pc /\ dead' = TRUE /\ UNCHANGED <<frame, heap>>
     ELSE Goes("camera", "grab", "read") /\ dead' = dead /\ frame' = TRUE /\ heap' = heap + 1
  /\ UNCHANGED <<version, config, call, subscribed, cancelled, files, ready, inbox, videoFd, index>>

CameraRead ==
  /\ Goes("camera", "read", "refresh")
  /\ UNCHANGED <<processVars, call, subscribed, cancelled, files, ready, inbox, cameraVars>>

(* A slip: the frame is not freed. *)
CameraReadFailsLeaking ==
  /\ Goes("camera", "read", "messages")
  /\ frame' = FALSE
  /\ UNCHANGED <<processVars, call, subscribed, cancelled, files, ready, inbox, videoFd, heap, index>>

CameraReadFails ==
  /\ Goes("camera", "read", "messages")
  /\ frame' = FALSE /\ heap' = heap - 1
  /\ UNCHANGED <<processVars, call, subscribed, cancelled, files, ready, inbox, videoFd, index>>

(* Left out or published, the frame is freed. *)
RefreshData ==
  /\ Goes("camera", "refresh", "messages")
  /\ frame' = FALSE /\ heap' = heap - 1
  /\ IF index < Skip
     THEN index' = index + 1 /\ inbox' = inbox
     ELSE index' = 0 /\ inbox' = inbox \union {"camera"}
  /\ UNCHANGED <<processVars, call, subscribed, cancelled, files, ready, videoFd>>

(* The blocking read is a cancellation point, with a frame allocated. *)
CameraCancel == Cancel("camera", {"messages", "read"}) /\ UNCHANGED cameraVars

-----------------------------------------------------------------------------
CameraThread == CameraSleep \/ GrabFrame \/ RefreshData \/ CameraCancel \/ CameraQuit

CameraPicture == CameraRead \/ CameraReadFails

CameraCall == CameraSetup \/ CameraOpenFails \/ InitDeviceFails \/ CameraShutdown

CameraNext == CameraThread \/ CameraPicture \/ CameraCall

(* Every frame allocated is the one data points to: whatever becomes of a  *)
(* picture, of its reading and of the thread, none is lost.                *)
FramesAreFreed == heap = IF frame THEN 1 ELSE 0

(* Grabbing a picture starts without a frame, as GrabFrame asserts.        *)
GrabsWithoutFrame == pc["camera"] = "grab" => ~frame
=============================================================================
