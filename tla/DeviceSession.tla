---------------------------- MODULE DeviceSession ----------------------------
(***************************************************************************)
(* What the senseact core promises the driver of one device: a session is  *)
(* a file that uses the device; the driver is active for the sessions, and *)
(* for nobody else.  The first session waits for the driver to start and   *)
(* ends if it does not; the others come in only while the driver is        *)
(* active; the driver is stopped when the last session ended, and only     *)
(* then can the device be freed.  A leaving device takes no new session.   *)
(***************************************************************************)
CONSTANT File

VARIABLES
  sessions,   \* the files that use the device
  active,     \* the driver's open() succeeded, close() has not returned since
  leaving,    \* the device is being unregistered
  freed       \* its memory is gone

vars == <<sessions, active, leaving, freed>>

Init == sessions = {} /\ active = FALSE /\ leaving = FALSE /\ freed = FALSE

Join(f) ==
  /\ ~leaving /\ ~freed
  /\ f \notin sessions
  /\ active <=> sessions # {}
  /\ sessions' = sessions \union {f}
  /\ UNCHANGED <<active, leaving, freed>>

DriverStarts ==
  /\ ~active /\ ~leaving
  /\ \E f \in File : sessions = {f}
  /\ active' = TRUE
  /\ UNCHANGED <<sessions, leaving, freed>>

DriverFails ==
  /\ ~active /\ ~leaving
  /\ \E f \in File : sessions = {f}
  /\ sessions' = {}
  /\ UNCHANGED <<active, leaving, freed>>

Part(f) ==
  /\ active
  /\ f \in sessions
  /\ sessions' = sessions \ {f}
  /\ UNCHANGED <<active, leaving, freed>>

DriverStops ==
  /\ active
  /\ sessions = {}
  /\ active' = FALSE
  /\ UNCHANGED <<sessions, leaving, freed>>

(* Not while the driver is starting or stopping. *)
Leave ==
  /\ ~leaving
  /\ active <=> sessions # {}
  /\ leaving' = TRUE
  /\ UNCHANGED <<sessions, active, freed>>

Free ==
  /\ ~freed
  /\ sessions = {} /\ ~active
  /\ freed' = TRUE
  /\ UNCHANGED <<sessions, active, leaving>>

Next ==
  \/ \E f \in File : Join(f) \/ Part(f)
  \/ DriverStarts \/ DriverFails \/ DriverStops
  \/ Leave \/ Free

Spec == Init /\ [][Next]_vars
=============================================================================
