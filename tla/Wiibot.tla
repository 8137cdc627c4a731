------------------------------- MODULE Wiibot -------------------------------
(***************************************************************************)
(* The program wiibot (utils/trunk/bebot/wiibot.c): the buttons of a       *)
(* remote, or its tilt, steer the robot until HOME is pressed; then the    *)
(* program waits for a remote again, and leaves the robot as it runs.      *)
(***************************************************************************)
EXTENDS BebotClient

CONSTANTS
  Presses,   \* buttons that may be pressed together
  Tilts      \* tilts <<ahead, turn>> of the remote, in the units of its sensor

ASSUME TiltAssumption == Tilts \subseteq Int \X Int

VARIABLES
  wiiPc,     \* where the program is
  pressed,   \* buttons that are pressed on the remote
  lost,      \* the connection to the remote is lost
  state,     \* buttons as last read from it
  buttons,   \* buttons of the round before
  level      \* speed

wiiVars == <<clientVars, wiiPc, pressed, lost, state, buttons, level>>

WiiTypeOK ==
  /\ wiiPc \in {"absent", "pair", "loop", "exit"}
  /\ {pressed, state, buttons} \subseteq Presses \union {{}, {"PLUS", "MINUS"}}
  /\ lost \in BOOLEAN
  /\ level \in {50, 100, 150, 200, 250, 300}

(* buttons is not initialised. *)
WiiInit(starts) ==
  /\ wiiPc = IF starts THEN "pair" ELSE "absent"
  /\ pressed = {} /\ state = {} /\ lost = FALSE
  /\ buttons \in IF starts THEN {{}, {"PLUS", "MINUS"}} ELSE {{}}
  /\ level = 150

-----------------------------------------------------------------------------
limit(a, b, c) == LET m == IF a > b THEN a ELSE b IN IF m < c THEN m ELSE c

(* A remote is found, and the robot is opened, or the program exits. *)
Pair ==
  /\ wiiPc = "pair"
  /\ \E nodes \in SUBSET present : bebot_init(nodes)
  /\ wiiPc' = IF opened' THEN "loop" ELSE "exit"
  /\ state' = pressed
  /\ lost' = FALSE
  /\ UNCHANGED <<pressed, buttons, level>>

(* A slip: the level has no upper limit. *)
NewLevelUnlimited(down) ==
  LET plus == IF "PLUS" \in down THEN level + 50 ELSE level
  IN IF "MINUS" \in down THEN limit(plus - 50, 50, 300) ELSE plus

(* The level changes when a button goes down. *)
NewLevel(down) ==
  LET plus == IF "PLUS" \in down THEN limit(0, level + 50, 300) ELSE level
  IN IF "MINUS" \in down THEN limit(plus - 50, 50, 300) ELSE plus

Speeds(ahead, turn) ==
  LET a == Quotient(ahead * level', 10)
      t == Quotient(turn * level', 15)
  IN <<limit(-300, a + t, 300), limit(-300, a - t, 300)>>

By(up, down, s) == IF up \in s THEN 5 ELSE IF down \in s THEN -5 ELSE 0

Steer(s) ==
  IF "B" \in s
  THEN \E tilt \in Tilts :
         LET speeds == Speeds(limit(-10, tilt[1], 10), limit(-10, tilt[2], 10))
         IN bebot_set_speed(speeds[1], speeds[2])
  ELSE LET speeds == Speeds(By("UP", "DOWN", s), By("RIGHT", "LEFT", s))
       IN bebot_set_speed(speeds[1], speeds[2])

(* Reading the remote fails when it is lost, and nobody looks at that; nor *)
(* at what bebot_update returns.                                           *)
Control ==
  /\ wiiPc = "loop" /\ "HOME" \notin state
  /\ bebot_poll
  /\ state' = IF lost THEN state ELSE pressed
  /\ bebot_update
  /\ level' = NewLevel(state' \ buttons)
  /\ buttons' = state'
  /\ Steer(state')
  /\ UNCHANGED <<present, gone, fd, opened, scene, wiiPc, pressed, lost>>

(* HOME, or poll fails: the robot is closed, and not stopped. *)
LeaveRobot ==
  /\ wiiPc' = "pair"
  /\ opened' = FALSE
  /\ UNCHANGED <<present, gone, fd, waiting, seen, motors, scene, pressed, lost, state, buttons, level>>

Home == wiiPc = "loop" /\ "HOME" \in state /\ LeaveRobot

PollFails == wiiPc = "loop" /\ "HOME" \notin state /\ LeaveRobot

Press ==
  /\ wiiPc \in {"pair", "loop"}
  /\ pressed' \in Presses
  /\ UNCHANGED <<clientVars, wiiPc, lost, state, buttons, level>>

Lose ==
  /\ wiiPc = "loop" /\ ~lost /\ lost' = TRUE
  /\ UNCHANGED <<clientVars, wiiPc, pressed, state, buttons, level>>

WiiOwn == <<wiiPc, pressed, lost, state, buttons, level>>

WiiNext ==
  \/ Pair \/ Control \/ Home \/ PollFails \/ Press \/ Lose
  \/ /\ wiiPc = "loop"
     /\ \E d \in Nodes : Poll(d) \/ RemoveDevice(d)
     /\ UNCHANGED WiiOwn

WiiFairness ==
  /\ WF_wiiVars(Control) /\ WF_wiiVars(Home)
  /\ \A d \in Nodes : WF_wiiVars(wiiPc = "loop" /\ Poll(d) /\ UNCHANGED WiiOwn)

-----------------------------------------------------------------------------
(* A robot stands once all buttons of its remote are released, as long as  *)
(* the program is in its loop, and neither the remote nor a device is      *)
(* lost: for any of these it runs on.                                      *)
ReleaseStopsRobot ==
  <>[](wiiPc = "loop" /\ pressed = {} /\ ~lost /\ gone = {}) => <>[](motors = <<0, 0>>)
=============================================================================
