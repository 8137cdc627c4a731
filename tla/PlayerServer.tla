---------------------------- MODULE PlayerServer ----------------------------
(***************************************************************************)
(* What the Player server does with the drivers of this repository, as far *)
(* as they rely on it: it sets a driver up for its first subscriber, runs  *)
(* Main in a thread, and for the last unsubscription cancels and joins     *)
(* that thread.  Player itself is external.                                *)
(*                                                                         *)
(* The drivers for Player 2.1 (playerstage/branches/player-2.1) open and   *)
(* close in Setup and Shutdown, in the server's thread; those for 3.0      *)
(* (playerstage/trunk) in MainSetup and MainQuit, in their own thread.     *)
(* All threads share the descriptors of the process.                       *)
(***************************************************************************)
EXTENDS Integers, Sequences, FiniteSets

CONSTANTS
  Driver,     \* drivers of the server
  FdCount     \* bound: descriptors of the process

ASSUME FdAssumption == FdCount \in Nat \ {0}

Fd == 0..(FdCount - 1)
NoFd == -1

VARIABLES
  version,      \* release of Player and of the drivers
  config,       \* drivers named in the configuration file
  call,         \* what the server's thread is about with a driver
  subscribed,   \* drivers that were set up for a subscriber
  pc,           \* where the thread of a driver is
  cancelled,    \* pthread_cancel was called for the thread
  files,        \* what is behind each descriptor
  ready,        \* senseact devices with a poll to read
  inbox,        \* drivers of which the client has data to read
  dead          \* the process was aborted

processVars == <<version, config, dead>>
threadVars == <<call, subscribed, pc, cancelled>>
serverVars == <<processVars, threadVars, files, ready, inbox>>

ServerTypeOK ==
  /\ version \in {"2.1", "3.0"}
  /\ config \subseteq Driver
  /\ call \in [Driver -> {"none", "setup", "stop", "join"}]
  /\ subscribed \in [Driver -> BOOLEAN]
  /\ cancelled \in [Driver -> BOOLEAN]
  /\ dead \in BOOLEAN

ServerInit(release, drivers) ==
  /\ version = release
  /\ config = drivers
  /\ call = [d \in Driver |-> "none"]
  /\ subscribed = [d \in Driver |-> FALSE]
  /\ pc = [d \in Driver |-> "none"]
  /\ cancelled = [d \in Driver |-> FALSE]
  /\ files = [n \in Fd |-> "closed"]
  /\ ready = {} /\ inbox = {}
  /\ dead = FALSE

(* The thread of the server does one thing at a time. *)
ServerIdle == \A d \in Driver : call[d] = "none"

Goes(d, from, to) == pc[d] = from /\ pc' = [pc EXCEPT ![d] = to]

CallGoes(d, from, to) == call[d] = from /\ call' = [call EXCEPT ![d] = to]

(* open and socket take the lowest descriptor, of a table f. *)
LowestFree(f, n) == f[n] = "closed" /\ \A m \in Fd : f[m] = "closed" => n <= m

Opens(name, n) == LowestFree(files, n) /\ files' = [files EXCEPT ![n] = name]

Closed(F) == [n \in Fd |-> IF n \in F THEN "closed" ELSE files[n]]

-----------------------------------------------------------------------------
Subscribe(d) ==
  /\ d \in config /\ ~subscribed[d] /\ ServerIdle
  /\ CallGoes(d, "none", "setup")
  /\ UNCHANGED <<processVars, subscribed, pc, cancelled, files, ready, inbox>>

Unsubscribe(d) ==
  /\ subscribed[d] /\ ServerIdle
  /\ CallGoes(d, "none", "stop")
  /\ UNCHANGED <<processVars, subscribed, pc, cancelled, files, ready, inbox>>

(* The driver is set up, and Main begins: it loops from "messages" on. *)
SetUp(d) ==
  /\ CallGoes(d, "setup", "none")
  /\ subscribed' = [subscribed EXCEPT ![d] = TRUE]
  /\ pc' = [pc EXCEPT ![d] = "messages"]
  /\ UNCHANGED <<processVars, cancelled>>

SetupFails(d) ==
  /\ CallGoes(d, "setup", "none")
  /\ UNCHANGED <<version, config, subscribed, pc, cancelled>>

(* StopThread: pthread_cancel ... *)
StopThread(d) ==
  /\ CallGoes(d, "stop", "join")
  /\ cancelled' = [cancelled EXCEPT ![d] = pc[d] # "none"]
  /\ UNCHANGED <<processVars, subscribed, pc, files, ready, inbox>>

(* ... and pthread_join. In 2.1 the driver then closes its descriptors F.  *)
Shutdown(d, F) ==
  /\ pc[d] = "none"
  /\ CallGoes(d, "join", "none")
  /\ subscribed' = [subscribed EXCEPT ![d] = FALSE]
  /\ files' = IF version = "2.1" THEN Closed(F) ELSE files
  /\ UNCHANGED <<processVars, pc, cancelled, ready, inbox>>

(* Main is over: in 3.0 the thread goes on to MainQuit. *)
AfterMain == IF version = "3.0" THEN "quit" ELSE "none"

(* The thread acts on the cancellation at one of its cancellation points,  *)
(* leaving everything as it is.                                            *)
Cancel(d, points) ==
  /\ cancelled[d] /\ pc[d] \in points
  /\ pc' = [pc EXCEPT ![d] = AfterMain]
  /\ cancelled' = [cancelled EXCEPT ![d] = FALSE]
  /\ UNCHANGED <<processVars, call, subscribed, files, ready, inbox>>

(* MainQuit closes the descriptors F of the driver. *)
MainQuit(d, F) ==
  /\ Goes(d, "quit", "none")
  /\ cancelled' = [cancelled EXCEPT ![d] = FALSE]
  /\ files' = Closed(F)
  /\ UNCHANGED <<processVars, call, subscribed, ready, inbox>>
=============================================================================
