---------------------------- MODULE SenseactQueue ----------------------------
(***************************************************************************)
(* One queue of an open senseact file between the driver that reports      *)
(* actions and the threads that read the file (threads that share the file *)
(* share its queue).  Insert and fetch are atomic under buffer_lock; the   *)
(* test that prints "buffer overrun" comes after the lock was released, so *)
(* readers can move tail in between.                                       *)
(* Inserts into one queue never overlap: senseact_pass_actions holds       *)
(* action_lock around them.                                                *)
(***************************************************************************)
EXTENDS ActionRing

VARIABLES
  queue,     \* the ring
  writer,    \* the inserter: "idle", or "check" between unlock and the test
  lost,      \* history: the insert being checked overran the ring
  reported,  \* the last test printed "buffer overrun"
  got        \* the action fetched last

vars == <<queue, writer, lost, reported, got>>

TypeOK ==
  /\ queue \in Ring
  /\ writer \in {"idle", "check"}
  /\ lost \in BOOLEAN
  /\ reported \in BOOLEAN
  /\ got \in Action \union {NoAction}

Init ==
  /\ queue = NewRing
  /\ writer = "idle"
  /\ lost = FALSE
  /\ reported = FALSE
  /\ got = NoAction

(* Slips the properties have to notice: the fetch forgets to test for an   *)
(* empty ring, and the overrun is tested against a full ring.              *)
FetchUntested ==
  /\ got' = NextAction(queue)
  /\ queue' = Fetched(queue)
  /\ UNCHANGED <<writer, lost, reported>>

CheckFull ==
  /\ writer = "check"
  /\ reported' = (Outstanding(queue) = BufferSize - 1)
  /\ writer' = "idle"
  /\ lost' = FALSE
  /\ UNCHANGED <<queue, got>>

(* senseact_queue_insert_action up to spin_unlock *)
StoreAction(a) ==
  /\ writer = "idle"
  /\ queue' = Inserted(queue, a)
  /\ lost' = (Outstanding(queue) = BufferSize - 1)
  /\ writer' = "check"
  /\ UNCHANGED <<reported, got>>

(* senseact_queue_insert_action after spin_unlock *)
CheckOverrun ==
  /\ writer = "check"
  /\ reported' = Empty(queue)
  /\ writer' = "idle"
  /\ lost' = FALSE
  /\ UNCHANGED <<queue, got>>

(* senseact_queue_fetch_next_action; on an empty ring it changes nothing *)
FetchNextAction ==
  /\ ~Empty(queue)
  /\ got' = NextAction(queue)
  /\ queue' = Fetched(queue)
  /\ UNCHANGED <<writer, lost, reported>>

Next ==
  \/ \E a \in Action : StoreAction(a)
  \/ CheckOverrun
  \/ FetchNextAction

Spec == Init /\ [][Next]_vars

-----------------------------------------------------------------------------
(* The ring implements the abstract queue of BufferSize - 1 actions: the   *)
(* modulo of senseact_queue_insert_action and the mask of                  *)
(* senseact_queue_fetch_next_action walk the same slots, and head = tail   *)
(* is empty, not full.                                                     *)
Fifo == INSTANCE ActionFifo
          WITH Capacity <- BufferSize - 1, items <- Contents(queue), got <- got

ImplementsFifo == Fifo!Spec

(* No loss is silent: when an insert overran the ring, the test made after *)
(* the unlock still sees head = tail whatever readers did in between, and  *)
(* "buffer overrun" is printed (senseact.c:117-119).                       *)
NoSilentLoss == [][writer = "check" /\ writer' = "idle" /\ lost => reported']_vars
=============================================================================
