-------------------------- MODULE MCBebotSnapshot --------------------------
(***************************************************************************)
(* Bounds for the runs of BebotSnapshot.                                   *)
(***************************************************************************)
EXTENDS BebotSnapshot

Times(polls, writes) == [who \in Source |-> IF who = "poll" THEN polls ELSE writes]

(* Two polls of the base, or a poll and a write, either of which overruns  *)
(* its queue if nobody reads; or two polls of the last device and a write. *)
Loads == { [i \in Fd |-> IF i = 0 THEN Times(2, 0) ELSE Times(0, 0)],
           [i \in Fd |-> IF i = 0 THEN Times(1, 1) ELSE Times(0, 0)],
           [i \in Fd |-> CASE i = 0 -> Times(0, 1)
                           [] i = FdCount - 1 -> Times(2, 0)
                           [] OTHER -> Times(0, 0)] }
=============================================================================
