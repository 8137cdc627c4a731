----------------------------- MODULE ActionFifo -----------------------------
(***************************************************************************)
(* What the queue of an open senseact file promises its reader: actions    *)
(* come out once each and in the order they went in.  The queue holds at   *)
(* most Capacity of them; the action that finds it full takes everything   *)
(* with it, so that a reader sees either an uninterrupted run of actions   *)
(* or nothing at all, never a run with a hole in the middle.               *)
(***************************************************************************)
EXTENDS Naturals, Sequences

CONSTANTS Action, Capacity

VARIABLES
  items,   \* the actions the reader has not seen, oldest first
  got      \* the action the reader fetched last

vars == <<items, got>>

Init == items = <<>> /\ got \notin Action

Insert(a) ==
  /\ items' = IF Len(items) = Capacity THEN <<>> ELSE Append(items, a)
  /\ UNCHANGED got

Fetch ==
  /\ items # <<>>
  /\ got' = Head(items)
  /\ items' = Tail(items)

Next == Fetch \/ \E a \in Action : Insert(a)

Spec == Init /\ [][Next]_vars
=============================================================================
