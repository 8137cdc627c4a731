----------------------------- MODULE ActionRing -----------------------------
(***************************************************************************)
(* The ring of actions inside struct senseact_queue                        *)
(* (senseact/trunk/drivers/senseact.c:37-45) as a record and the operators *)
(* on it.  Every open file of a senseact device owns one such ring: the    *)
(* driver side inserts at head, the reader of the file fetches at tail.    *)
(* Nothing in the ring remembers how many actions it holds: head = tail    *)
(* means "empty", also when it was the insertion that made them meet.      *)
(***************************************************************************)
EXTENDS Integers, Sequences

CONSTANTS
  Action,      \* what a driver reports: a struct senseact_action
  NoAction,    \* the zeroed memory of a slot that was never written
  BufferSize   \* SENSEACT_BUFFER_SIZE (64 in the code)

ASSUME BufferSizeAssumption == BufferSize \in Nat /\ BufferSize > 1

ASSUME NoActionAssumption == NoAction \notin Action

(* The mask BufferSize - 1 of the fetch and the modulo of the insert agree *)
(* because the size is a power of two.                                     *)
ASSUME BufferSizePowerOfTwo == \E k \in 1..16 : BufferSize = 2 ^ k

Slot == 0..(BufferSize - 1)

Ring == [buffer : [Slot -> Action \union {NoAction}], head : Slot, tail : Slot]

(* kzalloc of the queue in senseact_open_file. *)
NewRing == [buffer |-> [i \in Slot |-> NoAction], head |-> 0, tail |-> 0]

Empty(q) == q.head = q.tail

(* queue->buffer[queue->head++] = *action; queue->head %= SIZE *)
Inserted(q, a) == [q EXCEPT !.buffer = [@ EXCEPT ![q.head] = a],
                            !.head = (q.head + 1) % BufferSize]

(* x & (BufferSize - 1) for the x that tail++ can yield, x <= BufferSize *)
Masked(x) == IF x = BufferSize THEN 0 ELSE x

(* *action = queue->buffer[queue->tail++]; queue->tail &= SIZE - 1 *)
NextAction(q) == q.buffer[q.tail]
Fetched(q) == [q EXCEPT !.tail = Masked(q.tail + 1)]

-----------------------------------------------------------------------------
(* The sequence of actions a ring stands for: the slots from tail up to,   *)
(* and without, head.                                                      *)
Wrap(i) == IF i >= BufferSize THEN i - BufferSize ELSE i

Outstanding(q) == IF q.head >= q.tail THEN q.head - q.tail
                                      ELSE q.head - q.tail + BufferSize

Contents(q) == [i \in 1..Outstanding(q) |-> q.buffer[Wrap(q.tail + i - 1)]]
=============================================================================
