------------------------ MODULE SenseactQueue_proofs ------------------------
(***************************************************************************)
(* Proofs about the ring of an open senseact file, for every ring size and *)
(* every set of actions.                                                   *)
(***************************************************************************)
EXTENDS SenseactQueue, SequenceTheorems, TLAPS

(* Within the ring, the modulo of the insert and the mask of the fetch     *)
(* both step to the next slot and come back to slot 0 after the last one.  *)
LEMMA NextSlot ==
  ASSUME NEW i \in Slot
  PROVE  /\ (i + 1) % BufferSize = Wrap(i + 1)
         /\ Masked(i + 1) = Wrap(i + 1)
         /\ Wrap(i + 1) \in Slot
<1>1. Masked(i + 1) = Wrap(i + 1) /\ Wrap(i + 1) \in Slot
  BY BufferSizeAssumption DEF Masked, Wrap, Slot
<1>2. (i + 1) % BufferSize = Wrap(i + 1)
  BY BufferSizeAssumption DEF Wrap, Slot
<1> QED BY <1>1, <1>2

(* What the two operations do to the indices and to the count.             *)
LEMMA InsertIndices ==
  ASSUME NEW q \in Ring, NEW a \in Action
  PROVE  /\ Inserted(q, a) \in Ring
         /\ Inserted(q, a).head = Wrap(q.head + 1)
         /\ Inserted(q, a).tail = q.tail
         /\ Inserted(q, a).buffer = [q.buffer EXCEPT ![q.head] = a]
<1>1. q.head \in Slot /\ q.tail \in Slot /\ q.buffer \in [Slot -> Action \union {NoAction}]
  BY DEF Ring
<1>2. (q.head + 1) % BufferSize = Wrap(q.head + 1) /\ Wrap(q.head + 1) \in Slot
  BY <1>1, NextSlot
<1> QED BY <1>1, <1>2 DEF Inserted, Ring

LEMMA FetchIndices ==
  ASSUME NEW q \in Ring
  PROVE  /\ Fetched(q) \in Ring
         /\ Fetched(q).head = q.head
         /\ Fetched(q).tail = Wrap(q.tail + 1)
         /\ Fetched(q).buffer = q.buffer
<1>1. q.tail \in Slot
  BY DEF Ring
<1>2. Masked(q.tail + 1) = Wrap(q.tail + 1) /\ Wrap(q.tail + 1) \in Slot
  BY <1>1, NextSlot
<1> QED BY <1>1, <1>2 DEF Fetched, Ring

LEMMA OutstandingRange ==
  ASSUME NEW q \in Ring
  PROVE  /\ Outstanding(q) \in Slot
         /\ Empty(q) <=> Outstanding(q) = 0
<1>1. q.head \in Slot /\ q.tail \in Slot
  BY DEF Ring
<1> QED BY <1>1, BufferSizeAssumption DEF Outstanding, Empty, Slot

LEMMA InsertOutstanding ==
  ASSUME NEW q \in Ring, NEW a \in Action
  PROVE  Outstanding(Inserted(q, a)) =
           IF Outstanding(q) = BufferSize - 1 THEN 0 ELSE Outstanding(q) + 1
<1>1. q.head \in Slot /\ q.tail \in Slot
  BY DEF Ring
<1>2. Inserted(q, a).head = Wrap(q.head + 1) /\ Inserted(q, a).tail = q.tail
  BY InsertIndices
<1> QED BY <1>1, <1>2, BufferSizeAssumption DEF Outstanding, Wrap, Slot

LEMMA FetchOutstanding ==
  ASSUME NEW q \in Ring, ~Empty(q)
  PROVE  Outstanding(Fetched(q)) = Outstanding(q) - 1
<1>1. q.head \in Slot /\ q.tail \in Slot
  BY DEF Ring
<1>2. Fetched(q).head = q.head /\ Fetched(q).tail = Wrap(q.tail + 1)
  BY FetchIndices
<1> QED BY <1>1, <1>2, BufferSizeAssumption DEF Outstanding, Wrap, Slot, Empty

(* The contents are a sequence of as many actions as are outstanding.      *)
LEMMA ContentsSeq ==
  ASSUME NEW q \in Ring
  PROVE  /\ Contents(q) \in Seq(Action \union {NoAction})
         /\ Len(Contents(q)) = Outstanding(q)
         /\ \A i \in 1..Outstanding(q) :
              /\ Wrap(q.tail + i - 1) \in Slot
              /\ Contents(q)[i] = q.buffer[Wrap(q.tail + i - 1)]
<1>1. /\ q.head \in Slot
      /\ q.tail \in Slot
      /\ q.buffer \in [Slot -> Action \union {NoAction}]
  BY DEF Ring
<1>2. Outstanding(q) \in Slot
  BY OutstandingRange
<1>3. \A i \in 1..Outstanding(q) : Wrap(q.tail + i - 1) \in Slot
  BY <1>1, <1>2, BufferSizeAssumption DEF Wrap, Slot
<1>4. \A i \in 1..Outstanding(q) :
        q.buffer[Wrap(q.tail + i - 1)] \in Action \union {NoAction}
  BY <1>1, <1>3
<1>5. Outstanding(q) \in Nat
  BY <1>2, BufferSizeAssumption DEF Slot
<1> QED BY <1>3, <1>4, <1>5 DEF Contents

(* An insert appends its action, or empties a full ring.                   *)
LEMMA InsertContents ==
  ASSUME NEW q \in Ring, NEW a \in Action
  PROVE  Contents(Inserted(q, a)) =
           IF Len(Contents(q)) = BufferSize - 1 THEN <<>> ELSE Append(Contents(q), a)
<1> DEFINE r == Inserted(q, a)
<1>1. /\ r \in Ring
      /\ r.tail = q.tail
      /\ r.buffer = [q.buffer EXCEPT ![q.head] = a]
  BY InsertIndices
<1>2. Outstanding(r) = IF Outstanding(q) = BufferSize - 1 THEN 0 ELSE Outstanding(q) + 1
  BY InsertOutstanding
<1>3. /\ Outstanding(q) \in Slot
      /\ q.head \in Slot
      /\ q.tail \in Slot
      /\ q.buffer \in [Slot -> Action \union {NoAction}]
  BY OutstandingRange DEF Ring
<1>4. /\ Contents(q) \in Seq(Action \union {NoAction})
      /\ Len(Contents(q)) = Outstanding(q)
      /\ \A i \in 1..Outstanding(q) :
           /\ Wrap(q.tail + i - 1) \in Slot
           /\ Contents(q)[i] = q.buffer[Wrap(q.tail + i - 1)]
  BY ContentsSeq
<1>5. /\ Contents(r) \in Seq(Action \union {NoAction})
      /\ Len(Contents(r)) = Outstanding(r)
      /\ \A i \in 1..Outstanding(r) :
           Contents(r)[i] = r.buffer[Wrap(r.tail + i - 1)]
  BY <1>1, ContentsSeq
<1> HIDE DEF r
<1>6. CASE Outstanding(q) = BufferSize - 1
  <2>1. Len(Contents(r)) = 0
    BY <1>2, <1>5, <1>6
  <2>2. Contents(r) = <<>>
    BY <2>1, <1>5, EmptySeq
  <2> QED BY <2>2, <1>4, <1>6 DEF r
<1>7. CASE Outstanding(q) # BufferSize - 1
  <2> DEFINE s == Append(Contents(q), a)
  <2>1. /\ s \in Seq(Action \union {NoAction})
        /\ Len(s) = Outstanding(q) + 1
        /\ \A i \in 1..Outstanding(q) : s[i] = Contents(q)[i]
        /\ s[Outstanding(q) + 1] = a
    BY <1>4, AppendProperties
  <2>2. Len(Contents(r)) = Outstanding(q) + 1
    BY <1>2, <1>5, <1>7
  <2>3. Wrap(q.tail + (Outstanding(q) + 1) - 1) = q.head
    BY <1>3, BufferSizeAssumption DEF Outstanding, Wrap, Slot
  <2>4. \A i \in 1..Outstanding(q) : Wrap(q.tail + i - 1) # q.head
    BY <1>3, BufferSizeAssumption DEF Outstanding, Wrap, Slot
  <2>5. Contents(r)[Outstanding(q) + 1] = a
    BY <1>1, <1>2, <1>3, <1>5, <1>7, <2>3, BufferSizeAssumption DEF Slot
  <2>6. \A i \in 1..Outstanding(q) : Contents(r)[i] = Contents(q)[i]
    BY <1>1, <1>2, <1>3, <1>4, <1>5, <1>7, <2>4, BufferSizeAssumption DEF Slot
  <2>7. \A i \in 1..Len(s) : Contents(r)[i] = s[i]
    BY <1>3, <2>1, <2>5, <2>6, BufferSizeAssumption DEF Slot
  <2>8. Contents(r) = s
    BY <1>5, <2>1, <2>2, <2>7, SeqEqual
  <2> QED BY <2>8, <1>4, <1>7 DEF r
<1> QED BY <1>6, <1>7

(* A fetch takes the oldest action off the contents.                       *)
LEMMA FetchContents ==
  ASSUME NEW q \in Ring, ~Empty(q)
  PROVE  /\ Contents(q) # <<>>
         /\ NextAction(q) = Head(Contents(q))
         /\ Contents(Fetched(q)) = Tail(Contents(q))
<1> DEFINE r == Fetched(q)
<1>1. /\ r \in Ring
      /\ r.tail = Wrap(q.tail + 1)
      /\ r.buffer = q.buffer
  BY FetchIndices
<1>2. Outstanding(r) = Outstanding(q) - 1
  BY FetchOutstanding
<1>3. /\ Outstanding(q) \in Slot
      /\ Outstanding(q) # 0
      /\ q.tail \in Slot
  BY OutstandingRange DEF Ring
<1>4. /\ Contents(q) \in Seq(Action \union {NoAction})
      /\ Len(Contents(q)) = Outstanding(q)
      /\ \A i \in 1..Outstanding(q) : Contents(q)[i] = q.buffer[Wrap(q.tail + i - 1)]
  BY ContentsSeq
<1>5. /\ Contents(r) \in Seq(Action \union {NoAction})
      /\ Len(Contents(r)) = Outstanding(r)
      /\ \A i \in 1..Outstanding(r) : Contents(r)[i] = r.buffer[Wrap(r.tail + i - 1)]
  BY <1>1, ContentsSeq
<1> HIDE DEF r
<1>6. Contents(q) # <<>>
  BY <1>3, <1>4
<1>7. NextAction(q) = Head(Contents(q))
  <2>1. Contents(q)[1] = q.buffer[Wrap(q.tail + 1 - 1)]
    BY <1>3, <1>4, BufferSizeAssumption DEF Slot
  <2>2. Wrap(q.tail + 1 - 1) = q.tail
    BY <1>3, BufferSizeAssumption DEF Wrap, Slot
  <2> QED BY <2>1, <2>2, <1>4, <1>6 DEF NextAction
<1>8. Contents(r) = Tail(Contents(q))
  <2> DEFINE s == Tail(Contents(q))
  <2>1. /\ s \in Seq(Action \union {NoAction})
        /\ Len(s) = Outstanding(q) - 1
        /\ \A i \in 1..Len(s) : s[i] = Contents(q)[i + 1]
    BY <1>4, <1>6, HeadTailProperties
  <2>2. \A i \in 1..Len(s) : Wrap(r.tail + i - 1) = Wrap(q.tail + (i + 1) - 1)
    <3> SUFFICES ASSUME NEW i \in 1..Len(s)
                 PROVE  Wrap(r.tail + i - 1) = Wrap(q.tail + (i + 1) - 1)
      OBVIOUS
    <3>1. q.tail \in 0..(BufferSize - 1) /\ i \in 1..(BufferSize - 2) /\ BufferSize \in Nat
      BY <1>3, <2>1, BufferSizeAssumption DEF Slot
    <3>2. CASE q.tail = BufferSize - 1
      <4>1. r.tail = 0
        BY <1>1, <3>1, <3>2 DEF Wrap
      <4> QED BY <3>1, <3>2, <4>1 DEF Wrap
    <3>3. CASE q.tail < BufferSize - 1
      <4>1. r.tail = q.tail + 1
        BY <1>1, <3>1, <3>3 DEF Wrap
      <4>2. r.tail + i - 1 = q.tail + (i + 1) - 1
        BY <3>1, <4>1
      <4> QED BY <4>2
    <3> QED BY <3>1, <3>2, <3>3
  <2>3. \A i \in 1..Len(s) : Contents(r)[i] = s[i]
    <3> TAKE i \in 1..Len(s)
    <3>1. i + 1 \in 1..Outstanding(q) /\ i \in 1..Outstanding(r)
      BY <1>2, <1>3, <2>1, BufferSizeAssumption DEF Slot
    <3>2. Contents(r)[i] = q.buffer[Wrap(r.tail + i - 1)]
      BY <3>1, <1>1, <1>5
    <3>3. s[i] = q.buffer[Wrap(q.tail + (i + 1) - 1)]
      BY <3>1, <1>4, <2>1
    <3> QED BY <2>2, <3>2, <3>3
  <2> QED BY <1>2, <1>5, <2>1, <2>3, SeqEqual
<1> QED BY <1>6, <1>7, <1>8 DEF r

-----------------------------------------------------------------------------
(* Between an insert that overran and the test for it, the ring stays      *)
(* empty: readers find nothing to fetch and there is no second inserter.   *)
OverrunPending == writer = "check" /\ lost => Empty(queue)

IInv == TypeOK /\ OverrunPending

LEMMA IInvInit == Init => IInv
<1> SUFFICES ASSUME Init PROVE IInv
  OBVIOUS
<1>1. NewRing \in Ring
  BY BufferSizeAssumption DEF NewRing, Ring, Slot
<1> QED BY <1>1 DEF Init, IInv, TypeOK, OverrunPending

LEMMA IInvStep == IInv /\ [Next]_vars => IInv'
<1> SUFFICES ASSUME IInv, [Next]_vars PROVE IInv'
  OBVIOUS
<1> USE DEF IInv, TypeOK, OverrunPending
<1>1. ASSUME NEW a \in Action, StoreAction(a) PROVE IInv'
  <2>1. queue' \in Ring
    BY <1>1, InsertIndices DEF StoreAction
  <2>2. lost' => Outstanding(queue') = 0
    BY <1>1, InsertOutstanding DEF StoreAction
  <2>3. lost' => Empty(queue')
    BY <2>1, <2>2, OutstandingRange
  <2> QED BY <1>1, <2>1, <2>3 DEF StoreAction, Empty
<1>2. CASE CheckOverrun
  BY <1>2 DEF CheckOverrun, Empty
<1>3. CASE FetchNextAction
  <2>1. queue' \in Ring
    BY <1>3, FetchIndices DEF FetchNextAction
  <2>2. got' \in Action \union {NoAction}
    BY <1>3 DEF FetchNextAction, NextAction, Ring
  <2> QED BY <1>3, <2>1, <2>2 DEF FetchNextAction
<1>4. CASE UNCHANGED vars
  BY <1>4 DEF vars, Empty
<1> QED BY <1>1, <1>2, <1>3, <1>4 DEF Next

(* The ring, its indices and the fetched action keep their types.          *)
THEOREM TypeCorrect == Spec => []TypeOK
<1>1. IInv => TypeOK
  BY DEF IInv
<1> QED BY IInvInit, IInvStep, <1>1, PTL DEF Spec

(* Every overrun is reported, however readers interleave with the insert:  *)
(* senseact_queue_insert_action tests head = tail after its unlock.        *)
THEOREM LossIsReported == Spec => NoSilentLoss
<1>1. IInv /\ [Next]_vars
        => [writer = "check" /\ writer' = "idle" /\ lost => reported']_vars
  <2> SUFFICES ASSUME IInv, [Next]_vars
               PROVE  [writer = "check" /\ writer' = "idle" /\ lost => reported']_vars
    OBVIOUS
  <2>1. ASSUME NEW a \in Action, StoreAction(a) PROVE writer # "check"
    BY <2>1 DEF StoreAction
  <2>2. ASSUME CheckOverrun, writer = "check", lost PROVE reported'
    BY <2>2 DEF CheckOverrun, IInv, OverrunPending
  <2>3. CASE FetchNextAction
    BY <2>3 DEF FetchNextAction
  <2> QED BY <2>1, <2>2, <2>3 DEF Next
<1> QED BY IInvInit, IInvStep, <1>1, PTL DEF Spec, NoSilentLoss

(* The ring of BufferSize slots implements the queue of BufferSize - 1     *)
(* actions that loses all of them, and never some, when it overruns.       *)
THEOREM RingImplementsFifo == Spec => ImplementsFifo
<1>1. Init => Fifo!Init
  <2> SUFFICES ASSUME Init PROVE Fifo!Init
    OBVIOUS
  <2>1. NewRing \in Ring
    BY BufferSizeAssumption DEF NewRing, Ring, Slot
  <2>2. Outstanding(NewRing) = 0
    BY DEF NewRing, Outstanding
  <2>3. Contents(NewRing) = <<>>
    BY <2>1, <2>2, ContentsSeq, EmptySeq
  <2> QED BY <2>3, NoActionAssumption DEF Init, Fifo!Init
<1>2. IInv /\ [Next]_vars => [Fifo!Next]_(Fifo!vars)
  <2> SUFFICES ASSUME IInv, [Next]_vars PROVE [Fifo!Next]_(Fifo!vars)
    OBVIOUS
  <2>1. queue \in Ring
    BY DEF IInv, TypeOK
  <2>2. ASSUME NEW a \in Action, StoreAction(a) PROVE Fifo!Insert(a)
    BY <2>1, <2>2, InsertContents DEF StoreAction, Fifo!Insert
  <2>3. CASE CheckOverrun
    BY <2>3 DEF CheckOverrun, Fifo!vars
  <2>4. ASSUME FetchNextAction PROVE Fifo!Fetch
    BY <2>1, <2>4, FetchContents DEF FetchNextAction, Fifo!Fetch
  <2>5. CASE UNCHANGED vars
    BY <2>5 DEF vars, Fifo!vars
  <2> QED BY <2>2, <2>3, <2>4, <2>5 DEF Next, Fifo!Next
<1> QED BY IInvInit, IInvStep, <1>1, <1>2, PTL DEF Spec, ImplementsFifo, Fifo!Spec
=============================================================================
