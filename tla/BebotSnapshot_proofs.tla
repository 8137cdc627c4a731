----------------------- MODULE BebotSnapshot_proofs ------------------------
(***************************************************************************)
(* Proofs about the way of sensor values into the snapshot of a program,   *)
(* for any number of sensors, any queue, and any polls, writes and reads.  *)
(***************************************************************************)
EXTENDS BebotSnapshot, SequenceTheorems, TLAPS

(* The wheels in the reports of a write.                                   *)
Left == <<"speed", 0>>
Right == <<"speed", 1>>

(* What a source passes to the file of a device.                           *)
Sent(i, who) ==
  IF who = "poll"
  THEN {SyncSensor} \union IF i = 0 THEN Reported(0) ELSE {"brightness"} \X (0..(IrCount - 1))
  ELSE {SyncActor} \union IF i = 0 THEN {Left, Right} ELSE {"enable"} \X (0..(IrCount - 1))

AnyCell == UNION {Sent(i, who) : i \in Fd, who \in Source}

Message == [cell : AnyCell, who : Source, stamp : Nat]

Shape ==
  /\ count \in [Fd -> [Source -> Nat]]
  /\ todo \in [Fd -> [Source -> Seq(Seq(AnyCell))]]
  /\ rest \in [Fd -> [Source -> Seq(AnyCell)]]
  /\ lock \in [Fd -> Source \union {"none"}]
  /\ queue \in [Fd -> Seq(Message)]

(* What is left of the poll, or the write, under way: a batch is passed    *)
(* under the lock, and the sync of a poll comes last.                      *)
BatchInv(i) ==
  /\ \A who \in Source :
       /\ rest[i][who] # <<>> <=> lock[i] = who
       /\ \A j \in 1..Len(rest[i][who]) : rest[i][who][j] \in Sent(i, who)
       /\ \A k \in 1..Len(todo[i][who]) :
            /\ todo[i][who][k] # <<>>
            /\ \A j \in 1..Len(todo[i][who][k]) : todo[i][who][k][j] \in Sent(i, who)
  /\ \A j \in 1..Len(rest[i]["poll"]) : rest[i]["poll"][j] = SyncSensor =>
       Len(rest[i]["poll"]) = 1 /\ todo[i]["poll"] = <<>>
  /\ \A k \in 1..Len(todo[i]["poll"]) : \A j \in 1..Len(todo[i]["poll"][k]) :
       todo[i]["poll"][k][j] = SyncSensor =>
         k = Len(todo[i]["poll"]) /\ Len(todo[i]["poll"][k]) = 1

ClosedInv(i) == ~opened => queue[i] = <<>> /\ lost[i] = {}

MessageInv(i) ==
  \A k \in 1..Len(queue[i]) :
    /\ queue[i][k].cell \in Sent(i, queue[i][k].who)
    /\ queue[i][k].stamp <= count[i][queue[i][k].who]

(* Reports of polls are in the order of the polls, in the queue and from   *)
(* the static array over the queue to the poll under way.                  *)
OrderInv(i) ==
  /\ \A j, k \in 1..Len(queue[i]) :
       j <= k /\ queue[i][j].who = "poll" /\ queue[i][k].who = "poll" =>
         queue[i][j].stamp <= queue[i][k].stamp
  /\ \A c \in Reported(i) :
       /\ buffer[c] <= count[i]["poll"]
       /\ \A k \in 1..Len(queue[i]) :
            queue[i][k].who = "poll" => buffer[c] <= queue[i][k].stamp

(* The n-th report of c has been read, or is before position k.            *)
Behind(i, c, n, k) ==
  \/ buffer[c] = n
  \/ \E j \in 1..(k - 1) : CellOf(i, queue[i][j]) = c /\ queue[i][j].stamp = n

(* In front of a sync in the queue is all of its poll ...                  *)
SyncInv(i) ==
  \A k \in 1..Len(queue[i]) :
    queue[i][k].cell = SyncSensor /\ <<"poll", queue[i][k].stamp>> \notin lost[i] =>
      \A c \in Reported(i) : Behind(i, c, queue[i][k].stamp, k)

ToCome(i, p) ==
  \/ \E j \in 1..Len(rest[i]["poll"]) : rest[i]["poll"][j] = p
  \/ \E k \in 1..Len(todo[i]["poll"]) : \E j \in 1..Len(todo[i]["poll"][k]) :
       todo[i]["poll"][k][j] = p

Delivered(i, c) == Behind(i, c, count[i]["poll"], Len(queue[i]) + 1)

(* ... because what the poll under way has not yet passed is still to come *)
(* while its sync is.                                                      *)
UnderWay(i) ==
  opened /\ ToCome(i, SyncSensor) /\ <<"poll", count[i]["poll"]>> \notin lost[i] =>
    \A c \in Reported(i) :
      Delivered(i, c) \/ \E p \in Sent(i, "poll") : ToCome(i, p) /\ CellOf(i, [cell |-> p]) = c

ShownInv(i) ==
  <<"poll", shown[i]>> \notin lost[i] => \A c \in Reported(i) : bebot[c] = shown[i]

ReportInv(i) == OrderInv(i) /\ SyncInv(i) /\ UnderWay(i) /\ ShownInv(i)

(* Each infrared device has sensors for half of the ring at most, which is *)
(* what bebot_update copies.                                               *)
HalfRing == IrCount <= BrightnessCount \div 2

PollInv(i) == BatchInv(i) /\ ClosedInv(i) /\ MessageInv(i) /\ (HalfRing => ReportInv(i))

-----------------------------------------------------------------------------
Same(x, y) == x = y \/ <<"write", x>> \in lost[0] \/ <<"write", y>> \in lost[0]

(* The left wheel of a write is passed, the right one is not.              *)
Halfway == rest[0]["write"] = <<Right>>

(* The wheels of a write follow each other, in the queue, across its front *)
(* to what has been read, and across its end to what is to be passed.      *)
WriteBatchInv ==
  /\ todo[0]["write"] \in {<<>>, <<<<Left, Right>>, <<SyncActor>>>>, <<<<SyncActor>>>>}
  /\ rest[0]["write"] \in {<<>>, <<Left, Right>>, <<Right>>, <<SyncActor>>}

LeftInv ==
  \A k \in 1..Len(queue[0]) : queue[0][k].cell = Left =>
    IF k < Len(queue[0])
    THEN queue[0][k + 1].cell = Right /\ queue[0][k + 1].stamp = queue[0][k].stamp
    ELSE Halfway /\ queue[0][k].stamp = count[0]["write"]

RightInv ==
  \A k \in 1..Len(queue[0]) : queue[0][k].cell = Right =>
    IF k > 1
    THEN queue[0][k - 1].cell = Left /\ queue[0][k - 1].stamp = queue[0][k].stamp
    ELSE buffer[Left] = queue[0][k].stamp \/ <<"write", queue[0][k].stamp>> \in lost[0]

HalfwayInv ==
  opened /\ Halfway =>
    IF queue[0] # <<>>
    THEN /\ queue[0][Len(queue[0])].cell = Left
         /\ queue[0][Len(queue[0])].stamp = count[0]["write"]
    ELSE buffer[Left] = count[0]["write"] \/ <<"write", count[0]["write"]>> \in lost[0]

BufferInv ==
  \/ Same(buffer[Left], buffer[Right])
  \/ queue[0] # <<>> /\ queue[0][1].cell = Right /\ queue[0][1].stamp = buffer[Left]
  \/ opened /\ queue[0] = <<>> /\ Halfway /\ count[0]["write"] = buffer[Left]

WriteInv ==
  /\ WriteBatchInv /\ LeftInv /\ RightInv /\ HalfwayInv /\ BufferInv
  /\ Same(bebot[Left], bebot[Right])

IInv == TypeOK /\ Shape /\ (\A i \in Fd : PollInv(i)) /\ WriteInv

-----------------------------------------------------------------------------
USE DEF Source

LEMMA SentIsCell == \A i \in Fd, who \in Source : Sent(i, who) \subseteq AnyCell
  BY DEF AnyCell

LEMMA HalfFacts ==
  /\ BrightnessCount \div 2 \in Nat
  /\ (BrightnessCount \div 2) + (BrightnessCount \div 2) <= BrightnessCount
  /\ \A i \in Fd : Offset(i) = IF i = 2 THEN BrightnessCount \div 2 ELSE 0
<1>1. BrightnessCount \in Nat
  BY SnapshotAssumption
<1>2. /\ BrightnessCount \div 2 \in Nat
      /\ (BrightnessCount \div 2) + (BrightnessCount \div 2) <= BrightnessCount
  BY <1>1
<1> QED BY <1>2 DEF Offset

(* What a sync takes over is of its device only, and all that is reported. *)
LEMMA CopiedApart ==
  ASSUME NEW i \in Fd, NEW j \in Fd, i # j, NEW c \in Copied(i)
  PROVE  c \notin Copied(j)
  BY HalfFacts, SnapshotAssumption DEF Copied, Fd

LEMMA ReportedIsCopied ==
  ASSUME HalfRing, NEW i \in Fd
  PROVE  Reported(i) \subseteq Copied(i) /\ Reported(i) \subseteq Cell
  BY HalfFacts, SnapshotAssumption DEF Reported, Copied, HalfRing, Cell, Fd

(* A report of a poll is of its device; nothing else is.                   *)
LEMMA ReportedBy ==
  ASSUME HalfRing, NEW i \in Fd, NEW who \in Source, NEW a, a.cell \in Sent(i, who),
         NEW j \in Fd, CellOf(i, a) \in Reported(j)
  PROVE  i = j /\ who = "poll" /\ a.cell # SyncSensor
<1>1. CASE i = 0
  <2>1. CASE who = "poll"
    <3>1. CASE a.cell = SyncSensor
      BY <3>1 DEF CellOf, SyncSensor, Reported, Copied, Cell
    <3>2. CASE a.cell # SyncSensor
      <4>1. a.cell \in Reported(0) /\ a.cell[1] # "brightness"
        BY <1>1, <2>1, <3>2 DEF Sent, Reported, Copied
      <4>2. CellOf(i, a) = a.cell
        BY <4>1 DEF CellOf
      <4> QED BY <1>1, <2>1, <3>2, <4>1, <4>2, ReportedIsCopied, CopiedApart DEF Fd
    <3> QED BY <3>1, <3>2
  <2>2. CASE who = "write"
    <3>1. a.cell \in {<<"sync", 1>>, <<"speed", 0>>, <<"speed", 1>>}
      BY <1>1, <2>2 DEF Sent, SyncActor, Left, Right
    <3>2. CellOf(i, a) = a.cell
      BY <3>1 DEF CellOf
    <3>3. a.cell \notin Reported(0)
      BY <3>1 DEF Reported, Copied, Cell
    <3>4. CASE j = 0
      BY <3>2, <3>3, <3>4
    <3>5. CASE j # 0
      BY <3>1, <3>2, <3>5 DEF Reported
    <3> QED BY <3>4, <3>5
  <2> QED BY <2>1, <2>2
<1>2. CASE i # 0
  <2>1. CASE who = "poll"
    <3>1. CASE a.cell = SyncSensor
      BY <3>1 DEF CellOf, SyncSensor, Reported, Copied, Cell
    <3>2. CASE a.cell # SyncSensor
      <4>1. PICK n \in 0..(IrCount - 1) : a.cell = <<"brightness", n>>
        BY <1>2, <2>1, <3>2 DEF Sent
      <4>2. CellOf(i, a) = <<"brightness", Offset(i) + n>>
        BY <4>1 DEF CellOf
      <4>3. Offset(i) + n \in Offset(i)..(Offset(i) + IrCount - 1)
        BY HalfFacts, SnapshotAssumption
      <4>4. CellOf(i, a) \in Reported(i)
        BY <1>2, <4>2, <4>3 DEF Reported
      <4> QED BY <2>1, <3>2, <4>4, ReportedIsCopied, CopiedApart
    <3> QED BY <3>1, <3>2
  <2>2. CASE who = "write"
    <3>1. a.cell[1] \in {"sync", "enable"}
      BY <1>2, <2>2 DEF Sent, SyncActor
    <3>2. CellOf(i, a) = a.cell
      BY <3>1 DEF CellOf
    <3>3. \A c \in Cell : c[1] \notin {"sync", "enable"}
      BY DEF Cell
    <3> QED BY <3>1, <3>2, <3>3, ReportedIsCopied
  <2> QED BY <2>1, <2>2
<1> QED BY <1>1, <1>2

-----------------------------------------------------------------------------
IsBatch(b, S, type, first, n, last) ==
  /\ b \in Seq(S) /\ Len(b) = n /\ b # <<>>
  /\ \A j \in 1..n : b[j] = <<type, first + j - 1>>
  /\ \A m \in first..last : \E j \in 1..n : b[j] = <<type, m>>

LEMMA BatchIsSeq ==
  ASSUME NEW S, NEW type, NEW first \in Nat, NEW n \in Nat \ {0},
         NEW last, last = first + n - 1, \A m \in first..last : <<type, m>> \in S
  PROVE  IsBatch(Batch(type, first, n), S, type, first, n, last)
<1>1. \A j \in 1..n : Batch(type, first, n)[j] = <<type, first + j - 1>>
  BY DEF Batch
<1>2. Batch(type, first, n) \in [1..n -> S]
  <2>1. \A j \in 1..n : first + j - 1 \in first..last
    OBVIOUS
  <2> QED BY <2>1 DEF Batch
<1>3. Batch(type, first, n) \in Seq(S)
  BY <1>2, SeqDef
<1>4. Len(Batch(type, first, n)) = n
  BY <1>2, <1>3, LenProperties
<1>5. ASSUME NEW m \in first..last
      PROVE  \E j \in 1..n : Batch(type, first, n)[j] = <<type, m>>
  <2>1. m - first + 1 \in 1..n /\ first + (m - first + 1) - 1 = m
    OBVIOUS
  <2> QED BY <1>1, <2>1
<1> QED BY <1>1, <1>3, <1>4, <1>5, EmptySeq DEF IsBatch

(* A poll passes all that is reported, and then its sync.                  *)
PollIsWhole(i, b) ==
  /\ b \in Seq(Seq(AnyCell))
  /\ \A k \in 1..Len(b) :
       /\ b[k] # <<>>
       /\ \A j \in 1..Len(b[k]) :
            /\ b[k][j] \in Sent(i, "poll")
            /\ b[k][j] = SyncSensor => k = Len(b) /\ Len(b[k]) = 1
  /\ \A c \in Reported(i) : \E k \in 1..Len(b) : \E j \in 1..Len(b[k]) :
       CellOf(i, [cell |-> b[k][j]]) = c

LEMMA PollBatchesFit == ASSUME NEW i \in Fd PROVE PollIsWhole(i, PollBatches(i))
<1> DEFINE S == Sent(i, "poll")
           sync == <<SyncSensor>>
<1>1. S \subseteq AnyCell
  BY SentIsCell
<1>2. sync \in Seq(S) /\ Len(sync) = 1 /\ sync # <<>> /\ sync[1] = SyncSensor
  BY DEF Sent
<1>3. CASE i # 0
  <2> DEFINE b1 == Batch("brightness", 0, IrCount)
  <2>1. \A m \in 0..(IrCount - 1) : <<"brightness", m>> \in S
    BY <1>3 DEF Sent
  <2>2. /\ b1 \in Seq(S) /\ Len(b1) = IrCount /\ b1 # <<>>
        /\ \A j \in 1..IrCount : b1[j] = <<"brightness", 0 + j - 1>>
    <3>1. IrCount \in Nat \ {0} /\ 0 \in Nat /\ IrCount - 1 = 0 + IrCount - 1
      BY SnapshotAssumption
    <3> HIDE DEF S
    <3>2. IsBatch(b1, S, "brightness", 0, IrCount, IrCount - 1)
      BY <2>1, <3>1, BatchIsSeq, Zenon
    <3> QED BY <3>2 DEF IsBatch
  <2>3. \A j \in 1..IrCount : b1[j] # SyncSensor /\ b1[j] \in S
    <3>1. \A j \in 1..IrCount : b1[j] \in S
      <4> HIDE DEF S, b1
      <4> QED BY <2>2, ElementOfSeq
    <3> QED BY <2>2, <3>1 DEF SyncSensor
  <2>4. PollBatches(i) = <<b1, sync>>
    BY <1>3 DEF PollBatches
  <2>5. ASSUME NEW c \in Reported(i)
        PROVE  \E j \in 1..IrCount : CellOf(i, [cell |-> b1[j]]) = c
    <3>1. PICK m \in Offset(i)..(Offset(i) + IrCount - 1) : c = <<"brightness", m>>
      BY <1>3 DEF Reported
    <3>2. m - Offset(i) + 1 \in 1..IrCount /\ Offset(i) + (m - Offset(i)) = m
      BY HalfFacts, SnapshotAssumption
    <3>3. b1[m - Offset(i) + 1] = <<"brightness", m - Offset(i)>>
      BY <2>2, <3>2, HalfFacts
    <3>4. CellOf(i, [cell |-> b1[m - Offset(i) + 1]]) = c
      BY <3>1, <3>2, <3>3 DEF CellOf
    <3> QED BY <3>2, <3>4
  <2> DEFINE b == <<b1, sync>>
  <2> HIDE DEF b1, S, sync
  <2>6. b \in Seq(Seq(S)) /\ Len(b) = 2
    BY <1>2, <2>2
  <2>7. \A k \in 1..2 : b[k] # <<>>
    BY <1>2, <2>2
  <2>8. \A k \in 1..2 : \A j \in 1..Len(b[k]) : b[k][j] \in S
    BY <1>2, <2>2, <2>3
  <2>9. \A k \in 1..2 : \A j \in 1..Len(b[k]) : b[k][j] = SyncSensor => k = 2 /\ Len(b[k]) = 1
    BY <1>2, <2>2, <2>3
  <2>10. \A c \in Reported(i) : \E k \in 1..2 : \E j \in 1..Len(b[k]) :
           CellOf(i, [cell |-> b[k][j]]) = c
    <3>1. b[1] = b1
      OBVIOUS
    <3> QED BY <2>2, <2>5, <3>1
  <2>11. b \in Seq(Seq(AnyCell))
    <3>1. Seq(S) \subseteq Seq(AnyCell)
      BY <1>1, SeqMonotonic
    <3> QED BY <2>6, <3>1, SeqMonotonic
  <2> QED BY <2>4, <2>6, <2>7, <2>8, <2>9, <2>10, <2>11 DEF PollIsWhole, S, b
<1>4. CASE i = 0
  <2> DEFINE b1 == Batch("increment", 0, BaseCount)
             b2 == Batch("angle", 0, 1)
             b3 == Batch("position", 0, BaseCount)
             b4 == Batch("speed", 2, BaseCount)
  <2>1. BaseCount \in Nat \ {0} /\ BaseCount - 1 \in Nat
    BY SnapshotAssumption
  <2>2. /\ \A m \in 0..(BaseCount - 1) : <<"increment", m>> \in S /\ <<"position", m>> \in S
        /\ <<"angle", 0>> \in S
        /\ \A m \in 2..(BaseCount + 1) : <<"speed", m>> \in S
    BY <1>4, <2>1 DEF Sent, Reported, Copied, Cell
  <2>3. /\ b1 \in Seq(S) /\ Len(b1) = BaseCount /\ b1 # <<>>
        /\ \A j \in 1..BaseCount : b1[j] = <<"increment", 0 + j - 1>>
        /\ \A m \in 0..(BaseCount - 1) : \E j \in 1..BaseCount : b1[j] = <<"increment", m>>
    <3> HIDE DEF S
    <3>1. 0 \in Nat /\ BaseCount - 1 = 0 + BaseCount - 1
      BY <2>1
    <3>2. IsBatch(b1, S, "increment", 0, BaseCount, BaseCount - 1)
      BY <2>1, <2>2, <3>1, BatchIsSeq, Zenon
    <3> HIDE DEF b1
    <3> QED BY <3>2 DEF IsBatch
  <2>4. /\ b2 \in Seq(S) /\ Len(b2) = 1 /\ b2 # <<>> /\ b2[1] = <<"angle", 0>>
    BY <2>2 DEF Batch
  <2>5. /\ b3 \in Seq(S) /\ Len(b3) = BaseCount /\ b3 # <<>>
        /\ \A j \in 1..BaseCount : b3[j] = <<"position", 0 + j - 1>>
        /\ \A m \in 0..(BaseCount - 1) : \E j \in 1..BaseCount : b3[j] = <<"position", m>>
    <3> HIDE DEF S
    <3>1. 0 \in Nat /\ BaseCount - 1 = 0 + BaseCount - 1
      BY <2>1
    <3>2. IsBatch(b3, S, "position", 0, BaseCount, BaseCount - 1)
      BY <2>1, <2>2, <3>1, BatchIsSeq, Zenon
    <3> HIDE DEF b3
    <3> QED BY <3>2 DEF IsBatch
  <2>6. /\ b4 \in Seq(S) /\ Len(b4) = BaseCount /\ b4 # <<>>
        /\ \A j \in 1..BaseCount : b4[j] = <<"speed", 2 + j - 1>>
        /\ \A m \in 2..(BaseCount + 1) : \E j \in 1..BaseCount : b4[j] = <<"speed", m>>
    <3> HIDE DEF S
    <3>1. 2 \in Nat /\ BaseCount + 1 = 2 + BaseCount - 1
      BY <2>1
    <3>2. IsBatch(b4, S, "speed", 2, BaseCount, BaseCount + 1)
      BY <2>1, <2>2, <3>1, BatchIsSeq, Zenon
    <3> HIDE DEF b4
    <3> QED BY <3>2 DEF IsBatch
  <2>7. PollBatches(i) = <<b1, b2, b3, b4, sync>>
    BY <1>4 DEF PollBatches
  <2>8. /\ \A j \in 1..BaseCount : /\ b1[j] \in S /\ b1[j] # SyncSensor
                                  /\ b3[j] \in S /\ b3[j] # SyncSensor
                                  /\ b4[j] \in S /\ b4[j] # SyncSensor
        /\ b2[1] \in S /\ b2[1] # SyncSensor
    BY <2>3, <2>4, <2>5, <2>6 DEF SyncSensor
  <2> DEFINE b == <<b1, b2, b3, b4, sync>>
  <2> HIDE DEF b1, b2, b3, b4, S, sync
  <2>9. b \in Seq(Seq(S)) /\ Len(b) = 5
    BY <1>2, <2>3, <2>4, <2>5, <2>6
  <2>10. \A k \in 1..5 : b[k] # <<>>
    BY <1>2, <2>3, <2>4, <2>5, <2>6
  <2>11. \A k \in 1..5 : \A j \in 1..Len(b[k]) : b[k][j] \in S
    BY <1>2, <2>3, <2>4, <2>5, <2>6, <2>8
  <2>12. \A k \in 1..5 : \A j \in 1..Len(b[k]) : b[k][j] = SyncSensor => k = 5 /\ Len(b[k]) = 1
    <3>1. \A k \in 1..4 : \A j \in 1..Len(b[k]) : b[k][j] # SyncSensor
      <4>1. b[1] = b1 /\ b[2] = b2 /\ b[3] = b3 /\ b[4] = b4
        OBVIOUS
      <4>2. \A j \in 1..Len(b[1]) : b[1][j] # SyncSensor
        BY <2>3, <2>8, <4>1
      <4>4. \A j \in 1..Len(b[2]) : b[2][j] # SyncSensor
        <5>1. \A j \in 1..Len(b2) : j = 1
          BY <2>4
        <5> QED BY <2>8, <4>1, <5>1
      <4>3. /\ \A j \in 1..Len(b[3]) : b[3][j] # SyncSensor
            /\ \A j \in 1..Len(b[4]) : b[4][j] # SyncSensor
        BY <2>5, <2>6, <2>8, <4>1
      <4> HIDE DEF b
      <4> QED BY <4>2, <4>3, <4>4
    <3>2. b[5] = sync
      OBVIOUS
    <3> QED BY <1>2, <3>1, <3>2
  <2>13. ASSUME NEW c \in Reported(i)
         PROVE  \E k \in 1..5 : \E j \in 1..Len(b[k]) : CellOf(i, [cell |-> b[k][j]]) = c
    <3>1. /\ c[1] # "brightness"
          /\ \/ \E m \in 0..(BaseCount - 1) : c = <<"increment", m>>
             \/ \E m \in 0..(BaseCount - 1) : c = <<"position", m>>
             \/ c = <<"angle", 0>>
             \/ \E m \in 2..(BaseCount + 1) : c = <<"speed", m>>
      BY <1>4, <2>1 DEF Reported, Copied, Cell
    <3>2. CellOf(i, [cell |-> c]) = c
      BY <3>1 DEF CellOf
    <3>3. b[1] = b1 /\ b[2] = b2 /\ b[3] = b3 /\ b[4] = b4
      OBVIOUS
    <3>4. \E k \in 1..5 : \E j \in 1..Len(b[k]) : b[k][j] = c
      <4>1. CASE \E m \in 0..(BaseCount - 1) : c = <<"increment", m>>
        BY SMTT(20), <2>3, <3>3, <4>1
      <4>2. CASE \E m \in 0..(BaseCount - 1) : c = <<"position", m>>
        <5>1. PICK j \in 1..BaseCount : b3[j] = c
          BY <2>5, <4>2
        <5>2. 3 \in 1..5 /\ j \in 1..Len(b[3]) /\ b[3][j] = c
          BY <2>5, <3>3, <5>1
        <5> QED BY <5>2
      <4>3. CASE c = <<"angle", 0>>
        BY <2>4, <3>3, <4>3
      <4>4. CASE \E m \in 2..(BaseCount + 1) : c = <<"speed", m>>
        <5>1. PICK j \in 1..BaseCount : b4[j] = c
          BY <2>6, <4>4
        <5>2. 4 \in 1..5 /\ j \in 1..Len(b[4]) /\ b[4][j] = c
          BY <2>6, <3>3, <5>1
        <5> QED BY <5>2
      <4> QED BY <3>1, <4>1, <4>2, <4>3, <4>4
    <3> QED BY <3>2, <3>4
  <2>14. b \in Seq(Seq(AnyCell))
    BY <1>1, <2>9, SeqMonotonic
  <2> QED BY <2>7, <2>9, <2>10, <2>11, <2>12, <2>13, <2>14 DEF PollIsWhole, S, b
<1> QED BY <1>3, <1>4

LEMMA WriteBatchesFit ==
  ASSUME NEW i \in Fd
  PROVE  /\ WriteBatches(i) \in Seq(Seq(AnyCell))
         /\ \A k \in 1..Len(WriteBatches(i)) :
              /\ WriteBatches(i)[k] # <<>>
              /\ \A j \in 1..Len(WriteBatches(i)[k]) : WriteBatches(i)[k][j] \in Sent(i, "write")
         /\ i = 0 => WriteBatches(i) = <<<<Left, Right>>, <<SyncActor>>>>
<1> DEFINE S == Sent(i, "write")
           sync == <<SyncActor>>
<1>1. S \subseteq AnyCell
  BY SentIsCell
<1>2. sync \in Seq(S) /\ Len(sync) = 1 /\ sync # <<>>
  BY DEF Sent
<1>3. PICK b1 : b1 \in Seq(S) /\ b1 # <<>> /\ WriteBatches(i) = <<b1, sync>>
                /\ (i = 0 => b1 = <<Left, Right>>)
  <2>1. CASE i = 0
    <3>1. Batch("speed", 0, 2) = <<Left, Right>>
      BY DEF Batch, Left, Right
    <3>2. <<Left, Right>> \in Seq(S) /\ <<Left, Right>> # <<>>
      BY <2>1 DEF Sent
    <3> QED BY <2>1, <3>1, <3>2 DEF WriteBatches
  <2>2. CASE i # 0
    <3>1. \A m \in 0..(IrCount - 1) : <<"enable", m>> \in S
      BY <2>2 DEF Sent
    <3>2. IrCount \in Nat \ {0} /\ 0 \in Nat /\ IrCount - 1 = 0 + IrCount - 1
      BY SnapshotAssumption
    <3>3. IsBatch(Batch("enable", 0, IrCount), S, "enable", 0, IrCount, IrCount - 1)
      <4> HIDE DEF S
      <4> QED BY <3>1, <3>2, BatchIsSeq, Zenon
    <3> QED BY <2>2, <3>3 DEF WriteBatches, IsBatch
  <2> QED BY <2>1, <2>2
<1> HIDE DEF S, sync
<1>4. <<b1, sync>> \in Seq(Seq(S)) /\ Len(<<b1, sync>>) = 2
  BY <1>2, <1>3
<1>5. Seq(S) \subseteq Seq(AnyCell)
  BY <1>1, SeqMonotonic
<1>6. <<b1, sync>> \in Seq(Seq(AnyCell))
  BY <1>4, <1>5, SeqMonotonic
<1>7. \A k \in 1..2 : <<b1, sync>>[k] # <<>> /\ <<b1, sync>>[k] \in Seq(S)
  BY <1>2, <1>3
<1>8. \A k \in 1..2 : \A j \in 1..Len(<<b1, sync>>[k]) : <<b1, sync>>[k][j] \in S
  BY <1>7, ElementOfSeq
<1> QED BY <1>3, <1>4, <1>6, <1>7, <1>8 DEF S, sync

-----------------------------------------------------------------------------
LEMMA InitIInv == ASSUME Init PROVE IInv
<1> USE DEF Init
<1>1. TypeOK
  <2>1. load \in [Fd -> [Source -> Nat]] /\ 0 \in Fd /\ QueueSize \in Nat \ {0} /\ 0 \in 0..ActionCount
    BY SnapshotAssumption DEF Fd
  <2>2. \A i \in Fd, who \in Source : count[i][who] \in 0..load[i][who]
    BY <2>1
  <2>3. \A i \in Fd : Len(queue[i]) < QueueSize
    BY <2>1
  <2> QED BY <2>1, <2>2, <2>3 DEF TypeOK
<1>2. Shape
  BY EmptySeq DEF Shape
<1>3. ASSUME NEW i \in Fd PROVE PollInv(i)
  <2>1. /\ queue[i] = <<>> /\ lost[i] = {} /\ shown[i] = 0
        /\ \A who \in Source : rest[i][who] = <<>> /\ todo[i][who] = <<>> /\ count[i][who] = 0
        /\ lock[i] = "none"
        /\ HalfRing => \A c \in Reported(i) : buffer[c] = 0 /\ bebot[c] = 0
    BY ReportedIsCopied
  <2>2. Len(queue[i]) = 0 /\ \A who \in Source : Len(rest[i][who]) = 0 /\ Len(todo[i][who]) = 0
    BY <2>1
  <2>3. BatchInv(i) /\ ClosedInv(i) /\ MessageInv(i)
    BY <2>1, <2>2 DEF BatchInv, ClosedInv, MessageInv
  <2>4. HalfRing => ReportInv(i)
    BY <2>1, <2>2 DEF ReportInv, OrderInv, SyncInv, UnderWay, ShownInv
  <2> QED BY <2>3, <2>4 DEF PollInv
<1>4. WriteInv
  <2>1. 0 \in Fd /\ Left \in Cell /\ Right \in Cell
    BY SnapshotAssumption DEF Fd, Cell, Left, Right
  <2>2. /\ queue[0] = <<>> /\ Len(queue[0]) = 0
        /\ todo[0]["write"] = <<>> /\ rest[0]["write"] = <<>>
        /\ buffer[Left] = 0 /\ buffer[Right] = 0 /\ bebot[Left] = 0 /\ bebot[Right] = 0
    BY <2>1
  <2>3. WriteBatchInv /\ LeftInv /\ RightInv
    BY <2>2 DEF WriteBatchInv, LeftInv, RightInv
  <2>4. HalfwayInv /\ BufferInv /\ Same(bebot[Left], bebot[Right])
    BY <2>2 DEF HalfwayInv, BufferInv, Same
  <2> QED BY <2>3, <2>4 DEF WriteInv
<1> QED BY <1>1, <1>2, <1>3, <1>4 DEF IInv

LEMMA QueueType ==
  ASSUME Shape, NEW i \in Fd
  PROVE  /\ queue[i] \in Seq(Message) /\ Len(queue[i]) \in Nat
         /\ queue[i] # <<>> => Len(queue[i]) >= 1
         /\ \A k \in 1..Len(queue[i]) :
              /\ queue[i][k] \in Message /\ queue[i][k].cell \in AnyCell
              /\ queue[i][k].who \in Source /\ queue[i][k].stamp \in Nat
<1>1. queue[i] \in Seq(Message)
  BY DEF Shape
<1>2. /\ Len(queue[i]) \in Nat /\ (queue[i] # <<>> => Len(queue[i]) >= 1)
      /\ \A k \in 1..Len(queue[i]) : queue[i][k] \in Message
  BY <1>1, ElementOfSeq, LenProperties, EmptySeq
<1> QED BY <1>1, <1>2 DEF Message

(* What a device, its file and its reports keep, the invariant keeps.      *)
LEMMA PollFrame ==
  ASSUME NEW i \in Fd, PollInv(i), opened' = opened, queue'[i] = queue[i],
         todo'[i] = todo[i], rest'[i] = rest[i], lock'[i] = lock[i], count'[i] = count[i],
         lost'[i] = lost[i], shown'[i] = shown[i],
         HalfRing => \A c \in Reported(i) : buffer'[c] = buffer[c] /\ bebot'[c] = bebot[c]
  PROVE  PollInv(i)'
<1>1. BatchInv(i)' /\ ClosedInv(i)' /\ MessageInv(i)'
  <2>1. BatchInv(i) /\ ClosedInv(i) /\ MessageInv(i)
    BY DEF PollInv
  <2>2. BatchInv(i)'
    BY <2>1 DEF BatchInv
  <2>3. ClosedInv(i)' /\ MessageInv(i)'
    BY <2>1 DEF ClosedInv, MessageInv
  <2> QED BY <2>2, <2>3
<1>2. ASSUME HalfRing PROVE ReportInv(i)'
  <2>1. /\ OrderInv(i) /\ SyncInv(i) /\ UnderWay(i) /\ ShownInv(i)
        /\ \A c \in Reported(i) : buffer'[c] = buffer[c] /\ bebot'[c] = bebot[c]
    BY <1>2 DEF PollInv, ReportInv
  <2>2. OrderInv(i)' /\ ShownInv(i)'
    BY <2>1 DEF OrderInv, ShownInv
  <2>3. SyncInv(i)'
    BY <2>1 DEF SyncInv, Behind
  <2>4. UnderWay(i)'
    <3>1. \A p : ToCome(i, p)' <=> ToCome(i, p)
      BY DEF ToCome
    <3>2. \A c \in Reported(i) : Delivered(i, c)' <=> Delivered(i, c)
      BY <2>1 DEF Delivered, Behind
    <3> QED BY <2>1, <3>1, <3>2 DEF UnderWay
  <2> QED BY <2>2, <2>3, <2>4 DEF ReportInv
<1> QED BY <1>1, <1>2 DEF PollInv

LEMMA WriteFrame ==
  ASSUME WriteInv, opened' = opened, queue'[0] = queue[0],
         todo'[0]["write"] = todo[0]["write"], rest'[0]["write"] = rest[0]["write"],
         count'[0]["write"] = count[0]["write"], lost'[0] = lost[0],
         \A c \in {Left, Right} : buffer'[c] = buffer[c] /\ bebot'[c] = bebot[c]
  PROVE  WriteInv'
<1> USE DEF WriteInv
<1>1. WriteBatchInv' /\ LeftInv' /\ RightInv'
  BY DEF WriteBatchInv, LeftInv, RightInv, Halfway
<1>2. HalfwayInv' /\ BufferInv' /\ Same(bebot[Left], bebot[Right])'
  BY DEF HalfwayInv, BufferInv, Same, Halfway
<1> QED BY <1>1, <1>2

-----------------------------------------------------------------------------
(* A poll, or a write, begins with all of its batches to come.             *)
LEMMA BeginIInv ==
  ASSUME IInv, NEW i \in Fd, NEW who \in Source, Begin(i, who)
  PROVE  IInv'
<1> DEFINE b == IF who = "poll" THEN PollBatches(i) ELSE WriteBatches(i)
<1>1. /\ rest[i][who] = <<>> /\ todo[i][who] = <<>> /\ count[i][who] < load[i][who]
      /\ count' = [count EXCEPT ![i][who] = @ + 1] /\ todo' = [todo EXCEPT ![i][who] = b]
      /\ UNCHANGED <<load, opened, rest, lock, queue, fd, pc, taken, buffer, bebot, shown, lost>>
  BY DEF Begin, Busy, clientVars, readVars
<1>2. /\ b \in Seq(Seq(AnyCell))
      /\ \A k \in 1..Len(b) : b[k] # <<>> /\ \A j \in 1..Len(b[k]) : b[k][j] \in Sent(i, who)
  BY PollBatchesFit, WriteBatchesFit DEF PollIsWhole
<1> HIDE DEF b
<1>3. load \in [Fd -> [Source -> Nat]]
  BY SnapshotAssumption DEF IInv, TypeOK
<1>4. Shape'
  BY <1>1, <1>2 DEF IInv, Shape
<1>5. /\ \A d \in Fd, w \in Source :
           /\ count'[d][w] = IF d = i /\ w = who THEN count[d][w] + 1 ELSE count[d][w]
           /\ todo'[d][w] = IF d = i /\ w = who THEN b ELSE todo[d][w]
           /\ count[d][w] \in Nat
      /\ \A d \in Fd : d # i => count'[d] = count[d] /\ todo'[d] = todo[d]
  <2>1. /\ count \in [Fd -> [Source -> Nat]]
        /\ todo \in [Fd -> [Source -> Seq(Seq(AnyCell))]]
    BY DEF IInv, Shape
  <2>2. \A d \in Fd, w \in Source :
          /\ count'[d][w] = IF d = i /\ w = who THEN count[d][w] + 1 ELSE count[d][w]
          /\ count[d][w] \in Nat
    BY <1>1, <2>1
  <2>3. \A d \in Fd, w \in Source :
          todo'[d][w] = IF d = i /\ w = who THEN b ELSE todo[d][w]
    BY <1>1, <2>1
  <2> QED BY <1>1, <2>1, <2>2, <2>3
<1>6. TypeOK'
  <2>1. \A d \in Fd, w \in Source : count'[d][w] \in 0..load[d][w]
    BY SMTT(20), <1>1, <1>3, <1>5 DEF IInv, TypeOK
  <2> QED BY <1>1, <2>1 DEF IInv, TypeOK
<1>7. ASSUME NEW d \in Fd PROVE PollInv(d)'
  <2>1. PollInv(d)
    BY DEF IInv
  <2>2. CASE d # i
    BY <1>1, <1>5, <2>1, <2>2, PollFrame
  <2>3. CASE d = i
    <3> USE <2>1 DEF PollInv
    <3>1. BatchInv(d)'
      <4>1. \A k \in 1..Len(b) : \A j \in 1..Len(b[k]) :
              who = "poll" /\ b[k][j] = SyncSensor => k = Len(b) /\ Len(b[k]) = 1
        BY <2>3, PollBatchesFit DEF PollIsWhole, b
      <4>2. \A w \in Source : w # who => todo'[d][w] = todo[d][w]
        BY <1>5
      <4>3. todo'[d][who] = b /\ rest[d][who] = <<>> /\ Len(rest[d][who]) = 0
        BY <1>1, <1>5, <2>3
      <4> QED BY <1>1, <1>2, <2>3, <4>1, <4>2, <4>3 DEF BatchInv
    <3>2. ClosedInv(d)'
      BY <1>1 DEF ClosedInv
    <3>3. MessageInv(d)'
      <4>1. \A w \in Source : count[d][w] <= count'[d][w] /\ count[d][w] \in Nat
                              /\ count'[d][w] \in Nat
        BY <1>5
      <4>2. \A k \in 1..Len(queue[d]) : queue[d][k].who \in Source /\ queue[d][k].stamp \in Nat
        BY QueueType DEF IInv
      <4> QED BY <1>1, <4>1, <4>2 DEF MessageInv
    <3>4. ASSUME HalfRing PROVE ReportInv(d)'
      <4> USE <3>4 DEF ReportInv
      <4>1. OrderInv(d)'
        <5>1. count[d]["poll"] <= count'[d]["poll"] /\ count[d]["poll"] \in Nat
              /\ count'[d]["poll"] \in Nat
          BY <1>5
        <5>2. \A c \in Reported(d) : buffer[c] \in Nat
          BY ReportedIsCopied DEF IInv, TypeOK
        <5> QED BY <1>1, <5>1, <5>2 DEF OrderInv
      <4>2. SyncInv(d)' /\ ShownInv(d)'
        BY <1>1 DEF SyncInv, Behind, ShownInv
      <4>3. UnderWay(d)'
        <5>1. CASE who = "poll"
          <6>1. \A c \in Reported(d) : \E k \in 1..Len(b) : \E j \in 1..Len(b[k]) :
                  CellOf(d, [cell |-> b[k][j]]) = c
            <7>1. PollIsWhole(d, b)
              BY <2>3, <5>1, PollBatchesFit DEF b
            <7> QED BY <7>1 DEF PollIsWhole
          <6>2. \A k \in 1..Len(b) : \A j \in 1..Len(b[k]) :
                  b[k][j] \in Sent(d, "poll") /\ ToCome(d, b[k][j])'
            BY <1>2, <1>5, <2>3, <5>1 DEF ToCome
          <6>3. \A c \in Reported(d) :
                  \E p \in Sent(d, "poll") : ToCome(d, p)' /\ CellOf(d, [cell |-> p]) = c
            BY <6>1, <6>2
          <6> QED BY <6>3 DEF UnderWay
        <5>2. CASE who = "write"
          <6>1. \A p : ToCome(d, p)' <=> ToCome(d, p)
            BY SMTT(20), <1>1, <1>5, <5>2 DEF ToCome
          <6>2. count'[d]["poll"] = count[d]["poll"]
            BY <1>5, <5>2
          <6>3. \A c : Delivered(d, c)' <=> Delivered(d, c)
            BY <1>1, <6>2 DEF Delivered, Behind
          <6> QED BY <1>1, <6>1, <6>2, <6>3 DEF UnderWay
        <5> QED BY <5>1, <5>2
      <4> QED BY <4>1, <4>2, <4>3
    <3> QED BY <3>1, <3>2, <3>3, <3>4
  <2> QED BY <2>2, <2>3
<1>8. WriteInv'
  <2>1. 0 \in Fd /\ WriteInv
    BY SnapshotAssumption DEF Fd, IInv
  <2>2. CASE i = 0 /\ who = "write"
    <3>1. b = <<<<Left, Right>>, <<SyncActor>>>> /\ todo'[0]["write"] = b
      BY <1>5, <2>1, <2>2, WriteBatchesFit DEF b
    <3>2. ~Halfway
      <4>1. rest[0]["write"] = <<>> /\ <<>> # <<Right>>
        BY <1>1, <2>2
      <4> QED BY <4>1 DEF Halfway
    <3> USE DEF WriteInv
    <3>3. WriteBatchInv'
      BY <1>1, <2>1, <3>1 DEF WriteBatchInv
    <3>4. LeftInv' /\ RightInv'
      BY <1>1, <2>1, <3>2 DEF LeftInv, RightInv
    <3>5. HalfwayInv' /\ BufferInv' /\ Same(bebot[Left], bebot[Right])'
      BY <1>1, <2>1, <3>2 DEF HalfwayInv, BufferInv, Same, Halfway
    <3> QED BY <3>3, <3>4, <3>5
  <2>3. CASE ~(i = 0 /\ who = "write")
    BY <1>1, <1>5, <2>1, <2>3, WriteFrame
  <2> QED BY <2>2, <2>3
<1> QED BY <1>4, <1>6, <1>7, <1>8 DEF IInv

(* Without its rest, the poll has no sync either.                          *)
LEMMA SpeedTransferFailsIInv ==
  ASSUME IInv, SpeedTransferFails
  PROVE  IInv'
<1>1. /\ rest[0]["poll"] = <<>> /\ todo' = [todo EXCEPT ![0]["poll"] = <<>>]
      /\ UNCHANGED <<load, opened, count, rest, lock, queue, fd, pc, taken, buffer, bebot, shown,
                     lost>>
  BY DEF SpeedTransferFails, clientVars, readVars
<1>2. TypeOK' /\ Shape'
  <2>1. <<>> \in Seq(Seq(AnyCell))
    BY EmptySeq
  <2> QED BY <1>1, <2>1 DEF IInv, TypeOK, Shape
<1>3. 0 \in Fd
  BY SnapshotAssumption DEF Fd
<1>4. /\ todo'[0]["poll"] = <<>> /\ todo'[0]["write"] = todo[0]["write"]
      /\ \A d \in Fd : d # 0 => todo'[d] = todo[d]
  BY <1>1, <1>3 DEF IInv, Shape
<1>5. ASSUME NEW d \in Fd PROVE PollInv(d)'
  <2>1. PollInv(d)
    BY DEF IInv
  <2>2. CASE d # 0
    BY <1>1, <1>4, <2>1, <2>2, PollFrame
  <2>3. CASE d = 0
    <3> USE <2>1, <2>3 DEF PollInv
    <3>1. Len(todo'[0]["poll"]) = 0 /\ Len(rest'[0]["poll"]) = 0
      BY <1>1, <1>4
    <3>2. BatchInv(d)' /\ ClosedInv(d)' /\ MessageInv(d)'
      BY <1>1, <1>4, <3>1 DEF BatchInv, ClosedInv, MessageInv
    <3>3. \A p : ~ToCome(d, p)'
      BY <3>1 DEF ToCome
    <3>4. HalfRing => OrderInv(d)' /\ SyncInv(d)' /\ ShownInv(d)'
      BY <1>1 DEF ReportInv, OrderInv, SyncInv, Behind, ShownInv
    <3> QED BY <3>2, <3>3, <3>4 DEF ReportInv, UnderWay
  <2> QED BY <2>2, <2>3
<1>6. WriteInv'
  BY <1>1, <1>4, WriteFrame DEF IInv
<1> QED BY <1>2, <1>5, <1>6 DEF IInv

(* The next batch is passed instead of to be passed.                       *)
LEMMA PassBatchIInv ==
  ASSUME IInv, NEW i \in Fd, NEW who \in Source, PassBatch(i, who)
  PROVE  IInv'
<1> DEFINE t == todo[i][who]
<1>1. /\ t # <<>> /\ rest[i][who] = <<>> /\ lock[i] = "none"
      /\ lock' = [lock EXCEPT ![i] = who]
      /\ rest' = [rest EXCEPT ![i][who] = Head(t)]
      /\ todo' = [todo EXCEPT ![i][who] = Tail(t)]
      /\ UNCHANGED <<load, opened, count, queue, fd, pc, taken, buffer, bebot, shown, lost>>
  BY DEF PassBatch, Pass, clientVars, readVars
<1>2. /\ t \in Seq(Seq(AnyCell)) /\ Head(t) = t[1] /\ Head(t) \in Seq(AnyCell)
      /\ Tail(t) \in Seq(Seq(AnyCell)) /\ Len(t) \in Nat /\ Len(Tail(t)) = Len(t) - 1
      /\ 1 \in 1..Len(t)
      /\ \A k \in 1..Len(Tail(t)) : Tail(t)[k] = t[k + 1] /\ k + 1 \in 1..Len(t)
  <2>1. t \in Seq(Seq(AnyCell))
    BY DEF IInv, Shape
  <2>2. Len(t) \in Nat \ {0}
    BY <1>1, <2>1, EmptySeq
  <2> HIDE DEF t
  <2>3. Head(t) = t[1]
    BY <2>1
  <2> QED BY <1>1, <2>1, <2>2, <2>3, HeadTailProperties
<1>3. Shape'
  BY <1>1, <1>2 DEF IInv, Shape
<1>4. TypeOK'
  BY <1>1 DEF IInv, TypeOK
<1>5. /\ rest'[i][who] = Head(t) /\ todo'[i][who] = Tail(t) /\ lock'[i] = who
      /\ \A w \in Source : w # who => rest'[i][w] = rest[i][w] /\ todo'[i][w] = todo[i][w]
      /\ \A d \in Fd : d # i =>
           rest'[d] = rest[d] /\ todo'[d] = todo[d] /\ lock'[d] = lock[d]
  BY <1>1 DEF IInv, Shape
<1> HIDE DEF t
<1>6. PollInv(i)'
  <2> USE DEF PollInv
  <2>1. PollInv(i)
    BY DEF IInv
  <2>2. BatchInv(i)'
    <3>1. /\ \A w \in Source : rest[i][w] = <<>>
          /\ \A k \in 1..Len(t) : t[k] # <<>> /\ \A j \in 1..Len(t[k]) : t[k][j] \in Sent(i, who)
      BY <1>1, <2>1 DEF BatchInv, t
    <3>2. \A w \in Source :
            /\ rest'[i][w] # <<>> <=> lock'[i] = w
            /\ \A j \in 1..Len(rest'[i][w]) : rest'[i][w][j] \in Sent(i, w)
      <4>1. \A w \in Source : w # who => rest'[i][w] = <<>> /\ Len(rest'[i][w]) = 0
        BY <1>5, <3>1
      <4> QED BY <1>2, <1>5, <3>1, <4>1
    <3>3. \A w \in Source : \A k \in 1..Len(todo'[i][w]) :
            /\ todo'[i][w][k] # <<>>
            /\ \A j \in 1..Len(todo'[i][w][k]) : todo'[i][w][k][j] \in Sent(i, w)
      <4> TAKE w \in Source
      <4>1. CASE w = who
        <5>1. \A k \in 1..Len(Tail(t)) :
                /\ Tail(t)[k] # <<>>
                /\ \A j \in 1..Len(Tail(t)[k]) : Tail(t)[k][j] \in Sent(i, who)
          BY <1>2, <3>1
        <5> QED BY <1>5, <4>1, <5>1
      <4>2. CASE w # who
        <5>1. todo'[i][w] = todo[i][w]
          BY <1>5, <4>2
        <5>2. \A k \in 1..Len(todo[i][w]) :
                /\ todo[i][w][k] # <<>>
                /\ \A j \in 1..Len(todo[i][w][k]) : todo[i][w][k][j] \in Sent(i, w)
          BY <2>1 DEF BatchInv
        <5> QED BY <5>1, <5>2
      <4> QED BY <4>1, <4>2
    <3>4. CASE who = "poll"
      <4>1. \A k \in 1..Len(t) : \A j \in 1..Len(t[k]) :
              t[k][j] = SyncSensor => k = Len(t) /\ Len(t[k]) = 1
        BY <2>1, <3>4 DEF BatchInv, t
      <4>2. ASSUME NEW j \in 1..Len(Head(t)), Head(t)[j] = SyncSensor
            PROVE  Len(Head(t)) = 1 /\ Tail(t) = <<>>
        <5>1. Len(t) = 1 /\ Len(Head(t)) = 1
          BY <1>2, <4>1, <4>2
        <5>2. Len(Tail(t)) = 0
          BY <1>2, <5>1
        <5> QED BY <1>2, <5>1, <5>2, EmptySeq
      <4>3. \A k \in 1..Len(Tail(t)) : \A j \in 1..Len(Tail(t)[k]) :
              Tail(t)[k][j] = SyncSensor => k = Len(Tail(t)) /\ Len(Tail(t)[k]) = 1
        <5> TAKE k \in 1..Len(Tail(t))
        <5>1. Tail(t)[k] = t[k + 1] /\ k + 1 \in 1..Len(t)
          BY <1>2
        <5>2. k + 1 = Len(t) => k = Len(Tail(t))
          <6> DEFINE m == Len(Tail(t))
                     n == Len(t)
          <6>1. n \in Nat /\ m = n - 1 /\ k \in 1..m
            BY <1>2
          <6> HIDE DEF m, n
          <6>2. k + 1 = n => k = m
            BY <6>1
          <6> QED BY <6>2 DEF m, n
        <5> QED BY <4>1, <5>1, <5>2
      <4>4. rest'[i]["poll"] = Head(t) /\ todo'[i]["poll"] = Tail(t)
        BY <1>5, <3>4
      <4>5. \A j \in 1..Len(rest'[i]["poll"]) : rest'[i]["poll"][j] = SyncSensor =>
              Len(rest'[i]["poll"]) = 1 /\ todo'[i]["poll"] = <<>>
        BY <4>2, <4>4
      <4>6. \A k \in 1..Len(todo'[i]["poll"]) : \A j \in 1..Len(todo'[i]["poll"][k]) :
              todo'[i]["poll"][k][j] = SyncSensor =>
                k = Len(todo'[i]["poll"]) /\ Len(todo'[i]["poll"][k]) = 1
        BY <4>3, <4>4
      <4> QED BY <3>2, <3>3, <4>5, <4>6 DEF BatchInv
    <3>5. CASE who = "write"
      BY <1>5, <2>1, <3>2, <3>3, <3>5 DEF BatchInv
    <3> QED BY <3>4, <3>5
  <2>3. ClosedInv(i)' /\ MessageInv(i)'
    BY <1>1, <2>1 DEF ClosedInv, MessageInv
  <2>4. \A p : ToCome(i, p)' <=> ToCome(i, p)
    <3>1. CASE who = "write"
      BY ZenonT(30), <1>5, <3>1 DEF ToCome
    <3>2. CASE who = "poll"
      <4> TAKE p
      <4>1. Len(rest[i]["poll"]) = 0
        BY <1>1, <3>2
      <4>2. ToCome(i, p) <=> \E k \in 1..Len(t) : \E j \in 1..Len(t[k]) : t[k][j] = p
        BY <3>2, <4>1 DEF ToCome, t
      <4>3. ToCome(i, p)' <=> \/ \E j \in 1..Len(t[1]) : t[1][j] = p
                              \/ \E k \in 1..Len(Tail(t)) : \E j \in 1..Len(Tail(t)[k]) :
                                   Tail(t)[k][j] = p
        <5>1. rest'[i]["poll"] = t[1] /\ todo'[i]["poll"] = Tail(t)
          BY <1>2, <1>5, <3>2
        <5> QED BY <5>1 DEF ToCome
      <4>4. ASSUME NEW k \in 1..Len(t), NEW j \in 1..Len(t[k]), t[k][j] = p PROVE ToCome(i, p)'
        <5>1. CASE k = 1
          BY <4>3, <4>4, <5>1
        <5>2. CASE k # 1
          <6>1. k - 1 \in 1..Len(Tail(t)) /\ Tail(t)[k - 1] = t[k]
            BY <1>2, <5>2
          <6> QED BY <4>3, <4>4, <6>1
        <5> QED BY <5>1, <5>2
      <4>5. ToCome(i, p)' => \E k \in 1..Len(t) : \E j \in 1..Len(t[k]) : t[k][j] = p
        BY <1>2, <4>3
      <4> QED BY <4>2, <4>4, <4>5
    <3> QED BY <3>1, <3>2
  <2>5. \A c : Delivered(i, c)' <=> Delivered(i, c)
    BY <1>1 DEF Delivered, Behind
  <2>6. HalfRing => ReportInv(i)'
    <3>1. HalfRing => OrderInv(i)' /\ SyncInv(i)' /\ ShownInv(i)'
      BY <1>1, <2>1 DEF ReportInv, OrderInv, SyncInv, Behind, ShownInv
    <3>2. HalfRing => UnderWay(i)'
      BY <1>1, <2>1, <2>4, <2>5 DEF ReportInv, UnderWay
    <3> QED BY <3>1, <3>2 DEF ReportInv
  <2> QED BY <2>2, <2>3, <2>6
<1>7. ASSUME NEW d \in Fd PROVE PollInv(d)'
  <2>1. d # i => PollInv(d)'
    BY <1>1, <1>5, PollFrame DEF IInv
  <2> QED BY <1>6, <2>1
<1>8. WriteInv'
  <2>1. 0 \in Fd /\ WriteInv
    BY SnapshotAssumption DEF Fd, IInv
  <2>2. CASE i = 0 /\ who = "write"
    <3> USE DEF WriteInv
    <3>1. t \in {<<<<Left, Right>>, <<SyncActor>>>>, <<<<SyncActor>>>>}
      BY <1>1, <2>1, <2>2 DEF WriteBatchInv, t
    <3>2. /\ Head(t) \in {<<Left, Right>>, <<SyncActor>>}
          /\ Tail(t) \in {<<<<SyncActor>>>>, <<>>}
      <4>1. CASE t = <<<<Left, Right>>, <<SyncActor>>>>
        BY <4>1
      <4>2. CASE t = <<<<SyncActor>>>>
        BY <4>2
      <4> QED BY <3>1, <4>1, <4>2
    <3>3. WriteBatchInv'
      BY <1>5, <2>2, <3>2 DEF WriteBatchInv
    <3>4. ~Halfway
      <4>1. rest[0]["write"] = <<>> /\ <<>> # <<Right>>
        BY <1>1, <2>2
      <4> QED BY <4>1 DEF Halfway
    <3>5. ~Halfway'
      <4>1. <<Left, Right>> # <<Right>> /\ <<SyncActor>> # <<Right>>
        BY DEF SyncActor, Right
      <4> QED BY <1>5, <2>2, <3>2, <4>1 DEF Halfway
    <3>6. LeftInv' /\ RightInv'
      BY <1>1, <2>1, <3>4 DEF LeftInv, RightInv
    <3>7. HalfwayInv' /\ BufferInv' /\ Same(bebot[Left], bebot[Right])'
      BY <1>1, <2>1, <3>4, <3>5 DEF HalfwayInv, BufferInv, Same
    <3> QED BY <3>3, <3>6, <3>7
  <2>3. CASE ~(i = 0 /\ who = "write")
    BY <1>1, <1>5, <2>1, <2>3, WriteFrame
  <2> QED BY <2>2, <2>3
<1> QED BY <1>3, <1>4, <1>7, <1>8 DEF IInv

(* Of a poll, or a write, in the middle of which the files are opened,     *)
(* they miss an action.                                                    *)
LEMMA OpenFilesIInv ==
  ASSUME IInv, OpenFiles
  PROVE  IInv'
<1>1. /\ ~opened /\ opened' = TRUE
      /\ lost' = [i \in Fd |-> {<<who, count[i][who]>> : who \in {w \in Source : Busy(i, w)}}]
      /\ UNCHANGED <<load, count, todo, rest, lock, queue, fd, pc, taken, buffer, bebot, shown>>
  BY DEF OpenFiles, driverVars, clientVars, readVars
<1>2. TypeOK' /\ Shape'
  <2>1. lost' \in [Fd -> SUBSET (Source \X Nat)]
    BY <1>1 DEF IInv, Shape
  <2> QED BY <1>1, <2>1 DEF IInv, TypeOK, Shape
<1>3. \A i \in Fd : queue[i] = <<>> /\ lost[i] = {} /\ Len(queue[i]) = 0
  BY <1>1 DEF IInv, PollInv, ClosedInv
<1>4. \A i \in Fd, w \in Source : Busy(i, w) => <<w, count[i][w]>> \in lost'[i]
  BY <1>1
<1>5. ASSUME NEW i \in Fd PROVE PollInv(i)'
  <2>1. PollInv(i)
    BY DEF IInv
  <2>2. BatchInv(i)'
    BY <1>1, <2>1 DEF PollInv, BatchInv
  <2>3. ClosedInv(i)' /\ MessageInv(i)'
    BY <1>1, <2>1 DEF PollInv, ClosedInv, MessageInv
  <2>4. ASSUME HalfRing PROVE ReportInv(i)'
    <3> USE <2>1, <2>4 DEF PollInv, ReportInv
    <3>1. OrderInv(i)'
      BY <1>1 DEF OrderInv
    <3>2. SyncInv(i)'
      BY <1>1, <1>3 DEF SyncInv
    <3>3. ShownInv(i)'
      BY <1>1, <1>3 DEF ShownInv
    <3>4. ToCome(i, SyncSensor)' => Busy(i, "poll")
      <4>1. rest[i]["poll"] = <<>> => Len(rest[i]["poll"]) = 0
        OBVIOUS
      <4>2. todo[i]["poll"] = <<>> => Len(todo[i]["poll"]) = 0
        OBVIOUS
      <4> QED BY <1>1, <4>1, <4>2 DEF ToCome, Busy
    <3>5. UnderWay(i)'
      BY <1>1, <1>4, <3>4 DEF UnderWay
    <3> QED BY <3>1, <3>2, <3>3, <3>5
  <2> QED BY <2>2, <2>3, <2>4 DEF PollInv
<1>6. WriteInv'
  <2>1. 0 \in Fd /\ WriteInv
    BY SnapshotAssumption DEF Fd, IInv
  <2> USE DEF WriteInv
  <2>2. WriteBatchInv' /\ LeftInv' /\ RightInv'
    BY <1>1, <1>3, <2>1 DEF WriteBatchInv, LeftInv, RightInv
  <2>3. Halfway => Busy(0, "write")
    BY DEF Halfway, Busy
  <2>4. HalfwayInv'
    BY <1>1, <1>3, <1>4, <2>1, <2>3 DEF HalfwayInv, Halfway
  <2>5. BufferInv' /\ Same(bebot[Left], bebot[Right])'
    BY <1>1, <1>3, <2>1 DEF BufferInv, Same
  <2> QED BY <2>2, <2>4, <2>5
<1> QED BY <1>2, <1>5, <1>6 DEF IInv

(* Where the update is matters to nothing else.                            *)
LEMMA UpdateIInv ==
  ASSUME IInv, BeginUpdate \/ NothingToRead \/ SomethingToRead \/ EndWait \/ ReadReturns \/ ReadFails
  PROVE  IInv'
<1>1. /\ UNCHANGED <<load, opened, count, todo, rest, lock, queue, buffer, bebot, shown, lost>>
      /\ fd' \in {fd, 0, IF fd + 1 < FdCount THEN fd + 1 ELSE 0}
      /\ pc' \in {"idle", "read", "wait", "fetch"} /\ taken' \in {taken, 0}
  BY DEF BeginUpdate, NothingToRead, SomethingToRead, EndWait, ReadReturns, ReadFails, NextFd,
         driverVars
<1>2. fd' \in Fd
  BY <1>1, SnapshotAssumption DEF IInv, TypeOK, Fd
<1>3. TypeOK' /\ Shape'
  <2>1. taken' \in 0..ActionCount
    BY <1>1, SnapshotAssumption DEF IInv, TypeOK
  <2>2. Shape'
    BY <1>1 DEF IInv, Shape
  <2> QED BY <1>1, <1>2, <2>1, <2>2 DEF IInv, TypeOK
<1>4. ASSUME NEW i \in Fd PROVE PollInv(i)'
  BY <1>1, PollFrame DEF IInv
<1>5. WriteInv'
  BY <1>1, WriteFrame DEF IInv
<1> QED BY <1>3, <1>4, <1>5 DEF IInv

-----------------------------------------------------------------------------
Passed(i, who) == [cell |-> Head(rest[i][who]), who |-> who, stamp |-> count[i][who]]

Overrun(i) == Len(queue[i]) = QueueSize - 1

(* What an insertion does: the action is appended, dropped as no file is   *)
(* open, or lost with all the queue.                                       *)
Appends(i, who) ==
  opened /\ ~Overrun(i) /\ queue'[i] = Append(queue[i], Passed(i, who)) /\ lost'[i] = lost[i]

Drops(i, who) ==
  /\ queue'[i] = <<>> /\ Len(queue'[i]) = 0 /\ lost[i] \subseteq lost'[i]
  /\ \/ ~opened /\ queue[i] = <<>> /\ lost'[i] = lost[i]
     \/ /\ opened /\ <<who, count[i][who]>> \in lost'[i]
        /\ \A k \in 1..Len(queue[i]) : <<queue[i][k].who, queue[i][k].stamp>> \in lost'[i]

LEMMA InsertFacts ==
  ASSUME IInv, NEW i \in Fd, NEW who \in Source, InsertAction(i, who)
  PROVE  /\ rest[i][who] # <<>> /\ rest[i][who] \in Seq(AnyCell)
         /\ Len(rest[i][who]) \in Nat /\ 1 \in 1..Len(rest[i][who])
         /\ Head(rest[i][who]) = rest[i][who][1] /\ Head(rest[i][who]) \in Sent(i, who)
         /\ rest'[i][who] = Tail(rest[i][who]) /\ rest'[i][who] \in Seq(AnyCell)
         /\ Len(rest'[i][who]) = Len(rest[i][who]) - 1
         /\ \A k \in 1..Len(rest'[i][who]) :
              rest'[i][who][k] = rest[i][who][k + 1] /\ k + 1 \in 1..Len(rest[i][who])
         /\ \A w \in Source : w # who => rest'[i][w] = <<>> /\ rest[i][w] = <<>>
         /\ lock[i] = who /\ lock'[i] = IF rest'[i][who] = <<>> THEN "none" ELSE who
         /\ Passed(i, who) \in Message
         /\ Appends(i, who) \/ Drops(i, who)
         /\ \A d \in Fd : d # i => /\ rest'[d] = rest[d] /\ lock'[d] = lock[d]
                                   /\ queue'[d] = queue[d] /\ lost'[d] = lost[d]
         /\ UNCHANGED <<load, opened, count, todo, fd, pc, taken, buffer, bebot, shown>>
         /\ TypeOK' /\ Shape'
<1> DEFINE r == rest[i][who]
           q == queue[i]
           a == Passed(i, who)
           missed == {<<x.who, x.stamp>> : x \in {a} \union {q[k] : k \in 1..Len(q)}}
<1>1. /\ r # <<>>
      /\ rest' = [rest EXCEPT ![i][who] = Tail(r)]
      /\ lock' = [lock EXCEPT ![i] = IF Len(r) = 1 THEN "none" ELSE @]
      /\ queue' = [queue EXCEPT ![i] = IF ~opened \/ Overrun(i) THEN <<>> ELSE Append(q, a)]
      /\ lost' = [lost EXCEPT ![i] = IF opened /\ Overrun(i) THEN @ \union missed ELSE @]
      /\ UNCHANGED <<load, opened, count, todo, fd, pc, taken, buffer, bebot, shown>>
  BY DEF InsertAction, Passed, Overrun, clientVars, readVars
<1>2. /\ TypeOK /\ Shape /\ BatchInv(i) /\ ClosedInv(i)
  BY DEF IInv, PollInv
<1>3. r \in Seq(AnyCell) /\ count[i][who] \in Nat
  BY <1>2 DEF Shape
<1> HIDE DEF r, missed
<1>4. /\ Len(r) \in Nat /\ 1 \in 1..Len(r) /\ Head(r) = r[1] /\ Head(r) \in AnyCell
      /\ Tail(r) \in Seq(AnyCell) /\ Len(Tail(r)) = Len(r) - 1
      /\ \A k \in 1..Len(Tail(r)) : Tail(r)[k] = r[k + 1] /\ k + 1 \in 1..Len(r)
  <2>1. Len(r) \in Nat \ {0}
    BY <1>1, <1>3, EmptySeq
  <2>2. Head(r) = r[1]
    BY <1>3
  <2> QED BY <1>1, <1>3, <2>1, <2>2, HeadTailProperties
<1>5. Len(r) = 1 <=> Tail(r) = <<>>
  <2>1. Tail(r) = <<>> <=> Len(Tail(r)) = 0
    BY <1>4, EmptySeq, Zenon
  <2>2. Len(Tail(r)) = Len(r) - 1 /\ Len(r) \in Nat
    BY <1>4
  <2> QED BY <2>1, <2>2
<1>6. lock[i] = who /\ (\A w \in Source : w # who => rest[i][w] = <<>>) /\ r[1] \in Sent(i, who)
  <2>1. lock[i] = who
    BY <1>1, <1>2 DEF BatchInv, r
  <2>2. \A w \in Source : w # who => rest[i][w] = <<>>
    BY <1>2, <2>1 DEF BatchInv
  <2>3. r[1] \in Sent(i, who)
    BY <1>2, <1>4 DEF BatchInv, r
  <2> QED BY <2>1, <2>2, <2>3
<1>7. a \in Message
  BY <1>3, <1>4 DEF Passed, Message, r
<1>8. /\ rest'[i][who] = Tail(r)
      /\ \A w \in Source : w # who => rest'[i][w] = rest[i][w]
      /\ \A d \in Fd : d # i => rest'[d] = rest[d]
  BY <1>1, <1>2 DEF Shape
<1>9. /\ lock'[i] = IF Len(r) = 1 THEN "none" ELSE lock[i]
      /\ \A d \in Fd : d # i => lock'[d] = lock[d]
  BY <1>1, <1>2 DEF Shape
<1>10. /\ queue'[i] = IF ~opened \/ Overrun(i) THEN <<>> ELSE Append(q, a)
       /\ \A d \in Fd : d # i => queue'[d] = queue[d]
  BY <1>1, <1>2 DEF Shape
<1>11. /\ lost'[i] = IF opened /\ Overrun(i) THEN lost[i] \union missed ELSE lost[i]
       /\ \A d \in Fd : d # i => lost'[d] = lost[d]
  BY <1>1, <1>2 DEF TypeOK
<1>12. /\ <<who, count[i][who]>> \in missed
       /\ \A k \in 1..Len(q) : <<q[k].who, q[k].stamp>> \in missed
       /\ missed \subseteq Source \X Nat
  <2>1. a \in {a} \union {q[k] : k \in 1..Len(q)} /\ a.who = who /\ a.stamp = count[i][who]
    BY DEF Passed
  <2>2. \A x \in {a} \union {q[k] : k \in 1..Len(q)} : x \in Message
    BY <1>2, <1>7, QueueType
  <2> QED BY <2>1, <2>2 DEF missed, Message
<1>13. Appends(i, who) \/ Drops(i, who)
  <2>1. CASE ~opened
    <3>1. queue[i] = <<>> /\ queue'[i] = <<>> /\ Len(queue'[i]) = 0 /\ lost'[i] = lost[i]
      BY <1>2, <1>10, <1>11, <2>1 DEF ClosedInv
    <3> QED BY <2>1, <3>1 DEF Drops
  <2>2. CASE opened /\ Overrun(i)
    <3>1. queue'[i] = <<>> /\ Len(queue'[i]) = 0 /\ lost'[i] = lost[i] \union missed
      BY <1>10, <1>11, <2>2
    <3> QED BY <1>12, <2>2, <3>1 DEF Drops
  <2>3. CASE opened /\ ~Overrun(i)
    BY <1>10, <1>11, <2>3 DEF Appends
  <2> QED BY <2>1, <2>2, <2>3
<1>14. queue'[i] \in Seq(Message) /\ Len(queue'[i]) < QueueSize
  <2>1. CASE ~opened \/ Overrun(i)
    <3>1. queue'[i] = <<>> /\ Len(queue'[i]) = 0
      BY <1>10, <2>1
    <3> QED BY <3>1, EmptySeq, SnapshotAssumption
  <2>2. CASE opened /\ ~Overrun(i)
    <3>1. q \in Seq(Message) /\ Len(q) \in Nat /\ Len(q) < QueueSize /\ Len(q) # QueueSize - 1
      BY <1>2, <2>2, QueueType DEF TypeOK, Overrun
    <3>2. Append(q, a) \in Seq(Message) /\ Len(Append(q, a)) = Len(q) + 1
      BY <1>7, <3>1, AppendProperties
    <3> QED BY <1>10, <2>2, <3>1, <3>2, SnapshotAssumption
  <2> QED BY <2>1, <2>2
<1>15. Shape'
  <2>1. rest' \in [Fd -> [Source -> Seq(AnyCell)]]
    BY <1>1, <1>2, <1>4 DEF Shape
  <2>2. queue' \in [Fd -> Seq(Message)]
    BY <1>1, <1>2, <1>10, <1>14 DEF Shape
  <2>3. lock' \in [Fd -> Source \union {"none"}]
    BY <1>1, <1>2 DEF Shape
  <2> QED BY <1>1, <1>2, <2>1, <2>2, <2>3 DEF Shape
<1>16. TypeOK'
  <2>1. lost' \in [Fd -> SUBSET (Source \X Nat)]
    BY <1>1, <1>2, <1>12 DEF TypeOK
  <2>2. \A d \in Fd : Len(queue'[d]) < QueueSize /\ lock'[d] \in Source \union {"none"}
    BY <1>2, <1>10, <1>14, <1>15 DEF TypeOK, Shape
  <2> QED BY <1>1, <1>2, <2>1, <2>2 DEF TypeOK
<1>17. /\ r \in Seq(AnyCell) /\ Head(r) \in Sent(i, who)
       /\ rest'[i][who] \in Seq(AnyCell) /\ Len(rest'[i][who]) = Len(r) - 1
       /\ \A k \in 1..Len(rest'[i][who]) :
            rest'[i][who][k] = r[k + 1] /\ k + 1 \in 1..Len(r)
  BY <1>3, <1>4, <1>6, <1>8
<1>18. /\ \A w \in Source : w # who => rest'[i][w] = <<>> /\ rest[i][w] = <<>>
       /\ lock'[i] = IF rest'[i][who] = <<>> THEN "none" ELSE who
  BY <1>5, <1>6, <1>8, <1>9
<1>19. \A d \in Fd : d # i => /\ rest'[d] = rest[d] /\ lock'[d] = lock[d]
                             /\ queue'[d] = queue[d] /\ lost'[d] = lost[d]
  BY <1>8, <1>9, <1>10, <1>11
<1> QED BY <1>1, <1>4, <1>6, <1>7, <1>8, <1>13, <1>15, <1>16, <1>17, <1>18, <1>19 DEF r

LEMMA InsertBatchInv ==
  ASSUME IInv, NEW i \in Fd, NEW who \in Source, InsertAction(i, who)
  PROVE  /\ BatchInv(i)'
         /\ \A p : /\ ToCome(i, p)' => ToCome(i, p)
                   /\ ToCome(i, p) => ToCome(i, p)' \/ (who = "poll" /\ p = rest[i][who][1])
<1> DEFINE r == rest[i][who]
           u == rest'[i][who]
<1>1. BatchInv(i)
  BY DEF IInv, PollInv
<1>2. /\ Len(r) \in Nat /\ 1 \in 1..Len(r) /\ Len(u) = Len(r) - 1
      /\ \A k \in 1..Len(u) : u[k] = r[k + 1] /\ k + 1 \in 1..Len(r)
      /\ \A w \in Source : w # who => rest'[i][w] = <<>> /\ rest[i][w] = <<>>
      /\ lock'[i] = IF u = <<>> THEN "none" ELSE who
      /\ todo' = todo
  BY InsertFacts
<1>3. /\ \A j \in 1..Len(r) : r[j] \in Sent(i, who)
      /\ who = "poll" => \A j \in 1..Len(r) : r[j] = SyncSensor => Len(r) = 1
  BY <1>1 DEF BatchInv
<1>4. \A w \in Source : w # who => Len(rest'[i][w]) = 0
  BY <1>2
<1>5. \A w \in Source :
        /\ rest'[i][w] # <<>> <=> lock'[i] = w
        /\ \A j \in 1..Len(rest'[i][w]) : rest'[i][w][j] \in Sent(i, w)
  <2> TAKE w \in Source
  <2>1. CASE w = who
    <3> HIDE DEF r, u
    <3>1. (u # <<>> <=> lock'[i] = w) /\ \A j \in 1..Len(u) : u[j] \in Sent(i, w)
      BY <1>2, <1>3, <2>1
    <3> QED BY <2>1, <3>1 DEF u
  <2>2. CASE w # who
    BY <1>2, <1>4, <2>2
  <2> QED BY <2>1, <2>2
<1>6. \A j \in 1..Len(rest'[i]["poll"]) : rest'[i]["poll"][j] # SyncSensor
  <2>1. CASE who = "poll"
    <3> HIDE DEF r, u
    <3>1. \A j \in 1..Len(u) : u[j] # SyncSensor
      <4> TAKE j \in 1..Len(u)
      <4>1. Len(r) # 1
        BY <1>2
      <4> QED BY <1>2, <1>3, <2>1, <4>1
    <3> QED BY <2>1, <3>1 DEF u
  <2>2. CASE who # "poll"
    BY <1>4, <2>2
  <2> QED BY <2>1, <2>2
<1>7. BatchInv(i)'
  BY <1>1, <1>2, <1>5, <1>6 DEF BatchInv
<1>8. ASSUME NEW p
      PROVE  /\ ToCome(i, p)' => ToCome(i, p)
             /\ ToCome(i, p) => ToCome(i, p)' \/ (who = "poll" /\ p = r[1])
  <2>1. CASE who = "poll"
    <3> HIDE DEF r, u
    <3>1. \A j \in 1..Len(u) : \E m \in 1..Len(r) : r[m] = u[j]
      BY <1>2
    <3>2. \A m \in 1..Len(r) : m = 1 \/ \E j \in 1..Len(u) : r[m] = u[j]
      <4> TAKE m \in 1..Len(r)
      <4>1. m # 1 => m - 1 \in 1..Len(u) /\ r[m] = u[m - 1]
        BY <1>2
      <4> QED BY <4>1
    <3>3. /\ (\E j \in 1..Len(u) : u[j] = p) => \E j \in 1..Len(r) : r[j] = p
          /\ (\E j \in 1..Len(r) : r[j] = p) => p = r[1] \/ \E j \in 1..Len(u) : u[j] = p
      BY <3>1, <3>2
    <3> QED BY <1>2, <2>1, <3>3 DEF ToCome, r, u
  <2>2. CASE who # "poll"
    <3>1. rest'[i]["poll"] = rest[i]["poll"]
      BY <1>2, <2>2
    <3> QED BY <1>2, <2>2, <3>1 DEF ToCome
  <2> QED BY <2>1, <2>2
<1> QED BY <1>7, <1>8

(* An action that is appended goes behind all the others of its source.    *)
LEMMA AppendReportInv ==
  ASSUME HalfRing, IInv, NEW i \in Fd, NEW who \in Source, InsertAction(i, who), Appends(i, who)
  PROVE  ReportInv(i)'
<1> DEFINE q == queue[i]
           z == queue'[i]
           a == Passed(i, who)
           n == count[i]["poll"]
           Found(c, m, k) == \/ buffer[c] = m
                             \/ \E j \in 1..(k - 1) : CellOf(i, z[j]) = c /\ z[j].stamp = m
<1>1. BatchInv(i) /\ MessageInv(i) /\ OrderInv(i) /\ SyncInv(i) /\ UnderWay(i) /\ ShownInv(i)
  BY DEF IInv, PollInv, ReportInv
<1>2. /\ opened /\ opened' = opened /\ lost'[i] = lost[i]
      /\ count' = count /\ buffer' = buffer /\ bebot' = bebot /\ shown' = shown
  BY InsertFacts DEF Appends
<1>3. /\ q \in Seq(Message) /\ Len(q) \in Nat /\ Len(z) = Len(q) + 1
      /\ \A k \in 1..Len(q) : z[k] = q[k]
      /\ z[Len(q) + 1] = a
      /\ \A k \in 1..Len(q) : q[k].who \in Source /\ q[k].stamp \in Nat
  <2>1. q \in Seq(Message) /\ a \in Message /\ z = Append(q, a) /\ Len(q) \in Nat
        /\ \A k \in 1..Len(q) : q[k].who \in Source /\ q[k].stamp \in Nat
    BY InsertFacts, QueueType DEF Appends, IInv
  <2> HIDE DEF q, z, a
  <2> QED BY <2>1, AppendProperties
<1>4. /\ a.cell = rest[i][who][1] /\ a.cell \in Sent(i, who)
      /\ a.who = who /\ a.stamp = count[i][who] /\ count[i][who] \in Nat /\ n \in Nat
  <2>1. Head(rest[i][who]) = rest[i][who][1] /\ Head(rest[i][who]) \in Sent(i, who)
    BY InsertFacts
  <2>2. \A w \in Source : count[i][w] \in Nat
    BY DEF IInv, Shape
  <2> QED BY <2>1, <2>2 DEF Passed
<1>5. \A c \in Reported(i) : buffer[c] \in Nat
  BY ReportedIsCopied DEF IInv, TypeOK
<1> HIDE DEF q, z, a, n
<1>6. OrderInv(i)'
  <2>2. \A k \in 1..Len(q) : z[k].stamp <= count[i][z[k].who]
    BY <1>1, <1>3 DEF MessageInv, q
  <2>3. \A j, k \in 1..Len(q) : j <= k /\ q[j].who = "poll" /\ q[k].who = "poll" =>
          q[j].stamp <= q[k].stamp
    BY <1>1 DEF OrderInv, q
  <2>4. ASSUME NEW j \in 1..Len(z), NEW k \in 1..Len(z), j <= k, z[j].who = "poll", z[k].who = "poll"
        PROVE  z[j].stamp <= z[k].stamp
    <3>1. CASE k \in 1..Len(q)
      BY <1>3, <2>3, <2>4, <3>1
    <3>2. CASE k = Len(q) + 1
      <4>1. z[k].stamp = count[i]["poll"] /\ count[i]["poll"] \in Nat
        BY <1>3, <1>4, <2>4, <3>2 DEF n
      <4>2. CASE j \in 1..Len(q)
        BY <2>2, <2>4, <4>1, <4>2
      <4>3. CASE j = k
        BY <4>1, <4>3
      <4> QED BY <1>3, <3>2, <4>2, <4>3
    <3> QED BY <1>3, <3>1, <3>2
  <2>5. ASSUME NEW c \in Reported(i)
        PROVE  /\ buffer[c] <= count[i]["poll"]
               /\ \A k \in 1..Len(z) : z[k].who = "poll" => buffer[c] <= z[k].stamp
    <3>1. /\ buffer[c] <= count[i]["poll"]
          /\ \A k \in 1..Len(q) : q[k].who = "poll" => buffer[c] <= q[k].stamp
      BY <1>1 DEF OrderInv, q
    <3>2. \A k \in 1..Len(z) : k \in 1..Len(q) \/ k = Len(q) + 1
      BY <1>3
    <3> QED BY <1>3, <1>4, <3>1, <3>2
  <2> QED BY <1>2, <2>4, <2>5 DEF OrderInv, z
<1>7. \A c, m : \A k \in 1..(Len(q) + 1) : Behind(i, c, m, k) => Found(c, m, k)
  <2>1. \A k \in 1..(Len(q) + 1) : \A j \in 1..(k - 1) : z[j] = q[j]
    BY <1>3
  <2> QED BY <1>2, <2>1 DEF Behind, q, z
<1>8. SyncInv(i)'
  <2>1. ASSUME NEW k \in 1..Len(z), z[k].cell = SyncSensor, <<"poll", z[k].stamp>> \notin lost[i],
               NEW c \in Reported(i)
        PROVE  Found(c, z[k].stamp, k)
    <3>1. CASE k \in 1..Len(q)
      <4>1. Behind(i, c, q[k].stamp, k)
        BY <1>1, <1>3, <2>1, <3>1 DEF SyncInv, q
      <4>2. k \in 1..(Len(q) + 1) /\ z[k] = q[k]
        BY <1>3, <3>1
      <4>3. Found(c, q[k].stamp, k)
        <5> HIDE DEF Found
        <5> QED BY <1>7, <4>1, <4>2
      <4> QED BY <4>2, <4>3
    <3>2. CASE k = Len(q) + 1
      <4>1. a.cell = SyncSensor /\ z[k].stamp = count[i][who]
        BY <1>3, <1>4, <2>1, <3>2
      <4>2. who = "poll"
        BY <1>4, <4>1 DEF Sent, SyncSensor, SyncActor, Left, Right
      <4>3. 1 \in 1..Len(rest[i]["poll"]) /\ rest[i]["poll"][1] = SyncSensor
        BY <1>4, <4>1, <4>2, InsertFacts
      <4>4. ToCome(i, SyncSensor) /\ \A p : ToCome(i, p) => p = SyncSensor
        <5>1. Len(rest[i]["poll"]) = 1 /\ todo[i]["poll"] = <<>> /\ Len(todo[i]["poll"]) = 0
          BY <1>1, <4>3 DEF BatchInv
        <5> QED BY <4>3, <5>1 DEF ToCome
      <4>5. ~\E p \in Sent(i, "poll") : ToCome(i, p) /\ CellOf(i, [cell |-> p]) = c
        <5> SUFFICES ASSUME NEW p \in Sent(i, "poll"), ToCome(i, p), CellOf(i, [cell |-> p]) = c
                     PROVE  FALSE
          OBVIOUS
        <5> DEFINE b == [cell |-> p]
        <5>1. b.cell = SyncSensor /\ b.cell \in Sent(i, "poll") /\ CellOf(i, b) \in Reported(i)
          BY <4>4
        <5> HIDE DEF b
        <5> QED BY <5>1, ReportedBy
      <4>6. Delivered(i, c)
        BY <1>1, <1>2, <2>1, <4>1, <4>2, <4>4, <4>5 DEF UnderWay
      <4>7. Behind(i, c, z[k].stamp, k)
        BY <3>2, <4>1, <4>2, <4>6 DEF Delivered, Behind, q
      <4> HIDE DEF Found
      <4>8. k \in 1..(Len(q) + 1)
        BY <1>3, <3>2
      <4> QED BY <1>7, <4>7, <4>8
    <3> QED BY <1>3, <3>1, <3>2
  <2> QED BY <1>2, <2>1 DEF SyncInv, Behind, z
<1>9. UnderWay(i)'
  <2>1. ASSUME ToCome(i, SyncSensor)', <<"poll", n>> \notin lost[i], NEW c \in Reported(i)
        PROVE  \/ Delivered(i, c)'
               \/ \E p \in Sent(i, "poll") : ToCome(i, p)' /\ CellOf(i, [cell |-> p]) = c
    <3>1. Delivered(i, c) \/ \E p \in Sent(i, "poll") : ToCome(i, p) /\ CellOf(i, [cell |-> p]) = c
      BY <1>1, <1>2, <2>1, InsertBatchInv DEF UnderWay, n
    <3>2. CASE Delivered(i, c)
      <4>1. \/ buffer[c] = n
            \/ \E j \in 1..Len(q) : CellOf(i, q[j]) = c /\ q[j].stamp = n
        BY <1>3, <3>2 DEF Delivered, Behind, q, n
      <4>2. \/ buffer[c] = n
            \/ \E j \in 1..Len(z) : CellOf(i, z[j]) = c /\ z[j].stamp = n
        BY <1>3, <4>1
      <4> QED BY <1>2, <1>3, <4>2 DEF Delivered, Behind, q, z, n
    <3>3. ASSUME NEW p \in Sent(i, "poll"), ToCome(i, p), CellOf(i, [cell |-> p]) = c
          PROVE  \/ Delivered(i, c)'
                 \/ ToCome(i, p)'
      <4>1. CASE who = "poll" /\ p = rest[i][who][1]
        <5>1. CellOf(i, a) = c /\ a.stamp = n
          BY <1>4, <3>3, <4>1 DEF CellOf, n
        <5>2. Len(z) \in 1..Len(z) /\ z[Len(z)] = a
          BY <1>3
        <5> QED BY <1>2, <1>3, <5>1, <5>2 DEF Delivered, Behind, z, n
      <4> QED BY <3>3, <4>1, InsertBatchInv
    <3> QED BY <3>1, <3>2, <3>3
  <2> QED BY <1>2, <2>1 DEF UnderWay, n
<1>10. ShownInv(i)'
  BY <1>1, <1>2 DEF ShownInv
<1> QED BY <1>6, <1>8, <1>9, <1>10 DEF ReportInv

(* With the queue, all that was in it is lost.                             *)
LEMMA DropReportInv ==
  ASSUME HalfRing, IInv, NEW i \in Fd, NEW who \in Source, InsertAction(i, who), Drops(i, who)
  PROVE  ReportInv(i)'
<1>1. MessageInv(i) /\ OrderInv(i) /\ UnderWay(i) /\ ShownInv(i)
  BY DEF IInv, PollInv, ReportInv
<1>2. /\ opened' = opened /\ Len(queue'[i]) = 0 /\ queue'[i] = <<>> /\ lost[i] \subseteq lost'[i]
      /\ count' = count /\ buffer' = buffer /\ bebot' = bebot /\ shown' = shown
  BY InsertFacts DEF Drops
<1>3. OrderInv(i)' /\ SyncInv(i)' /\ ShownInv(i)'
  BY <1>1, <1>2 DEF OrderInv, SyncInv, ShownInv
<1>4. UnderWay(i)'
  <2> SUFFICES ASSUME opened, ToCome(i, SyncSensor)', <<"poll", count[i]["poll"]>> \notin lost'[i],
                      NEW c \in Reported(i)
               PROVE  \/ Delivered(i, c)'
                      \/ \E p \in Sent(i, "poll") : ToCome(i, p)' /\ CellOf(i, [cell |-> p]) = c
    BY <1>2 DEF UnderWay
  <2>1. /\ who # "poll"
        /\ \A k \in 1..Len(queue[i]) : <<queue[i][k].who, queue[i][k].stamp>> \in lost'[i]
    BY DEF Drops
  <2>2. Delivered(i, c) \/ \E p \in Sent(i, "poll") : ToCome(i, p) /\ CellOf(i, [cell |-> p]) = c
    BY <1>1, <1>2, InsertBatchInv DEF UnderWay
  <2>3. CASE Delivered(i, c)
    <3>1. ASSUME NEW j \in 1..Len(queue[i]), CellOf(i, queue[i][j]) = c,
                 queue[i][j].stamp = count[i]["poll"]
          PROVE  FALSE
      <4>1. queue[i][j].who \in Source /\ queue[i][j].cell \in Sent(i, queue[i][j].who)
        BY <1>1, QueueType DEF MessageInv, IInv
      <4>2. queue[i][j].who = "poll"
        BY <3>1, <4>1, ReportedBy
      <4> QED BY <2>1, <3>1, <4>2
    <3>2. Len(queue[i]) \in Nat
      BY QueueType DEF IInv
    <3>3. buffer[c] = count[i]["poll"]
      BY <2>3, <3>1, <3>2 DEF Delivered, Behind
    <3> QED BY <1>2, <3>3 DEF Delivered, Behind
  <2>4. CASE \E p \in Sent(i, "poll") : ToCome(i, p) /\ CellOf(i, [cell |-> p]) = c
    BY <2>1, <2>4, InsertBatchInv
  <2> QED BY <2>2, <2>3, <2>4
<1> QED BY <1>3, <1>4 DEF ReportInv

(* What is in a queue is of its device.                                    *)
LEMMA InsertMessageInv ==
  ASSUME IInv, NEW i \in Fd, NEW who \in Source, InsertAction(i, who)
  PROVE  ClosedInv(i)' /\ MessageInv(i)'
<1> DEFINE q == queue[i]
           z == queue'[i]
           a == Passed(i, who)
<1>1. MessageInv(i) /\ ClosedInv(i) /\ opened' = opened /\ count' = count
      /\ (Appends(i, who) \/ Drops(i, who))
  BY InsertFacts DEF IInv, PollInv
<1>2. CASE Drops(i, who)
  BY <1>1, <1>2 DEF Drops, ClosedInv, MessageInv
<1>3. CASE Appends(i, who)
  <2>1. /\ Len(q) \in Nat /\ Len(z) = Len(q) + 1 /\ z[Len(q) + 1] = a
        /\ \A k \in 1..Len(q) : z[k] = q[k]
    <3>1. q \in Seq(Message) /\ a \in Message /\ z = Append(q, a) /\ Len(q) \in Nat
      BY <1>3, InsertFacts, QueueType DEF Appends, IInv
    <3> HIDE DEF q, z, a
    <3> QED BY <3>1, AppendProperties
  <2>2. a.cell \in Sent(i, who) /\ a.who = who /\ a.stamp = count[i][who] /\ count[i][who] \in Nat
    <3>1. Head(rest[i][who]) \in Sent(i, who) /\ count[i][who] \in Nat
      BY SMTT(20), InsertFacts DEF IInv, Shape
    <3> QED BY <3>1 DEF Passed
  <2>3. \A k \in 1..Len(q) : q[k].cell \in Sent(i, q[k].who) /\ q[k].stamp <= count[i][q[k].who]
    BY <1>1 DEF MessageInv
  <2> HIDE DEF q, z, a
  <2>4. \A k \in 1..Len(z) : z[k].cell \in Sent(i, z[k].who) /\ z[k].stamp <= count[i][z[k].who]
    <3> TAKE k \in 1..Len(z)
    <3>1. k \in 1..Len(q) \/ k = Len(q) + 1
      BY <2>1
    <3> QED BY <2>1, <2>2, <2>3, <3>1
  <2> QED BY <1>1, <1>3, <2>4 DEF MessageInv, ClosedInv, Appends, z
<1> QED BY <1>1, <1>2, <1>3

LEMMA FetchFacts ==
  ASSUME IInv, FetchAction
  PROVE  /\ fd \in Fd /\ opened /\ queue[fd] # <<>> /\ 1 \in 1..Len(queue[fd])
         /\ queue[fd] \in Seq(Message) /\ Len(queue[fd]) \in Nat
         /\ queue'[fd] \in Seq(Message) /\ Len(queue'[fd]) = Len(queue[fd]) - 1
         /\ \A k \in 1..Len(queue'[fd]) :
              queue'[fd][k] = queue[fd][k + 1] /\ k + 1 \in 1..Len(queue[fd])
         /\ \A k \in 1..Len(queue[fd]) : k = 1 \/ k - 1 \in 1..Len(queue'[fd])
         /\ \A d \in Fd : d # fd => queue'[d] = queue[d] /\ shown'[d] = shown[d]
         /\ \A c \in Cell : buffer'[c] = IF c = CellOf(fd, queue[fd][1]) THEN queue[fd][1].stamp
                                                                        ELSE buffer[c]
         /\ \A c \in Cell : bebot'[c] = IF queue[fd][1].cell = SyncSensor /\ c \in Copied(fd)
                                        THEN buffer[c] ELSE bebot[c]
         /\ shown'[fd] = IF queue[fd][1].cell = SyncSensor THEN queue[fd][1].stamp ELSE shown[fd]
         /\ UNCHANGED <<load, opened, count, todo, rest, lock, lost>>
         /\ TypeOK' /\ Shape'
<1> DEFINE q == queue[fd]
           a == Head(q)
<1>1. /\ q # <<>> /\ taken < ActionCount /\ taken' = taken + 1
      /\ queue' = [queue EXCEPT ![fd] = Tail(q)]
      /\ buffer' = [c \in Cell |-> IF c = CellOf(fd, a) THEN a.stamp ELSE buffer[c]]
      /\ bebot' = [c \in Cell |-> IF a.cell \in {SyncSensor} /\ c \in Copied(fd)
                                  THEN buffer[c] ELSE bebot[c]]
      /\ shown' = [shown EXCEPT ![fd] = IF a.cell = SyncSensor THEN a.stamp ELSE @]
      /\ UNCHANGED <<load, opened, count, todo, rest, lock, fd, pc, lost>>
  BY DEF FetchAction, Fetch, driverVars
<1>2. TypeOK /\ Shape /\ fd \in Fd /\ ClosedInv(fd)
  BY DEF IInv, PollInv, TypeOK
<1>3. q \in Seq(Message) /\ Len(q) \in Nat /\ Len(q) >= 1
  BY <1>1, <1>2, QueueType
<1>4. /\ a = q[1] /\ a \in Message /\ Tail(q) \in Seq(Message) /\ Len(Tail(q)) = Len(q) - 1
      /\ \A k \in 1..Len(Tail(q)) : Tail(q)[k] = q[k + 1]
  <2>1. a = q[1]
    BY <1>3
  <2> HIDE DEF q
  <2> QED BY <1>1, <1>3, <2>1, HeadTailProperties
<1> HIDE DEF a
<1>5. /\ queue'[fd] = Tail(q) /\ \A d \in Fd : d # fd => queue'[d] = queue[d]
  BY <1>1, <1>2 DEF Shape
<1>6. /\ shown'[fd] = IF a.cell = SyncSensor THEN a.stamp ELSE shown[fd]
      /\ \A d \in Fd : d # fd => shown'[d] = shown[d]
  BY <1>1, <1>2 DEF TypeOK
<1>7. Shape'
  BY <1>1, <1>2, <1>4 DEF Shape
<1>8. TypeOK'
  <2>1. a.stamp \in Nat
    BY <1>4 DEF Message
  <2>2. buffer' \in [Cell -> Nat] /\ bebot' \in [Cell -> Nat] /\ shown' \in [Fd -> Nat]
    BY <1>1, <1>2, <2>1 DEF TypeOK
  <2>3. \A d \in Fd : Len(queue'[d]) < QueueSize
    <3>1. \A d \in Fd : Len(queue[d]) < QueueSize /\ QueueSize \in Nat
      BY <1>2, SnapshotAssumption DEF TypeOK
    <3>2. Len(queue'[fd]) = Len(q) - 1 /\ Len(q) < QueueSize
      BY <1>2, <1>4, <1>5, <3>1
    <3>3. Len(queue'[fd]) < QueueSize
      BY <1>2, <1>3, <3>1, <3>2
    <3> QED BY <1>5, <3>1, <3>3
  <2>4. taken' \in 0..ActionCount
    BY <1>1, <1>2, SnapshotAssumption DEF TypeOK
  <2> QED BY <1>1, <1>2, <2>2, <2>3, <2>4 DEF TypeOK
<1>9. opened
  BY <1>1, <1>2 DEF ClosedInv
<1>10. /\ \A k \in 1..Len(queue'[fd]) : queue'[fd][k] = q[k + 1] /\ k + 1 \in 1..Len(q)
       /\ \A k \in 1..Len(q) : k = 1 \/ k - 1 \in 1..Len(queue'[fd])
       /\ 1 \in 1..Len(q)
  BY <1>3, <1>4, <1>5
<1>11. \A c \in Cell : bebot'[c] = IF q[1].cell = SyncSensor /\ c \in Copied(fd)
                                   THEN buffer[c] ELSE bebot[c]
  BY <1>1, <1>4
<1>12. \A c \in Cell : buffer'[c] = IF c = CellOf(fd, q[1]) THEN q[1].stamp ELSE buffer[c]
  BY <1>1, <1>4
<1> QED BY <1>1, <1>2, <1>3, <1>4, <1>5, <1>6, <1>7, <1>8, <1>9, <1>10, <1>11, <1>12

(* What is read goes from the queue to the static array; a later report    *)
(* does not replace it before its sync is met, as syncs are in order.      *)
LEMMA FetchReportInv ==
  ASSUME HalfRing, IInv, FetchAction, NEW i \in Fd, i = fd
  PROVE  ReportInv(i)'
<1> DEFINE q == queue[i]
           z == queue'[i]
           Found(c, m, k) == \/ buffer'[c] = m
                             \/ \E j \in 1..(k - 1) : CellOf(i, z[j]) = c /\ z[j].stamp = m
<1>1. MessageInv(i) /\ OrderInv(i) /\ SyncInv(i) /\ UnderWay(i) /\ ShownInv(i)
  BY DEF IInv, PollInv, ReportInv
<1>2. /\ i \in Fd /\ 1 \in 1..Len(q) /\ Len(q) \in Nat /\ Len(z) = Len(q) - 1
      /\ \A k \in 1..Len(z) : z[k] = q[k + 1] /\ k + 1 \in 1..Len(q)
      /\ \A k \in 1..Len(q) : k = 1 \/ k - 1 \in 1..Len(z)
      /\ opened /\ fd' = fd /\ UNCHANGED <<opened, count, todo, rest, lock, lost>>
  BY FetchFacts DEF FetchAction, Fetch
<1>3. \A k \in 1..Len(q) : /\ q[k].who \in Source /\ q[k].stamp \in Nat
                           /\ q[k].cell \in Sent(i, q[k].who)
                           /\ q[k].stamp <= count[i][q[k].who]
  BY <1>1, <1>2, QueueType DEF IInv, MessageInv
<1>4. \A j, k \in 1..Len(q) : j <= k /\ q[j].who = "poll" /\ q[k].who = "poll" =>
        q[j].stamp <= q[k].stamp
  BY <1>1 DEF OrderInv
<1>5. \A c \in Reported(i) : /\ c \in Cell /\ c \in Copied(i) /\ buffer[c] \in Nat
                             /\ buffer[c] <= count[i]["poll"] /\ count[i]["poll"] \in Nat
                             /\ \A k \in 1..Len(q) : q[k].who = "poll" => buffer[c] <= q[k].stamp
  <2>1. \A c \in Reported(i) : c \in Cell /\ c \in Copied(i) /\ buffer[c] \in Nat
    BY <1>2, ReportedIsCopied DEF IInv, TypeOK
  <2> QED BY <1>1, <1>2, <2>1 DEF OrderInv, IInv, Shape
<1>6. \A c \in Reported(i) :
        IF c = CellOf(i, q[1]) THEN buffer'[c] = q[1].stamp /\ q[1].who = "poll"
                               ELSE buffer'[c] = buffer[c]
  <2> TAKE c \in Reported(i)
  <2>1. buffer'[c] = IF c = CellOf(i, q[1]) THEN q[1].stamp ELSE buffer[c]
    BY <1>5, FetchFacts
  <2>2. c = CellOf(i, q[1]) => q[1].who = "poll"
    BY <1>2, <1>3, ReportedBy
  <2> QED BY <2>1, <2>2
<1>7. /\ \A c \in Cell : bebot'[c] = IF q[1].cell = SyncSensor /\ c \in Copied(i)
                                     THEN buffer[c] ELSE bebot[c]
      /\ shown'[i] = IF q[1].cell = SyncSensor THEN q[1].stamp ELSE shown[i]
  BY FetchFacts
<1>8. \A k \in 1..Len(q) : q[k].cell = SyncSensor => q[k].who = "poll"
  <2>1. SyncSensor \notin Sent(i, "write")
    BY DEF Sent, SyncSensor, SyncActor, Left, Right
  <2> QED BY <1>3, <2>1
<1> HIDE DEF q, z
<1>9. ASSUME NEW c \in Reported(i), NEW m \in Nat, q[1].who = "poll" => q[1].stamp <= m,
             NEW k \in 1..Len(q), Behind(i, c, m, k + 1)
      PROVE  Found(c, m, k)
  <2>1. CASE buffer[c] = m
    <3>1. buffer'[c] = m
      BY <1>2, <1>3, <1>5, <1>6, <1>9, <2>1
    <3> QED BY <3>1
  <2>2. CASE \E j \in 1..k : CellOf(i, q[j]) = c /\ q[j].stamp = m
    <3>1. PICK j \in 1..k : CellOf(i, q[j]) = c /\ q[j].stamp = m
      BY <2>2
    <3>2. CASE j = 1
      BY <1>6, <3>1, <3>2
    <3>3. CASE j # 1
      <4>1. j - 1 \in 1..(k - 1) /\ j - 1 \in 1..Len(z) /\ z[j - 1] = q[j]
        BY <1>2, <3>3
      <4> QED BY <3>1, <4>1
    <3> QED BY <3>2, <3>3
  <2> QED BY <1>2, <1>9, <2>1, <2>2 DEF Behind, q
<1>10. SyncInv(i)'
  <2>1. ASSUME NEW k \in 1..Len(z), z[k].cell = SyncSensor, <<"poll", z[k].stamp>> \notin lost[i],
               NEW c \in Reported(i)
        PROVE  Found(c, z[k].stamp, k)
    <3>1. z[k] = q[k + 1] /\ k + 1 \in 1..Len(q) /\ k \in 1..Len(q) /\ 1 <= k + 1
      BY <1>2
    <3>2. q[k + 1].who = "poll" /\ z[k].stamp \in Nat
      BY <1>3, <1>8, <2>1, <3>1
    <3>3. q[1].who = "poll" => q[1].stamp <= z[k].stamp
      BY <1>2, <1>4, <3>1, <3>2
    <3>4. Behind(i, c, z[k].stamp, k + 1)
      BY <1>1, <2>1, <3>1 DEF SyncInv, q
    <3> HIDE DEF Found
    <3> QED BY <1>9, <3>1, <3>2, <3>3, <3>4
  <2> QED BY <1>2, <2>1 DEF SyncInv, Behind, z
<1>11. UnderWay(i)'
  <2>1. \A p : ToCome(i, p)' <=> ToCome(i, p)
    BY <1>2 DEF ToCome
  <2>2. ASSUME NEW c \in Reported(i), Delivered(i, c) PROVE Delivered(i, c)'
    <3>1. Behind(i, c, count[i]["poll"], Len(q) + 1) /\ Len(q) \in 1..Len(q)
      BY <1>2, <2>2 DEF Delivered, q
    <3>2. q[1].who = "poll" => q[1].stamp <= count[i]["poll"]
      BY <1>2, <1>3
    <3>3. count[i]["poll"] \in Nat
      BY <1>5
    <3>4. Found(c, count[i]["poll"], Len(q))
      <4> HIDE DEF Found
      <4> QED BY <1>9, <3>1, <3>2, <3>3
    <3>5. Len(q) - 1 = (Len(z) + 1) - 1
      BY <1>2
    <3> QED BY <1>2, <3>4, <3>5 DEF Delivered, Behind, z
  <2> QED BY <1>1, <1>2, <2>1, <2>2 DEF UnderWay
<1>12. OrderInv(i)'
  <2>2. ASSUME NEW j \in 1..Len(z), NEW k \in 1..Len(z), j <= k, z[j].who = "poll", z[k].who = "poll"
        PROVE  z[j].stamp <= z[k].stamp
    <3>1. /\ z[j] = q[j + 1] /\ j + 1 \in 1..Len(q) /\ z[k] = q[k + 1] /\ k + 1 \in 1..Len(q)
          /\ j + 1 <= k + 1
      BY <1>2, <2>2
    <3> QED BY <1>4, <2>2, <3>1
  <2>3. ASSUME NEW c \in Reported(i)
        PROVE  /\ buffer'[c] <= count[i]["poll"]
               /\ \A k \in 1..Len(z) : z[k].who = "poll" => buffer'[c] <= z[k].stamp
    <3>1. CASE c = CellOf(i, q[1])
      <4>1. buffer'[c] = q[1].stamp /\ q[1].who = "poll"
        BY <1>6, <3>1
      <4>2. \A k \in 1..Len(z) : z[k] = q[k + 1] /\ k + 1 \in 1..Len(q) /\ 1 <= k + 1
        BY <1>2
      <4> QED BY <1>2, <1>3, <1>4, <4>1, <4>2
    <3>2. CASE c # CellOf(i, q[1])
      BY <1>2, <1>5, <1>6, <3>2
    <3> QED BY <3>1, <3>2
  <2> QED BY <1>2, <2>2, <2>3 DEF OrderInv, z
<1>13. ShownInv(i)'
  <2>1. CASE q[1].cell = SyncSensor
    <3>1. ASSUME <<"poll", q[1].stamp>> \notin lost[i], NEW c \in Reported(i)
          PROVE  bebot'[c] = q[1].stamp
      <4>1. Behind(i, c, q[1].stamp, 1)
        BY <1>1, <1>2, <2>1, <3>1 DEF SyncInv, q
      <4>2. buffer[c] = q[1].stamp
        BY <4>1 DEF Behind
      <4> QED BY <1>5, <1>7, <2>1, <4>2
    <3> QED BY <1>2, <1>7, <2>1, <3>1 DEF ShownInv
  <2>2. CASE q[1].cell # SyncSensor
    BY <1>1, <1>2, <1>5, <1>7, <2>2 DEF ShownInv
  <2> QED BY <2>1, <2>2
<1> QED BY <1>10, <1>11, <1>12, <1>13 DEF ReportInv

LEMMA FetchMessageInv ==
  ASSUME IInv, FetchAction, NEW i \in Fd, i = fd
  PROVE  BatchInv(i)' /\ ClosedInv(i)' /\ MessageInv(i)'
<1>1. MessageInv(i)
  BY DEF IInv, PollInv
<1>2. /\ \A k \in 1..Len(queue'[i]) :
           queue'[i][k] = queue[i][k + 1] /\ k + 1 \in 1..Len(queue[i])
      /\ opened /\ UNCHANGED <<opened, count, todo, rest, lock>>
  BY FetchFacts
<1>3. BatchInv(i)'
  <2>1. BatchInv(i) /\ UNCHANGED <<todo, rest, lock>>
    BY <1>2 DEF IInv, PollInv
  <2> QED BY SMTT(20), <2>1 DEF BatchInv
<1>4. ClosedInv(i)' /\ MessageInv(i)'
  BY <1>1, <1>2 DEF ClosedInv, MessageInv
<1> QED BY <1>3, <1>4

-----------------------------------------------------------------------------
LEMMA WheelCells ==
  /\ Left # Right /\ Left \notin {SyncSensor, SyncActor} /\ Right \notin {SyncSensor, SyncActor}
  /\ 0 \in Fd /\ Left \in Cell /\ Right \in Cell /\ Left \in Copied(0) /\ Right \in Copied(0)
  /\ Left \notin Sent(0, "poll") /\ Right \notin Sent(0, "poll")
<1>1. Left \in Cell /\ Right \in Cell /\ 0 \in Fd
  BY SnapshotAssumption DEF Cell, Left, Right, Fd
<1>2. /\ Left # Right /\ Left \notin {SyncSensor, SyncActor}
      /\ Right \notin {SyncSensor, SyncActor}
  BY DEF Left, Right, SyncSensor, SyncActor
<1>3. Left \in Copied(0) /\ Right \in Copied(0)
  BY <1>1 DEF Copied, Left, Right
<1>4. Left \notin Reported(0) /\ Right \notin Reported(0)
  BY DEF Reported, Left, Right
<1> QED BY <1>1, <1>2, <1>3, <1>4 DEF Sent

LEMMA HalfwayCases ==
  ASSUME WriteInv
  PROVE  /\ rest[0]["write"] = <<Left, Right>> => ~Halfway
         /\ rest[0]["write"] = <<SyncActor>> => ~Halfway
         /\ rest[0]["write"] = <<>> => ~Halfway
<1>1. <<Left, Right>> # <<Right>> /\ <<SyncActor>> # <<Right>> /\ <<>> # <<Right>>
  BY DEF SyncActor, Right
<1> QED BY <1>1 DEF Halfway

(* The right wheel follows the left one, as both are passed under the      *)
(* lock; with an overrun between them the write is lost.                   *)
LEMMA InsertWriteInv ==
  ASSUME IInv, NEW who \in Source, InsertAction(0, who)
  PROVE  WriteInv'
<1> DEFINE q == queue[0]
           z == queue'[0]
           a == Passed(0, who)
           n == count[0]["write"]
           r == rest[0]["write"]
<1>1. /\ WriteInv /\ ClosedInv(0) /\ 0 \in Fd
      /\ Len(q) \in Nat /\ (q # <<>> => Len(q) >= 1) /\ (q = <<>> => Len(q) = 0)
  BY WheelCells, QueueType DEF IInv, PollInv
<1>2. /\ opened' = opened /\ count' = count /\ todo' = todo /\ buffer' = buffer /\ bebot' = bebot
      /\ lost[0] \subseteq lost'[0]
  BY WheelCells, InsertFacts DEF Appends, Drops
<1>3. /\ a.cell = rest[0][who][1] /\ a.cell \in Sent(0, who) /\ a.stamp = count[0][who]
      /\ rest[0][who] # <<>> /\ rest'[0][who] = Tail(rest[0][who])
      /\ \A w \in Source : w # who => rest'[0][w] = <<>> /\ rest[0][w] = <<>>
  BY ZenonT(30), WheelCells, InsertFacts DEF Passed
<1>4. \/ /\ who = "write" /\ r = <<Left, Right>> /\ rest'[0]["write"] = <<Right>>
         /\ a.cell = Left /\ a.stamp = n /\ ~Halfway /\ Halfway'
      \/ /\ who = "write" /\ r = <<Right>> /\ rest'[0]["write"] = <<>>
         /\ a.cell = Right /\ a.stamp = n /\ Halfway /\ ~Halfway'
      \/ /\ a.cell # Left /\ a.cell # Right /\ ~Halfway /\ ~Halfway' /\ rest'[0]["write"] = <<>>
  <2>0. <<>> # <<Right>>
    OBVIOUS
  <2>1. CASE who = "poll"
    <3>1. rest'[0]["write"] = <<>> /\ r = <<>>
      BY <1>3, <2>1
    <3>2. ~Halfway /\ ~Halfway'
      BY <2>0, <3>1 DEF Halfway
    <3> QED BY <1>3, <2>1, <3>1, <3>2, WheelCells
  <2>2. CASE who = "write" /\ r = <<Left, Right>>
    <3>1. a.cell = Left /\ rest'[0]["write"] = <<Right>>
      BY <1>3, <2>2
    <3> QED BY <1>1, <1>3, <2>2, <3>1, HalfwayCases DEF Halfway
  <2>3. CASE who = "write" /\ r = <<Right>>
    <3>1. a.cell = Right /\ rest'[0]["write"] = <<>>
      BY <1>3, <2>3
    <3> QED BY <1>3, <2>0, <2>3, <3>1 DEF Halfway
  <2>4. CASE who = "write" /\ r = <<SyncActor>>
    <3>1. a.cell = SyncActor /\ rest'[0]["write"] = <<>>
      BY <1>3, <2>4
    <3>2. ~Halfway /\ ~Halfway'
      BY <1>1, <2>0, <2>4, <3>1, HalfwayCases DEF Halfway
    <3> QED BY <3>1, <3>2, WheelCells
  <2> QED BY <1>1, <1>3, <2>1, <2>2, <2>3, <2>4 DEF WriteInv, WriteBatchInv
<1>5. /\ WriteBatchInv /\ LeftInv /\ RightInv /\ HalfwayInv /\ BufferInv
      /\ Same(bebot[Left], bebot[Right])
  BY <1>1 DEF WriteInv
<1>6. WriteBatchInv'
  BY <1>2, <1>4, <1>5 DEF WriteBatchInv
<1>7. \A x, y : Same(x, y) => x = y \/ <<"write", x>> \in lost'[0] \/ <<"write", y>> \in lost'[0]
  BY <1>2 DEF Same
<1>8. Same(bebot[Left], bebot[Right])'
  BY <1>2, <1>5, <1>7 DEF Same
<1>9. CASE Drops(0, who)
  <2>1. /\ z = <<>> /\ Len(z) = 0
        /\ \/ ~opened /\ q = <<>>
           \/ /\ opened /\ <<who, count[0][who]>> \in lost'[0]
              /\ \A k \in 1..Len(q) : <<q[k].who, q[k].stamp>> \in lost'[0]
    BY <1>9 DEF Drops
  <2>2. LeftInv' /\ RightInv'
    BY <2>1 DEF LeftInv, RightInv
  <2>3. HalfwayInv'
    BY <1>2, <1>4, <2>1 DEF HalfwayInv
  <2>4. BufferInv'
    <3>1. CASE Same(buffer[Left], buffer[Right])
      BY <1>2, <1>7, <3>1 DEF BufferInv, Same
    <3>2. CASE q # <<>> /\ q[1].cell = Right /\ q[1].stamp = buffer[Left]
      <4>1. q[1].who = "write"
        <5>1. q[1].cell \in Sent(0, q[1].who) /\ q[1].who \in Source
          BY <1>1, <3>2, QueueType DEF IInv, PollInv, MessageInv
        <5> QED BY <3>2, <5>1, WheelCells
      <4>2. <<"write", buffer[Left]>> \in lost'[0]
        BY <1>1, <2>1, <3>2, <4>1
      <4> QED BY <1>2, <4>2 DEF BufferInv, Same
    <3>3. CASE opened /\ q = <<>> /\ Halfway /\ n = buffer[Left]
      BY <1>2, <1>4, <2>1, <3>3 DEF BufferInv, Same
    <3> QED BY <1>5, <3>1, <3>2, <3>3 DEF BufferInv
  <2> QED BY <1>6, <1>8, <2>2, <2>3, <2>4 DEF WriteInv
<1>10. CASE Appends(0, who)
  <2>1. /\ Len(z) = Len(q) + 1 /\ z # <<>> /\ z[Len(q) + 1] = a
        /\ \A k \in 1..Len(q) : z[k] = q[k]
        /\ opened
    <3>1. q \in Seq(Message) /\ a \in Message /\ z = Append(q, a) /\ opened
      <4>1. a \in Message
        BY <1>1, InsertFacts, Zenon
      <4>2. q \in Seq(Message)
        BY <1>1 DEF IInv, Shape
      <4> QED BY <1>10, <4>1, <4>2 DEF Appends
    <3> HIDE DEF q, z, a
    <3> QED BY <3>1, AppendProperties
  <2>2. \A k \in 1..Len(z) : k \in 1..Len(q) \/ k = Len(q) + 1
    BY <1>1, <2>1
  <2> HIDE DEF q, z, a, n, r
  <2>3. LeftInv'
    <3> SUFFICES ASSUME NEW k \in 1..Len(z), z[k].cell = Left
                 PROVE  IF k < Len(z)
                        THEN z[k + 1].cell = Right /\ z[k + 1].stamp = z[k].stamp
                        ELSE Halfway' /\ z[k].stamp = n
      BY <1>2 DEF LeftInv, z, n
    <3>1. CASE k \in 1..Len(q) /\ k < Len(q)
      <4>1. k + 1 \in 1..Len(q) /\ z[k + 1] = q[k + 1] /\ z[k] = q[k] /\ k < Len(z)
        BY <1>1, <2>1, <3>1
      <4> QED BY <1>5, <3>1, <4>1 DEF LeftInv, q
    <3>2. CASE k \in 1..Len(q) /\ k = Len(q)
      <4>1. z[k] = q[k] /\ k < Len(z) /\ z[k + 1] = a
        BY <1>1, <2>1, <3>2
      <4>2. Halfway /\ q[k].stamp = n
        BY <1>5, <3>2, <4>1 DEF LeftInv, q, n
      <4> QED BY <1>4, <4>1, <4>2
    <3>3. CASE k = Len(q) + 1
      <4>1. z[k] = a /\ ~(k < Len(z))
        BY <1>1, <2>1, <3>3
      <4> QED BY <1>4, <4>1, WheelCells
    <3> QED BY <1>1, <2>2, <3>1, <3>2, <3>3
  <2>4. RightInv'
    <3> SUFFICES ASSUME NEW k \in 1..Len(z), z[k].cell = Right
                 PROVE  IF k > 1
                        THEN z[k - 1].cell = Left /\ z[k - 1].stamp = z[k].stamp
                        ELSE buffer[Left] = z[k].stamp \/ <<"write", z[k].stamp>> \in lost'[0]
      BY <1>2 DEF RightInv, z
    <3>1. CASE k \in 1..Len(q)
      <4>1. z[k] = q[k] /\ (k > 1 => k - 1 \in 1..Len(q) /\ z[k - 1] = q[k - 1])
        BY <1>1, <2>1, <3>1
      <4> QED BY <1>2, <1>5, <3>1, <4>1 DEF RightInv, q
    <3>2. CASE k = Len(q) + 1
      <4>1. z[k] = a /\ a.stamp = n /\ Halfway
        BY <1>4, <2>1, <3>2, WheelCells
      <4>2. CASE q # <<>>
        <5>1. q[Len(q)].cell = Left /\ q[Len(q)].stamp = n
          BY <1>5, <2>1, <4>1, <4>2 DEF HalfwayInv, q, n
        <5>2. k > 1 /\ k - 1 = Len(q) /\ z[k - 1] = q[Len(q)]
          BY <1>1, <2>1, <3>2, <4>2
        <5> QED BY <4>1, <5>1, <5>2
      <4>3. CASE q = <<>>
        <5>1. ~(k > 1)
          BY <1>1, <3>2, <4>3
        <5>2. buffer[Left] = n \/ <<"write", n>> \in lost[0]
          BY <1>5, <2>1, <4>1, <4>3 DEF HalfwayInv, q, n
        <5> QED BY <1>2, <4>1, <5>1, <5>2
      <4> QED BY <4>2, <4>3
    <3> QED BY <2>2, <3>1, <3>2
  <2>5. HalfwayInv'
    <3> SUFFICES ASSUME Halfway' PROVE z[Len(z)].cell = Left /\ z[Len(z)].stamp = n
      BY <1>2, <2>1 DEF HalfwayInv, z, n
    <3> QED BY <1>4, <2>1
  <2>6. BufferInv'
    <3>1. CASE Same(buffer[Left], buffer[Right])
      BY <1>2, <1>7, <3>1 DEF BufferInv, Same
    <3>2. CASE q # <<>> /\ q[1].cell = Right /\ q[1].stamp = buffer[Left]
      <4>1. z[1] = q[1]
        BY <1>1, <2>1, <3>2
      <4> QED BY <1>2, <2>1, <3>2, <4>1 DEF BufferInv, z
    <3>3. CASE q = <<>> /\ Halfway /\ n = buffer[Left]
      <4>1. z[1] = a /\ a.cell = Right /\ a.stamp = n
        BY <1>1, <1>4, <2>1, <3>3
      <4> QED BY <1>2, <2>1, <3>3, <4>1 DEF BufferInv, z
    <3> QED BY <1>5, <3>1, <3>2, <3>3 DEF BufferInv, q, n
  <2> QED BY <1>6, <1>8, <2>3, <2>4, <2>5, <2>6 DEF WriteInv
<1> QED BY <1>1, <1>9, <1>10, InsertFacts

LEMMA InsertIInv ==
  ASSUME IInv, NEW i \in Fd, NEW who \in Source, InsertAction(i, who)
  PROVE  IInv'
<1>1. /\ \A d \in Fd : d # i => /\ rest'[d] = rest[d] /\ lock'[d] = lock[d]
                                /\ queue'[d] = queue[d] /\ lost'[d] = lost[d]
      /\ UNCHANGED <<load, opened, count, todo, fd, pc, taken, buffer, bebot, shown>>
      /\ TypeOK' /\ Shape' /\ (Appends(i, who) \/ Drops(i, who))
  BY InsertFacts
<1>2. ASSUME NEW d \in Fd PROVE PollInv(d)'
  <2>1. CASE d = i
    <3>1. BatchInv(d)' /\ ClosedInv(d)' /\ MessageInv(d)'
      BY <2>1, InsertBatchInv, InsertMessageInv
    <3>2. HalfRing => ReportInv(d)'
      BY <1>1, <2>1, AppendReportInv, DropReportInv
    <3> QED BY <3>1, <3>2 DEF PollInv
  <2>2. CASE d # i
    <3>1. PollInv(d)
      BY DEF IInv
    <3> QED BY <1>1, <2>2, <3>1, PollFrame
  <2> QED BY <2>1, <2>2
<1>3. WriteInv'
  <2>1. CASE i = 0
    BY <2>1, InsertWriteInv
  <2>2. CASE i # 0
    <3>1. WriteInv /\ 0 \in Fd
      BY WheelCells DEF IInv
    <3> QED BY <1>1, <2>2, <3>1, WriteFrame
  <2> QED BY <2>1, <2>2
<1> QED BY <1>1, <1>2, <1>3 DEF IInv

(* Reading takes the left wheel first, and the right one of the same write *)
(* is then at the head, so that no sync is met between them.               *)
LEMMA FetchWriteInv ==
  ASSUME IInv, FetchAction, fd = 0
  PROVE  WriteInv'
<1> DEFINE q == queue[0]
           z == queue'[0]
           n == count[0]["write"]
<1>1. WriteBatchInv /\ LeftInv /\ RightInv /\ HalfwayInv /\ BufferInv /\ Same(bebot[Left], bebot[Right])
  BY DEF IInv, WriteInv
<1>2. /\ 1 \in 1..Len(q) /\ q # <<>> /\ opened /\ Len(q) \in Nat /\ Len(z) = Len(q) - 1
      /\ \A k \in 1..Len(z) : z[k] = q[k + 1] /\ k + 1 \in 1..Len(q)
      /\ UNCHANGED <<opened, count, todo, rest, lost>>
  BY FetchFacts
<1>3. z = <<>> <=> Len(z) = 0
  BY FetchFacts, EmptySeq
<1>4. /\ buffer'[Left] = IF q[1].cell = Left THEN q[1].stamp ELSE buffer[Left]
      /\ buffer'[Right] = IF q[1].cell = Right THEN q[1].stamp ELSE buffer[Right]
  <2>1. /\ Left = CellOf(0, q[1]) <=> Left = q[1].cell
        /\ Right = CellOf(0, q[1]) <=> Right = q[1].cell
    BY DEF CellOf, Left, Right
  <2>2. \A c \in {Left, Right} : buffer'[c] = IF c = CellOf(0, q[1]) THEN q[1].stamp ELSE buffer[c]
    BY WheelCells, FetchFacts
  <2> QED BY <2>1, <2>2
<1>5. \A c \in {Left, Right} : bebot'[c] = IF q[1].cell = SyncSensor THEN buffer[c] ELSE bebot[c]
  BY WheelCells, FetchFacts
<1>6. Halfway' <=> Halfway
  BY <1>2 DEF Halfway
<1> HIDE DEF q, z, n
<1>7. WriteBatchInv'
  BY <1>1, <1>2 DEF WriteBatchInv
<1>8. LeftInv'
  <2> SUFFICES ASSUME NEW k \in 1..Len(z), z[k].cell = Left
               PROVE  IF k < Len(z)
                      THEN z[k + 1].cell = Right /\ z[k + 1].stamp = z[k].stamp
                      ELSE Halfway /\ z[k].stamp = n
    BY <1>2, <1>6 DEF LeftInv, z, n
  <2>1. z[k] = q[k + 1] /\ k + 1 \in 1..Len(q) /\ (k < Len(z) <=> k + 1 < Len(q))
    BY <1>2
  <2>2. k < Len(z) => z[k + 1] = q[k + 1 + 1]
    BY <1>2
  <2> QED BY <1>1, <2>1, <2>2 DEF LeftInv, q, n
<1>9. ASSUME NEW k \in 1..Len(z), z[k].cell = Right
      PROVE  IF k > 1
             THEN z[k - 1].cell = Left /\ z[k - 1].stamp = z[k].stamp
             ELSE q[1].cell = Left /\ buffer'[Left] = z[k].stamp
  <2>1. z[k] = q[k + 1] /\ k + 1 \in 1..Len(q) /\ k + 1 > 1 /\ k + 1 - 1 = k
    BY <1>2
  <2>2. q[k].cell = Left /\ q[k].stamp = z[k].stamp
    <3>1. PICK m \in 1..Len(q) : m = k + 1 /\ m > 1 /\ m - 1 = k /\ q[m] = z[k]
      BY <2>1
    <3>2. q[m - 1].cell = Left /\ q[m - 1].stamp = q[m].stamp
      BY <1>1, <1>9, <3>1 DEF RightInv, q
    <3> QED BY <3>1, <3>2
  <2>3. CASE k > 1
    <3>1. z[k - 1] = q[k]
      BY <1>2, <2>3
    <3> QED BY <2>2, <2>3, <3>1
  <2>4. CASE ~(k > 1)
    <3>1. k = 1
      BY <2>4, <1>2
    <3> QED BY <1>4, <2>2, <2>4, <3>1
  <2> QED BY <2>3, <2>4
<1>10. RightInv'
  BY <1>2, <1>9 DEF RightInv, z
<1>11. CASE q[1].cell = Left
  <2>1. CASE Len(q) > 1
    <3>1. z # <<>> /\ z[1] = q[2] /\ Len(z) \in 1..Len(z) /\ z[Len(z)] = q[Len(q)] /\ 1 < Len(q)
      <4>1. 1 \in 1..Len(z) /\ Len(z) \in 1..Len(z) /\ Len(z) + 1 = Len(q) /\ 1 + 1 = 2
        BY <1>2, <2>1
      <4> QED BY <1>2, <1>3, <2>1, <4>1
    <3>2. q[2].cell = Right /\ q[2].stamp = q[1].stamp
      <4>1. 1 + 1 = 2
        OBVIOUS
      <4> QED BY <1>1, <1>2, <1>11, <3>1, <4>1 DEF LeftInv, q
    <3>3. BufferInv'
      BY <1>4, <1>11, WheelCells, <3>1, <3>2 DEF BufferInv, z
    <3>4. HalfwayInv'
      BY <1>1, <1>2, <1>6, <3>1 DEF HalfwayInv, q, z
    <3> QED BY <3>3, <3>4, <1>1, <1>2, <1>5, <1>7, <1>8, <1>10, <1>11, WheelCells DEF WriteInv, Same
  <2>2. CASE Len(q) = 1
    <3>1. z = <<>> /\ Halfway /\ q[1].stamp = n
      BY <1>1, <1>2, <1>3, <1>11, <2>2 DEF LeftInv, q, n
    <3>2. BufferInv'
      BY <1>2, <1>4, <1>6, <1>11, <3>1 DEF BufferInv, z, n
    <3>3. HalfwayInv'
      BY <1>2, <1>4, <1>11, <3>1 DEF HalfwayInv, z, n
    <3> QED BY <3>2, <3>3, <1>1, <1>2, <1>5, <1>7, <1>8, <1>10, <1>11, WheelCells DEF WriteInv, Same
  <2> QED BY <1>2, <2>1, <2>2
<1>12. CASE q[1].cell # Left
  <2>1. buffer'[Left] = buffer[Left]
    BY <1>4, <1>12
  <2>2. HalfwayInv'
    <3> SUFFICES ASSUME Halfway
                 PROVE  z # <<>> /\ z[Len(z)].cell = Left /\ z[Len(z)].stamp = n
      BY <1>2, <1>6 DEF HalfwayInv, z, n
    <3>1. q[Len(q)].cell = Left /\ q[Len(q)].stamp = n
      BY <1>1, <1>2 DEF HalfwayInv, q, n
    <3>2. Len(q) # 1
      BY <1>12, <3>1
    <3>3. Len(z) \in 1..Len(z) /\ Len(z) + 1 = Len(q)
      BY <1>2, <3>2
    <3> QED BY <1>2, <1>3, <3>1, <3>3
  <2>3. Same(buffer[Left], buffer[Right]) \/ (q[1].cell = Right /\ q[1].stamp = buffer[Left])
    BY <1>1, <1>2 DEF BufferInv, q
  <2>4. BufferInv'
    <3>1. CASE q[1].cell = Right
      <4>1. ~(1 > 1) /\ 1 \in 1..Len(q)
        BY <1>2
      <4>2. buffer[Left] = q[1].stamp \/ <<"write", q[1].stamp>> \in lost[0]
        BY <1>1, <3>1, <4>1 DEF RightInv, q
      <4> QED BY <1>2, <1>4, <2>1, <3>1, <4>2 DEF BufferInv, Same
    <3>2. CASE q[1].cell # Right
      <4>1. buffer'[Right] = buffer[Right]
        BY <1>4, <3>2
      <4> QED BY <1>2, <2>1, <2>3, <3>2, <4>1 DEF BufferInv, Same
    <3> QED BY <3>1, <3>2
  <2>5. Same(bebot[Left], bebot[Right])'
    <3>1. CASE q[1].cell = SyncSensor
      BY <1>2, <1>5, <2>3, <3>1, WheelCells DEF Same
    <3>2. CASE q[1].cell # SyncSensor
      BY <1>1, <1>2, <1>5, <3>2 DEF Same
    <3> QED BY <3>1, <3>2
  <2> QED BY <1>7, <1>8, <1>10, <2>2, <2>4, <2>5 DEF WriteInv
<1> QED BY <1>11, <1>12

LEMMA FetchIInv ==
  ASSUME IInv, FetchAction
  PROVE  IInv'
<1> DEFINE a == queue[fd][1]
<1>1. /\ fd \in Fd /\ UNCHANGED <<load, opened, count, todo, rest, lock, lost>>
      /\ \A d \in Fd : d # fd => queue'[d] = queue[d] /\ shown'[d] = shown[d]
      /\ \A c \in Cell : buffer'[c] = IF c = CellOf(fd, a) THEN a.stamp ELSE buffer[c]
      /\ \A c \in Cell : c \notin Copied(fd) => bebot'[c] = bebot[c]
      /\ TypeOK' /\ Shape'
  BY FetchFacts
<1>2. a.who \in Source /\ a.cell \in Sent(fd, a.who)
  BY FetchFacts, QueueType DEF IInv, PollInv, MessageInv
<1> HIDE DEF a
<1>3. ASSUME NEW d \in Fd PROVE PollInv(d)'
  <2>1. CASE d = fd
    <3>1. BatchInv(d)' /\ ClosedInv(d)' /\ MessageInv(d)'
      BY <2>1, FetchMessageInv
    <3>2. HalfRing => ReportInv(d)'
      BY <2>1, FetchReportInv
    <3> QED BY <3>1, <3>2 DEF PollInv
  <2>2. CASE d # fd
    <3>1. ASSUME HalfRing, NEW c \in Reported(d) PROVE buffer'[c] = buffer[c] /\ bebot'[c] = bebot[c]
      <4>1. c \in Cell /\ c \in Copied(d)
        BY <3>1, ReportedIsCopied
      <4>2. c \notin Copied(fd)
        BY <1>1, <2>2, <4>1, CopiedApart
      <4>3. c # CellOf(fd, a)
        BY <1>1, <1>2, <2>2, <3>1, ReportedBy
      <4> QED BY <1>1, <4>1, <4>2, <4>3
    <3>2. PollInv(d)
      BY DEF IInv
    <3> QED BY <1>1, <2>2, <3>1, <3>2, PollFrame
  <2> QED BY <2>1, <2>2
<1>4. WriteInv'
  <2>1. CASE fd = 0
    BY <2>1, FetchWriteInv
  <2>2. CASE fd # 0
    <3>1. WriteInv
      BY DEF IInv
    <3>2. \A c \in {Left, Right} : c \in Cell /\ c \notin Copied(fd)
      BY <1>1, <2>2, WheelCells, CopiedApart
    <3>3. \A c \in {Left, Right} : c # CellOf(fd, a)
      <4>1. a.cell \notin {Left, Right}
        BY <1>2, <2>2 DEF Sent, Left, Right, SyncSensor, SyncActor
      <4> QED BY <4>1 DEF CellOf, Left, Right
    <3> QED BY <1>1, <2>2, <3>1, <3>2, <3>3, WheelCells, WriteFrame
  <2> QED BY <2>1, <2>2
<1> QED BY <1>1, <1>3, <1>4 DEF IInv

LEMMA StepIInv == ASSUME IInv, [Next]_vars PROVE IInv'
<1>1. CASE UNCHANGED vars
  <2> USE <1>1 DEF vars, driverVars, clientVars, readVars
  <2>1. TypeOK' /\ Shape'
    BY DEF IInv, TypeOK, Shape
  <2>2. ASSUME NEW d \in Fd PROVE PollInv(d)'
    <3>1. PollInv(d)
      BY DEF IInv
    <3> QED BY <3>1, PollFrame
  <2>3. WriteInv'
    BY WriteFrame DEF IInv
  <2> QED BY <2>1, <2>2, <2>3 DEF IInv
<1>2. CASE DriverNext
  BY <1>2, SpeedTransferFailsIInv, BeginIInv, PassBatchIInv, InsertIInv DEF DriverNext
<1>3. CASE OpenFiles
  BY <1>3, OpenFilesIInv
<1>4. CASE UpdateNext \/ ReadFails
  BY <1>4, UpdateIInv, FetchIInv DEF UpdateNext
<1> QED BY <1>1, <1>2, <1>3, <1>4 DEF Next

-----------------------------------------------------------------------------
(* What was passed, lost, read and shown of polls and writes fits together *)
(* in every state.                                                         *)
THEOREM Invariance == Spec => []IInv
<1>1. Init => IInv
  BY InitIInv
<1>2. IInv /\ [Next]_vars => IInv'
  BY StepIInv
<1> QED BY <1>1, <1>2, PTL DEF Spec

(* Every variable has its type: no queue is longer than its ring, and a    *)
(* read takes no more actions than its buffer holds.                       *)
THEOREM TypeCorrect == Spec => []TypeOK
<1>1. IInv => TypeOK
  BY DEF IInv
<1> QED BY <1>1, Invariance, PTL

(* What a program sees of a device is one poll: however polls come in      *)
(* pieces, fail half way, and are cut by reads, the sync takes over what   *)
(* its poll reported, unless an action of that poll was lost; on robots    *)
(* whose infrared devices have half of the sensors each, as bebot_update   *)
(* copies no more.                                                         *)
THEOREM SnapshotOfOnePoll ==
  ASSUME HalfRing
  PROVE  Spec => []SnapshotIsOnePoll
<1>1. IInv => SnapshotIsOnePoll
  BY DEF IInv, PollInv, ReportInv, ShownInv, SnapshotIsOnePoll
<1> QED BY <1>1, Invariance, PTL

(* The requested speeds a program sees are those of one write, unless a    *)
(* report of it was lost: both wheels are passed under the lock, and the   *)
(* sync of a write is not taken for that of a poll.                        *)
THEOREM RequestOfOneWrite == Spec => []RequestIsOneWrite
<1>1. IInv => RequestIsOneWrite
  BY DEF IInv, WriteInv, Same, RequestIsOneWrite, Left, Right
<1> QED BY <1>1, Invariance, PTL
=============================================================================
