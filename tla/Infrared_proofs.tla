--------------------------- MODULE Infrared_proofs --------------------------
(***************************************************************************)
(* Proofs about the two drivers of the infrared sensors.  That of the      *)
(* kernel keeps the mask of its writers in force: for any number of        *)
(* writers, either kind of device, and any sensors they switch.  That of   *)
(* Player answers the poses of the slots it fills: for any number of       *)
(* devices, with any numbers of sensors, whichever of them open.           *)
(***************************************************************************)
EXTENDS BebotIr, PlayerIr, TLAPS, WellFoundedInduction

Wishes == (UNION {[bits -> BOOLEAN] : bits \in SUBSET Switch}) \union {<<>>}

MaskType ==
  /\ irDrv \in {"absent", "bound", "gone"}
  /\ irMutex \in Writer \union {NoWriter}
  /\ irPc \in [Writer -> {"idle", "copy", "sync", "report"}]
  /\ wish \in [Writer -> Wishes]

(* Whoever is inside a write owns the mutex.                               *)
WriterOwnsMutex == \A w \in Writer : irPc[w] # "idle" <=> irMutex = w

(* What a writer asked for is in the mask once its bits are set ...        *)
WishInMask ==
  \A w \in Writer : irPc[w] \in {"sync", "report"} =>
    \A b \in DOMAIN wish[w] \intersect Sensors : b \in enable <=> wish[w][b]

(* ... and the mask is in the register once it is transferred.             *)
MaskInRegister ==
  \A w \in Writer : irPc[w] = "report" => register \intersect Sensors = enable \intersect Sensors

(* The last report holds until the next transfer, unless one failed: a     *)
(* write whose copy fails has not touched the register.                    *)
ReportHolds ==
  (\A w \in Writer : irPc[w] # "report") /\ ~irFault /\ told # <<>> =>
    told[1] = register \intersect Sensors

NothingBeforeProbe == irDrv = "absent" => told = <<>> /\ irMutex = NoWriter

MaskInv ==
  /\ MaskType /\ WriterOwnsMutex /\ WishInMask /\ MaskInRegister
  /\ ReportHolds /\ NothingBeforeProbe

-----------------------------------------------------------------------------
(* A register of a byte keeps all of six sensors.                          *)
LEMMA RegisterKeepsSensors ==
  \A mask : (IF SensorCount = 6 THEN mask \intersect Byte ELSE mask) \intersect Sensors
              = mask \intersect Sensors
  BY SensorAssumption DEF Sensors, Byte

(* A wish has a truth value for each of its bits.                          *)
LEMMA WishesAreBoolean ==
  \A f \in Wishes : \A b \in DOMAIN f : f[b] \in BOOLEAN
<1> SUFFICES ASSUME NEW f \in Wishes, NEW b \in DOMAIN f
             PROVE  f[b] \in BOOLEAN
  OBVIOUS
<1>1. CASE f = <<>>
  BY <1>1
<1>2. CASE f # <<>>
  <2>1. PICK bits \in SUBSET Switch : f \in [bits -> BOOLEAN]
    BY <1>2 DEF Wishes
  <2> QED BY <2>1
<1> QED BY <1>1, <1>2

(* Nothing is wished before a device is there.                             *)
LEMMA MaskInvInitially == ASSUME NEW there, BebotIrInit(there) PROVE MaskInv
  BY IrWriterAssumption
  DEF BebotIrInit, MaskInv, MaskType, Wishes, WriterOwnsMutex, WishInMask, MaskInRegister,
      ReportHolds, NothingBeforeProbe

(* Nobody writes while the driver is bound or unbound.                     *)
LEMMA ProbeAndRemove ==
  ASSUME MaskInv, bebot_ir_probe \/ bebot_ir_probe_fails \/ bebot_ir_remove
  PROVE  MaskInv'
<1> USE DEF MaskInv, MaskType, WriterOwnsMutex, WishInMask, MaskInRegister, ReportHolds,
            NothingBeforeProbe
<1>1. CASE bebot_ir_probe
  BY <1>1, IrWriterAssumption DEF bebot_ir_probe
<1>2. CASE bebot_ir_probe_fails
  BY <1>2, IrWriterAssumption DEF bebot_ir_probe_fails
<1>3. CASE bebot_ir_remove
  BY <1>3, IrWriterAssumption DEF bebot_ir_remove
<1> QED BY <1>1, <1>2, <1>3

(* A write begins by taking the mutex.                                     *)
LEMMA Beginning == ASSUME MaskInv, NEW w \in Writer, BeginSwitch(w) PROVE MaskInv'
<1> USE DEF MaskInv
<1>1. wish' \in [Writer -> Wishes]
  <2>1. PICK bits \in SUBSET Switch :
          \E f \in [bits -> BOOLEAN] : wish' = [wish EXCEPT ![w] = f]
    BY DEF BeginSwitch
  <2>2. PICK f \in [bits -> BOOLEAN] : wish' = [wish EXCEPT ![w] = f]
    BY <2>1
  <2>3. f \in Wishes
    BY <2>2 DEF Wishes
  <2> QED BY <2>2, <2>3 DEF MaskType
<1>2. /\ irPc' = [irPc EXCEPT ![w] = "copy"] /\ irMutex' = w
      /\ \A v \in Writer : irPc[v] = "idle"
  BY IrWriterAssumption DEF BeginSwitch, WriterOwnsMutex, MaskType
<1>3. MaskType'
  BY <1>1, <1>2 DEF MaskType, BeginSwitch
<1>4. \A v \in Writer : irPc'[v] = IF v = w THEN "copy" ELSE "idle"
  BY <1>2 DEF MaskType
<1>5. WriterOwnsMutex' /\ WishInMask' /\ MaskInRegister'
  BY <1>2, <1>4 DEF WriterOwnsMutex, WishInMask, MaskInRegister
<1>6. ReportHolds' /\ NothingBeforeProbe'
  BY <1>2, <1>4, IrWriterAssumption DEF ReportHolds, NothingBeforeProbe, BeginSwitch
<1> QED BY <1>3, <1>5, <1>6

(* The bits wished are set in the mask.                                    *)
LEMMA Switching == ASSUME MaskInv, NEW w \in Writer, SwitchBits(w) PROVE MaskInv'
<1> USE DEF MaskInv
<1>1. irPc[w] = "copy" /\ irMutex = w /\ \A v \in Writer \ {w} : irPc[v] = "idle"
  BY DEF SwitchBits, WriterOwnsMutex, MaskType
<1>2. \A v \in Writer : irPc'[v] = IF v = w THEN "sync" ELSE "idle"
  BY <1>1 DEF SwitchBits, MaskType
<1>3. MaskType' /\ WriterOwnsMutex' /\ MaskInRegister'
  BY <1>1, <1>2 DEF SwitchBits, MaskType, WriterOwnsMutex, MaskInRegister
<1>4. WishInMask'
  <2>1. SUFFICES ASSUME NEW b \in DOMAIN wish[w] \intersect Sensors
                 PROVE  b \in enable' <=> wish[w][b]
    BY <1>2 DEF WishInMask, SwitchBits
  <2>2. wish[w][b] \in BOOLEAN
    BY WishesAreBoolean DEF MaskType
  <2> QED BY <2>2 DEF SwitchBits
<1>5. ReportHolds' /\ NothingBeforeProbe'
  BY <1>1, <1>2, IrWriterAssumption DEF ReportHolds, NothingBeforeProbe, SwitchBits
<1> QED BY <1>3, <1>4, <1>5

(* The sync puts the mask into the register.                               *)
LEMMA Syncing == ASSUME MaskInv, NEW w \in Writer, Sync(w) PROVE MaskInv'
<1> USE DEF MaskInv
<1>1. irPc[w] = "sync" /\ irMutex = w /\ \A v \in Writer \ {w} : irPc[v] = "idle"
  BY DEF Sync, WriterOwnsMutex, MaskType
<1>2. \A v \in Writer : irPc'[v] = IF v = w THEN "report" ELSE "idle"
  BY <1>1 DEF Sync, MaskType
<1>3. MaskType' /\ WriterOwnsMutex'
  BY <1>1, <1>2 DEF Sync, MaskType, WriterOwnsMutex
<1>4. WishInMask'
  BY <1>1, <1>2 DEF WishInMask, Sync
<1>5. MaskInRegister'
  BY RegisterKeepsSensors DEF MaskInRegister, Sync, write_enable
<1>6. ReportHolds' /\ NothingBeforeProbe'
  BY <1>1, <1>2, IrWriterAssumption DEF ReportHolds, NothingBeforeProbe, Sync
<1> QED BY <1>3, <1>4, <1>5, <1>6

(* A write ends with its report, or without one when its copy or the       *)
(* transfer failed.                                                        *)
LEMMA Ending ==
  ASSUME MaskInv, NEW w \in Writer, SwitchFaults(w) \/ SyncFails(w) \/ Report(w)
  PROVE  MaskInv'
<1> USE DEF MaskInv
<1>1. /\ irPc[w] # "idle" /\ irMutex = w
      /\ irPc' = [irPc EXCEPT ![w] = "idle"] /\ wish' = [wish EXCEPT ![w] = <<>>]
      /\ irMutex' = NoWriter /\ irDrv' = irDrv
      /\ \A v \in Writer \ {w} : irPc[v] = "idle"
  BY DEF SwitchFaults, SyncFails, Report, WriterOwnsMutex, MaskType
<1>2. \A v \in Writer : irPc'[v] = "idle"
  BY <1>1 DEF MaskType
<1>3. MaskType'
  BY <1>1 DEF MaskType, Wishes
<1>4. WriterOwnsMutex' /\ WishInMask' /\ MaskInRegister'
  BY <1>1, <1>2, IrWriterAssumption DEF WriterOwnsMutex, WishInMask, MaskInRegister
<1>5. ReportHolds'
  <2>1. CASE SyncFails(w)
    BY <2>1 DEF SyncFails, write_enable_fails, ReportHolds
  <2>2. CASE Report(w)
    BY <2>2 DEF Report, ReportHolds, MaskInRegister
  <2>3. CASE SwitchFaults(w)
    <3>1. \A v \in Writer : irPc[v] # "report"
      BY <1>1, <2>3 DEF SwitchFaults
    <3> QED BY <2>3, <3>1 DEF SwitchFaults, ReportHolds
  <2> QED BY <2>1, <2>2, <2>3
<1>6. NothingBeforeProbe'
  BY <1>1, IrWriterAssumption DEF NothingBeforeProbe
<1> QED BY <1>3, <1>4, <1>5, <1>6

(* Every step of the kernel driver keeps the invariant.                    *)
LEMMA MaskInvStep == MaskInv /\ [BebotIrNext]_bebotIrVars => MaskInv'
<1> SUFFICES ASSUME MaskInv, [BebotIrNext]_bebotIrVars PROVE MaskInv'
  OBVIOUS
<1>1. CASE bebot_ir_probe \/ bebot_ir_probe_fails \/ bebot_ir_remove
  BY <1>1, ProbeAndRemove
<1>2. ASSUME NEW w \in Writer,
             \/ BeginSwitch(w) \/ SwitchBits(w) \/ Sync(w)
             \/ SwitchFaults(w) \/ SyncFails(w) \/ Report(w)
      PROVE  MaskInv'
  BY <1>2, Beginning, Switching, Syncing, Ending
<1>3. CASE UNCHANGED bebotIrVars
  BY <1>3 DEF bebotIrVars, MaskInv, MaskType, WriterOwnsMutex, WishInMask, MaskInRegister,
              ReportHolds, NothingBeforeProbe
<1> QED BY <1>1, <1>2, <1>3 DEF BebotIrNext

(* The invariant says that the mask is in force.                           *)
LEMMA MaskInvariant == MaskInv => MaskIsInForce
<1> SUFFICES ASSUME MaskInv PROVE MaskIsInForce
  OBVIOUS
<1>1. irMutex = NoWriter => \A w \in Writer : irPc[w] # "report"
  BY IrWriterAssumption DEF MaskInv, MaskType, WriterOwnsMutex
<1> QED BY <1>1 DEF MaskInv, WishInMask, MaskInRegister, ReportHolds, MaskIsInForce

-----------------------------------------------------------------------------
(* What a write asked for is in force when its transfer is over, whatever  *)
(* other programs switch, and what was reported last is in force unless a  *)
(* transfer failed: bebot_ir_pass runs under the mutex from the first bit  *)
(* of a write to its report.                                               *)
THEOREM MaskStaysInForce ==
  ASSUME NEW there
  PROVE  BebotIrInit(there) /\ [][BebotIrNext]_bebotIrVars => []MaskIsInForce
<1>1. BebotIrInit(there) => MaskInv
  BY MaskInvInitially
<1> QED BY <1>1, MaskInvStep, MaskInvariant, PTL

-----------------------------------------------------------------------------
(* The slots of Player's driver are counted by recursive functions over    *)
(* the devices.  What such a function is at a device follows from its      *)
(* value at the one before, by the least counterexample in a set.          *)

(* Induction up to n, for a set in place of a formula.                     *)
LEMMA Induction ==
  ASSUME NEW n \in Nat, NEW T, 0 \in T, \A i \in 1..n : i - 1 \in T => i \in T
  PROVE  \A i \in 0..n : i \in T
<1> DEFINE Bad == {i \in Nat : i <= n /\ i \notin T}
<1> SUFFICES ASSUME Bad # {} PROVE FALSE
  OBVIOUS
<1>1. \E m \in Bad : \A k \in Bad : ~(<<k, m>> \in OpToRel(<, Nat))
  BY WFMin, NatLessThanWellFounded, Zenon
<1>2. PICK m \in Bad : \A k \in Bad : ~(k < m)
  BY <1>1 DEF OpToRel
<1>3. m \in Nat /\ m # 0 /\ m <= n
  BY <1>2
<1>4. m - 1 \notin Bad /\ m - 1 \in Nat /\ m - 1 <= n
  BY <1>2, <1>3
<1>5. m - 1 \in T /\ m \in 1..n
  BY <1>3, <1>4
<1> QED BY <1>2, <1>5

(* A function can be defined by what each value makes of the one before.   *)
Built(g, n, first, step) == g[0] = first /\ \A i \in 1..n : g[i] = step[i][g[i - 1]]

LEMMA Recursion ==
  ASSUME NEW n \in Nat, NEW S, NEW first \in S, NEW step \in [1..n -> [S -> S]]
  PROVE  \E g \in [0..n -> S] : Built(g, n, first, step)
<1> DEFINE T == {m \in 0..n : \E g \in [0..m -> S] : Built(g, m, first, step)}
<1>1. 0 \in T
  <2> DEFINE h == [i \in 0..0 |-> first]
  <2>1. h \in [0..0 -> S] /\ Built(h, 0, first, step)
    BY DEF Built
  <2> HIDE DEF h
  <2> QED BY <2>1
<1>2. ASSUME NEW m \in 1..n, m - 1 \in T PROVE m \in T
  <2>1. PICK g \in [0..(m - 1) -> S] : Built(g, m - 1, first, step)
    BY <1>2
  <2> DEFINE h == [i \in 0..m |-> IF i = m THEN step[m][g[m - 1]] ELSE g[i]]
  <2>2. h \in [0..m -> S]
    OBVIOUS
  <2>3. Built(h, m, first, step)
    BY <2>1 DEF Built
  <2> HIDE DEF h
  <2> QED BY <2>2, <2>3
<1> HIDE DEF T
<1>3. \A i \in 0..n : i \in T
  BY <1>1, <1>2, Induction, Zenon
<1>4. n \in T
  BY <1>3
<1> QED BY <1>4 DEF T

(* Parts put one after the other ...                                       *)
Joined(g, P, n) == g[0] = <<>> /\ \A i \in 1..n : g[i] = g[i - 1] \o P[i]

LEMMA Joining ==
  ASSUME NEW n \in Nat, NEW S, NEW P \in [1..n -> Seq(S)]
  PROVE  \E g \in [0..n -> Seq(S)] : Joined(g, P, n)
<1> DEFINE step == [i \in 1..n |-> [q \in Seq(S) |-> q \o P[i]]]
<1>1. step \in [1..n -> [Seq(S) -> Seq(S)]] /\ <<>> \in Seq(S)
  OBVIOUS
<1> HIDE DEF step
<1>2. PICK g \in [0..n -> Seq(S)] : Built(g, n, <<>>, step)
  BY <1>1, Recursion, Zenon
<1>3. ASSUME NEW i \in 1..n PROVE g[i] = g[i - 1] \o P[i]
  <2>1. g[i - 1] \in Seq(S)
    OBVIOUS
  <2> QED BY <1>2, <2>1 DEF step, Built
<1> QED BY <1>2, <1>3 DEF Joined, Built

(* ... are found where those before them end.                              *)
InPlace(g, P, n) ==
  /\ g[0] = <<>> /\ \A i \in 1..n : Len(g[i]) = Len(g[i - 1]) + Len(P[i])
  /\ \A i \in 0..n : Len(g[i]) <= Len(g[n])
  /\ \A i \in 1..n : \A j \in 1..Len(P[i]) : g[n][Len(g[i - 1]) + j] = P[i][j]

LEMMA PartsInPlace ==
  ASSUME NEW n \in Nat, NEW S, NEW P \in [1..n -> Seq(S)], NEW g \in [0..n -> Seq(S)],
         Joined(g, P, n)
  PROVE  InPlace(g, P, n)
<1>1. g[0] = <<>> /\ \A i \in 1..n : g[i] = g[i - 1] \o P[i]
  BY DEF Joined
<1>2. \A i \in 1..n : /\ Len(g[i]) = Len(g[i - 1]) + Len(P[i])
                      /\ \A k \in 1..Len(g[i - 1]) : g[i][k] = g[i - 1][k]
                      /\ \A j \in 1..Len(P[i]) : g[i][Len(g[i - 1]) + j] = P[i][j]
  <2> SUFFICES ASSUME NEW i \in 1..n
               PROVE  /\ Len(g[i]) = Len(g[i - 1]) + Len(P[i])
                      /\ \A k \in 1..Len(g[i - 1]) : g[i][k] = g[i - 1][k]
                      /\ \A j \in 1..Len(P[i]) : g[i][Len(g[i - 1]) + j] = P[i][j]
    OBVIOUS
  <2>1. g[i - 1] \in Seq(S) /\ P[i] \in Seq(S) /\ g[i] = g[i - 1] \o P[i]
    <3>1. i - 1 \in 0..n /\ i \in 0..n
      OBVIOUS
    <3> QED BY <1>1, <3>1
  <2> QED BY <2>1
<1> DEFINE T == {m \in 0..n : \A i \in 0..m : /\ Len(g[i]) <= Len(g[m])
                                              /\ \A k \in 1..Len(g[i]) : g[m][k] = g[i][k]}
<1>3. 0 \in T
  OBVIOUS
<1>4. ASSUME NEW m \in 1..n, m - 1 \in T PROVE m \in T
  <2> SUFFICES ASSUME NEW i \in 0..m
               PROVE  /\ Len(g[i]) <= Len(g[m])
                      /\ \A k \in 1..Len(g[i]) : g[m][k] = g[i][k]
    OBVIOUS
  <2>1. CASE i = m
    BY <2>1
  <2>2. CASE i # m
    <3>1. i \in 0..(m - 1) /\ m - 1 \in 0..n
      BY <2>2
    <3>2. Len(g[i]) <= Len(g[m - 1]) /\ \A k \in 1..Len(g[i]) : g[m - 1][k] = g[i][k]
      BY <1>4, <3>1
    <3>3. Len(g[i]) \in Nat /\ Len(g[m - 1]) \in Nat /\ Len(P[m]) \in Nat
      BY <3>1
    <3>4. Len(g[m]) = Len(g[m - 1]) + Len(P[m]) /\ \A k \in 1..Len(g[m - 1]) : g[m][k] = g[m - 1][k]
      BY <1>2
    <3>5. Len(g[i]) <= Len(g[m])
      BY <3>2, <3>3, <3>4
    <3>6. \A k \in 1..Len(g[i]) : k \in 1..Len(g[m - 1])
      BY <3>2, <3>3
    <3> QED BY <3>2, <3>4, <3>5, <3>6
  <2> QED BY <2>1, <2>2
<1> HIDE DEF T
<1>5. \A i \in 0..n : i \in T
  BY <1>3, <1>4, Induction, Zenon
<1>6. \A i \in 0..n : Len(g[i]) <= Len(g[n]) /\ \A k \in 1..Len(g[i]) : g[n][k] = g[i][k]
  BY <1>5 DEF T
<1>7. ASSUME NEW i \in 1..n, NEW j \in 1..Len(P[i])
      PROVE  g[n][Len(g[i - 1]) + j] = P[i][j]
  <2>1. Len(g[i - 1]) \in Nat /\ Len(P[i]) \in Nat /\ i \in 0..n
    OBVIOUS
  <2>2. Len(g[i - 1]) + j \in 1..Len(g[i])
    BY <1>2, <2>1
  <2> QED BY <1>2, <1>6, <2>1, <2>2
<1> QED BY <1>1, <1>2, <1>6, <1>7 DEF InPlace

-----------------------------------------------------------------------------
(* The positions of the configuration, and those replied.                  *)
Devs == Len(IrCounts)

Pose == Nat \X Nat

Block(i) == [j \in 1..IrCounts[i] |-> <<i, j - 1>>]

(* The devices of the configuration and their counts.                      *)
LEMMA Devices == Devs \in Nat /\ IrDev = 1..Devs /\ \A i \in 1..Devs : IrCounts[i] \in Nat
BY IrCountsAssumption DEF Devs, IrDev

(* The positions of one device.                                            *)
LEMMA BlockType ==
  ASSUME NEW i \in 1..Devs
  PROVE  /\ IrCounts[i] \in Nat /\ Len(Block(i)) = IrCounts[i] /\ Block(i) \in Seq(Pose)
         /\ \A j \in 1..IrCounts[i] : Block(i)[j] = <<i, j - 1>>
<1>1. IrCounts[i] \in Nat /\ i \in Nat
  BY Devices
<1> QED BY <1>1 DEF Block, Pose

LEMMA NothingToReply == <<>> \in Seq(Pose)
OBVIOUS

(* The positions configured are those of the devices, one after the other. *)
LEMMA ConfiguredIsJoined ==
  ASSUME NEW P, P = [i \in 1..Devs |-> Block(i)]
  PROVE  /\ P \in [1..Devs -> Seq(Pose)] /\ \A i \in 1..Devs : P[i] = Block(i)
         /\ Configured \in [0..Devs -> Seq(Pose)]
         /\ Joined(Configured, P, Devs)
<1> DEFINE Step(i, q) == q \o Block(i)
<1>1. P \in [1..Devs -> Seq(Pose)] /\ \A i \in 1..Devs : P[i] = Block(i)
  BY BlockType
<1>2. PICK g \in [0..Devs -> Seq(Pose)] : Joined(g, P, Devs)
  BY <1>1, Devices, Joining, Zenon
<1>3. g[0] = <<>> /\ \A i \in 1..Devs : g[i] = Step(i, g[i - 1])
  BY <1>1, <1>2 DEF Joined
<1> HIDE DEF Step
<1>4. g = [i \in 0..Devs |-> IF i = 0 THEN <<>> ELSE Step(i, g[i - 1])]
  BY <1>3, Devices
<1>5. Configured = [i \in 0..Devs |-> IF i = 0 THEN <<>> ELSE Step(i, Configured[i - 1])]
  BY <1>4 DEF Configured, Devs, Block, Step
<1>6. Configured[0] = <<>> /\ \A i \in 1..Devs : Configured[i] = Step(i, Configured[i - 1])
  BY <1>5, Devices
<1>7. Joined(Configured, P, Devs)
  BY <1>1, <1>6 DEF Joined, Step
<1> DEFINE T == {i \in 0..Devs : Configured[i] \in Seq(Pose)}
<1>8. 0 \in T
  <2>1. 0 \in 0..Devs
    BY Devices
  <2>2. Configured[0] \in Seq(Pose)
    BY <1>6, NothingToReply, Zenon
  <2> QED BY <2>1, <2>2
<1>9. ASSUME NEW i \in 1..Devs, i - 1 \in T PROVE i \in T
  <2>1. Configured[i] = Configured[i - 1] \o Block(i)
    BY <1>6 DEF Step
  <2>2. Configured[i - 1] \in Seq(Pose) /\ Block(i) \in Seq(Pose) /\ i \in 0..Devs
    BY <1>9, Devices, BlockType
  <2>3. Configured[i] \in Seq(Pose)
    BY <2>1, <2>2
  <2> QED BY <2>2, <2>3
<1> HIDE DEF T
<1>10. \A i \in 0..Devs : i \in T
  BY <1>8, <1>9, Devices, Induction, Zenon
<1>11. \A i \in 0..Devs : Configured[i] \in Seq(Pose)
  BY <1>10 DEF T
<1> QED BY <1>1, <1>5, <1>7, <1>11

(* What a part of a sequence is.                                           *)
LEMMA Middle ==
  ASSUME NEW S, NEW s \in Seq(S), NEW a \in Nat, NEW c \in Nat, a + c <= Len(s)
  PROVE  /\ SubSeq(s, a + 1, a + c) \in Seq(S) /\ Len(SubSeq(s, a + 1, a + c)) = c
         /\ \A j \in 1..c : SubSeq(s, a + 1, a + c)[j] = s[a + j]
<1>1. SubSeq(s, a + 1, a + c) = [j \in 1..c |-> s[a + j]]
  <2>1. (a + c) - (a + 1) + 1 = c
    OBVIOUS
  <2>2. \A j \in 1..c : (a + 1) + j - 1 = a + j
    OBVIOUS
  <2> QED BY <2>1, <2>2
<1>2. \A j \in 1..c : s[a + j] \in S
  OBVIOUS
<1>3. [j \in 1..c |-> s[a + j]] \in Seq(S)
  BY <1>2
<1> QED BY <1>1, <1>3

(* The part of the positions that is a device's.                           *)
LEMMA PositionsOfDevice ==
  ASSUME NEW i \in 1..Devs
  PROVE  SubSeq(Positions, Len(Configured[i - 1]) + 1, Len(Configured[i])) = Block(i)
<1> DEFINE P == [k \in 1..Devs |-> Block(k)]
           from == Len(Configured[i - 1])
           sub == SubSeq(Positions, from + 1, Len(Configured[i]))
<1> HIDE DEF P, from, sub
<1>1. P \in [1..Devs -> Seq(Pose)] /\ P[i] = Block(i)
      /\ Configured \in [0..Devs -> Seq(Pose)] /\ Joined(Configured, P, Devs)
  BY ConfiguredIsJoined DEF P
<1>2. InPlace(Configured, P, Devs)
  BY <1>1, Devices, PartsInPlace, Zenon
<1>3. i - 1 \in 0..Devs /\ i \in 0..Devs /\ Devs \in 0..Devs
  BY Devices
<1>4. /\ Positions = Configured[Devs] /\ Positions \in Seq(Pose) /\ from \in Nat
      /\ Configured[i] \in Seq(Pose)
  BY <1>1, <1>3 DEF Positions, Devs, from
<1>5. /\ Len(Configured[i]) = from + IrCounts[i] /\ IrCounts[i] \in Nat
      /\ Len(Configured[i]) <= Len(Positions)
      /\ \A j \in 1..IrCounts[i] : Positions[from + j] = Block(i)[j]
  <2>1. Len(P[i]) = IrCounts[i] /\ IrCounts[i] \in Nat
    BY <1>1, BlockType
  <2>2. Len(Configured[i]) = from + Len(P[i]) /\ Len(Configured[i]) <= Len(Configured[Devs])
    BY <1>2, <1>3 DEF InPlace, from
  <2>3. \A j \in 1..Len(P[i]) : Configured[Devs][from + j] = P[i][j]
    BY <1>2 DEF InPlace, from
  <2> QED BY <1>1, <1>4, <2>1, <2>2, <2>3
<1>6. /\ sub \in Seq(Pose) /\ Len(sub) = IrCounts[i]
      /\ \A j \in 1..IrCounts[i] : sub[j] = Positions[from + j]
  <2>1. sub = SubSeq(Positions, from + 1, from + IrCounts[i])
    BY <1>5 DEF sub
  <2>2. from + IrCounts[i] <= Len(Positions)
    BY <1>5
  <2> DEFINE part == SubSeq(Positions, from + 1, from + IrCounts[i])
  <2>3. /\ part \in Seq(Pose) /\ Len(part) = IrCounts[i]
        /\ \A j \in 1..IrCounts[i] : part[j] = Positions[from + j]
    <3>1. Positions \in Seq(Pose) /\ from \in Nat /\ IrCounts[i] \in Nat
      BY <1>4, <1>5
    <3> QED BY <2>2, <3>1, Middle, Zenon
  <2> QED BY <2>1, <2>3, Zenon
<1>7. Block(i) \in Seq(Pose) /\ Len(Block(i)) = IrCounts[i]
  BY BlockType
<1>8. sub = Block(i)
  BY <1>5, <1>6, <1>7
<1> QED BY <1>8 DEF sub, from

(* What is replied of a device.                                            *)
Reply(i) == IF devices[i] = NoFd THEN <<>> ELSE Block(i)

LEMMA ReplyType ==
  ASSUME NEW i \in 1..Devs
  PROVE  /\ Reply(i) \in Seq(Pose)
         /\ Len(Reply(i)) = IF devices[i] = NoFd THEN 0 ELSE IrCounts[i]
BY BlockType DEF Reply

(* The answer is made of the replies for the devices, one after the other. *)
LEMMA RepliedIsJoined ==
  ASSUME NEW P, P = [i \in 1..Devs |-> Reply(i)]
  PROVE  /\ P \in [1..Devs -> Seq(Pose)] /\ \A i \in 1..Devs : P[i] = Reply(i)
         /\ Replied \in [0..Devs -> Seq(Pose)]
         /\ Joined(Replied, P, Devs)
<1> DEFINE Part(i) == IF devices[i] = NoFd THEN <<>>
                      ELSE SubSeq(Positions, Len(Configured[i - 1]) + 1, Len(Configured[i]))
           Step(i, q) == q \o Part(i)
<1>1. P \in [1..Devs -> Seq(Pose)] /\ \A i \in 1..Devs : P[i] = Reply(i)
  BY ReplyType
<1>2. PICK g \in [0..Devs -> Seq(Pose)] : Joined(g, P, Devs)
  BY <1>1, Devices, Joining, Zenon
<1>3. \A i \in 1..Devs : Part(i) = Reply(i)
  BY PositionsOfDevice DEF Reply
<1> HIDE DEF Part
<1>4. g[0] = <<>> /\ \A i \in 1..Devs : g[i] = Step(i, g[i - 1])
  BY <1>1, <1>2, <1>3 DEF Joined
<1> HIDE DEF Step
<1>5. g = [i \in 0..Devs |-> IF i = 0 THEN <<>> ELSE Step(i, g[i - 1])]
  BY <1>4, Devices
<1>6. Replied = [i \in 0..Devs |-> IF i = 0 THEN <<>> ELSE Step(i, Replied[i - 1])]
  BY <1>5 DEF Replied, Devs, Part, Step
<1>7. Replied[0] = <<>> /\ \A i \in 1..Devs : Replied[i] = Step(i, Replied[i - 1])
  BY <1>6, Devices
<1>8. Joined(Replied, P, Devs)
  BY <1>1, <1>3, <1>7 DEF Joined, Step
<1> DEFINE T == {i \in 0..Devs : Replied[i] \in Seq(Pose)}
<1>9. 0 \in T
  <2>1. 0 \in 0..Devs
    BY Devices
  <2>2. Replied[0] \in Seq(Pose)
    BY <1>7, NothingToReply, Zenon
  <2> QED BY <2>1, <2>2
<1>10. ASSUME NEW i \in 1..Devs, i - 1 \in T PROVE i \in T
  <2>1. Replied[i] = Replied[i - 1] \o Reply(i)
    BY <1>3, <1>7 DEF Step
  <2>2. Replied[i - 1] \in Seq(Pose) /\ Reply(i) \in Seq(Pose) /\ i \in 0..Devs
    BY <1>10, Devices, ReplyType
  <2>3. Replied[i] \in Seq(Pose)
    BY <2>1, <2>2
  <2> QED BY <2>2, <2>3
<1> HIDE DEF T
<1>11. \A i \in 0..Devs : i \in T
  BY <1>9, <1>10, Devices, Induction, Zenon
<1>12. \A i \in 0..Devs : Replied[i] \in Seq(Pose)
  BY <1>11 DEF T
<1> QED BY <1>1, <1>6, <1>8, <1>12

(* The slots a device has are counted as the poses replied.                *)
LEMMA SlotsAreReplied ==
  \A i \in 0..Devs : /\ SlotsOf[i] = Len(Replied[i]) /\ Len(Replied[i]) \in Nat
                     /\ Len(Replied[i]) <= Len(Configured[i])
<1> DEFINE Own(i) == IF devices[i] = NoFd THEN 0 ELSE IrCounts[i]
           P == [i \in 1..Devs |-> Reply(i)]
           Q == [i \in 1..Devs |-> Block(i)]
           g == [i \in 0..Devs |-> Len(Replied[i])]
<1> HIDE DEF P, Q
<1>1. /\ P \in [1..Devs -> Seq(Pose)] /\ Replied \in [0..Devs -> Seq(Pose)]
      /\ Joined(Replied, P, Devs) /\ \A i \in 1..Devs : P[i] = Reply(i)
  BY RepliedIsJoined DEF P
<1>2. /\ Q \in [1..Devs -> Seq(Pose)] /\ Configured \in [0..Devs -> Seq(Pose)]
      /\ Joined(Configured, Q, Devs) /\ \A i \in 1..Devs : Q[i] = Block(i)
  BY ConfiguredIsJoined DEF Q
<1>3. InPlace(Replied, P, Devs) /\ InPlace(Configured, Q, Devs)
  BY <1>1, <1>2, Devices, PartsInPlace, Zenon
<1>4. /\ Replied[0] = <<>> /\ Configured[0] = <<>>
      /\ \A i \in 1..Devs : /\ Len(Replied[i]) = Len(Replied[i - 1]) + Own(i)
                            /\ Len(Configured[i]) = Len(Configured[i - 1]) + IrCounts[i]
                            /\ Own(i) \in Nat /\ IrCounts[i] \in Nat /\ Own(i) <= IrCounts[i]
  <2>1. ASSUME NEW i \in 1..Devs
        PROVE  /\ Len(P[i]) = Own(i) /\ Len(Q[i]) = IrCounts[i]
               /\ Own(i) \in Nat /\ IrCounts[i] \in Nat /\ Own(i) <= IrCounts[i]
    <3>1. P[i] = Reply(i) /\ Q[i] = Block(i)
      BY <1>1, <1>2
    <3>2. Len(Reply(i)) = Own(i) /\ Len(Block(i)) = IrCounts[i] /\ IrCounts[i] \in Nat
      BY ReplyType, BlockType
    <3>3. Own(i) \in Nat /\ Own(i) <= IrCounts[i]
      BY <3>2
    <3> QED BY <3>1, <3>2, <3>3
  <2> HIDE DEF Own
  <2> QED BY <1>3, <2>1 DEF InPlace
<1>5. \A i \in 0..Devs : Len(Replied[i]) \in Nat /\ Len(Configured[i]) \in Nat
  BY <1>1, <1>2
<1> HIDE DEF Own
<1>6. g[0] = 0 /\ \A i \in 1..Devs : g[i] = g[i - 1] + Own(i)
  <2>1. \A i \in 1..Devs : i \in 0..Devs /\ i - 1 \in 0..Devs
    BY Devices
  <2> QED BY <1>4, <2>1, Devices
<1>7. g = [i \in 0..Devs |-> IF i = 0 THEN 0 ELSE g[i - 1] + Own(i)]
  <2>1. g \in [0..Devs -> Nat] /\ \A i \in 1..Devs : Own(i) \in Nat
    BY <1>4, <1>5
  <2> HIDE DEF g
  <2> QED BY <1>6, <2>1, Devices
<1> HIDE DEF g
<1>8. SlotsOf = [i \in 0..Devs |-> IF i = 0 THEN 0 ELSE SlotsOf[i - 1] + Own(i)]
  BY <1>7 DEF SlotsOf, Devs, Own
<1>9. SlotsOf[0] = 0 /\ \A i \in 1..Devs : SlotsOf[i] = SlotsOf[i - 1] + Own(i)
  BY <1>8, Devices
<1> DEFINE T == {i \in 0..Devs : /\ SlotsOf[i] = Len(Replied[i])
                                 /\ Len(Replied[i]) <= Len(Configured[i])}
<1>10. 0 \in T
  BY <1>4, <1>9, Devices
<1>11. ASSUME NEW i \in 1..Devs, i - 1 \in T PROVE i \in T
  <2>1. i - 1 \in 0..Devs /\ i \in 0..Devs
    BY Devices
  <2>2. SlotsOf[i - 1] = Len(Replied[i - 1]) /\ Len(Replied[i - 1]) <= Len(Configured[i - 1])
    BY <1>11
  <2>3. SlotsOf[i] = Len(Replied[i])
    BY <1>4, <1>9, <2>2
  <2>4. Len(Replied[i]) <= Len(Configured[i])
    <3>1. /\ Len(Replied[i - 1]) \in Nat /\ Len(Configured[i - 1]) \in Nat
          /\ Own(i) \in Nat /\ IrCounts[i] \in Nat /\ Own(i) <= IrCounts[i]
      BY <1>4, <1>5, <2>1
    <3>2. /\ Len(Replied[i]) = Len(Replied[i - 1]) + Own(i)
          /\ Len(Configured[i]) = Len(Configured[i - 1]) + IrCounts[i]
      BY <1>4
    <3> QED BY <2>2, <3>1, <3>2
  <2> QED BY <2>1, <2>3, <2>4
<1> HIDE DEF T
<1>12. \A i \in 0..Devs : i \in T
  BY <1>10, <1>11, Devices, Induction, Zenon
<1> QED BY <1>5, <1>12 DEF T

(* Where a device is open, the slot of a sensor is the place of its pose.  *)
LEMMA SlotOfPose ==
  /\ PoseReply \in Seq(Pose) /\ Len(PoseReply) <= Len(Positions)
  /\ \A i \in OpenDev : \A j \in 0..(IrCounts[i] - 1) :
       /\ FirstSlot(i) + j \in Nat /\ FirstSlot(i) + j < Len(PoseReply)
       /\ PoseReply[FirstSlot(i) + j + 1] = <<i, j>>
<1> DEFINE P == [k \in 1..Devs |-> Reply(k)]
<1> HIDE DEF P
<1>1. /\ P \in [1..Devs -> Seq(Pose)] /\ Replied \in [0..Devs -> Seq(Pose)]
      /\ Joined(Replied, P, Devs) /\ \A i \in 1..Devs : P[i] = Reply(i)
  BY RepliedIsJoined DEF P
<1>2. InPlace(Replied, P, Devs)
  BY <1>1, Devices, PartsInPlace, Zenon
<1>3. /\ PoseReply = Replied[Devs] /\ Positions = Configured[Devs] /\ Devs \in 0..Devs
      /\ PoseReply \in Seq(Pose) /\ Len(PoseReply) <= Len(Positions)
  BY <1>1, SlotsAreReplied, Devices DEF PoseReply, Positions, Devs
<1>4. ASSUME NEW i \in OpenDev, NEW j \in 0..(IrCounts[i] - 1)
      PROVE  /\ FirstSlot(i) + j \in Nat /\ FirstSlot(i) + j < Len(PoseReply)
             /\ PoseReply[FirstSlot(i) + j + 1] = <<i, j>>
  <2>1. i \in 1..Devs /\ i - 1 \in 0..Devs /\ i \in 0..Devs /\ P[i] = Block(i)
    <3>1. i \in 1..Devs /\ Reply(i) = Block(i)
      BY Devices DEF OpenDev, Reply
    <3> QED BY <1>1, <3>1, Devices
  <2>2. j \in Nat /\ j + 1 \in 1..IrCounts[i] /\ IrCounts[i] \in Nat
    BY <2>1, Devices
  <2>3. Len(Block(i)) = IrCounts[i] /\ Block(i)[j + 1] = <<i, j>>
    BY <2>1, <2>2, BlockType
  <2>4. /\ Len(Replied[i]) = Len(Replied[i - 1]) + IrCounts[i]
        /\ Len(Replied[i]) <= Len(PoseReply)
        /\ PoseReply[Len(Replied[i - 1]) + (j + 1)] = <<i, j>>
    BY <1>2, <1>3, <2>1, <2>2, <2>3 DEF InPlace
  <2>5. FirstSlot(i) = Len(Replied[i - 1]) /\ FirstSlot(i) \in Nat
    BY <2>1, SlotsAreReplied DEF FirstSlot
  <2>6. Len(PoseReply) \in Nat
    BY <1>3
  <2>7. PICK m \in Nat : m = FirstSlot(i) /\ m = Len(Replied[i - 1])
    BY <2>5
  <2>8. m + (j + 1) = m + j + 1 /\ m + j \in Nat /\ m + j < m + IrCounts[i]
    BY <2>2
  <2>9. PoseReply[m + j + 1] = <<i, j>> /\ m + j < Len(PoseReply)
    <3>1. m + IrCounts[i] <= Len(PoseReply)
      BY <2>4, <2>7
    <3>2. m + j < Len(PoseReply)
      BY <2>2, <2>6, <3>1
    <3>3. PoseReply[m + (j + 1)] = <<i, j>>
      BY <2>4, <2>7
    <3> QED BY <2>8, <3>2, <3>3
  <2> QED BY <2>7, <2>8, <2>9
<1> QED BY <1>3, <1>4

-----------------------------------------------------------------------------
(* A slot that was written is that of a sensor of an open device, and the  *)
(* answer to a request is the one for the devices that are open.           *)
Written(k) ==
  /\ slots[k][1] \in OpenDev /\ slots[k][2] \in 0..(IrCounts[slots[k][1]] - 1)
  /\ k = FirstSlot(slots[k][1]) + slots[k][2]

SlotInv ==
  /\ slots \in [Slot -> AllSensors \union {Unset}]
  /\ \A k \in Slot : slots[k] # Unset => Written(k)
  /\ poses \in {<<>>, PoseReply}

(* What is counted depends on the devices only.                            *)
LEMMA SameDevices ==
  ASSUME devices' = devices
  PROVE  OpenDev' = OpenDev /\ PoseReply' = PoseReply /\ SlotsOf' = SlotsOf
<1>1. OpenDev' = OpenDev
  BY DEF OpenDev
<1>2. Replied' = Replied
  BY DEF Replied
<1>3. SlotsOf' = SlotsOf
  BY DEF SlotsOf
<1> QED BY <1>1, <1>2, <1>3 DEF PoseReply

(* The invariant is of devices, poses and slots only.                      *)
LEMMA SlotsUndisturbed ==
  ASSUME SlotInv, UNCHANGED <<devices, poses, slots>>
  PROVE  SlotInv'
BY SameDevices DEF SlotInv, Written, FirstSlot

(* MainSetup begins with nothing written and nothing answered.             *)
LEMMA SlotsCleared ==
  ASSUME poses' = <<>>, slots' = [k \in Slot |-> Unset]
  PROVE  SlotInv'
BY DEF SlotInv

(* A poll is written to the slots of its device; an answer is that for the devices.*)
LEMMA SlotsStep ==
  ASSUME SlotInv, IrMessages \/ IrSelect
  PROVE  SlotInv'
<1>1. CASE IrMessages
  <2>1. UNCHANGED <<devices, slots>> /\ poses' \in {poses, PoseReply}
    BY <1>1 DEF IrMessages
  <2> QED BY <2>1, SameDevices DEF SlotInv, Written, FirstSlot
<1>2. CASE IrSelect
  <2> DEFINE Readable == {i \in OpenDev : files[devices[i]] = IrName(i) /\ IrName(i) \in ready}
             Values == {s \in AllSensors : s[1] \in Readable}
             At(s) == FirstSlot(s[1]) + s[2]
  <2>1. UNCHANGED <<devices, poses>>
        /\ slots' = [k \in Slot |-> IF \E s \in Values : At(s) = k
                                    THEN CHOOSE s \in Values : At(s) = k ELSE slots[k]]
    BY <1>2 DEF IrSelect
  <2>2. ASSUME NEW s \in Values
        PROVE  s \in AllSensors /\ s[1] \in OpenDev /\ s[2] \in 0..(IrCounts[s[1]] - 1)
    BY DEF AllSensors, Sensor
  <2> HIDE DEF Values
  <2>3. ASSUME NEW k \in Slot
        PROVE  /\ slots'[k] \in AllSensors \union {Unset}
               /\ slots'[k] # Unset => Written(k)'
    <3>1. CASE \E s \in Values : At(s) = k
      <4>1. PICK s \in Values : slots'[k] = s /\ At(s) = k
        BY <2>1, <3>1
      <4>2. (IrCounts[slots[k][1]])' = IrCounts[slots'[k][1]] /\ FirstSlot(s[1])' = FirstSlot(s[1])
        BY <2>1, SameDevices DEF FirstSlot
      <4> QED BY <2>1, <2>2, <4>1, <4>2, SameDevices DEF Written
    <3>2. CASE ~ \E s \in Values : At(s) = k
      <4>1. slots'[k] = slots[k]
        BY <2>1, <3>2
      <4> QED BY <2>1, <4>1, SameDevices DEF SlotInv, Written, FirstSlot
    <3> QED BY <3>1, <3>2
  <2>4. slots' \in [Slot -> AllSensors \union {Unset}]
    BY <2>1, <2>3
  <2> QED BY <2>1, <2>3, <2>4, SameDevices DEF SlotInv
<1> QED BY <1>1, <1>2

(* The invariant says that slots follow poses.                             *)
LEMMA SlotInvariant == SlotInv => SlotsFollowPoses /\ Len(poses) <= Len(Positions)
<1> SUFFICES ASSUME SlotInv PROVE SlotsFollowPoses /\ Len(poses) <= Len(Positions)
  OBVIOUS
<1>1. Len(poses) <= Len(Positions)
  <2>1. Len(Positions) >= 0
    BY ConfiguredIsJoined, Devices, SlotOfPose
  <2> QED BY <2>1, SlotOfPose DEF SlotInv
<1>2. ASSUME NEW k \in Slot, slots[k] # Unset, poses # <<>>
      PROVE  k < Len(poses) /\ poses[k + 1] = slots[k]
  <2>1. poses = PoseReply /\ Written(k) /\ slots[k] \in AllSensors
    BY <1>2 DEF SlotInv
  <2>2. PICK i \in IrDev : \E j \in 0..(IrCounts[i] - 1) : slots[k] = <<i, j>>
    BY <2>1 DEF AllSensors, Sensor
  <2>3. PICK j \in 0..(IrCounts[i] - 1) : slots[k] = <<i, j>>
    BY <2>2
  <2>4. i \in OpenDev /\ k = FirstSlot(i) + j
    BY <2>1, <2>3 DEF Written
  <2>5. FirstSlot(i) + j < Len(PoseReply) /\ PoseReply[FirstSlot(i) + j + 1] = <<i, j>>
    BY <2>4, SlotOfPose
  <2> QED BY <2>1, <2>3, <2>4, <2>5
<1> QED BY <1>1, <1>2 DEF SlotsFollowPoses
=============================================================================
