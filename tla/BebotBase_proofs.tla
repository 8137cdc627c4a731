-------------------------- MODULE BebotBase_proofs --------------------------
(***************************************************************************)
(* Proofs about writes of speeds and the removal of the base, for any      *)
(* number of files and any requests.                                       *)
(***************************************************************************)
EXTENDS BebotBase, TLAPS

(* The units of the driver, for every integer.                             *)

(* What division by 10 and by 3 yields, for the provers' arithmetic.       *)
LEMMA Tenth ==
  ASSUME NEW a \in Nat
  PROVE  a \div 10 \in Nat /\ 10 * (a \div 10) <= a /\ a < 10 * (a \div 10) + 10
OBVIOUS

LEMMA Third ==
  ASSUME NEW a \in Nat
  PROVE  a \div 3 \in Nat /\ 3 * (a \div 3) <= a /\ a < 3 * (a \div 3) + 3
OBVIOUS

(* Limits are part of the order, so it is enough to look at magnitudes.    *)
LEMMA RegOf ==
  ASSUME NEW x \in Int
  PROVE  /\ x \in 0..400 => SpeedToReg(x) = (x * 3) \div 10
         /\ x \in -400..-1 => SpeedToReg(x) = -((-x * 3) \div 10)
         /\ x > 400 => SpeedToReg(x) = 120
         /\ x < -400 => SpeedToReg(x) = -120
         /\ SpeedToReg(x) \in Int
<1>1. CASE x \in 0..400
  BY <1>1, Tenth DEF SpeedToReg, Quotient
<1>2. CASE x \in -400..-1
  <2>1. -(x * 3) = -x * 3 /\ ~(x * 3 >= 0) /\ -x * 3 \in Nat
    BY <1>2
  <2>2. (-x * 3) \div 10 \in Nat
    BY <2>1, Tenth
  <2> QED BY <1>2, <2>1, <2>2 DEF SpeedToReg, Quotient
<1>3. CASE x > 400 \/ x < -400
  BY <1>3 DEF SpeedToReg
<1> QED BY <1>1, <1>2, <1>3

(* Whatever speed a process writes, the register gets a value in range.    *)
THEOREM RequestsFit == \A x \in Int : RegisterInRange(x)
<1> SUFFICES ASSUME NEW x \in Int PROVE SpeedToReg(x) \in -120..120
  BY DEF RegisterInRange
<1>1. CASE x \in 0..400
  <2>1. x * 3 \in Nat /\ x * 3 <= 1200
    BY <1>1
  <2>2. (x * 3) \div 10 \in 0..120
    BY <2>1, Tenth
  <2>3. SpeedToReg(x) = (x * 3) \div 10
    BY <1>1, RegOf
  <2> QED BY <2>2, <2>3
<1>2. CASE x \in -400..-1
  <2>1. -x * 3 \in Nat /\ -x * 3 <= 1200
    BY <1>2
  <2>2. (-x * 3) \div 10 \in 0..120
    BY <2>1, Tenth
  <2>3. SpeedToReg(x) = -((-x * 3) \div 10)
    BY <1>2, RegOf
  <2> QED BY <2>2, <2>3
<1>3. CASE x > 400 \/ x < -400
  BY <1>3, RegOf
<1> QED BY <1>1, <1>2, <1>3

(* The report of a request within the limits is within 3 mm/s of it and    *)
(* not faster.                                                             *)
THEOREM EchoIsClose == \A x \in Int : EchoWithinResolution(x)
<1> SUFFICES ASSUME NEW x \in Int, Abs(x) <= 400
             PROVE  LET heard == SpeedFromReg(SpeedToReg(x))
                    IN Abs(x - heard) <= 3 /\ Abs(heard) <= Abs(x) /\ heard * x >= 0
  BY DEF EchoWithinResolution
<1>1. ASSUME NEW m \in 0..400
      PROVE  LET r == (m * 3) \div 10
                 e == (r * 10) \div 3
             IN r \in Nat /\ e \in Nat /\ e <= m /\ m - e <= 3
  <2> DEFINE r == (m * 3) \div 10
             e == (r * 10) \div 3
  <2>1. m * 3 \in Nat
    BY <1>1
  <2>2. r \in Nat /\ 10 * r <= m * 3 /\ m * 3 < 10 * r + 10
    BY <2>1, Tenth
  <2>3. r * 10 \in Nat
    BY <2>2
  <2>4. e \in Nat /\ 3 * e <= r * 10 /\ r * 10 < 3 * e + 3
    BY <2>3, Third
  <2> HIDE DEF r, e
  <2>5. e <= m /\ m - e <= 3
    BY <2>2, <2>4
  <2> QED BY <2>2, <2>4, <2>5 DEF r, e
<1>2. CASE x \in 0..400
  <2> DEFINE r == (x * 3) \div 10
             e == (r * 10) \div 3
  <2>1. r \in Nat /\ e \in Nat /\ e <= x /\ x - e <= 3
    BY <1>1, <1>2
  <2>2. SpeedFromReg(SpeedToReg(x)) = e
    <3>1. SpeedToReg(x) = r
      BY <1>2, RegOf
    <3>2. r * 10 >= 0
      BY <2>1
    <3>3. Quotient(r * 10, 3) = e
      BY <3>2 DEF Quotient
    <3> QED BY <3>1, <3>3 DEF SpeedFromReg
  <2> HIDE DEF r, e
  <2>3. e * x >= 0
    BY <1>2, <2>1
  <2> QED BY <1>2, <2>1, <2>2, <2>3 DEF Abs
<1>3. CASE x \in -400..-1
  <2> DEFINE r == (-x * 3) \div 10
             e == (r * 10) \div 3
  <2>1. r \in Nat /\ e \in Nat /\ e <= -x /\ -x - e <= 3
    BY <1>1, <1>3
  <2>2. SpeedToReg(x) = -r
    BY <1>3, RegOf
  <2>3. Quotient(-r * 10, 3) = -e
    <3>1. CASE r = 0
      <4>1. e = 0 /\ 0 \div 3 = 0
        BY <3>1
      <4> QED BY <3>1, <4>1 DEF Quotient
    <3>2. CASE r > 0
      <4>1. ~(-r * 10 >= 0) /\ -(-r * 10) = r * 10
        BY <2>1, <3>2
      <4> QED BY <4>1 DEF Quotient
    <3> QED BY <2>1, <3>1, <3>2
  <2>4. SpeedFromReg(SpeedToReg(x)) = -e
    BY <2>2, <2>3 DEF SpeedFromReg
  <2> HIDE DEF r, e
  <2>5. -e * x >= 0
    BY <1>3, <2>1
  <2> QED BY <1>3, <2>1, <2>4, <2>5 DEF Abs
<1> QED BY <1>2, <1>3 DEF Abs

(* A request to go the other way is the opposite speed.                    *)
THEOREM TurnsAreSymmetric == \A x \in Int : Symmetric(x)
<1> SUFFICES ASSUME NEW x \in Int PROVE SpeedToReg(-x) = -SpeedToReg(x)
  BY DEF Symmetric
<1>1. CASE x <= 0 /\ x >= 0
  <2>1. x * 3 \in Nat /\ x * 3 <= 0 /\ x \in 0..400
    BY <1>1
  <2>2. (x * 3) \div 10 <= 0 /\ (x * 3) \div 10 >= 0
    BY <2>1, Tenth
  <2>3. SpeedToReg(x) <= 0 /\ SpeedToReg(x) >= 0 /\ SpeedToReg(x) \in Int
    BY <2>1, <2>2, RegOf
  <2>4. -x <= x /\ -x >= x /\ -x \in Int
    BY <1>1
  <2>5. -x = x
    BY <2>4
  <2>6. SpeedToReg(-x) = SpeedToReg(x)
    BY <2>5
  <2> QED BY <2>3, <2>6
<1>2. CASE x > 0
  <2>1. -(-x) = x /\ -x \in Int
    BY <1>2
  <2>2. CASE x <= 400
    <3>1. (x * 3) \div 10 \in Nat
      BY <1>2, Tenth
    <3>2. SpeedToReg(x) = (x * 3) \div 10
      BY <1>2, <2>2, RegOf
    <3>3. SpeedToReg(-x) = -((-(-x) * 3) \div 10)
      BY <1>2, <2>1, <2>2, RegOf
    <3> QED BY <2>1, <3>1, <3>2, <3>3
  <2>3. CASE x > 400
    BY <2>1, <2>3, RegOf
  <2> QED BY <2>2, <2>3
<1>3. CASE x < 0
  <2>1. -x \in Nat /\ -x > 0
    BY <1>3
  <2>2. CASE x >= -400
    <3>1. (-x * 3) \div 10 \in Nat
      BY <2>1, Tenth
    <3>2. SpeedToReg(x) = -((-x * 3) \div 10)
      BY <1>3, <2>2, RegOf
    <3>3. SpeedToReg(-x) = (-x * 3) \div 10
      BY <2>1, <2>2, RegOf
    <3> QED BY <3>1, <3>2, <3>3
  <2>3. CASE x < -400
    BY <2>1, <2>3, RegOf
  <2> QED BY <2>2, <2>3
<1> QED BY <1>1, <1>2, <1>3

(* A faster request gives no smaller register value, at either limit and   *)
(* at zero too.                                                            *)
THEOREM FasterIsNotSlower == \A x \in Int : Monotone(x)
<1> SUFFICES ASSUME NEW x \in Int PROVE SpeedToReg(x) <= SpeedToReg(x + 1)
  BY DEF Monotone
<1>0. SpeedToReg(x) \in -120..120 /\ SpeedToReg(x + 1) \in -120..120
  BY RequestsFit DEF RegisterInRange
<1>1. CASE x >= 400
  BY <1>0, <1>1, RegOf
<1>2. CASE x < -400
  BY <1>0, <1>2, RegOf
<1>3. CASE x \in 0..399
  <2>1. x * 3 \in Nat /\ (x + 1) * 3 \in Nat /\ (x + 1) * 3 >= x * 3
    BY <1>3
  <2>2. (x * 3) \div 10 <= ((x + 1) * 3) \div 10
    BY <2>1, Tenth
  <2> QED BY <1>3, <2>2, RegOf
<1>4. CASE x \in -400..-1
  <2>1. -x * 3 \in Nat /\ (-x * 3) \div 10 \in Nat
    BY <1>4, Tenth
  <2>2. SpeedToReg(x) = -((-x * 3) \div 10)
    BY <1>4, RegOf
  <2>3. CASE x = -1
    <3>1. x + 1 <= 0 /\ x + 1 >= 0 /\ x + 1 \in 0..400
      BY <2>3
    <3>2. (x + 1) * 3 \in Nat
      BY <3>1
    <3>3. ((x + 1) * 3) \div 10 \in Nat
      BY <3>2, Tenth
    <3>4. SpeedToReg(x + 1) = ((x + 1) * 3) \div 10
      BY <3>1, RegOf
    <3> QED BY <2>1, <2>2, <3>3, <3>4
  <2>4. CASE x < -1
    <3>1. x + 1 \in -400..-1 /\ -(x + 1) * 3 \in Nat /\ -(x + 1) * 3 <= -x * 3
      BY <1>4, <2>4
    <3>2. (-(x + 1) * 3) \div 10 \in Nat
      BY <3>1, Tenth
    <3>3. (-(x + 1) * 3) \div 10 <= (-x * 3) \div 10
      BY <2>1, <3>1, Tenth
    <3>4. SpeedToReg(x + 1) = -((-(x + 1) * 3) \div 10)
      BY <3>1, RegOf
    <3> QED BY <2>1, <2>2, <3>2, <3>3, <3>4
  <2> QED BY <1>4, <2>3, <2>4
<1> QED BY <1>1, <1>2, <1>3, <1>4

-----------------------------------------------------------------------------
(* Writes of speeds.                                                       *)

(* Who writes has the mutex, before the device is marked.                  *)
MutexInv ==
  /\ \A f \in File : mutex = f <=> pc[f] # "idle"
  /\ goingAway <=> drv \in {"marked", "unregistered", "stopped", "gone"}
  /\ NoPassAfterFree

(* What a write has stored, sent and reported so far.                      *)
WriteInv ==
  \A f \in File :
    /\ pc[f] = "copy" => \A w \in Wheel : w < next[f] => speed[w] = SpeedToReg(request[f][w])
    /\ pc[f] \in {"echo", "done"} => speed = Regs(request[f])
    /\ pc[f] = "echo" => ~busFault /\ motor = speed

Reported(v) == [w \in Wheel |-> SpeedFromReg(v[w])]

(* The reports lag behind the registers only between sync and echo.        *)
EchoInv ==
  /\ drv = "absent" => speed = Zero /\ echo = Zero
  /\ /\ \A f \in File : pc[f] # "echo"
     /\ ~busFault
     /\ drv \in {"bound", "removing", "marked", "unregistered"}
     => echo = Reported(motor)

IInv ==
  /\ TypeOK /\ MutexInv /\ WriteInv /\ EchoInv
  /\ WheelsOfOneWrite /\ WriteTakesEffect /\ StopIsFinal

-----------------------------------------------------------------------------
LEMMA RegsType ==
  ASSUME NEW r \in [Wheel -> Int]
  PROVE  /\ Regs(r) \in [Wheel -> Reg]
         /\ \A w \in Wheel : Regs(r)[w] = SpeedToReg(r[w]) /\ SpeedToReg(r[w]) \in Reg
<1>1. \A w \in Wheel : SpeedToReg(r[w]) \in Reg
  BY RequestsFit DEF RegisterInRange, Reg
<1> QED BY <1>1 DEF Regs

LEMMA FromRegType == \A x \in Int : SpeedFromReg(x) \in Int
<1> SUFFICES ASSUME NEW x \in Int PROVE Quotient(x * 10, 3) \in Int
  BY DEF SpeedFromReg
<1>1. CASE x >= 0
  <2>1. x * 10 \in Nat
    BY <1>1
  <2> QED BY <2>1, Third DEF Quotient
<1>2. CASE x < 0
  <2>1. -(x * 10) \in Nat /\ ~(x * 10 >= 0)
    BY <1>2
  <2>2. (-(x * 10)) \div 3 \in Nat
    BY <2>1, Third
  <2> QED BY <2>1, <2>2 DEF Quotient
<1> QED BY <1>1, <1>2

LEMMA ZeroIsReported == Reported(Zero) = Zero
<1>1. SpeedFromReg(0) = 0
  <2>1. 0 * 10 \in Nat /\ 0 * 10 <= 0
    OBVIOUS
  <2>2. (0 * 10) \div 3 <= 0 /\ (0 * 10) \div 3 >= 0 /\ (0 * 10) \div 3 \in Int
    BY <2>1, Third
  <2>3. Quotient(0 * 10, 3) = (0 * 10) \div 3
    BY <2>1 DEF Quotient
  <2> QED BY <2>2, <2>3 DEF SpeedFromReg
<1> QED BY <1>1 DEF Reported, Zero

(* A failing transfer leaves values a register can have.                   *)
LEMMA FaultType ==
  ASSUME motor \in [Wheel -> Reg], NEW v \in [Wheel -> Reg], TransferFails(v)
  PROVE  motor' \in [Wheel -> Reg] /\ busFault' = TRUE
BY DEF TransferFails

LEMMA InitIInv == Init => IInv
<1> SUFFICES ASSUME Init PROVE IInv
  OBVIOUS
<1> USE FileAssumption, RequestAssumption DEF Init
<1>1. PICK r \in Request : motor = Regs(r)
  OBVIOUS
<1>2. Zero \in [Wheel -> Reg] /\ Zero \in [Wheel -> Int]
  BY DEF Zero, Reg
<1>3. motor \in [Wheel -> Reg]
  BY <1>1, RegsType
<1>4. TypeOK
  <2>1. /\ speed \in [Wheel -> Reg]
        /\ motor \in [Wheel -> Reg]
        /\ echo \in [Wheel -> Int]
    BY <1>2, <1>3
  <2>2. /\ pc \in [File -> {"idle", "copy", "echo", "done"}]
        /\ request \in [File -> Request]
        /\ next \in [File -> 0..2]
    OBVIOUS
  <2> QED BY <2>1, <2>2 DEF TypeOK
<1>5. MutexInv /\ WriteInv /\ EchoInv /\ WriteTakesEffect /\ StopIsFinal
  BY DEF MutexInv, NoPassAfterFree, WriteInv, EchoInv, WriteTakesEffect, StopIsFinal
<1>6. WheelsOfOneWrite
  BY <1>1 DEF WheelsOfOneWrite
<1> QED BY <1>4, <1>5, <1>6 DEF IInv

-----------------------------------------------------------------------------
(* The driver's steps: no write is under way once the device is marked.    *)
LEMMA DriverPreserves ==
  ASSUME IInv, DriverStep
  PROVE  IInv'
<1> USE FileAssumption, RequestAssumption DEF IInv, TypeOK, MutexInv, WriteInv, EchoInv,
      WheelsOfOneWrite, WriteTakesEffect, StopIsFinal, NoPassAfterFree, writeVars
<1>1. Zero \in [Wheel -> Reg]
  BY DEF Zero, Reg
<1>2. CASE Probe
  <2>1. \A f \in File : pc[f] = "idle"
    BY <1>2 DEF Probe, DrvGoes
  <2>2. motor' = Zero /\ speed' = Zero /\ echo' = Zero /\ busFault' = FALSE /\ drv' = "bound"
    BY <1>2 DEF Probe, DrvGoes, Transfer
  <2> QED BY <1>1, <1>2, <2>1, <2>2, ZeroIsReported DEF Probe, DrvGoes
<1>3. CASE ProbeFails
  <2>1. motor' \in [Wheel -> Reg] /\ busFault' = TRUE
    BY <1>3, FaultType DEF ProbeFails
  <2>2. \A f \in File : pc[f] = "idle"
    BY <1>3 DEF ProbeFails
  <2> QED BY <1>3, <2>1, <2>2 DEF ProbeFails, driverVars
<1>4. CASE Remove
  BY <1>4 DEF Remove, DrvGoes, Reported
<1>5. CASE MarkGoingAway
  <2>1. \A f \in File : pc[f] = "idle"
    BY <1>5 DEF MarkGoingAway
  <2> QED BY <1>5, <2>1 DEF MarkGoingAway, DrvGoes, Reported
<1>6. CASE Unregister
  BY <1>6 DEF Unregister, DrvGoes, Reported
<1>7. CASE StopMotors
  <2>1. \A f \in File : pc[f] = "idle"
    BY <1>7 DEF StopMotors, DrvGoes
  <2>2. CASE Transfer(Zero)
    <3>1. motor' = Zero /\ busFault' = FALSE
      BY <2>2 DEF Transfer
    <3> QED BY <1>1, <1>7, <2>1, <3>1 DEF StopMotors, DrvGoes
  <2>3. CASE TransferFails(Zero)
    <3>1. motor' \in [Wheel -> Reg] /\ busFault' = TRUE
      BY <1>1, <2>3, FaultType
    <3> QED BY <1>7, <2>1, <3>1 DEF StopMotors, DrvGoes
  <2> QED BY <1>7, <2>2, <2>3 DEF StopMotors
<1>8. CASE FreeBase
  BY <1>8 DEF FreeBase, DrvGoes
<1> QED BY <1>2, <1>3, <1>4, <1>5, <1>6, <1>7, <1>8 DEF DriverStep, RemoveStep

(* The steps of a write: it alone has the mutex, so speed and request are  *)
(* its own.                                                                *)
LEMMA WritePreserves ==
  ASSUME IInv, NEW f \in File, WriteStep(f) \/ \E r \in Request : BeginWrite(f, r)
  PROVE  IInv'
<1> USE FileAssumption, RequestAssumption DEF IInv, TypeOK, MutexInv, WriteInv, EchoInv,
      WheelsOfOneWrite, WriteTakesEffect, StopIsFinal, NoPassAfterFree, driverVars, FileGoes
<1>1. \A g \in File : pc[f] # "idle" /\ g # f => pc[g] = "idle"
  OBVIOUS
<1>2. CASE \E r \in Request : BeginWrite(f, r)
  <2>1. PICK r \in Request : BeginWrite(f, r)
    BY <1>2
  <2>2. \A g \in File : pc[g] = "idle"
    BY <2>1 DEF BeginWrite
  <2>3. drv \in {"bound", "removing"}
    BY <2>1 DEF BeginWrite
  <2>4. /\ pc' = [pc EXCEPT ![f] = "copy"] /\ mutex' = f
        /\ request' = [request EXCEPT ![f] = r] /\ next' = [next EXCEPT ![f] = 0]
        /\ UNCHANGED <<drv, goingAway, speed, motor, echo, busFault>>
    BY <2>1 DEF BeginWrite
  <2>5. TypeOK' /\ MutexInv'
    BY <2>2, <2>3, <2>4
  <2>6. WriteInv'
    <3>1. \A w \in Wheel : ~(w < next'[f])
      BY <2>4 DEF Wheel
    <3> QED BY <2>2, <2>4, <3>1
  <2>7. EchoInv'
    BY <2>2, <2>3, <2>4 DEF Reported
  <2>8. WheelsOfOneWrite' /\ WriteTakesEffect' /\ StopIsFinal'
    BY <2>2, <2>3, <2>4 DEF Regs
  <2> QED BY <2>5, <2>6, <2>7, <2>8
<1>3. CASE PassSpeed(f)
  <2>1. next[f] \in Wheel /\ request[f] \in [Wheel -> Int]
    BY <1>3 DEF PassSpeed, Wheel
  <2>2. SpeedToReg(request[f][next[f]]) \in Reg
    BY <2>1, RegsType
  <2>3. speed' \in [Wheel -> Reg]
    BY <1>3, <2>2 DEF PassSpeed
  <2>4. \A w \in Wheel : w < next'[f] => speed'[w] = SpeedToReg(request[f][w])
    <3>1. \A w \in Wheel : w < next'[f] => w < next[f] \/ w = next[f]
      BY <1>3, <2>1 DEF PassSpeed, Wheel
    <3> QED BY <1>3, <2>1, <3>1 DEF PassSpeed
  <2>5. next'[f] \in 0..2
    BY <1>3, <2>1 DEF PassSpeed, Wheel
  <2>6. pc[f] = "copy" /\ UNCHANGED <<pc, request, drv, goingAway, motor, echo, busFault, mutex>>
    BY <1>3 DEF PassSpeed
  <2>7. next' \in [File -> 0..2]
    BY <1>3, <2>5 DEF PassSpeed
  <2> QED BY <1>1, <2>3, <2>4, <2>6, <2>7 DEF Reported
<1>4. CASE CopyFaults(f)
  BY <1>1, <1>4 DEF CopyFaults, Unlock, Reported
<1>5. CASE PassSync(f)
  <2>1. speed = Regs(request[f])
    BY <1>5 DEF PassSync, Regs, Wheel
  <2>2. motor' = speed /\ busFault' = FALSE
    BY <1>5 DEF PassSync, Transfer
  <2>3. drv \in {"bound", "removing"}
    BY <1>5 DEF PassSync
  <2>4. pc'[f] = "echo"
    BY <1>5 DEF PassSync
  <2> QED BY <1>1, <1>5, <2>1, <2>2, <2>3, <2>4 DEF PassSync
<1>6. CASE PassSyncFails(f)
  <2>1. motor' \in [Wheel -> Reg] /\ busFault' = TRUE
    BY <1>6, FaultType DEF PassSyncFails
  <2>2. speed = Regs(request[f])
    BY <1>6 DEF PassSyncFails, Regs, Wheel
  <2>3. drv \in {"bound", "removing"}
    BY <1>6 DEF PassSyncFails
  <2> QED BY <1>1, <1>6, <2>1, <2>2, <2>3 DEF PassSyncFails
<1>7. CASE PassEcho(f)
  <2>1. echo' = Reported(motor) /\ motor = Regs(request[f])
    BY <1>7 DEF PassEcho, Reported
  <2>2. \A w \in Wheel : SpeedFromReg(motor[w]) \in Int
    <3>1. motor \in [Wheel -> Reg]
      OBVIOUS
    <3>2. Reg \subseteq Int
      BY DEF Reg
    <3>3. \A w \in Wheel : motor[w] \in Int
      BY ONLY <3>1, <3>2
    <3> QED BY ONLY <3>3, FromRegType
  <2>3. echo' \in [Wheel -> Int]
    BY <2>1, <2>2 DEF Reported
  <2>4. drv \in {"bound", "removing"}
    BY <1>7 DEF PassEcho
  <2>5. UNCHANGED <<drv, goingAway, mutex, request, next, speed, motor, busFault>>
    BY <1>7 DEF PassEcho
  <2>6. pc' = [pc EXCEPT ![f] = "done"] /\ pc[f] = "echo"
    BY <1>7 DEF PassEcho
  <2>7. Reported(motor)' = Reported(motor)
    BY <2>5 DEF Reported
  <2> HIDE DEF Reported
  <2>8. \A g \in File : pc'[g] = IF g = f THEN "done" ELSE pc[g]
    BY <2>6
  <2>9. TypeOK'
    BY <2>3, <2>5, <2>6
  <2>10. MutexInv'
    BY <2>4, <2>5, <2>6, <2>8
  <2>11. WriteInv'
    BY <1>1, <2>5, <2>6, <2>8
  <2>12. EchoInv'
    BY <2>1, <2>4, <2>5, <2>7
  <2>13. WheelsOfOneWrite' /\ StopIsFinal'
    BY <2>5
  <2>14. WriteTakesEffect'
    BY <1>1, <2>1, <2>5, <2>6, <2>8
  <2> QED BY <2>9, <2>10, <2>11, <2>12, <2>13, <2>14
<1>8. CASE WriteReturns(f)
  BY <1>1, <1>8 DEF WriteReturns, Unlock, Reported
<1> QED BY <1>2, <1>3, <1>4, <1>5, <1>6, <1>7, <1>8 DEF WriteStep

LEMMA StutterPreserves == IInv /\ UNCHANGED vars => IInv'
BY DEF IInv, TypeOK, MutexInv, WriteInv, EchoInv, WheelsOfOneWrite, WriteTakesEffect,
       StopIsFinal, NoPassAfterFree, vars, driverVars, writeVars, Reported

-----------------------------------------------------------------------------
(* The inductive invariant holds always.                                   *)
THEOREM Invariance == Spec => []IInv
<1>1. IInv /\ [Next]_vars => IInv'
  BY DriverPreserves, WritePreserves, StutterPreserves DEF Next, Rest
<1> QED BY <1>1, InitIInv, PTL DEF Spec

(* Registers, reports and requests have their types: whatever was asked    *)
(* for, the registers are in the range of the motor controller.            *)
THEOREM TypeCorrect == Spec => []TypeOK
<1>1. IInv => TypeOK
  BY DEF IInv
<1> QED BY <1>1, Invariance, PTL

(* The wheels never run at the speeds of two writes mixed, unless the last *)
(* transfer failed: the registers are unknown then.                        *)
THEOREM WritesAreAtomic == Spec => []WheelsOfOneWrite
<1>1. IInv => WheelsOfOneWrite
  BY DEF IInv
<1> QED BY <1>1, Invariance, PTL

(* A write that returns its size has set the motors to what it asked, as   *)
(* the mutex is held from the first action to the return.                  *)
THEOREM WritesAreObeyed == Spec => []WriteTakesEffect
<1>1. IInv => WriteTakesEffect
  BY DEF IInv
<1> QED BY <1>1, Invariance, PTL

(* Between writes the last report is what is in force.                     *)
THEOREM ReportsAreTrue == Spec => []EchoIsInForce
<1>1. IInv => EchoIsInForce
  BY FileAssumption DEF IInv, TypeOK, EchoInv, MutexInv, EchoIsInForce, Reported
<1> QED BY <1>1, Invariance, PTL

(* A removed robot stands still, and no write meets a freed driver.        *)
THEOREM RemovedRobotStands == Spec => [](StopIsFinal /\ NoPassAfterFree)
<1>1. IInv => StopIsFinal /\ NoPassAfterFree
  BY DEF IInv, MutexInv
<1> QED BY <1>1, Invariance, PTL
=============================================================================
