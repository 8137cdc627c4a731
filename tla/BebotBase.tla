----------------------------- MODULE BebotBase -----------------------------
(***************************************************************************)
(* How speeds written to the files of the base reach its motors: write of  *)
(* the senseact core (senseact/trunk/drivers/senseact.c) hands the actions *)
(* to bebot_base_pass one by one with the mutex of the device held, the    *)
(* sync at their end puts the stored speeds into the registers of the      *)
(* motor controller (senseact/trunk/drivers/bebot-base.c), and removing    *)
(* the driver stops the robot.  A write is one of bebot_set_speed: an      *)
(* action for each wheel.                                                  *)
(*                                                                         *)
(* The i2c bus is external.  A transfer that fails may have set none, some *)
(* or all of the registers.                                                *)
(***************************************************************************)
EXTENDS BaseUnits

CONSTANTS
  File,       \* open files of the device, each with one writer
  Request,    \* speeds the writers ask for, in mm/s
  NoFile

Wheel == 0..1   \* SETSPEED_COUNT

ASSUME FileAssumption == NoFile \notin File
ASSUME RequestAssumption == Request # {} /\ Request \subseteq [Wheel -> Int]

VARIABLES
  drv,        \* probe and remove of the driver
  goingAway,  \* senseact->going_away
  mutex,      \* owner of senseact->mutex, of those who write
  pc,         \* where senseact_write_file of the file is
  request,    \* what the file last wrote
  next,       \* the action of the write that is copied next
  speed,      \* base->speed
  motor,      \* SETSPEED_REG
  echo,       \* the speeds of the last SENSEACT_SYNC_ACTOR the files were passed
  busFault    \* history: the last transfer to SETSPEED_REG failed

driverVars == <<drv, goingAway>>
writeVars == <<mutex, pc, request, next>>
vars == <<driverVars, writeVars, speed, motor, echo, busFault>>

Reg == -120..120

Zero == [w \in Wheel |-> 0]

(* The registers that stand for a request. *)
Regs(r) == [w \in Wheel |-> SpeedToReg(r[w])]

TypeOK ==
  /\ drv \in {"absent", "bound", "removing", "marked", "unregistered", "stopped", "gone"}
  /\ goingAway \in BOOLEAN
  /\ mutex \in File \union {NoFile}
  /\ pc \in [File -> {"idle", "copy", "echo", "done"}]
  /\ request \in [File -> Request]
  /\ next \in [File -> 0..2]
  /\ speed \in [Wheel -> Reg]
  /\ motor \in [Wheel -> Reg]
  /\ echo \in [Wheel -> Int]
  /\ busFault \in BOOLEAN

(* A driver that was bound before may have left the motors running. *)
Init ==
  /\ drv = "absent"
  /\ goingAway = FALSE
  /\ mutex = NoFile
  /\ pc = [f \in File |-> "idle"]
  /\ request \in [File -> Request]
  /\ next = [f \in File |-> 0]
  /\ speed = Zero
  /\ \E r \in Request : motor = Regs(r)
  /\ echo = Zero
  /\ busFault = FALSE

(* i2c_smbus_write_i2c_block_data and i2c_smbus_write_word_data of the     *)
(* registers of both wheels.                                               *)
Transfer(v) ==
  /\ motor' = v
  /\ busFault' = FALSE

TransferFails(v) ==
  /\ \E set \in SUBSET Wheel : motor' = [w \in Wheel |-> IF w \in set THEN v[w] ELSE motor[w]]
  /\ busFault' = TRUE

DrvGoes(from, to) ==
  /\ drv = from
  /\ drv' = to

FileGoes(f, from, to) ==
  /\ pc[f] = from
  /\ pc' = [pc EXCEPT ![f] = to]

Unlock == mutex' = NoFile

-----------------------------------------------------------------------------
(* Plausible slips of the code, each of which one of the properties below  *)
(* has to notice; no action uses them.                                     *)

(* A write does not take the mutex. *)
BeginWriteUnlocked(f, r) ==
  /\ drv # "absent"
  /\ ~goingAway
  /\ FileGoes(f, "idle", "copy")
  /\ request' = [request EXCEPT ![f] = r]
  /\ next' = [next EXCEPT ![f] = 0]
  /\ UNCHANGED <<mutex, driverVars, speed, motor, echo, busFault>>

(* A write does not look whether the device goes away. *)
BeginWriteUntested(f, r) ==
  /\ drv # "absent"
  /\ mutex = NoFile
  /\ FileGoes(f, "idle", "copy")
  /\ mutex' = f
  /\ request' = [request EXCEPT ![f] = r]
  /\ next' = [next EXCEPT ![f] = 0]
  /\ UNCHANGED <<driverVars, speed, motor, echo, busFault>>

(* The speed is stored before it is limited. *)
PassSpeedUnlimited(f) ==
  /\ pc[f] = "copy" /\ next[f] < 2
  /\ speed' = [speed EXCEPT ![next[f]] = request[f][next[f]]]
  /\ next' = [next EXCEPT ![f] = @ + 1]
  /\ UNCHANGED <<driverVars, mutex, pc, request, motor, echo, busFault>>

(* A fault sends what was copied so far. *)
CopyFaultsThenSync(f) ==
  /\ next[f] < 2
  /\ FileGoes(f, "copy", "idle")
  /\ Unlock
  /\ Transfer(speed)
  /\ UNCHANGED <<driverVars, request, next, speed, echo>>

(* The speeds that were asked for are reported. *)
PassEchoOfRequest(f) ==
  /\ FileGoes(f, "echo", "done")
  /\ echo' = request[f]
  /\ UNCHANGED <<driverVars, mutex, request, next, speed, motor, busFault>>

(* The mutex stays locked when a copy faults. *)
CopyFaultsLocked(f) ==
  /\ next[f] < 2
  /\ FileGoes(f, "copy", "idle")
  /\ UNCHANGED <<driverVars, mutex, request, next, speed, motor, echo, busFault>>

-----------------------------------------------------------------------------
(* bebot_base_probe sets the speed to zero before the device is there.     *)

Probe ==
  /\ DrvGoes("absent", "bound")
  /\ Transfer(speed)
  /\ UNCHANGED <<goingAway, writeVars, speed, echo>>

ProbeFails ==
  /\ drv = "absent"
  /\ TransferFails(speed)
  /\ UNCHANGED <<driverVars, writeVars, speed, echo>>

(* bebot_base_remove: first senseact_unregister_device, which marks the    *)
(* device under the mutex ...                                              *)
Remove ==
  /\ DrvGoes("bound", "removing")
  /\ UNCHANGED <<goingAway, writeVars, speed, motor, echo, busFault>>

MarkGoingAway ==
  /\ mutex = NoFile
  /\ DrvGoes("removing", "marked")
  /\ goingAway' = TRUE
  /\ UNCHANGED <<writeVars, speed, motor, echo, busFault>>

Unregister ==
  /\ DrvGoes("marked", "unregistered")
  /\ UNCHANGED <<goingAway, writeVars, speed, motor, echo, busFault>>

(* ... then the motors are stopped, without the mutex, and whether that    *)
(* succeeds or not ...                                                     *)
StopMotors ==
  /\ DrvGoes("unregistered", "stopped")
  /\ Transfer(Zero) \/ TransferFails(Zero)
  /\ UNCHANGED <<goingAway, writeVars, speed, echo>>

(* ... the memory of the driver is freed. *)
FreeBase ==
  /\ DrvGoes("stopped", "gone")
  /\ UNCHANGED <<goingAway, writeVars, speed, motor, echo, busFault>>

-----------------------------------------------------------------------------
(* senseact_write_file and, through the pass callback, bebot_base_pass.    *)

(* A signal while waiting for the mutex, or a device going away, ends the  *)
(* write before anything changes.                                          *)
BeginWrite(f, r) ==
  /\ drv # "absent"
  /\ mutex = NoFile /\ ~goingAway
  /\ FileGoes(f, "idle", "copy")
  /\ mutex' = f
  /\ request' = [request EXCEPT ![f] = r]
  /\ next' = [next EXCEPT ![f] = 0]
  /\ UNCHANGED <<driverVars, speed, motor, echo, busFault>>

(* An action of type SPEED is stored. *)
PassSpeed(f) ==
  /\ pc[f] = "copy" /\ next[f] < 2
  /\ speed' = [speed EXCEPT ![next[f]] = SpeedToReg(request[f][next[f]])]
  /\ next' = [next EXCEPT ![f] = @ + 1]
  /\ UNCHANGED <<driverVars, mutex, pc, request, motor, echo, busFault>>

(* copy_from_user fails: what was stored stays stored. *)
CopyFaults(f) ==
  /\ next[f] < 2
  /\ FileGoes(f, "copy", "idle")
  /\ Unlock
  /\ UNCHANGED <<driverVars, request, next, speed, motor, echo, busFault>>

(* The sync at the end of the write. *)
PassSync(f) ==
  /\ next[f] = 2
  /\ FileGoes(f, "copy", "echo")
  /\ Transfer(speed)
  /\ UNCHANGED <<driverVars, mutex, request, next, speed, echo>>

(* Its result is not looked at: the write counts as done. *)
PassSyncFails(f) ==
  /\ next[f] = 2
  /\ FileGoes(f, "copy", "done")
  /\ TransferFails(speed)
  /\ UNCHANGED <<driverVars, mutex, request, next, speed, echo>>

(* The files are passed the speeds in force and SENSEACT_SYNC_ACTOR. *)
PassEcho(f) ==
  /\ FileGoes(f, "echo", "done")
  /\ echo' = [w \in Wheel |-> SpeedFromReg(speed[w])]
  /\ UNCHANGED <<driverVars, mutex, request, next, speed, motor, busFault>>

WriteReturns(f) ==
  /\ FileGoes(f, "done", "idle")
  /\ Unlock
  /\ UNCHANGED <<driverVars, request, next, speed, motor, echo, busFault>>

-----------------------------------------------------------------------------
RemoveStep == MarkGoingAway \/ Unregister \/ StopMotors \/ FreeBase

DriverStep == Probe \/ ProbeFails \/ Remove \/ RemoveStep

WriteStep(f) ==
  \/ PassSpeed(f) \/ CopyFaults(f)
  \/ PassSync(f) \/ PassSyncFails(f) \/ PassEcho(f)
  \/ WriteReturns(f)

(* Files of a device that is gone get -ENODEV for ever. *)
Rest ==
  /\ drv = "gone"
  /\ UNCHANGED vars

Next ==
  \/ DriverStep
  \/ \E f \in File : WriteStep(f) \/ \E r \in Request : BeginWrite(f, r)
  \/ Rest

Spec == Init /\ [][Next]_vars

(* A write under way and a removal under way go on; the mutex of the       *)
(* kernel is handed to the remover in turn, however many writes come.      *)
Fairness ==
  /\ SF_vars(MarkGoingAway)
  /\ WF_vars(Unregister) /\ WF_vars(StopMotors) /\ WF_vars(FreeBase)
  /\ \A f \in File : WF_vars(WriteStep(f))

FairSpec == Spec /\ Fairness

-----------------------------------------------------------------------------
(* The wheels never run at the speeds of two writes mixed: they stand      *)
(* still or turn as one write asked both of them to, however writes of     *)
(* several processes, faults in the middle of a write and the removal      *)
(* overlap, unless the bus failed last.                                    *)
WheelsOfOneWrite ==
  ~busFault => motor \in {Zero} \union {Regs(r) : r \in Request}

(* A write that returns its size has set the motors to what it asked, and  *)
(* not to what somebody else did meanwhile, unless the bus failed last: of *)
(* that it tells nothing.                                                  *)
WriteTakesEffect ==
  \A f \in File : pc[f] = "done" /\ ~busFault => motor = Regs(request[f])

(* Between writes the last speeds the files were passed are those in the   *)
(* registers, until remove stops the motors or the bus fails.              *)
EchoIsInForce ==
  /\ mutex = NoFile /\ ~busFault
  /\ drv \in {"bound", "removing", "marked", "unregistered"}
  => echo = [w \in Wheel |-> SpeedFromReg(motor[w])]

(* "set speed to 0": a robot whose driver was removed stands still, and no *)
(* write that was under way starts it again, unless the bus failed.        *)
StopIsFinal == drv \in {"stopped", "gone"} /\ ~busFault => motor = Zero

(* No write is inside the driver, or gets into it, when remove frees what  *)
(* its callback works on.                                                  *)
NoPassAfterFree == \A f \in File : pc[f] # "idle" => drv \in {"bound", "removing"}

(* Remove gets through although processes keep writing. *)
RemovalStopsRobot == drv = "removing" ~> drv = "gone"
=============================================================================
