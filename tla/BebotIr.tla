------------------------------ MODULE BebotIr -------------------------------
(***************************************************************************)
(* The kernel driver of the infrared sensors                               *)
(* (senseact/trunk/drivers/bebot-ir.c) as the writer of a mask: programs   *)
(* switch single sensors on and off, and the sync at the end of a write    *)
(* transfers the whole mask.  Polling is the subject of SenseactPoll and   *)
(* BebotSnapshot.                                                          *)
(***************************************************************************)
EXTENDS Integers

CONSTANTS
  Writer,       \* open files of the device, each with one writer
  NoWriter,
  SensorCount,  \* ir->count: 6, or 12 of the newer robots
  Switch        \* bits a write may switch; those from SensorCount on are ignored

ASSUME IrWriterAssumption == NoWriter \notin Writer
ASSUME SensorAssumption == SensorCount \in {6, 12} /\ Switch \subseteq 0..15

VARIABLES
  irDrv,     \* probe and remove of the driver
  irMutex,   \* owner of senseact->mutex
  irPc,      \* where the write of a file is
  wish,      \* what it switches, and to what
  enable,    \* ir->enable, by the bits that are set
  register,  \* ENABLE_REG or ENABLE_REG2
  told,      \* the last report to the files, if there was one: <<bits>>
  irFault    \* the last transfer failed

bebotIrVars == <<irDrv, irMutex, irPc, wish, enable, register, told, irFault>>

Word == 0..15
Byte == 0..7
Sensors == 0..(SensorCount - 1)

BebotIrTypeOK ==
  /\ irDrv \in {"absent", "bound", "gone"}
  /\ irMutex \in Writer \union {NoWriter}
  /\ irPc \in [Writer -> {"idle", "copy", "sync", "report"}]
  /\ enable \subseteq Word /\ register \subseteq Word
  /\ told = <<>> \/ told[1] \subseteq Sensors
  /\ irFault \in BOOLEAN

BebotIrInit(there) ==
  /\ irDrv = IF there THEN "absent" ELSE "gone"
  /\ irMutex = NoWriter
  /\ irPc = [w \in Writer |-> "idle"]
  /\ wish = [w \in Writer |-> <<>>]
  /\ enable = {} /\ register = {} /\ told = <<>>
  /\ irFault = FALSE

-----------------------------------------------------------------------------
(* The register has a byte where there are six sensors. *)
write_enable(mask) ==
  /\ register' = IF SensorCount = 6 THEN mask \intersect Byte ELSE mask
  /\ irFault' = FALSE

(* A transfer that fails may have set the register. *)
write_enable_fails(mask) ==
  /\ register' \in {register, IF SensorCount = 6 THEN mask \intersect Byte ELSE mask}
  /\ irFault' = TRUE

(* All sensors are enabled. *)
bebot_ir_probe ==
  /\ irDrv = "absent" /\ irDrv' = "bound"
  /\ enable' = Word
  /\ write_enable(Word)
  /\ UNCHANGED <<irMutex, irPc, wish, told>>

(* The transfer fails, or what comes after it; there is no device then.    *)
bebot_ir_probe_fails ==
  /\ irDrv = "absent"
  /\ write_enable(Word) \/ write_enable_fails(Word)
  /\ UNCHANGED <<irDrv, irMutex, irPc, wish, enable, told>>

bebot_ir_remove ==
  /\ irDrv = "bound" /\ irMutex = NoWriter
  /\ irDrv' = "gone"
  /\ UNCHANGED <<irMutex, irPc, wish, enable, register, told, irFault>>

(* A slip: the mutex is not taken. *)
BeginSwitchUnlocked(w) ==
  /\ irDrv = "bound" /\ irPc[w] = "idle"
  /\ irPc' = [irPc EXCEPT ![w] = "copy"]
  /\ \E bits \in SUBSET Switch : \E f \in [bits -> BOOLEAN] : wish' = [wish EXCEPT ![w] = f]
  /\ UNCHANGED <<irDrv, irMutex, enable, register, told, irFault>>

BeginSwitch(w) ==
  /\ irDrv = "bound" /\ irPc[w] = "idle"
  /\ irMutex = NoWriter /\ irMutex' = w
  /\ irPc' = [irPc EXCEPT ![w] = "copy"]
  /\ \E bits \in SUBSET Switch : \E f \in [bits -> BOOLEAN] : wish' = [wish EXCEPT ![w] = f]
  /\ UNCHANGED <<irDrv, enable, register, told, irFault>>

(* The actions of type ENABLE, of which those beyond the sensors change    *)
(* nothing.                                                                *)
SwitchBits(w) ==
  /\ irPc[w] = "copy"
  /\ irPc' = [irPc EXCEPT ![w] = "sync"]
  /\ LET known == DOMAIN wish[w] \intersect Sensors
     IN enable' = (enable \ known) \union {b \in known : wish[w][b]}
  /\ UNCHANGED <<irDrv, irMutex, wish, register, told, irFault>>

(* copy_from_user fails at one of the actions: those before it stay in the *)
(* mask, and neither a transfer nor a report comes.                        *)
SwitchFaults(w) ==
  /\ irPc[w] = "copy"
  /\ \E known \in SUBSET (DOMAIN wish[w] \intersect Sensors) :
       enable' = (enable \ known) \union {b \in known : wish[w][b]}
  /\ irPc' = [irPc EXCEPT ![w] = "idle"]
  /\ wish' = [wish EXCEPT ![w] = <<>>]
  /\ irMutex' = NoWriter
  /\ UNCHANGED <<irDrv, register, told, irFault>>

Sync(w) ==
  /\ irPc[w] = "sync"
  /\ write_enable(enable)
  /\ irPc' = [irPc EXCEPT ![w] = "report"]
  /\ UNCHANGED <<irDrv, irMutex, wish, enable, told>>

(* Nothing is reported, nor does the write fail. *)
SyncFails(w) ==
  /\ irPc[w] = "sync"
  /\ write_enable_fails(enable)
  /\ irPc' = [irPc EXCEPT ![w] = "idle"]
  /\ wish' = [wish EXCEPT ![w] = <<>>]
  /\ irMutex' = NoWriter
  /\ UNCHANGED <<irDrv, enable, told>>

Report(w) ==
  /\ irPc[w] = "report"
  /\ told' = <<enable \intersect Sensors>>
  /\ irPc' = [irPc EXCEPT ![w] = "idle"]
  /\ wish' = [wish EXCEPT ![w] = <<>>]
  /\ irMutex' = NoWriter
  /\ UNCHANGED <<irDrv, enable, register, irFault>>

BebotIrNext ==
  \/ bebot_ir_probe \/ bebot_ir_probe_fails \/ bebot_ir_remove
  \/ \E w \in Writer :
       \/ BeginSwitch(w) \/ SwitchBits(w) \/ SwitchFaults(w)
       \/ Sync(w) \/ SyncFails(w) \/ Report(w)

-----------------------------------------------------------------------------
(* When the transfer of a write is over, what that write asked for is in   *)
(* force, though others write single sensors too; and once it is reported, *)
(* what the files were told is what is in force.                           *)
MaskIsInForce ==
  /\ \A w \in Writer : irPc[w] = "report" =>
       \A b \in DOMAIN wish[w] \intersect Sensors : b \in register <=> wish[w][b]
  /\ irMutex = NoWriter /\ ~irFault /\ told # <<>> => told[1] = register \intersect Sensors
=============================================================================
