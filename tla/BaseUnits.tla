----------------------------- MODULE BaseUnits -----------------------------
(***************************************************************************)
(* The conversions between the registers of the base and the units of its  *)
(* actions (the macros of senseact/trunk/drivers/bebot-base.c), on the     *)
(* values the types of their arguments can have.                           *)
(***************************************************************************)
EXTENDS Integers

(* / of C truncates towards zero. *)
Quotient(a, b) == IF a >= 0 THEN a \div b ELSE -((-a) \div b)

Abs(x) == IF x < 0 THEN -x ELSE x

(* SPEED_TO_REG and SPEED_FROM_REG *)
SpeedToReg(x) ==
  IF x > 400 THEN 120 ELSE IF x < -400 THEN -120 ELSE Quotient(x * 3, 10)

SpeedFromReg(x) == Quotient(x * 10, 3)

-----------------------------------------------------------------------------
(* The register is a signed byte, and no request drives it out of the      *)
(* range of the motor controller.                                          *)
RegisterInRange(x) == SpeedToReg(x) \in -120..120

(* What the driver reports of a request it did not have to limit is off by *)
(* less than one step of the register, and never faster than the request   *)
(* ("Speed in mm/s with 3.33 mm/s resolution").                            *)
EchoWithinResolution(x) ==
  Abs(x) <= 400 =>
    LET echo == SpeedFromReg(SpeedToReg(x))
    IN Abs(x - echo) <= 3 /\ Abs(echo) <= Abs(x) /\ echo * x >= 0

(* Faster requests never run slower, whatever is limited or truncated.     *)
Monotone(x) == SpeedToReg(x) <= SpeedToReg(x + 1)

(* Left and right, forth and back, are treated alike: a request to turn on *)
(* the spot moves the wheels at the same speed.                            *)
Symmetric(x) == SpeedToReg(-x) = -SpeedToReg(x)
=============================================================================
