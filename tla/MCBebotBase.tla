---------------------------- MODULE MCBebotBase ----------------------------
(***************************************************************************)
(* Requests for the runs of BebotBase.                                     *)
(***************************************************************************)
EXTENDS BebotBase

Speeds(left, right) == [w \in Wheel |-> IF w = 0 THEN left ELSE right]

Requests == {Speeds(-100, 100), Speeds(-9, -13), Speeds(500, 401)}
=============================================================================
