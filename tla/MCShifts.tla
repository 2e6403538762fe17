------------------------------ MODULE MCShifts ------------------------------
(***************************************************************************)
(* Instances of Shifts for TLC: the first terminal closes by itself, the   *)
(* second leaves the close to the server.                                  *)
(***************************************************************************)
EXTENDS Shifts, TLC

CONSTANTS t1, t2, m1, r1, c1, c2, c3, c4, w1, w2

(* A movement of the drawer and a refund, both on the first terminal.      *)
OnFirst == [m \in Cash |-> t1]

(* The cashier closes on the first terminal, closes on the second, and     *)
(* tries again: on the first with another count, on the second with the    *)
(* same.                                                                   *)
CalledOn == [c \in Calls |-> IF c \in {c2, c4} THEN t2 ELSE t1]
Recounted == [c \in Calls |-> IF c = c3 THEN 2 ELSE 1]
SweepOn == [k \in Workers |-> IF k = w2 THEN t2 ELSE t1]

(* The bound: the cashier tries again on one of the terminals only.        *)
OneRetry == call[c3].at = "idle" \/ call[c4].at = "idle"
=============================================================================
