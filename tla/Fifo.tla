-------------------------------- MODULE Fifo --------------------------------
(***************************************************************************)
(* What a FIFO cut is.  Lots are numbered oldest first; a cut takes from   *)
(* each lot a number of base units.  planFifoCutFromState walks the lots   *)
(* oldest first and takes what it can from each; what is left over when    *)
(* the lots run out is the oversell remainder.  FifoCut (the loop itself)  *)
(* is checked against this definition.                                     *)
(***************************************************************************)
EXTENDS Integers, Functions

(* The units a cut takes in all. *)
Units(take) == SumFunction(take)

(* Every unit taken is one the lot had, and a lot is touched only when all *)
(* older lots have been taken whole.  Units are left over (rest) only when *)
(* every lot has been taken whole.                                         *)
Greedy(avail, take, rest) ==
  /\ \A l \in DOMAIN avail : take[l] <= avail[l]
  /\ \A k, l \in DOMAIN avail : k < l /\ take[l] > 0 => take[k] = avail[k]
  /\ rest > 0 => \A l \in DOMAIN avail : take[l] = avail[l]

(* take is the FIFO cut of q units out of avail, and rest what it lacks. *)
FifoPlan(avail, q, take, rest) ==
  /\ Greedy(avail, take, rest)
  /\ Units(take) + rest = q

Max0(n) == IF n > 0 THEN n ELSE 0
=============================================================================
