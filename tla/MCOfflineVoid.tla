--------------------------- MODULE MCOfflineVoid ---------------------------
(* Two approvals of one sale that is in the older queue as well. *)
EXTENDS OfflineVoid

OneTarget == [a \in Attestations |-> "o"]
=============================================================================
