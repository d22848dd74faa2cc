---------------------------- MODULE MCPositions ----------------------------
(* Instances of the position view for TLC. *)
EXTENDS Positions

CONSTANTS alice, bob, p1

OneOwner == [p \in Positions |-> alice]
Losses == {-1}
=============================================================================
