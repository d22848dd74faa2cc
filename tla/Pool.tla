-------------------------------- MODULE Pool --------------------------------
(***************************************************************************)
(* What the liquidity pool promises to everyone who prices its shares: a   *)
(* net asset value and a balance of money in the collateral vault.  The    *)
(* value may be written down at any time, but it rises only with money     *)
(* that arrives, and money leaves only as far as there is value.           *)
(*                                                                         *)
(* Exchange (the engines' side) and SlpVault (the share holders' side)     *)
(* both implement it.                                                      *)
(***************************************************************************)
EXTENDS Integers

VARIABLES assets, bal

Init == bal \in Nat /\ assets \in Int /\ assets <= bal

Next ==
    /\ bal' \in Nat /\ assets' \in Int
    /\ assets' - assets <= bal' - bal
    /\ bal' < bal => bal - bal' <= assets

Spec == Init /\ [][Next]_<<assets, bal>>
=============================================================================
