------------------------------ MODULE MCVault ------------------------------
(* Instances of the vault for TLC. *)
EXTENDS Vault

CONSTANTS usdc, xlm

TwoTokens == <<usdc, xlm>>
LossOrGain == {-3, -1, 1}
NoHaircut == [t \in Tokens |-> 0]
=============================================================================
