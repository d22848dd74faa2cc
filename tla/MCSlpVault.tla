----------------------------- MODULE MCSlpVault -----------------------------
(* Instances of the SLP vault for TLC. *)
EXTENDS SlpVault

CONSTANTS alice, bob

Lps == {alice, bob}
=============================================================================
