------------------------------ MODULE MCBridge ------------------------------
(* Instances of the bridge for TLC. *)
EXTENDS Bridge

CONSTANTS alice, dapp, nobody
=============================================================================
