------------------------------ MODULE MCDeploy ------------------------------
(* The instance of the deployer with the shipped markets for TLC. *)
EXTENDS Deploy
=============================================================================
