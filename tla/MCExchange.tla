----------------------------- MODULE MCExchange -----------------------------
(* Instances of the exchange for TLC. *)
EXTENDS Exchange

NoTicks == {}
UpTick  == {1}
=============================================================================
