----------------------------- MODULE MCWorkers -----------------------------
(* Instances of the keeper's workers for TLC. *)
EXTENDS Workers, RwaPrices, Health

AllCalls == [Items -> 0 .. MaxBacklog] \ {Nothing}

\* Every worker but the one whose calls the contract does not take.
AllWorkers == EveryWorker \ {LiquidationBot}

OnlyLiquidations == {LiquidationBot}

\* The one that pays by the indexer's rows.
OnlyIndexed == {YieldSimulator}
=============================================================================
