------------------------------ MODULE Replies ------------------------------
(***************************************************************************)
(* What the SDK's clients (packages/sdk/src) make of a contract's reply.   *)
(* A client declares a type, a field of a kind for each field it reads,    *)
(* and converts what it finds; the contract returns a struct, which may    *)
(* lack a field, or nothing.                                               *)
(***************************************************************************)
EXTENDS Interface, FiniteSets, SequencesExt

Kind(kind, names) == {[name |-> n, kind |-> kind] : n \in names}
Names(fields) == {f.name : f \in fields}

\* What a conversion makes of a field that is not there: BigInt throws, Number,
\* String and Boolean go on with NaN, "undefined" and false, "?? 0" with 0.
Absent(kind) ==
    CASE kind = "bigint" -> "throws"
      [] kind = "bytes" -> "empty"
      [] OTHER -> "made up"

-----------------------------------------------------------------------------
(* The types the clients declare *)

SkewState == Kind("bigint", {"skew", "skew_scale"}) \cup Kind("number", {"maker_rebate_bps"})

\* Kinds of order, and the numbers that go with each.
OrderTypes == {"Market", "Limit", "StopLoss", "TakeProfit", "Trailing"}
Payload(t) == CASE t = "Market" -> 0 [] t = "Trailing" -> 2 [] OTHER -> 1

PendingOrder ==
    Kind("bigint", {"order_id", "size"}) \cup Kind("string", {"user"}) \cup
    Kind("boolean", {"is_long"}) \cup Kind("variant", {"order_type"}) \cup
    Kind("number", {"market_id", "leverage", "max_slippage", "created_ledger",
                    "expiry_ledger"})

BracketGroup ==
    Kind("bigint", {"parent_id", "take_profit_id", "stop_loss_id"}) \cup
    Kind("string", {"user"}) \cup Kind("boolean", {"active"})

TwapPlan ==
    Kind("bigint", {"plan_id", "total_size", "size_filled"}) \cup
    Kind("string", {"user"}) \cup Kind("boolean", {"is_long", "active"}) \cup
    Kind("number", {"market_id", "leverage", "max_slippage", "slices", "slices_released",
                    "interval_ledgers", "start_ledger", "expiry_ledger"})

IcebergPlan ==
    Kind("bigint", {"plan_id", "total_size", "display_size", "size_filled",
                    "entry_price"}) \cup
    Kind("string", {"user"}) \cup Kind("boolean", {"is_long", "active"}) \cup
    Kind("number", {"market_id", "leverage", "max_slippage", "expiry_ledger"})

AccountHealth ==
    Kind("bigint", {"equity", "total_margin_required", "margin_ratio",
                    "free_collateral"}) \cup Kind("boolean", {"liquidatable"})

LiquidationOutcome ==
    Kind("bigint", {"liquidated_size", "oracle_price", "remaining_margin",
                    "keeper_reward", "insurance_delta"}) \cup
    Kind("boolean", {"adl_triggered"})

PortfolioGreeks ==
    Kind("bigint", {"total_notional", "net_delta_notional"}) \cup Kind("map", {"net_delta"})

PortfolioHealth ==
    Kind("bigint", {"total_collateral_value", "portfolio_margin_required",
                    "free_collateral", "net_delta_usd"}) \cup
    Kind("boolean", {"liquidatable"})

LimitOrder ==
    Kind("bigint", {"order_id", "size", "price", "expiry", "nonce", "filled_size"}) \cup
    Kind("string", {"trader"}) \cup Kind("number", {"market_id", "leverage"}) \cup
    Kind("boolean", {"is_long"}) \cup Kind("bytes", {"signature"}) \cup
    Kind("variant", {"status"})

ClobConfig == Kind("string", {"admin", "perp_engine", "vault", "keeper"})

StakingConfig ==
    Kind("string", {"admin", "stlx_token", "treasury"}) \cup
    Kind("bigint", {"epoch_duration_secs"})

StakeEntry ==
    Kind("string", {"staker"}) \cup Kind("bigint", {"amount"}) \cup
    Kind("number", {"stake_epoch", "last_claim_epoch"})

EpochRewardPool ==
    Kind("number", {"epoch_id"}) \cup Kind("string", {"reward_token"}) \cup
    Kind("bigint", {"total_staked", "reward_amount", "claimed_amount"})

\* The last two have a default.
GovernorProposal ==
    Kind("bigint", {"id"}) \cup Kind("string", {"proposer", "target_contract"}) \cup
    Kind("variant", {"action", "status"}) \cup Kind("bytes", {"calldata"}) \cup
    Kind("default", {"approval_count", "created_at"})

EpochState ==
    Kind("number", {"epoch_id"}) \cup Kind("boolean", {"settled"}) \cup
    Kind("bigint", {"start_time", "end_time", "strike", "option_id", "total_assets",
                    "premium"})

BridgeConfig ==
    Kind("string", {"admin", "gateway", "gas_service", "its", "vault", "treasury"}) \cup
    Kind("number", {"protocol_fee_bps"})

IssuerConfig ==
    Kind("string", {"admin", "name", "symbol"}) \cup Kind("bigint", {"total_supply"}) \cup
    Kind("number", {"decimals", "apy_bps"}) \cup Kind("boolean", {"auth_required", "paused"})

SlpConfig ==
    Kind("default", {"admin", "keeper", "vault_contract", "perp_engine", "usdc_token",
                     "treasury", "cooldown_secs", "skew_cap_bps", "max_vault_cap",
                     "perp_market_ids"})

PriceData == Kind("bigint", {"price", "package_timestamp", "write_timestamp"})

Position ==
    Kind("string", {"owner"}) \cup Kind("boolean", {"is_long"}) \cup
    Kind("bigint", {"size", "entry_price", "margin", "last_funding_idx",
                    "open_timestamp"}) \cup
    Kind("number", {"market_id", "leverage"})

InsuranceTarget == Kind("bigint", {"soft_cap", "hard_cap"})

-----------------------------------------------------------------------------
(* The structs of the contracts, where they differ *)

BracketStruct == {"parent_id", "tp_id", "sl_id", "user", "active"}
TwapStruct == Names(TwapPlan) \ {"size_filled"}
ProposalStruct == {"id", "proposer", "action", "target_contract", "calldata",
                   "created_ledger", "status"}

OrderEnum == [Market |-> 0, Limit |-> 1, StopLoss |-> 1, TakeProfit |-> 1, Trailing |-> 2]

\* The others have a field of every name the client reads.
Struct(type) ==
    CASE type = BracketGroup -> BracketStruct
      [] type = TwapPlan -> TwapStruct
      [] type = GovernorProposal -> ProposalStruct
      [] OTHER -> Names(type)

-----------------------------------------------------------------------------
(* Which reply is read as which type, and what is made of no reply *)

Reply(contract, method, type, nothing) ==
    [contract |-> contract, method |-> method, type |-> type, nothing |-> nothing]

EngineReplies ==
    {Reply("perp", "get_position", Position, "fails"),
     Reply("perp", "get_skew_state", SkewState, "fails"),
     Reply("perp", "get_pending_order", PendingOrder, "fails")}

PlanReplies ==
    {Reply("perp", "get_bracket", BracketGroup, "undefined"),
     Reply("perp", "get_twap_plan", TwapPlan, "undefined"),
     Reply("perp", "get_iceberg_plan", IcebergPlan, "undefined")}

RiskReplies ==
    {Reply("risk", "get_account_health", AccountHealth, "fails"),
     Reply("risk", "liquidate", LiquidationOutcome, "fails"),
     Reply("risk", "compute_portfolio_greeks", PortfolioGreeks, "fails"),
     Reply("risk", "get_portfolio_health", PortfolioHealth, "fails")}

ClobReplies ==
    {Reply("clob", "get_order", LimitOrder, "fails"),
     Reply("clob", "get_config", ClobConfig, "fails")}

StakingReplies ==
    {Reply("staking", "get_config", StakingConfig, "fails"),
     Reply("staking", "get_stake", StakeEntry, "fails"),
     Reply("staking", "get_epoch_reward", EpochRewardPool, "fails")}

\* The governor answers void for a proposal it does not know.
OtherReplies ==
    {Reply("governor", "get_proposal", GovernorProposal, "throws"),
     Reply("structured", "get_epoch", EpochState, "fails"),
     Reply("bridge", "get_config", BridgeConfig, "fails"),
     Reply("issuer", "get_config", IssuerConfig, "fails"),
     Reply("slp", "get_config", SlpConfig, "fails"),
     Reply("oracle", "get_price", PriceData, "fails"),
     Reply("treasury", "get_insurance_target", InsuranceTarget, "undefined")}

AllReplies == EngineReplies \cup PlanReplies \cup RiskReplies \cup ClobReplies
    \cup StakingReplies \cup OtherReplies

\* How a reply is read: "whole", or what becomes of the fields it lacks.
ReadAs(reply) ==
    LET missing == {f \in reply.type : f.name \notin Struct(reply.type)}
    IN  IF missing = {} THEN {"whole"} ELSE {Absent(f.kind) : f \in missing}

Readable(contract, method) ==
    \A r \in AllReplies :
        r.contract = contract /\ r.method = method => "throws" \notin ReadAs(r)

\* What place_order writes is the struct the contract reads.
OrderWritten ==
    {"filled_size", "expiry", "is_long", "leverage", "market_id", "nonce", "order_id",
     "price", "signature", "size", "status", "trader"}

\* Every reply that is read is one of a call the clients make, an order is written
\* as it is read, and three replies are not read whole: the brackets and the
\* slicing plans, whose fields have other names or do not exist, and the proposals.
ASSUME RepliesFit ==
    /\ \A r \in AllReplies : \E call \in Sends(r.contract) : call.method = r.method
    /\ OrderWritten = Struct(LimitOrder)
    /\ OrderTypes = DOMAIN OrderEnum /\ \A t \in OrderTypes : Payload(t) = OrderEnum[t]
    /\ {r.method : r \in {s \in AllReplies : ReadAs(s) # {"whole"}}} =
           {"get_bracket", "get_twap_plan", "get_proposal"}
=============================================================================
