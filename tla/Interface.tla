----------------------------- MODULE Interface -----------------------------
(***************************************************************************)
(* The calls the SDK's clients (packages/sdk/src/clients) make of the      *)
(* contracts: for each client the methods it names and the arguments it    *)
(* encodes, in order.  An argument is the kind of value the contract takes *)
(* there; for tokens moved that is their unit: "native" is the token's own *)
(* (7 decimals), "internal" the contracts' 18, "shares" a vault's.  "size" *)
(* and "price" are 18 decimals of the base asset and of dollars.           *)
(***************************************************************************)
EXTENDS Naturals

Sigs(methods, args) == {[method |-> m, args |-> args] : m \in methods}

Common == Sigs({"version"}, <<>>) \cup Sigs({"upgrade"}, <<"bytes32">>)

-----------------------------------------------------------------------------
VaultReads ==
    Sigs({"get_balance"}, <<"user", "token">>) \cup
    Sigs({"get_total_collateral_value", "get_free_collateral_value"}, <<"user">>)

VaultMoves == Sigs({"deposit", "withdraw"}, <<"user", "token", "native">>)

VaultMargin ==
    Sigs({"lock_margin", "unlock_margin", "lock_isolated", "unlock_isolated",
           "realize_isolated_pnl"}, <<"caller", "user", "id", "internal">>) \cup
    Sigs({"add_authorized_caller"}, <<"caller">>) \cup
    Sigs({"get_isolated_margin"}, <<"user", "id">>) \cup
    Sigs({"get_isolated_margin_total"}, <<"user">>)

VaultSubAccounts ==
    Sigs({"deposit_sub", "withdraw_sub"}, <<"user", "sub", "token", "native">>) \cup
    Sigs({"transfer_between_subs"}, <<"user", "sub", "sub", "token", "internal">>) \cup
    Sigs({"get_sub_balance"}, <<"user", "sub", "token">>) \cup
    Sigs({"atomic_swap"}, <<"caller", "user", "user", "token", "internal",
                             "token", "internal">>)

VaultRoles ==
    Sigs({"set_sub_account"}, <<"role", "user">>) \cup
    Sigs({"get_sub_account"}, <<"role">>)

PerpReads ==
    Sigs({"get_position"}, <<"user", "id">>) \cup
    Sigs({"get_unrealized_pnl"}, <<"id">>) \cup
    Sigs({"get_mark_price"}, <<"market">>)

PerpTrades ==
    Sigs({"open_position"}, <<"user", "market", "size", "bool", "leverage",
                               "bps", "payload">>) \cup
    Sigs({"open_position_with_update"},
          <<"user", "market", "size", "bool", "leverage", "bps", "payload",
            "bytes", "feeds as bytes">>) \cup
    Sigs({"close_position"}, <<"user", "id", "payload">>) \cup
    Sigs({"close_position_with_update"},
          <<"user", "id", "payload", "bytes", "feeds as bytes">>)

PerpBook ==
    Sigs({"get_skew_state"}, <<"market">>) \cup
    Sigs({"set_clob"}, <<"contract">>) \cup Sigs({"get_clob"}, <<>>)

PerpOrders ==
    Sigs({"create_order"}, <<"user", "market", "size", "bool", "leverage",
                              "bps", "type", "expiry">>) \cup
    Sigs({"execute_order"}, <<"caller", "id", "payload">>) \cup
    Sigs({"cancel_pending_order"}, <<"user", "id">>) \cup
    Sigs({"get_pending_order"}, <<"id">>) \cup
    Sigs({"update_trailing_anchor"}, <<"caller", "id", "price">>) \cup
    Sigs({"bracket_link"}, <<"user", "id", "id", "id">>) \cup
    Sigs({"cancel_bracket_sibling"}, <<"caller", "id", "id">>)

PerpPlans ==
    Sigs({"create_twap_plan"}, <<"user", "market", "size", "bool", "leverage",
                                  "bps", "slices", "ledgers", "expiry">>) \cup
    Sigs({"create_iceberg_plan"}, <<"user", "market", "size", "size", "bool",
                                     "leverage", "bps", "price", "expiry">>) \cup
    Sigs({"release_twap_slice"}, <<"caller", "id">>) \cup
    Sigs({"release_iceberg_slice"}, <<"caller", "id", "size">>) \cup
    Sigs({"get_bracket", "get_twap_plan", "get_iceberg_plan"}, <<"id">>)

PerpAdmin ==
    Sigs({"is_paused", "pause", "unpause", "get_slp_vault"}, <<>>) \cup
    Sigs({"set_slp_vault"}, <<"contract">>)

RiskReads ==
    Sigs({"get_account_health", "compute_portfolio_greeks",
           "get_portfolio_health"}, <<"user">>) \cup
    Sigs({"get_options_engine"}, <<>>)

RiskWrites ==
    Sigs({"set_options_engine"}, <<"contract">>) \cup
    Sigs({"liquidate"}, <<"caller", "user", "id", "payload">>)

RiskInsurance ==
    Sigs({"get_insurance_fund_balance", "get_insurance_funders"}, <<>>) \cup
    Sigs({"add_insurance_funder", "remove_insurance_funder"}, <<"contract">>) \cup
    Sigs({"insurance_payout"}, <<"user", "amount">>)

RiskAdmin ==
    Sigs({"is_paused", "pause", "unpause", "get_slp_vault"}, <<>>) \cup
    Sigs({"set_slp_vault"}, <<"contract">>)

-----------------------------------------------------------------------------
TreasuryReads ==
    Sigs({"get_pending_fees", "get_treasury_balance", "get_staker_balance",
           "get_insurance_sent"}, <<"token">>) \cup
    Sigs({"get_risk_contract", "get_insurance_target"}, <<>>)

TreasuryFees ==
    Sigs({"add_authorized_source"}, <<"contract">>) \cup
    Sigs({"collect_fee"}, <<"caller", "token", "native">>) \cup
    Sigs({"distribute"}, <<"token">>) \cup
    Sigs({"withdraw_treasury"}, <<"user", "token", "native">>) \cup
    Sigs({"update_split"}, <<"bps", "bps", "bps">>)

TreasuryInsurance ==
    Sigs({"set_risk_contract"}, <<"contract">>) \cup
    Sigs({"set_insurance_target"}, <<"amount", "amount">>)

TreasuryReferrals ==
    Sigs({"collect_fee_with_trader"}, <<"caller", "token", "user", "internal",
                                         "native">>) \cup
    Sigs({"get_referral_paid"}, <<"token">>) \cup
    Sigs({"get_referrals_contract", "get_vault_contract"}, <<>>) \cup
    Sigs({"set_referrals_contract", "set_vault_contract"}, <<"contract">>)

TreasuryLending ==
    Sigs({"set_lending_pool"}, <<"contract">>) \cup
    Sigs({"get_lending_pool"}, <<>>) \cup
    Sigs({"get_lending_deposited"}, <<"token">>) \cup
    Sigs({"deposit_to_lending", "withdraw_from_lending"}, <<"token", "native">>)

SlpReads ==
    Sigs({"total_shares", "total_assets", "nav_per_share", "get_config",
           "get_authorized_callers"}, <<>>) \cup
    Sigs({"balance", "unlock_at"}, <<"user">>)

SlpWrites ==
    Sigs({"deposit"}, <<"user", "native">>) \cup
    Sigs({"withdraw"}, <<"user", "shares">>) \cup
    Sigs({"seed", "sweep_fees"}, <<"native">>) \cup
    Sigs({"credit_pnl", "record_loss"}, <<"caller", "internal">>) \cup
    Sigs({"draw_pnl"}, <<"caller", "user", "internal">>) \cup
    Sigs({"admin_credit_assets", "set_max_vault_cap"}, <<"internal">>) \cup
    Sigs({"add_authorized_caller", "remove_authorized_caller"}, <<"caller">>) \cup
    Sigs({"set_cooldown_secs"}, <<"seconds">>) \cup
    Sigs({"set_skew_cap_bps"}, <<"bps">>)

GovernorReads ==
    Sigs({"is_paused"}, <<>>) \cup
    Sigs({"get_proposal", "get_approval_count"}, <<"id">>)

GovernorWrites ==
    Sigs({"propose"}, <<"user", "action", "contract", "bytes">>) \cup
    Sigs({"approve"}, <<"user", "id">>) \cup
    Sigs({"execute"}, <<"id">>) \cup
    Sigs({"emergency_pause"}, <<"user">>)

GovernorVotes ==
    Sigs({"configure_token_governance"}, <<"caller", "contract", "ledgers",
                                            "ledgers", "bps", "bps">>) \cup
    Sigs({"create_proposal"}, <<"user", "action", "contract", "bytes">>) \cup
    Sigs({"cast_vote"}, <<"user", "id", "bool">>) \cup
    Sigs({"tally_proposal", "execute_token_proposal", "get_token_proposal"}, <<"id">>) \cup
    Sigs({"has_voted"}, <<"id", "user">>) \cup
    Sigs({"token_proposal_count", "get_staking_contract", "get_gov_params"}, <<>>)

StakingCalls ==
    Sigs({"get_config", "current_epoch", "total_staked"}, <<>>) \cup
    Sigs({"get_stake", "claim_rewards"}, <<"user">>) \cup
    Sigs({"get_epoch_reward"}, <<"epoch">>) \cup
    Sigs({"initialize"}, <<"user", "token", "contract", "seconds">>) \cup
    Sigs({"stake", "unstake"}, <<"user", "native">>) \cup
    Sigs({"deposit_epoch_rewards"}, <<"caller", "token", "native">>)

StructuredCalls ==
    Sigs({"get_epoch", "total_assets", "total_shares", "roll_epoch"}, <<>>) \cup
    Sigs({"balance"}, <<"user">>) \cup
    Sigs({"deposit"}, <<"user", "native">>) \cup
    Sigs({"withdraw"}, <<"user", "shares">>) \cup
    Sigs({"set_epoch_duration"}, <<"seconds">>) \cup
    Sigs({"set_option_asset"}, <<"feed">>)

-----------------------------------------------------------------------------
OracleCalls ==
    Sigs({"get_price"}, <<"feed">>) \cup
    Sigs({"get_prices"}, <<"feeds">>) \cup
    Sigs({"write_prices"}, <<"payload">>) \cup
    Sigs({"admin_push_price"}, <<"feed", "price", "ms">>) \cup
    Sigs({"update_config"}, <<"signers", "threshold", "ms", "feeds">>) \cup
    Sigs({"set_admin"}, <<"user">>)

OracleSources ==
    Sigs({"clear_symbol_staleness", "get_symbol_staleness", "remove_pyth_feed_id"},
          <<"feed">>) \cup
    Sigs({"set_symbol_staleness"}, <<"feed", "ms">>) \cup
    Sigs({"set_pyth_config"}, <<"contract", "ms">>) \cup
    Sigs({"set_pyth_feed_id"}, <<"feed", "bytes32">>) \cup
    Sigs({"submit_pyth_update"}, <<"bytes", "feeds">>)

ClobCalls ==
    Sigs({"get_order"}, <<"id">>) \cup
    Sigs({"get_nonce"}, <<"user">>) \cup
    Sigs({"get_config"}, <<>>) \cup
    Sigs({"place_order"}, <<"order">>) \cup
    Sigs({"cancel_order"}, <<"user", "id">>) \cup
    Sigs({"settle_matched_orders"}, <<"caller", "id", "id">>) \cup
    Sigs({"update_config"}, <<"contract", "contract", "caller">>)

FundingCalls ==
    Sigs({"get_current_funding_rate", "get_accumulated_funding",
           "get_funding_velocity", "update_funding"}, <<"market">>) \cup
    Sigs({"estimate_funding_payment", "settle_funding_for_position"}, <<"id">>)

BridgeCalls ==
    Sigs({"get_config"}, <<>>) \cup
    Sigs({"is_trusted_source", "set_trusted_source"}, <<"chain", "remote">>) \cup
    Sigs({"remove_trusted_source"}, <<"chain">>) \cup
    Sigs({"get_local_token"}, <<"bytes32">>) \cup
    Sigs({"register_token"}, <<"bytes32", "token">>)

\* lock is a message: the amount it was asked to bridge is text in the payload,
\* and the amount of gas beside it is 0.
BridgeSends ==
    Sigs({"send_message"}, <<"caller", "chain", "remote", "bytes", "token", "gas">>) \cup
    Sigs({"bridge_collateral_in"}, <<"caller", "user", "bytes32", "native">>)

IssuerTokenCalls ==
    Sigs({"get_config", "name", "symbol", "decimals"}, <<>>) \cup
    Sigs({"balance", "cumulative_yield"}, <<"user">>) \cup
    Sigs({"allowance"}, <<"user", "user">>) \cup
    Sigs({"approve"}, <<"user", "user", "native", "ledgers">>) \cup
    Sigs({"transfer"}, <<"user", "user", "native">>) \cup
    Sigs({"transfer_from"}, <<"user", "user", "user", "native">>) \cup
    Sigs({"burn"}, <<"user", "native">>) \cup
    Sigs({"burn_from"}, <<"user", "user", "native">>)

IssuerAdminCalls ==
    Sigs({"mint"}, <<"user", "native">>) \cup
    Sigs({"credit_yield"}, <<"users", "natives", "epoch">>) \cup
    Sigs({"set_apy_bps"}, <<"bps">>) \cup
    Sigs({"set_authorized"}, <<"user", "bool">>) \cup
    Sigs({"set_auth_required"}, <<"bool">>) \cup
    Sigs({"pause", "unpause"}, <<>>)

-----------------------------------------------------------------------------
Contracts == {"vault", "perp", "risk", "treasury", "slp", "governor", "staking",
              "structured", "oracle", "clob", "funding", "bridge", "issuer"}

\* What each client sends.
Sends(c) == Common \cup
    CASE c = "vault" -> VaultReads \cup VaultMoves \cup VaultMargin
                        \cup VaultSubAccounts \cup VaultRoles
      [] c = "perp" -> PerpReads \cup PerpTrades \cup PerpBook \cup PerpOrders
                       \cup PerpPlans \cup PerpAdmin
      [] c = "risk" -> RiskReads \cup RiskWrites \cup RiskInsurance \cup RiskAdmin
      [] c = "treasury" -> TreasuryReads \cup TreasuryFees \cup TreasuryInsurance
                           \cup TreasuryReferrals \cup TreasuryLending
      [] c = "slp" -> SlpReads \cup SlpWrites
      [] c = "governor" -> GovernorReads \cup GovernorWrites \cup GovernorVotes
      [] c = "staking" -> StakingCalls
      [] c = "structured" -> StructuredCalls
      [] c = "oracle" -> OracleCalls \cup OracleSources
      [] c = "clob" -> ClobCalls
      [] c = "funding" -> FundingCalls
      [] c = "bridge" -> BridgeCalls \cup BridgeSends
      [] c = "issuer" -> IssuerTokenCalls \cup IssuerAdminCalls

\* Client methods that answer without a call: the contract has no such query.
Stubs == {"listMarkets", "getOpenInterest", "getUserPositions", "getTotalDeposits",
          "listValidators"}

\* The contracts take these arguments, except where they have no such method
\* (the oracle's is update_admin) or take the feeds as symbols.
Understood(c, call) ==
    /\ call \in Sends(c)
    /\ call.method # "set_admin"
    /\ \A i \in DOMAIN call.args : call.args[i] # "feeds as bytes"
=============================================================================
