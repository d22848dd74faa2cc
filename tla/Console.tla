------------------------------ MODULE Console ------------------------------
(***************************************************************************)
(* One form of the web client (packages/frontend/src) and one of the       *)
(* values its page shows.  The form sends an amount in the unit it thinks  *)
(* the contract takes, through useTx; the value is a query of TanStack's   *)
(* cache, answered by an RPC node that may lag behind the ledger, polled,  *)
(* and fetched again by the form's invalidations.  The forms and queries   *)
(* are tables; Init picks one of each and keeps what tells them apart.     *)
(***************************************************************************)
EXTENDS WalletTx, Replies

CONSTANTS
    Forms,     \* the forms to consider
    Unit,      \* 18-decimal units per native unit of the token
    Grain,     \* 18-decimal units per millionth of a dollar
    One,       \* PRECISION: a price is a number of Ones
    Navs,      \* prices that a share of the pool may have; at first it is One
    MaxAsked,  \* bound on the amount entered, in 18-decimal units
    Sweeps     \* delayed invalidations after a run

ASSUME ConsoleConstants ==
    /\ {Unit, Grain, One} \subseteq Nat \ {0} /\ Navs \subseteq Nat \ {0} /\ One \in Navs
    /\ MaxAsked \in Nat /\ Sweeps \in Nat
    /\ Flows # {} /\ Calls # {}

-----------------------------------------------------------------------------
(* The queries: key, the call that answers it, whether it is polled *)

Queries(keys, contract, polled) ==
    {[key |-> k[1], contract |-> contract, method |-> k[2], polled |-> polled] : k \in keys}

MarketQueries ==
    Queries({<<"price", "get_price">>}, "oracle", TRUE) \cup
    Queries({<<"markPrice", "get_mark_price">>, <<"openInterest", "getOpenInterest">>},
            "perp", TRUE) \cup
    Queries({<<"markets", "listMarkets">>}, "perp", FALSE) \cup
    Queries({<<"fundingRate", "get_current_funding_rate">>}, "funding", TRUE)

AccountQueries ==
    Queries({<<"userPositions", "getUserPositions">>}, "perp", TRUE) \cup
    Queries({<<"accountHealth", "get_account_health">>,
             <<"portfolioHealth", "get_portfolio_health">>}, "risk", TRUE) \cup
    Queries({<<"fundingVelocity", "get_funding_velocity">>}, "funding", TRUE) \cup
    Queries({<<"vaultBalance", "get_balance">>, <<"vaultTokenBalance", "get_balance">>,
             <<"vaultTotal", "getTotalDeposits">>}, "vault", TRUE)

RwaQueries ==
    Queries({<<"rwaConfig", "get_config">>, <<"rwaBalance", "balance">>,
             <<"rwaYield", "cumulative_yield">>}, "issuer", TRUE)

InsuranceQueries ==
    Queries({<<"insuranceFund", "get_insurance_fund_balance">>}, "risk", TRUE) \cup
    Queries({<<"insuranceTarget", "get_insurance_target">>}, "treasury", TRUE)

StructuredQueries ==
    Queries({<<"currentEpoch", "get_epoch">>, <<"userShares", "balance">>,
             <<"vaultNav", "total_assets">>}, "structured", TRUE)

\* The price of a share is made of two reads.
StructuredNav ==
    Queries({<<"structuredNavPerShare", "total_assets">>,
             <<"structuredNavPerShare", "total_shares">>}, "structured", TRUE)

StatusQueries ==
    Queries({<<"governorIsPaused", "is_paused">>}, "governor", TRUE) \cup
    Queries({<<"perpIsPaused", "is_paused">>}, "perp", TRUE) \cup
    Queries({<<"riskIsPaused", "is_paused">>}, "risk", TRUE) \cup
    Queries({<<"estimatedFunding", "estimate_funding_payment">>}, "funding", TRUE)

GovernorQueries ==
    Queries({<<"proposal", "get_proposal">>,
             <<"proposalApprovals", "get_approval_count">>}, "governor", TRUE) \cup
    Queries({<<"governorVersion", "version">>}, "governor", FALSE)

TreasuryQueries ==
    Queries({<<"treasuryPendingFees", "get_pending_fees">>,
             <<"treasuryBalance", "get_treasury_balance">>,
             <<"treasuryStaker", "get_staker_balance">>,
             <<"treasuryInsuranceSent", "get_insurance_sent">>}, "treasury", TRUE)

StakingQueries ==
    Queries({<<"stakingUser", "get_stake">>, <<"stakingCurrentEpoch", "current_epoch">>,
             <<"stakingTotalStaked", "total_staked">>}, "staking", TRUE) \cup
    Queries({<<"stakingConfig", "get_config">>,
             <<"stakingEpochPool", "get_epoch_reward">>}, "staking", FALSE)

\* Mutant: the pool's queries are not polled.
SlpQueriesOnce ==
    Queries({<<"slpNavPerShare", "nav_per_share">>, <<"slpTotalAssets", "total_assets">>,
             <<"slpTotalShares", "total_shares">>, <<"slpShareBalance", "balance">>,
             <<"slpUnlockAt", "unlock_at">>}, "slp", FALSE)

SlpQueries ==
    Queries({<<"slpNavPerShare", "nav_per_share">>, <<"slpTotalAssets", "total_assets">>,
             <<"slpTotalShares", "total_shares">>, <<"slpShareBalance", "balance">>,
             <<"slpUnlockAt", "unlock_at">>}, "slp", TRUE)

BridgeQueries == Queries({<<"bridgeValidators", "listValidators">>}, "bridge", FALSE)

\* Queries that a page makes for itself.
SubAccountQueries == Queries({<<"subBalance", "get_sub_balance">>}, "vault", TRUE)

LendingQueries ==
    Queries({<<"lendingPool", "get_lending_pool">>,
             <<"lendingDeposited", "get_lending_deposited">>}, "treasury", TRUE)

AdminQueries ==
    Queries({<<"slpConfig", "get_config">>, <<"slpCallers", "get_authorized_callers">>},
            "slp", TRUE)

WiringQueries ==
    Queries({<<"perpSlpVault", "get_slp_vault">>}, "perp", TRUE) \cup
    Queries({<<"riskSlpVault", "get_slp_vault">>}, "risk", TRUE)

TradeQueries ==
    Queries({<<"markPrice", "get_mark_price">>,
             <<"unrealizedPnl", "get_unrealized_pnl">>}, "perp", TRUE)

\* The landing page reads once what other pages poll.
LandingQueries ==
    Queries({<<"markets", "listMarkets">>, <<"openInterest", "getOpenInterest">>},
            "perp", FALSE) \cup
    Queries({<<"vaultTotal", "getTotalDeposits">>}, "vault", FALSE) \cup
    Queries({<<"slpTotalAssets", "total_assets">>}, "slp", FALSE) \cup
    Queries({<<"insuranceFund", "get_insurance_fund_balance">>}, "risk", FALSE)

HookQueries == MarketQueries \cup AccountQueries \cup RwaQueries \cup InsuranceQueries
    \cup StructuredQueries \cup StructuredNav \cup StatusQueries \cup GovernorQueries
    \cup TreasuryQueries \cup StakingQueries \cup SlpQueries \cup BridgeQueries

AllQueries == HookQueries \cup SubAccountQueries \cup LendingQueries \cup AdminQueries
    \cup WiringQueries \cup TradeQueries \cup LandingQueries

\* The telegram bot's commands: one read each, through the same clients.
BotCommands ==
    Queries({<<"/price", "get_price">>}, "oracle", FALSE) \cup
    Queries({<<"/position", "getUserPositions">>}, "perp", FALSE) \cup
    Queries({<<"/funding", "get_current_funding_rate">>}, "funding", FALSE) \cup
    Queries({<<"/health", "get_account_health">>}, "risk", FALSE)

MethodNames(c) == {call.method : call \in Sends(c)}

\* Every query is a call of the contract's client, or a stub of it, and its reply
\* is one that the client can read.
ASSUME QueriesAreAnswered ==
    \A q \in AllQueries \cup BotCommands :
        /\ q.method \in MethodNames(q.contract) \cup Stubs
        /\ Readable(q.contract, q.method)

\* What no form can change: the stubs' answers, and the governor's own version.
Constant(k) ==
    \E q \in AllQueries : q.key = k /\ (q.method \in Stubs \/ q.method = "version")

-----------------------------------------------------------------------------
(* The forms: the call, what the input is parsed to (an amount in a unit,    *)
(* "rounded" where it goes through Math.round), the unit it sends, and the   *)
(* keys it invalidates                                                       *)

Form(contract, method, parses, sends, keys) ==
    [contract |-> contract, method |-> method, parses |-> parses, sends |-> sends,
     invalidates |-> keys, instant |-> {}, shows |-> keys]

\* A form that also writes the cache itself, once its run has succeeded.
Instant(form, key) == [form EXCEPT !.instant = {key}]

\* A form without invalidations.
Silent(form) == [form EXCEPT !.invalidates = {}]

VaultKeys == {"vaultBalance", "vaultTokenBalance", "vaultTotal", "accountHealth"}

TradingAccountCard ==
    {Instant(Form("vault", m, "internal", "native", VaultKeys), "vaultBalance") :
        m \in {"deposit", "withdraw"}}

CollateralVaultCard ==
    {Instant(Form("vault", m, "internal", "native", VaultKeys), "vaultBalance") :
        m \in {"deposit", "withdraw"}}

DepositPage ==
    {Instant(Form("vault", "deposit", "native", "native", VaultKeys), "vaultBalance")}

SubKeys == {"subBalance", "vaultBalance", "vaultTokenBalance", "accountHealth"}

SubAccountMoves ==
    {Form("vault", m, "internal", "native", SubKeys) : m \in {"deposit_sub", "withdraw_sub"}}

SubAccountTransfer ==
    {Form("vault", "transfer_between_subs", "internal", "native", SubKeys)}

SpotSwapPanel ==
    {Form("vault", "atomic_swap", "internal", "internal",
          {"vaultBalance", "vaultTokenBalance", "accountHealth"})}

StructuredKeys ==
    {"userShares", "vaultNav", "currentEpoch", "vaultBalance", "structuredNavPerShare"}

StructuredVaultCard ==
    {Form("structured", "deposit", "internal", "native", StructuredKeys),
     Form("structured", "withdraw", "internal", "internal", StructuredKeys),
     Form("structured", "roll_epoch", "none", "none",
          {"currentEpoch", "vaultNav", "userShares", "structuredNavPerShare"})}

SlpKeys == {"slpNavPerShare", "slpTotalAssets", "slpTotalShares", "slpShareBalance",
            "slpUnlockAt"}

\* To withdraw, the dollars entered are made shares at the price in the cache.
SlpVaultCard ==
    {Form("slp", "deposit", "internal", "native", SlpKeys),
     Form("slp", "withdraw", "internal", "shares", SlpKeys)}

SlpAdminPage ==
    {Silent(Form("slp", "admin_credit_assets", "rounded", "internal", {"slpTotalAssets"})),
     Silent(Form("slp", "set_max_vault_cap", "rounded", "internal", {"slpConfig"})),
     Silent(Form("slp", "sweep_fees", "rounded", "native", {"slpTotalAssets"}))} \cup
    {Silent(Form("slp", m, "none", "none", {"slpConfig"})) :
        m \in {"set_cooldown_secs", "set_skew_cap_bps"}} \cup
    {Silent(Form("slp", m, "none", "none", {"slpCallers"})) :
        m \in {"add_authorized_caller", "remove_authorized_caller"}}

StakingPage ==
    {Form("staking", m, "native", "native",
          {"stakingUser", "stakingTotalStaked", "stakingCurrentEpoch"}) :
        m \in {"stake", "unstake"}} \cup
    {Form("staking", "claim_rewards", "none", "none",
          {"stakingUser", "stakingCurrentEpoch", "stakingTotalStaked",
           "vaultTokenBalance"})}

TreasuryPanel ==
    {Form("treasury", "distribute", "none", "none",
          {"treasuryPendingFees", "treasuryBalance", "treasuryStaker",
           "treasuryInsuranceSent"}),
     Form("treasury", "collect_fee", "internal", "native",
          {"treasuryPendingFees", "treasuryBalance", "vaultBalance",
           "vaultTokenBalance"})}

LendingCard ==
    {Form("treasury", m, "internal", "native",
          {"lendingDeposited", "treasuryBalance", "vaultTotal", "treasuryStaker"}) :
        m \in {"deposit_to_lending", "withdraw_from_lending"}} \cup
    {Form("treasury", "set_lending_pool", "none", "none", {"lendingPool", "vaultTotal"})}

OpenOrdersTable ==
    {Form("clob", "cancel_order", "none", "none",
          {"userPositions", "accountHealth", "vaultBalance"})}

ProtocolStatus ==
    {Form("governor", "emergency_pause", "none", "none", {"governorIsPaused"}),
     Silent(Form("governor", "propose", "none", "none", {"proposal"}))}

NewProposalForm ==
    {Form("governor", "propose", "none", "none", {"governorIsPaused", "governorVersion"})}

ProposalLookup ==
    {Form("governor", "approve", "none", "none", {"proposal", "proposalApprovals"}),
     Form("governor", "execute", "none", "none",
          {"proposal", "governorIsPaused", "governorVersion", "markets",
           "treasuryBalance", "treasuryPendingFees", "vaultTotal"})}

BridgeLockForm ==
    {Form("bridge", "send_message", "internal", "native",
          {"vaultBalance", "accountHealth", "vaultTotal"})}

-----------------------------------------------------------------------------
(* What tells a form and a query apart *)

Units == {"native", "internal", "shares"}
Args(f) == (CHOOSE call \in Sends(f.contract) : call.method = f.method).args

\* The unit of the amount the contract takes, if it takes one.
Takes(f) ==
    LET units == {Args(f)[i] : i \in DOMAIN Args(f)} \cap Units
    IN  IF units = {} THEN "none" ELSE CHOOSE u \in units : TRUE

\* The ways in which the forms count: what is parsed, sent and taken.  Shares have
\* the 18 decimals of dollars.
Exact == {<<"native", "native", "native">>, <<"internal", "native", "native">>,
          <<"internal", "internal", "internal">>, <<"internal", "internal", "shares">>,
          <<"none", "none", "none">>}
Rounding == {<<"rounded", "internal", "internal">>, <<"rounded", "native", "native">>}
Priced == {<<"internal", "shares", "shares">>}

\* Two forms send another unit than the contract takes: SubAccountTransfer 7 decimals
\* where it takes 18, BridgeLockForm an amount that it takes for a part of a message.
Mistaken == {<<"internal", "native", "internal">>, <<"internal", "native", "none">>}

Ways == Exact \cup Rounding \cup Priced \cup Mistaken

ASSUME FormsCount == \A f \in Forms : <<f.parses, f.sends, Takes(f)>> \in Ways

\* A query is polled if the hook of some page polls it.
Polled(k) == \E q \in AllQueries : q.key = k /\ q.polled

\* What the query answers instead of failing.  fetchSlpShareBalance answers 0 when
\* both its reads fail: what was before, what is now, or neither.  Others fail.
InsteadOfFailing(k) ==
    IF k = "slpShareBalance" THEN {"before", "after", "wrong"} ELSE {"none"}

Facts(f, k, zero) ==
    [parses |-> f.parses, sends |-> f.sends, takes |-> Takes(f),
     understood |-> \E call \in Sends(f.contract) :
                        call.method = f.method /\ Understood(f.contract, call),
     listed |-> k \in f.invalidates, instant |-> k \in f.instant, polled |-> Polled(k),
     zero |-> zero]

VARIABLES
    facts,    \* of the form and the query chosen
    asked,    \* the amount entered, in 18-decimal units
    quoted,   \* the share price of the page when it was sent
    paid,     \* the share price when the call was executed
    moved,    \* what the contract moved, in the same units as asked
    ledger,   \* the value on the ledger: "before" or "after" the call
    replica,  \* the value on the node that answers queries
    shown,    \* the value in the cache; "wrong" when it is neither
    fetch,    \* the fetch under way: "none", "asked", or the value it has read
    late,     \* values read by fetches that were cancelled
    awaited,  \* run waits for the refetch of its invalidation
    sweeps    \* timers of its sweeps

cacheVars == <<shown, fetch, late, awaited, sweeps>>
amountVars == <<asked, quoted, paid, moved>>
consoleVars == <<txVars, facts, amountVars, ledger, replica, cacheVars>>

Op == CHOOSE f \in Flows : TRUE
TheCall == CHOOSE c \in Calls : TRUE

ConsoleTypeOK ==
    /\ TxTypeOK
    /\ asked \in 0 .. MaxAsked /\ moved \in Nat /\ {quoted, paid} \subseteq Navs
    /\ {ledger, replica} \cup late \subseteq {"before", "after"}
    /\ shown \in {"none", "before", "after", "wrong"}
    /\ fetch \in {"none", "asked", "before", "after"}
    /\ awaited \in {"no", "yes", "over"} /\ sweeps \in 0 .. Sweeps

ConsoleInit ==
    /\ TxInit
    /\ \E f \in Forms : \E k \in {s \in f.shows : ~Constant(s)} :
          facts \in {Facts(f, k, zero) : zero \in InsteadOfFailing(k)}
    /\ asked = 0 /\ moved = 0 /\ quoted = One /\ paid = One
    /\ ledger = "before" /\ replica = "before"
    /\ shown \in {"none", "before"} /\ fetch = "none" /\ late = {}
    /\ awaited = "no" /\ sweeps = 0

-----------------------------------------------------------------------------
(* The form *)

Rounded(x, g) == ((2 * x + g) \div (2 * g)) * g

\* Math.round keeps six decimals, or the native ones.
Kept == IF facts.sends = "native" THEN Unit ELSE Grain

\* An amount in 18-decimal units, from there on.
Parsed(x) == IF facts.parses = "rounded" THEN Rounded(x, Kept) ELSE x

\* Mutant: what was parsed is sent as it is.
SentUnconverted(x) == Parsed(x)

\* The amount of the call, in the unit the form sends.
Sent(x) ==
    CASE facts.sends = "native" -> Parsed(x) \div Unit
      [] facts.sends = "shares" -> (Parsed(x) * One) \div quoted
      [] OTHER -> Parsed(x)

\* The price in the cache may be of any time, or One when there is none.
Submit ==
    /\ toast[Op] = "none"
    /\ \E x \in IF facts.parses = "none" THEN {0} ELSE 1 .. MaxAsked :
           /\ facts.parses = "native" => x % Unit = 0
           /\ asked' = x
    /\ IF facts.sends = "shares" THEN quoted' \in Navs ELSE UNCHANGED quoted
    /\ StartRun(Op) /\ Invoke(Op, TheCall)
    /\ UNCHANGED <<live, facts, paid, moved, ledger, replica, cacheVars>>

FormSends ==
    /\ Send(Op)
    /\ UNCHANGED <<facts, amountVars, ledger, replica, cacheVars>>

\* invalidateQueries: with a value in the cache the fetch under way is
\* cancelled and a new one started; without, that fetch is joined.
Refetch ==
    IF fetch # "none" /\ shown = "none"
        THEN UNCHANGED <<fetch, late>>
        ELSE /\ fetch' = "asked"
             /\ late' = late \cup ({fetch} \ {"none", "asked"})

\* run goes on after SUCCESS: it waits for every key to be fetched again.
RunSucceeds ==
    /\ ReturnsValue(Op) \/ ReturnsBlindly(Op)
    /\ EndRun(Op, "success")
    /\ IF facts.listed THEN Refetch /\ awaited' = "yes"
                       ELSE awaited' = "over" /\ UNCHANGED <<fetch, late>>
    /\ UNCHANGED <<facts, amountVars, ledger, replica, shown, sweeps>>

\* It plans the sweeps, and the form adds what it moved to the value shown.
RunReturns ==
    /\ awaited = "over" /\ awaited' = "no"
    /\ sweeps' = IF facts.listed THEN Sweeps ELSE 0
    /\ shown' = IF ~facts.instant THEN shown
                ELSE IF shown = "before" THEN "after" ELSE "wrong"
    /\ UNCHANGED <<txVars, facts, amountVars, ledger, replica, fetch, late>>

RunTimesOut ==
    /\ TimesOut(Op) /\ EndRun(Op, "pending")
    /\ sweeps' = IF facts.listed THEN Sweeps ELSE 0
    /\ UNCHANGED <<facts, amountVars, ledger, replica, shown, fetch, late, awaited>>

RunFails ==
    /\ Throws(Op) /\ EndRun(Op, "failed")
    /\ UNCHANGED <<facts, amountVars, ledger, replica, cacheVars>>

Sweep ==
    /\ sweeps > 0 /\ sweeps' = sweeps - 1
    /\ Refetch
    /\ UNCHANGED <<txVars, facts, amountVars, ledger, replica, shown, awaited>>

-----------------------------------------------------------------------------
(* The query *)

Poll ==
    /\ facts.polled /\ fetch = "none"
    /\ fetch' = "asked"
    /\ UNCHANGED <<txVars, facts, amountVars, ledger, replica, shown, late, awaited, sweeps>>

Read ==
    /\ fetch = "asked"
    /\ fetch' = replica
    /\ UNCHANGED <<txVars, facts, amountVars, ledger, replica, shown, late, awaited, sweeps>>

\* A fetch ends, and with it the refetch that run waits for.
Settle ==
    /\ fetch' = "none"
    /\ awaited' = IF awaited = "yes" THEN "over" ELSE awaited

Answer ==
    /\ fetch \in {"before", "after"}
    /\ shown' = fetch
    /\ Settle
    /\ UNCHANGED <<txVars, facts, amountVars, ledger, replica, late, sweeps>>

\* It fails after its retries, when its answer would have come; or its failure is
\* answered with a zero, which is shown.
FetchFails ==
    /\ fetch \in {"before", "after"}
    /\ shown' = IF facts.zero = "none" THEN shown ELSE facts.zero
    /\ Settle
    /\ UNCHANGED <<txVars, facts, amountVars, ledger, replica, late, sweeps>>

\* Mutant: the answer to a cancelled fetch is stored all the same.
LateAnswerStored(v) ==
    /\ v \in late /\ late' = late \ {v}
    /\ shown' = v
    /\ UNCHANGED <<txVars, facts, amountVars, ledger, replica, fetch, awaited, sweeps>>

\* The answer to a fetch that was cancelled is dropped.
LateAnswer(v) ==
    /\ v \in late /\ late' = late \ {v}
    /\ UNCHANGED <<txVars, facts, amountVars, ledger, replica, shown, fetch, awaited, sweeps>>

-----------------------------------------------------------------------------
(* The network *)

\* The contract takes the number it is sent in its own unit, and shares of the pool
\* at the price of the moment, of which it pays whole native units.
Moves(x, nav) ==
    CASE facts.takes = "native" -> Sent(x) * Unit
      [] facts.takes = "none" -> 0
      [] facts.sends = "shares" -> (((Sent(x) * nav) \div One) \div Unit) * Unit
      [] OTHER -> Sent(x)

\* Amounts are positive.
FormExecuted(t) ==
    /\ facts.understood /\ Include(t, TRUE)
    /\ paid' \in IF facts.sends = "shares" THEN Navs ELSE {paid}
    /\ moved' = Moves(asked, paid')
    /\ facts.takes # "none" => moved' > 0
    /\ ledger' = "after"
    /\ UNCHANGED <<facts, asked, quoted, replica, cacheVars>>

FormNotExecuted(t) ==
    /\ Include(t, FALSE) \/ Expire(t)
    /\ UNCHANGED <<facts, amountVars, ledger, replica, cacheVars>>

Replicate ==
    /\ replica # ledger /\ replica' = ledger
    /\ UNCHANGED <<txVars, facts, amountVars, ledger, cacheVars>>

-----------------------------------------------------------------------------
RunStep == FormSends \/ RunSucceeds \/ RunReturns \/ RunTimesOut \/ RunFails

ConsoleNext ==
    \/ Submit \/ RunStep \/ Sweep
    \/ Poll \/ Read \/ Answer \/ FetchFails \/ \E v \in {"before", "after"} : LateAnswer(v)
    \/ \E t \in Tx : FormExecuted(t) \/ FormNotExecuted(t)
    \/ Replicate

\* Timers fire, the node catches up, and fetches do not fail for ever.
ConsoleFairness ==
    /\ WF_consoleVars(RunStep) /\ WF_consoleVars(Sweep) /\ WF_consoleVars(Poll) /\ WF_consoleVars(Read)
    /\ SF_consoleVars(Answer) /\ WF_consoleVars(Replicate)

ConsoleSpec == ConsoleInit /\ [][ConsoleNext]_consoleVars /\ ConsoleFairness

-----------------------------------------------------------------------------
(* Properties *)

Way == <<facts.parses, facts.sends, facts.takes>>

\* What a form moves is what was entered in it, whatever units the form, the client
\* and the contract count in: up to less than one native unit of the token; where
\* it is rounded, up to half of what is rounded to; and where dollars are made
\* shares at the price in the cache, times the price it has since come to, never
\* more, and less only by what is cut off three times.  The two forms with another
\* unit than the contract's move a part of it or nothing.
MovesWhatWasEntered ==
    ledger = "after" =>
        /\ Way \in Exact => moved <= asked /\ asked - moved < Unit
        /\ Way \in Rounding => /\ 2 * (moved - asked) <= Kept
                               /\ 2 * (asked - moved) <= Kept
        /\ Way \in Priced =>
              /\ moved * quoted <= asked * paid
              /\ (asked * paid - moved * quoted) * One < quoted * ((Unit + 1) * One + paid)
        /\ Way \in Mistaken => moved * Unit <= asked

\* Once the new value is shown the old one is not shown again, however polls,
\* invalidations and the node's lag interleave; unless the form writes the cache
\* itself, or the query answers a zero when it fails.
NeverGoesBack ==
    [][~facts.instant /\ facts.zero = "none" /\ shown = "after"
          => shown' = "after"]_consoleVars

\* The page comes to show what is on the ledger, again and again, and in the end
\* nothing else but the zero of a failed query: also after a submission whose answer
\* was lost, and after the form's own addition to a value that already held it.
SettlesOnTheLedger ==
    /\ []<>(shown = ledger)
    /\ <>[](shown \in {ledger, facts.zero})
=============================================================================
