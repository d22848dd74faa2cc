# Formal models of Stellax

TLA+ models of Stellax (perpetual futures on Stellar/Soroban: contracts, keeper,
indexer, web client, deployer), the TLC instances that check them, and TLAPS
proofs about them.  Paths are relative to the repository root; `contracts/x`
stands for `contracts/stellax-x/src/lib.rs` and `packages/x` for `packages/x/src`.

Contents: [1 the system](#1-the-system) · [2 the modules](#2-the-modules) ·
[3 the runs](#3-the-runs) · [4 what was found](#4-what-was-found) ·
[5 the proofs](#5-the-proofs) · [6 limits](#6-what-is-not-modelled) ·
[7 the plan](#7-the-plan)

## 1 The system

A set of Soroban contracts and the processes around them.  A contract call is
atomic together with every contract it calls: an error anywhere reverts
everything, and two calls never interleave.  What interleaves is *calls*, of
traders, liquidity providers, keepers, admins, the oracle and the clock.  Off the
chain nothing is atomic: every step between two awaits may be followed by anything
else, answers are lost or late, processes stop.

| component | state | operations | what makes it correct |
|---|---|---|---|
| collateral vault `contracts/vault` | balances per account and token, sub-accounts, cross and isolated margin buckets with a cached total each, token configuration, authorised callers | deposit, withdraw, transfers, `move_balance`, `atomic_swap`, lock / unlock / realise margin, bridge `credit`/`debit`, seeding, configuration | owes what it holds; collateral is pledged once; a withdrawal leaves the margins covered |
| perp engine `contracts/perp-engine` | positions, id lists, open interest, skew, pending orders, plans, pause flag | open, close, modify, `risk_close_position`, pending orders, CLOB fills, plan slices | counters are the open positions; margin on file is margin locked; nobody pays for another |
| risk engine `contracts/risk` | pause flag, cooldowns, insurance amount | `validate_new_pos_with_inputs`, `get_account_equity`, `liquidate`, `run_adl` | liquidation and ADL charge whom they close |
| SLP vault `contracts/slp-vault` | shares, total assets (NAV), unlock times | deposit, withdraw, `credit_pnl`, `draw_pnl`, `record_loss`, fee sweep | NAV is backed; the share price is not diluted |
| funding `contracts/funding`, oracle `contracts/oracle` | index per side and rate; price and time per feed | settle, update; write prices | settlement is neutral; fresh monotonic prices |
| CLOB `contracts/clob` | orders, nonces, filled sizes | place, cancel, `settle_matched_orders` | no pair settles twice, a nonce is used once |
| bridge `contracts/bridge`, `contracts/evm` | executed messages, trusted sources; escrow | `execute`, `bridge_collateral_in/out`, `depositToStellar` | each deposit is credited, and once |
| governor, treasury, staking, structured vaults, RWA issuer | proposals; fee balances; stakes and epochs; queues; supply | see `Interface` for their calls | threshold and timelock; claims within pools; queues served |
| keeper `packages/keeper` | in-memory sets, timers, one client of the chain | ten workers, the bridge relay, the order matcher, `/health` | nothing twice, nothing for ever undone |
| indexer `packages/indexer` | SQLite rows, one cursor | poll, apply events; REST and WebSocket | no event lost; rows follow the chain |
| SDK `packages/sdk` | none | encodes calls, decodes replies | what is sent is what the contract takes |
| web client `packages/frontend` | query cache, session store in localStorage, forms, toasts | submit, poll, invalidate, display | what is moved is what was entered; what is shown is on the ledger |
| deployer `packages/deployer` | a checkpoint file | deploy, initialise, wire, resume | contracts know one another, or the system stays unusable |
| telegram bot `packages/telegram-bot`, e2e `packages/e2e` | offset; none | answer commands; test flows | - |

Interactions.  On chain, a trade is one transaction in which the perp engine calls
the vault, the SLP vault, funding and risk; a liquidation one in which the risk
engine calls the perp engine, the vault, the SLP vault and, for a third party's
position, the perp and SLP vaults again.  Off chain, the *indexer* follows the
events of all contracts; the *keeper* reads the indexer or the chain and sends
transactions through one client; the *web client* sends its own through the user's
wallet, reads contracts through an RPC node that may lag, and merges the indexer's
rows with what the browser remembers; the *bridge keeper* reads the GMP network's
index of messages that the relayers deliver as well.  Hence the hard behaviours:

* numbers kept in two places by two contracts, roundings, long legal sequences;
* read, await, act: lists and balances that are stale when they are used;
* a transaction given up that is included all the same, an answer that cannot be
  read, a tick abandoned but alive beside its successor;
* a cursor or a checkpoint stored apart from what it stands for;
* answers that arrive out of order, under another account, or from a lagging node.

`PROJECT.json` lists them line by line under `hazards`, with the property that
watches each, or why none does.

## 2 The modules

| module | what it is | state, in the code's terms |
|---|---|---|
| `Vault` | the collateral vault: every call that changes the ledger is an action | the `DataKey`s; `held`, `wallet`, `escrow` for the tokens outside |
| `Exchange` | perp engine, risk engine, margin buckets, NAV, funding settlement, liquidation, ADL: parts that only meet inside single transactions | `book`, `money`, `index`, `cooling`, `held` |
| `Pool` | what the liquidity pool promises: value rises only with money, money leaves only as far as there is value | abstract; refined by `Exchange` and `SlpVault` |
| `SlpVault` | the pool from the share holders' side | the `DataKey`s, the balances and the interest it reads |
| `TxClient` | the keeper's client `stellar.ts`: queue, sequence number, attempts, polling; and the network | `txQueue`, `stage`, `attempt`, `loaded`, `found`, `inFlight` |
| `Workers` | `worker.ts` and ten workers as a table of what tells them apart; EXTENDS `TxClient` | the loop's `inFlight` as `waiting`, executions as `tick`, work as `backlog`, the indexer's rows of it as `index` |
| `Bridge` | EVM deposit, GMP message, `execute` with its replay guard, the bridge keeper; EXTENDS `TxClient` | messages, guards, `processed`, scan window, credits |
| `Indexer` | watcher, store, cursor, over a node that forgets | `cursor`, `scan`, `lastSeen`, rows, `log` |
| `Matching` | the CLOB contract and the keeper's matcher; EXTENDS `Indexer` | `clob`, `expired`, pairs to do, settlements sent |
| `WalletTx` | `useTx` and `FreighterExecutor.invoke`, the wallet and the network | call, step, result, live transactions, toast |
| `OrderForm` | the order form and what its submissions leave; EXTENDS `WalletTx` | dialog, pending, stage, nonce, session; positions and orders on chain |
| `Positions` | `usePositions`, session store, close, liquidation watcher, blotter; EXTENDS `WalletTx` | stored and tab copies, rows, answers in transit, history |
| `Console` | a form and a shown value out of tables of all forms and queries; EXTENDS `WalletTx`, `Replies` | cache entry, fetch in flight, invalidations, ledger and replica |
| `Interface` | calls of the SDK's thirteen clients: methods and the kind and unit of each argument | tables |
| `Replies` | what each read decodes its reply to; EXTENDS `Interface` | tables |
| `Terminal` | the trade and portfolio pages' calculations: mark price, submit guard, liquidation estimate, depth, error messages, deposit history | operators |
| `RwaPrices` | the keeper's price of real-world assets from many sources, and the web client's choice | operators |
| `Charts` | candles of indexer and exchanges, moving averages, RSI, MACD, VWAP | operators |
| `Health` | the keeper's `/health`, the indexer's feed health, the dot the page shows | operators |
| `Deploy` | the deployment script, stopped and run again | instances, grants, checkpoint on disk and in memory, program counter |
| `MC*` | instances for TLC: constants a configuration file cannot write down; `MCClient` composes the four programs of run `client`, of which a behaviour runs one | |
| `Vault_proofs`, `Exchange_proofs`, `SlpVault_proofs`, `Bridge_proofs`, `Matching_proofs`, `Workers_proofs` | the theorems of each module, with the lemmas they rest on | |
| `Client_proofs` | the theorems of `OrderForm`, `Console`, `Positions` and `Deploy`, each about the specification of one of them; their names carry its module's (`OrderSpec`, `ConsoleSpec`, `PositionsSpec`, `DeploySpec`) so that one module can extend all four | |
| `Arithmetic` | lemmas the others share: induction over numbers and finite sets in the form of a set, sums over functions, products and quotients | |

Every state module has a type invariant.  `Vault`'s is checked and proved, those of
`Exchange`, `SlpVault`, `Bridge`, `Workers`, `OrderForm`, `Console`, `Positions` and
`Deploy` are proved.  That of `Matching` documents the variables: `Matching_proofs!Types`
proves what its theorems need of it, which leaves out the matcher's list, the result of
a recursion.

### Contracts

`Vault`: an action is a call that succeeds; its guards are the early returns.
`require_authorized_caller` is `callers # {}`: *what* an authorised caller asks for
is left free, so the vault's guarantees do not lean on the engines.  Amounts are
native units on the token side and internal ones in the ledger, `Unit` to one.
`Withdraw` compares the balance of the token withdrawn, in token units, with the
margins the risk engine reports, and `TransferMargin` lowers a total but no bucket,
both as the code does (`MarginTransfers` switches the latter, which no contract of
the repository calls).

`Exchange`: helpers are named after the function they stand for (`Settled` for
`settle_position_close`, `RiskClosed` for `risk_close_position`, `Deleverage` for
`run_adl`, ...) and map a record to a record, so that an action chains them as the
code chains its calls, each reading what the one before left.  Abstractions: one
settlement token at price one (several are in `Vault`); whole contracts, with every
division of the code rounding as it does; id lists as sets (their order decides
ties only); the stored funding index, moved by `FundingTick` as anybody may; pool
deposits and redemptions by their effect on NAV and balance (shares are in
`SlpVault`); unbounded integers, since checked arithmetic reverts.

`SlpVault`: an engine's call is one action with the transfer that belongs to it in
the same transaction.  `admin_credit_assets` raises the value without money during
the migration; `Migrating` switches it on, and `ImplementsPool` allows for it.
`Pool` is refined by `SlpVault` with its own variables, and by `Exchange` with
`money.assets` and `money.bal[Slp]`, where one step is a whole transaction and the
promise is about its net effect.

### Keeper, indexer, bridge

`TxClient`: `invoke` holds a mutex, loads the account, simulates, signs, sends and
polls, and starts over when anything throws.  Sequence numbers are abstracted to
what they decide: all transactions in flight carry the next number, so inclusion of
one kills the others.  What a caller gives up on stays in flight.

`Workers`: a tick reads its list (`ReadWork`) and calls the contract item by item
(`CallContract`); between the steps the chain, the other run and the process go on.
`Worker(list, bundle, stops, adds, passes, takes, limit)` is what tells workers
apart: where the list comes from, one call for all or each its own, whether a
failure ends the tick, whether a call carries an amount that was read, the arguments
passed and taken, and the calls of a tick.  Lists of positions and, by default, of yield
holders are the indexer's rows: `index` follows the chain late (`IndexFollows`, without
fairness), and rows of some items may be missing (`IndexDrops`: a position opened by a
CLOB fill or an executed order, or liquidated in part; a holder behind 500 others).  The
yield simulator is there twice, with the indexer's holders (`YieldSimulator`) and with
those `RWA_HOLDERS` names, which it asks the chain about (`YieldSimulatorOfList`).  Rows
of holders come by their last change, so that any may be first (`NextItems`).  `backlog`
below zero means more was paid than was owed; `excuse` counts the mishaps that may do
that.

`Bridge`: a deposit has a message of its own; equal amounts for equal recipients
make equal payloads and share a replay guard.  A recipient is a string the user
typed: `execute` credits G- and C-addresses, the keeper G-addresses only and skips the
rest.

`Indexer`: each ledger holds one event; `Persist` applies a page, `LastPage` stores
the cursor, `RequestFails` and `IndexerCrash` end a tick in between, `RangeError` and
the look-back clamp give ledgers up, which `skipped` remembers.  `Matching` reads the
rows of that very index.

### Web client, deployer

`WalletTx`: one flow of calls under one toast.  A signed transaction is resent until
a node takes it; `RefusedOrLost` leaves it alive or not; `ReturnsBlindly` is the poll
that throws and is reported as success; `TimesOut` reports PENDING.

`OrderForm` runs the five kinds of submission of the form on it.  `Positions`
keeps, for each tab, the store's copy and the storage it was read from: a tab
overwrites the storage with its own copy.  A position is opened by a market order, a
fill of the book or a pending order that is executed, each with an event of its own; the
indexer knows the first only.  The liquidation watcher is an action without fairness: it
polls while its table is shown, takes an error for no events, and handles one event of a
transaction.  `Console` picks one form and one query of the tables: `Parsed` is what the
form makes of the amount entered, `Sent` its conversion, `Moves` what the contract moves
for that, `Facts` how the value is polled, invalidated, and answered when its reads fail,
so that its properties speak of every form with every value.  A form counts in one of
four ways: `Exact`, in units that agree; `Rounding`, with `Math.round` (the admin page);
`Priced`, dollars made shares at the price the page has in its cache (the pool's
withdrawal), which the contract pays at the price of the moment; `Mistaken`, in another
unit than the contract's (the sub-account transfer, the bridge's form).

`Terminal`, `RwaPrices`, `Charts`, `Health`, `Interface` and `Replies` are pure:
their statements are named assumptions, which TLC evaluates over bounded inputs when
it starts the run that extends them.

`Deploy` follows the script step by step: an address is recorded, the checkpoint
written (`Save`, or torn in the middle), the contract initialised by a later call.

## 3 The runs

TLC explores every interleaving of the steps on these instances.

| run | question | instance and bounds |
|---|---|---|
| `vault` | can any mix of calls create, lose or overdraw money, let a total leave its buckets, pledge collateral twice, or free what margins need? | one trader, one protocol account, two tokens at 1 or 1.5, two sub-accounts, one position, amounts 1 and 2, losses larger than a bucket; `MaxBucket` (one), `MaxEscrow` |
| `exchange_core` | do counters, lists, buckets, NAV and balances agree through the whole life of positions, funding included? | one trader, a keeper, two position ids, sizes 1 and 2, two prices; `MaxHeld`, `MaxFunding` |
| `exchange_adl` | the same with partial liquidation, ADL, cooldown, a keeper who trades, pausing | two traders on opposite sides, three prices, no deposits |
| `slp` | is the share price safe from others, and does the pool keep its promise? | two holders, one engine, unit 2, token amount 1, share amounts 1 and 2, skew cap 5/10 or none, time 0 and 1; `MaxMoney` 3, `MaxShares` 4 |
| `bridge` | is every second credit of the keeper accounted for, and does each deposit arrive? | two deposits of one amount for three recipients (equal payloads included), two ticks at a time, one retry, pages of two, one excuse each |
| `matching` | is an event ever lost, does the index follow, does a pair settle twice, does a crossed book clear? | three orders (a bid that fills an ask in part, a better bid of the asker), six ledgers, look-back 4, retention 5, pages of two, one cut-short tick, two pairs per tick |
| `workers` | what do stale lists, hung ticks, lost answers and a full tick do? | every worker but the liquidation bot, two items, one of which may refuse for good and may have no row, two ticks at a time, one call a tick for the yield simulator, backlog 1, one excuse |
| `client` | what can two submissions through one form do to each other and to the chain; does the page tell the truth about a position, in time; does a form move what was entered, and does its page settle on the ledger; what is left of a deployment that stops anywhere? | two submissions of any kind, any fault at each step; one tab, one position, two accounts, three ledgers, two answers in transit, a loss; one submission of every form with every query, amounts to 5 with 2 to a native unit and 4 to a rounded one, share prices 1/2, 1 and 3/2, two delayed invalidations; ten contracts, two crashes, gateway configured, no markets |
| `liquidations` | (violated) the same for the liquidation bot | the same |
| `yield` | (violated) is a holder paid once? | the yield simulator that reads the indexer, the bounds of `workers` |
| `pnl` | (violated) is a close shown with its PnL? | one tab, one position, a loss, 4 for 2^64 |
| `deploy_markets` | (violated) does the shipped configuration get wired? | four markets, no crash |

The bounds keep the state space finite and leave room for the cases the properties
are about: prices fall far enough for a loss beyond the margin and rise far enough
for a gain beyond the pool; a partial liquidation of 20 % of two contracts is one;
released margins round down; shares are worth more and less than one; a node forgets
ledgers a slow indexer has not seen; a page is full, so that a tick has two; two runs
of a tick overlap; a payload repeats; an answer passes another.  Where a counter of
mishaps is bounded (`MaxFaults`, `MaxExcuses`, `MaxExcuse`, `MaxCrashes`) the mishap
is possible at each point of a behaviour, the bound only limits how many.  Two stages
of the deployment are interrupted by two crashes.  `client` registers no market: each
`register_market` of the script is refused (`deploy_markets`, section 4), so that with
one the script could never come to the end, which is part of what the run looks at.  The
four programs of `client` share no state and each behaviour runs one of them, as the
disjuncts of `ClientNext` say: its states are the sum of theirs.

`CHECK_DEADLOCK FALSE`: the environment of these runs may come to an end (every id
used, every order filled, all ledgers written, every submission over), and the
process with it.  `slp`, `workers` and `deploy_markets` always have a step.

### Fairness

| module | assumed | why |
|---|---|---|
| `Bridge` | relayers bring a message again and again (strong, `Execute`); temporary storage expires (weak, `GuardExpires`) | GMP relayers retry; Soroban's TTL. Nothing of the keeper: one request of its client may hang for ever |
| `Matching` | poll loops run (weak); attempts that are repeated succeed at times (strong, `Submit`, `Settled`) | `setInterval`; the matcher sends a pair again on each tick |
| `Positions` | the indexer polls, the tab polls it, sent answers arrive (weak); nothing of the liquidation watcher | intervals of the hooks, on the page with any table shown; the property speaks of an indexer that can be reached |
| `Workers` | the loop's timers (weak), requests end (weak), trouble ends at some time (`TroubleEnds`); nothing of the indexer | `setInterval`, the tick timeout; without it nothing can be promised of an RPC node |
| `Console` | timers fire, the node catches up (weak), a fetch succeeds at times (strong) | TanStack's intervals; replicas follow the ledger |
| `Deploy` | the script is run again (weak, `Start`) and goes on (weak, `ScriptStep`) | its operator starts it until it ends; each call of it returns or throws |
| `Vault`, `Exchange`, `SlpVault`, `OrderForm` in `client` | none | only safety is checked |

### What the passing runs show

Each of these that is an invariant or an action property is also proved (section 5);
what is left to the runs alone is liveness.

* **Custody** (`Conservation`): what is owed is what is held (plus the EVM escrow),
  through swaps with equal parties, forced closes, ADL and funding.
* **One pledge** (`NoDoublePledge`, `OnlySeizuresOpenGaps`, `TotalsBoundedByBuckets`):
  no lock pledges what another holds; a total leaves its buckets only by a seizure,
  and only downward.
* **Withdrawals** (`WithdrawKeepsEquity`) keep margins covered while each token
  counts for at least a dollar.
* **Books** (`ExposureIsOpen`, `IndexesAgree`, `LocksAreMargins`,
  `OnlyDeleveragingStrands`): open interest, skew, lists and buckets are those of the
  open positions on each path that changes them.  Margin on file and margin locked part
  only by a deleveraging, and only upward, so that a bucket always covers its margin
  (`LocksCoverMargins`, proved on its own).
* **Pool** (`NavBacked`, `ImplementsPool`, `LpsDoNotDilute`, `SharesAddUp`,
  `SkewCapHolds`): value is never more than money, minting and redeeming never lower
  the price of the shares that stay, an exit leaves the interest within its cap.
* **Third parties, opening, funding** (`NobodyElsePays`, `OpenIsCollateralised`,
  `SettlingIsNeutral`).
* **Bridge** (`CreditsNeedAnExcuse`, `EveryDepositArrives`): overlapping scans, two
  ticks and retries credit nothing twice by themselves; each second credit goes back
  to a lost answer, an abandoned tick or a restart.  Equal payloads delay one another
  until the guard expires; they do not block one another.
* **Index** (`NothingSkipped`, `BookFollowsChain`): whatever is cut short, no event
  behind the cursor is missing unless it was given up; replays may hide what an order
  has left but never revive an order that is gone.
* **Matching** (`SettledOnce`, `CrossedBookClears`).
* **Submissions** (`OpensOnce`, `NoncesAreUsedOnce`, `BracketsAreWhole`,
  `SessionIsTrue`): lost and unreadable answers never open twice, link what does not
  exist, or store what was not opened.  The reason is in each case one line of the
  code: values are used only where one was returned.
* **Positions** (`HistoryIsTrue`, `OpenPositionsAppear`): a trade that is shown took
  place; an open position comes to be shown and stays, if a market order opened it and
  no liquidation reduced it, since the indexer has no row of others.
* **Workers** (`LedgerReadersPayOnce`, `NothingStarves`): an amount read on the chain
  before an await is moved once, mishaps apart (of amounts read at the indexer see
  `yield`); an item that fails for good keeps others waiting only behind the workers that
  stop at a failure.  What has no row is not served, and who is behind as many others as
  a tick makes calls may wait for ever (`Crowded`).
* **Console** (`MovesWhatWasEntered`, `NeverGoesBack`, `SettlesOnTheLedger`): for every
  form and each query, with a bound for each way of counting.  The share balance is
  excepted from the second and allowed a zero by the third, since its query answers a
  zero when both its reads fail.
* **Deployment** (`KnowTheRecorded`): instances that are recorded know each other,
  whatever was deployed in vain.

Each of them has a mutant in `PROJECT.json` (a dropped check, a stale read, a missing
reset, a swapped order) with which TLC finds it violated on the same instance.

## 4 What was found

**`liquidations`** - "Monitors open positions and liquidates those under maintenance
margin" (`packages/keeper/workers/liquidation-bot.ts:78`), but it calls `liquidate`
with the position id alone, while the contract takes keeper, user, id and price
payload (`contracts/risk:434`).  Every call is refused, so nothing is liquidated by
the keeper (`NothingStarves` violated).

**`yield`** - "A reorg, restart, or missed tick at most delays — never doubles — payouts"
(`packages/keeper/workers/yield-simulator.ts:16-19`), against "the contract's
`cumulative_yield(holder)` view".  By default that is the indexer's row instead
(`packages/keeper/index.ts:168`, `indexer-sources.ts:118-153`): until the indexer has
applied the last credit, each tick pays the same difference again, with no mishap at all
(`NothingPaidTwice` violated).  With holders named in `RWA_HOLDERS` the chain is asked,
and `LedgerReadersPayOnce` holds.

**`pnl`** - "Handles both positive and negative values via two's-complement"
(`packages/frontend/stellar/parseCloseEvents.ts:43`), but `decodeI128` adds the carry
where the low half is not 0 and leaves it out where it is: a loss is shown 2^64 too low
(`HistoryPnlIsTrue` violated).

**`deploy_markets`** - "Runs post-deploy wiring: [...] perp `register_market` per
`environments.toml`" (`packages/deployer/README.md:11-12`), but `register_market` is
called with `price_impact_factor`, `base_reserve` and `quote_reserve`, which the contract
does not have (`packages/deployer/deploy.ts:345` against `contracts/perp-engine:401`).
With the four markets the repository ships, the first refusal ends the script, and each
rerun comes to it again (`WorksOrStaysBlank` violated): the vault and the engines work by
then, without markets and, on testnet, without the bridge's trusted source.

What the models show besides, which the properties are worded around:

*Contracts.*
* With a token below a dollar a withdrawal can leave less collateral than margins:
  the guard compares token units with dollars (`contracts/vault:275`).
* ADL leaves the winner's margin locked, for good after a full close.  The comment at
  `contracts/risk:1368` says that `risk_close_position` "already removed the position
  from state and unlocked the margin into the user's vault balance"; it unlocks nothing
  (`contracts/perp-engine:996`), and `run_adl` does not either.  With the constants of
  `exchange_adl`, `LocksAreMargins` is violated; `OnlyDeleveragingStrands` says that
  nothing else does this.
* After bad debt took the NAV to zero, a depositor is minted 1:1 beside the old shares
  (`contracts/slp-vault:904`).
* `close_position` leaves the id in its market's list, and `run_adl` reverts on it.
* Shares moved inside the cooldown can be redeemed by the receiver at once.
* `transfer_margin` lowers a total and no bucket.
* `execute` and the keeper's `bridge_collateral_in` know nothing of each other: a
  deposit that both bring is credited twice, and the keeper credits it without fee
  (`contracts/bridge:719`).

*Keeper and indexer.*
* A holder behind as many others as a tick makes calls may never be paid: "batch cap
  reached; deferring rest to next tick" (`workers/yield-simulator.ts:152-157`), but the
  next tick starts at the head of the list again, where the rows are that changed last.
* The funding settler and the liquidation bot never see a position that has no row.
* "Safe to run multiple replicas" (`packages/keeper/README.md:101`) does not hold for
  the fee sweeper, the yield simulator and the bridge keeper, whose memory is their own.
* The bridge keeper's window moves past failed deposits
  (`workers/bridge-keeper.ts:99` against the comment "will retry next tick", `:184`).
* A worker that stops at a failing item starves those behind it; one missing feed
  blocks the whole oracle bundle; the client's mutex has no timeout, so one hung
  request stops every worker.
* "Restarts are resumable without double-counting" (`packages/indexer/watcher.ts:7-8`):
  a page scanned again counts trades and RWA holdings twice.
* The indexer does not know the events of CLOB fills, executed orders and ADL, and
  removes a position at a partial liquidation (`watcher.ts:257-259`).
* A client subscribed for its account receives only events that name it; fills and
  cancellations of limit orders name nobody (`packages/indexer/api.ts:217`).
* Two live RWA sources that differ by more than 2 % are both dropped, and a static
  price is pushed (`TwoThatDisagreeAreDropped`).
* `consecutive failures` of `/health` are counted for workers that never succeeded.

*Web client.*
* The sub-account transfer sends 7 decimals where the contract takes 18; the bridge's
  form calls `send_message`, which moves nothing (`Mistaken`); `MovesWhatWasEntered`
  says of these two that no more than a unit's part is moved.
* The pool's withdrawal divides the dollars entered by the share price in the cache, or
  by 1 before it is known (`SlpVaultCard.tsx:110`), and what is paid differs from what
  was entered by the ratio of that price and the contract's.
* The admin page rounds amounts, up as well as down (`SlpAdminPage.tsx:38-42`).
* When both its reads fail the share balance is shown as zero (`hooks/queries.ts:650`).
* The staleness of a price is computed in a memo keyed on the data: when the keeper
  stops, a price never turns stale (`hooks/useRwaPrice.ts:106`).
* A liquidation may pass unnoticed: the watcher runs while the Positions tab is shown
  (`TradePage.tsx:550`), takes an error for no events (`parseCloseEvents.ts:297`) and
  remembers transactions, of which it handles the first event only.
* The announced liquidation price is later than the contract's, wherever the market
  allows less than 100x (`LiquidationComesEarly`).
* Errors 9, 10 and 11 of the perp engine are explained as the vault's, and every error
  of the risk engine and the SLP vault as the perp engine's of that number
  (`ThreeAreExplainedWrong`, `UnknownIsPerp`).
* Orders within half a band of the mark are on neither side of the depth shown; bids
  above it are listed as asks (`TheMiddleIsNotShown`).
* No deposit or withdrawal is ever named in the history (`DepositsAreNotNamed`).
* A stale earlier source hides a fresh later one (`StaleHidesFresh`).
* With two tabs, one overwrites the positions the other stored; a position closed
  elsewhere stays; a partial liquidation hides an open position, and one opened by a fill
  or an executed order is never shown.  `client` has one tab, and `OpenPositionsAppear`
  excludes the latter two by name.

*Deployer.*
* A contract recorded before it was initialised is never initialised.

## 5 The proofs

The theorems hold for every value of the constants that satisfies the named
assumptions of their module: any numbers of traders, positions, tokens, orders, runs
and retries, any amounts, prices, rates, page sizes and bounds.

| theorem | property | module |
|---|---|---|
| `TypeCorrect`, `Conserved`, `TotalsBounded`, `GapsOnlyBySeizure`, `PledgedOnce`, `WithdrawalsKeepEquity` | all six of run `vault` | `Vault_proofs` |
| `TypeCorrect`, `LocksCover`, `NavIsBacked`, `PoolPromiseKept` | types, `LocksCoverMargins`, `NavBacked`, `ImplementsPool` | `Exchange_proofs` |
| `ListsAreRight`, `CountersAreTrue`, `OpensAreCovered` | `IndexesAgree`, `ExposureIsOpen`, `OpenIsCollateralised` | `Exchange_proofs` |
| `MoneyConserved`, `OthersNeverPay`, `SettlingChangesNoWealth`, `StrandedByDeleveraging`, `BucketsAreMargins` | `Conservation`, `NobodyElsePays`, `SettlingIsNeutral`, `OnlyDeleveragingStrands`, `LocksAreMargins` | `Exchange_proofs` |
| `TypeCorrect`, `SupplyIsShares`, `NobodyDilutes`, `SkewCapAsked`, `PromiseKept` | types and all four of run `slp` | `SlpVault_proofs` |
| `NoEventIsLost`, `IndexShowsTheBook`, `NoPairSettlesTwice` | the three invariants of run `matching` | `Matching_proofs` |
| `TypeCorrect`, `SecondCreditsAreMishaps` | types, `CreditsNeedAnExcuse` | `Bridge_proofs` |
| `TypeCorrect`, `MovedOnce` | types, `LedgerReadersPayOnce` | `Workers_proofs` |
| `OnePositionEach`, `NoncesDiffer`, `BracketsLinkOrders`, `SessionShowsPositions` | the order form's four invariants | `Client_proofs` |
| `AmountsArrive`, `PagesGoForward` | `MovesWhatWasEntered`, `NeverGoesBack` | `Client_proofs` |
| `BlotterTellsTheTruth` | `HistoryIsTrue` | `Client_proofs` |
| `RecordedContractsMatch` | `KnowTheRecorded` | `Client_proofs` |
| `OrderTypeCorrect`, `ConsoleTypeCorrect`, `PositionsTypeCorrect`, `DeployTypeCorrect` | types | `Client_proofs` |

**Vault.**  `TypeCorrect` has one step per action.  Its content is that no call can
overdraw anything, not by the guard alone where a call writes two balances: `Moved`
with equal parties, the second leg of `atomic_swap`, which is checked against what the
first left, and `realize_isolated_pnl`, whose bound is `Consumed`.  For `Conserved` and
`TotalsBounded` each call has a lemma that says by how much it changes one entry of a
function, and the lemmas of `Arithmetic` say what that does to the sum.  `PledgedOnce`
needs both: a lock compares the collateral with two totals, and only what is proved of
these makes it a statement about the buckets.

**Exchange.**  `Exchange_proofs!IInv` is `TypeOK /\ LocksCoverMargins /\ NavBacked`.
The three need each other: a margin after a partial close is positive only given its
type before; a bucket stays non-negative under ADL, which does not touch it, since the
margin it covers falls; the NAV after a payout stays below the balance since both were
compared with the payout, and after a loss since only the NAV falls.  `BookInv` adds
that lists and counters are those of the positions (`Sound`), and `MoneyInv` the sum of
the balances.  Lemmas state what each helper does to a record, chained as the helpers
are, so that a liquidation with ADL is a chain of lemmas.  The action properties follow
from what a chain may change: in `OthersNeverPay` every helper but those of the owner
and of the closed winner leaves a trader's balance or raises it.  `PoolPromiseKept`:
`PoolKept(was, mo)` relates the money a call started from to the money it has reached;
`Earned`, `Drawn` and the write-off of bad debt each preserve it, and that `Drawn` does
is what needs `CanDraw` to ask for both value and balance.

**SLP vault.**  `IInv == TypeOK /\ SharesAddUp`: a redemption is bounded by the holder's
shares, and only the sum bounds these by the supply.  `NobodyDilutes` is the inequality
of two truncated quotients, cross-multiplied.

**Indexer and CLOB.**  `Matching_proofs!IInv` has four parts.  `Standing` says where the
watcher is, also within a tick: every ledger before the scan was applied or given up.
`Following` speaks of a history `h`, the contract's orders after each ledger of the log:
the indexer's table equals `h[Point]` while no tick was cut short, and after replays
`Stands` for it: an order shows no more than the contract had, and none is open that was
not.  Rows only fall along `h`, so an event applied again lowers a row to what a later
ledger makes it anyway.  `SettlementsFill`: every settlement in the log left one of its
orders filled, which is why a pair cannot settle again.

**Bridge.**  `Linked` relates runs, the client's queue and the network (a run that waits
for an invoke has exactly one request in the queue; what is in flight for a run is the
attempt of the queue's head).  `Budget` counts, per deposit, the credits made and all
those that may still come without a further mishap:
`byKeeper + Loose + Loop + |Adrift| <= 1 + excuses`, where `Loose` are transactions
nobody waits for, `Loop` the tick the worker waits for or its next one, and `Adrift` the
runs it gave up that have the deposit still to do.  Each step moves a unit between the
terms, or adds one with the excuse that the action counts.

**Workers.**  `Linked` is that of the bridge, for calls that carry an amount per item.
`Covered` has two inequalities per item.  What may move without the loop (runs it gave
up, transactions nobody waits for) is excused already: `Adrift + Loose <= excuse`.  With
what the run of the loop may move besides, it is within what is there and what is
excused: `InLoop + Adrift + Loose <= backlog + excuse`.  The first is what makes a read
safe: it may find all of a backlog that an abandoned transaction is still to take.
Both are of the workers that read amounts on the chain (`PaysByLedger`); of a list from
the indexer neither is true.  A
transaction that was applied, and whose caller does not know, is no longer owed
(`Applied`).  `TypeCorrect` adds that a tick never makes more calls than its worker is
allowed (`Limited`: it ends with the call that reaches the limit), and takes the lower
bound of the work, what was excused, from `MovedOnce`.

**Order form.**  `Client_proofs!FlowInv` relates the stage and the call of a flow to
the transactions that are alive and to what is on the chain: a flow that may still open
a position has opened none and has no such transaction alive (`Opening`), a success that
the network reports has had its effect (`Answered`), a bracket goes on to its next call
when the order before exists (`Bracketed`).  That a second call to open is safe rests on
`Interface`: `open_position_with_update` is sent with arguments the contract does not
take, so that it never opens (`UpdateIsRefused`).  Nonces stay below the contract's.

**Other forms and shown values.**  `AmountInv`: what the form asked for has the digits
its field takes, nothing is on its way before the form is submitted, and once the ledger
has changed the contract has moved `Moves(asked, paid)`.  The amount is fixed at the
submission, so that a call executed after the form has given up moves the same, but for
the share price it meets.  What is left is arithmetic, a lemma for each way of counting:
cutting an amount to native units takes less than one of them; rounding differs by half a
grain at most; of a quotient by one price, a product with another and a cut to native
units, each is bounded and the bounds add up.  `ViewInv` orders the copies of a value: the
page has a new value only if the node has it, the node only if the ledger has it, and
when the new one is shown no fetch that read the old one is still under way, provided the
query fails when its reads fail.  The last
part is what an answer applied late would break, and the reason why it cannot is that
a query has one fetch at a time: an invalidation cancels the fetch it replaces, and the
answer to a cancelled one is dropped.

**Positions.**  `RecordsInv` says of the stored copy what `HistoryIsTrue` says of the
tabs': a tab that is loaded again adopts what any other one stored last, so the property
is not inductive without it.  Trades are of events in the log, which only grows; nothing is claimed of
the amounts with them, which `pnl` shows wrong.  A run that reports a success that
was none stores no trade until an event is found for it.

**Deployer.**  `CheckpointInv` speaks of both records, on disk and in memory, and of
*every* recorded instance: what it was told is what the record said, and still says,
since a record only gains contracts (`Told`, `Named`).  That it gains none a recorded
instance was told of while it was still missing rests on the order of the script: a
contract is built with the addresses of earlier ones (`BuiltOfEarlier`), and the
placeholders are filled when all ten are recorded.  `StageInv` says where the script
stands and that the two records have the same contracts whenever an instance is
told anything; a stop between the deployment and the end of the write leaves an instance
of which the next run knows nothing.

**Types of these four.**  `TxAbout(S)`: a run that waits, and what it left on the
network, are about calls its program makes (for `Positions`, the positions themselves).
For the order form nonces are counted: `nextNonce <= Cardinality(placed) + 1`, since no
submission places two limit orders.

*Assumptions.*  Those of the modules: `VaultConstants`, `VaultIsFinite`,
`ExchangeConstants`, `ExchangeIsFinite`, `SlpConstants`, `SlpIsFinite`, `TxConstants`,
`BridgeConstants`, `BridgeIsFinite`, `WorkersConstants`, `WorkersAreFinite`,
`KindsAreWorkers`, `WalletConstants`, `OrderFormCalls`, `ConsoleConstants`,
`FormsCount`, `QueriesAreAnswered`, `PositionsConstants`, `DeployConstants`, and what `Matching` and
`Indexer` assume.  The code has finitely many accounts, ids and runs at any time, and rates within 100 %; TLC
evaluates all of them in the runs.  Three theorems have a hypothesis on the constants:
`WithdrawalsKeepEquity` that every token counts for at least a dollar (`AtPar`, without
which the guard of the code is not enough, section 4), `BucketsAreMargins` that no
position is large enough for a partial liquidation (`SmallOnly`; deleveraging follows
only those, and strands margin, section 4), and
`OrderTypeCorrect` that submissions are finitely many.  `exchange_core` is an instance of
`SmallOnly`, `client` of the last.

*What the proofs corrected.*  `BookFollowsChain` was not provable at first: with two
ticks cut short, the replay of a replay may be jumped over by the look-back clamp, and
those ledgers were not counted as given up.  TLC finds the behaviour with `Lookback = 2` and
`MaxFaults = 2`; `SkipTo` of `Indexer` now counts them, with which these bounds pass too
(1.9 million states).  The run keeps its smaller ones, since the theorem covers the rest.
`OnlyDeleveragingStrands` is what the proof of `LocksAreMargins` left over.  The number of calls in a tick is bounded
by its worker's limit, and not by the number of items, as `Workers!TypeOK` said before.

*Only model-checked.*  Liveness, which is out of the prover's reach: `CrossedBookClears`,
`EveryDepositArrives`, `NothingStarves`, `OpenPositionsAppear`, `SettlesOnTheLedger`.  That the pairs in the matcher's list are
pairs of orders, which takes an induction over its recursion and a choice of a sorted
sequence; no theorem needs it.  What the recursive or iterated calculations of `Charts`, `Terminal`, `Health` and `RwaPrices`
compute is evaluated over bounded inputs.

## 6 What is not modelled

* Contracts: rewiring and upgrades; `set_margin_mode`; TTLs other than the replay
  guard's; isolated margin in the exchange (no engine calls it); execution of pending
  orders, CLOB fills in the engine, TWAP and iceberg slices; portfolio margin with
  options; how the funding rate is computed; oracle signatures and staleness;
  `bridge_collateral_out`, `send_message`, the EVM contract's inbound side.  Governor,
  treasury, staking, structured vaults and RWA issuer only as callees (`Interface`,
  `Replies`, the workers that call them).  Option pricing is numerics.
* Keeper: configuration parsing, alert channels, logs.
* Indexer: the WebSocket broadcast, statistics nobody modelled reads.
* Web client: layout, routing, drawing, landing page, wallet connection; the memo of
  `useRwaPrice`; WebSocket pushes (the properties of `Positions` rest on the polls).
* Telegram bot: its polling loop.  e2e: test flows.

## 7 The plan

Done: the modules of section 2, and the theorems of section 5.  Next:

1. *Engines*: pending orders, brackets and plans executed on the book of `Exchange`;
   the engine's side of CLOB fills, composed with `Matching`.
2. *Contracts left*: governor with staking (threshold of current members, timelock),
   treasury (spends what it tracks), structured vaults (queues are served), funding's
   rate over irregular calls.
3. *Composition*: `Workers`' liquidation bot with the liquidation of `Exchange` once
   its call is what the contract takes.
