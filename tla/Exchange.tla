------------------------------ MODULE Exchange ------------------------------
(***************************************************************************)
(* Trading: the perp engine (contracts/stellax-perp-engine) with the three *)
(* contracts every trade calls in the same transaction, that is the margin *)
(* buckets of the collateral vault, the net asset value of the SLP vault,  *)
(* and the risk engine that liquidates and deleverages.                    *)
(*                                                                         *)
(* A contract call is atomic, so an action is one successful call with all *)
(* the calls it makes.  Money is one settlement token.  A size is a number *)
(* of whole contracts: the code's PRECISION is 1 here.                     *)
(*                                                                         *)
(* A definition whose comment starts with "Mutant" is a plausible bug that *)
(* a property has to notice; nothing in the specification refers to it.    *)
(***************************************************************************)
EXTENDS Integers, FiniteSets, Functions

CONSTANTS
    Traders,        \* accounts that trade
    Keepers,        \* accounts that liquidate, traders among them or not
    Slp,            \* vault account of the SLP vault
    FundingPool,    \* vault account that funding payments go through
    Markets,
    PosIds,         \* position ids, 1..n
    NoPosition,     \* what an id without a stored position reads
    Sizes,          \* position sizes a call may carry
    Leverages,      \* leverages a call may carry
    Amounts,        \* amounts of money a call may carry
    Prices,         \* oracle prices
    Ticks,          \* changes of the accumulated funding index
    MaxFunding,     \* bound: absolute value of the funding index
    MaxHeld,        \* bound: tokens in the vault
    Stake, Seed,    \* initial balance of a trader, of the SLP vault
    MaxLeverage, MinNotional, MaxOI, SkewScale, MaxPositions,
    BPS, TakerBps, MakerBps, RebateBps,
    LiquidationBps, RewardBps, MaintenanceBps,
    PartialThreshold, PartialBps,
    Pausable        \* whether the admins use their pause switches

Users    == Traders \cup Keepers
Accounts == Users \cup {Slp, FundingPool}

Position ==
    [owner : Traders, market : Markets, long : BOOLEAN, size : Nat \ {0},
     entry : Int, margin : Nat \ {0}, leverage : Int, fidx : Int]

Book ==
    [pos     : [PosIds -> Position \cup {NoPosition}],
     users   : [Traders -> SUBSET PosIds],
     markets : [Markets -> SUBSET PosIds],
     oi      : [Markets -> [BOOLEAN -> Int]],
     skew    : [Markets -> Int]]

Money ==
    [bal    : [Accounts -> Nat],
     lock   : [PosIds -> Nat],
     locked : [Traders -> Int],
     assets : Int]

ASSUME ExchangeConstants ==
    /\ IsFiniteSet(Traders)
    /\ Slp \notin Users /\ FundingPool \notin Users /\ Slp # FundingPool
    /\ PosIds \subseteq Nat \ {0} /\ NoPosition \notin Position
    /\ Sizes \subseteq Nat /\ Leverages \subseteq Nat /\ Amounts \subseteq Nat
    /\ Prices \subseteq Nat \ {0} /\ Ticks \subseteq Int
    /\ MaxFunding \in Nat /\ MaxHeld \in Nat /\ Stake \in Nat /\ Seed \in Nat
    /\ MaxLeverage \in Nat \ {0} /\ MinNotional \in Nat /\ MaxOI \in Nat
    /\ SkewScale \in Nat \ {0} /\ MaxPositions \in Nat /\ BPS \in Nat \ {0}
    /\ \A rate \in {TakerBps, MakerBps, RebateBps, LiquidationBps, RewardBps,
                    MaintenanceBps, PartialBps} : rate \in 0..BPS
    /\ PartialThreshold \in Nat /\ Pausable \in BOOLEAN

\* Finitely many accounts ever call, and a position id is a 64-bit number.
ASSUME ExchangeIsFinite == IsFiniteSet(Keepers) /\ IsFiniteSet(PosIds)

VARIABLES
    book,     \* perp engine: pos, users and markets (the id lists), oi, skew
    money,    \* vault: bal, lock, locked; SLP vault: assets
    nextId,   \* perp engine: next position id
    price,    \* oracle price of a market
    index,    \* funding: market, side -> accumulated index
    cooling,  \* risk engine: ids in the partial-liquidation cooldown
    paused,   \* pause switches: perp engine, risk engine
    held      \* tokens the vault contract holds

world == <<price, index, paused>>
vars  == <<book, money, nextId, world, cooling, held>>

-----------------------------------------------------------------------------
(* Arithmetic of the contracts *)

Abs(x)       == IF x < 0 THEN -x ELSE x
Least(x, y)  == IF x < y THEN x ELSE y
Most(x, y)   == IF x < y THEN y ELSE x
Sign(long)   == IF long THEN 1 ELSE -1
ApplyBps(x, rate) == (x * rate) \div BPS
CeilDiv(x, y) == (x + y - 1) \div y

Open    == {p \in PosIds : book.pos[p] # NoPosition}
Of(u)   == {p \in Open : book.pos[p].owner = u}

\* Oracle price moved by the skew halfway through the fill; a trade against
\* the skew gets the maker rebate instead, where there is one.
ExecutionPrice(m, size, buy) ==
    LET twiceMid == 2 * book.skew[m] + Sign(buy) * size
    IN  IF RebateBps > 0 /\ Sign(buy) * twiceMid < 0
        THEN price[m] - Sign(buy) * ApplyBps(price[m], RebateBps)
        ELSE price[m] + Sign(buy) * ((Abs(twiceMid) * price[m]) \div (2 * SkewScale))

TradePnl(q, size, exit)  == Sign(q.long) * (exit - q.entry) * size
FundingPnl(q, size)      == -((index[q.market][q.long] - q.fidx) * size)
Pnl(q, size, exit)       == TradePnl(q, size, exit) + FundingPnl(q, size)
Released(q, size)        == (q.margin * size) \div q.size
Notional(q)              == q.size * price[q.market]
InitialMargin(notional)  == notional \div MaxLeverage
Maintenance(notional)    == ApplyBps(InitialMargin(notional), MaintenanceBps)
Equity(q)                == q.margin + Pnl(q, q.size, price[q.market])
Unhealthy(q)             == Equity(q) < Maintenance(Notional(q))

-----------------------------------------------------------------------------
(* Vault and SLP vault, as the engines call them *)

Locked(mo, u, p, d) ==
    [mo EXCEPT !.lock[p] = @ + d, !.locked[u] = @ + d]

Unlocked(mo, u, p, d) == Locked(mo, u, p, -d)

CanUnlock(mo, p, d) == d > 0 /\ d <= mo.lock[p]

Moved(bal, from, to, d) ==
    LET less == [bal EXCEPT ![from] = @ - d]
    IN  [less EXCEPT ![to] = @ + d]

Paid(mo, from, to, d) == [mo EXCEPT !.bal = Moved(mo.bal, from, to, d)]

\* move_balance to the SLP vault, then credit_pnl.
Earned(mo, from, d) == [Paid(mo, from, Slp, d) EXCEPT !.assets = @ + d]

\* Mutants: the pool is not debited, the net asset value is not lowered.
DrawnFromNowhere(mo, to, d) ==
    [mo EXCEPT !.bal[to] = @ + d, !.assets = @ - d]
DrawnOffTheBooks(mo, to, d) == Paid(mo, Slp, to, d)

\* Mutant: the net asset value is not asked, as if it were the balance.
CanDrawBalance(mo, d) == d <= mo.bal[Slp]

\* draw_pnl
CanDraw(mo, d)   == d <= mo.assets /\ d <= mo.bal[Slp]
Drawn(mo, to, d) == [Paid(mo, Slp, to, d) EXCEPT !.assets = @ - d]

\* settle_position_close: the fee and then the loss are capped by the margin
\* released; a gain is paid by the SLP vault or the call fails.
ClosingFee(released, fee) == IF fee > 0 THEN Least(fee, released) ELSE 0
CappedLoss(released, gross, fee) ==
    IF gross < 0 THEN Least(-gross, released - ClosingFee(released, fee)) ELSE 0

\* Mutant: what the fee takes stays locked.
AfterFeeLocked(mo, u, p, released, fee) ==
    Earned(Unlocked(mo, u, p, released - ClosingFee(released, fee)),
           u, ClosingFee(released, fee))

AfterFee(mo, u, p, released, fee) ==
    Earned(Unlocked(mo, u, p, released), u, ClosingFee(released, fee))

CanSettle(mo, u, p, released, gross, fee) ==
    /\ CanUnlock(mo, p, released)
    /\ ClosingFee(released, fee) + CappedLoss(released, gross, fee) <= mo.bal[u]
    /\ gross > 0 => CanDraw(AfterFee(mo, u, p, released, fee), gross)

\* Mutant: a loss is taken in full, not up to the margin released.
SettledUncapped(mo, u, p, released, gross, fee) ==
    LET mid == AfterFee(mo, u, p, released, fee)
    IN  IF gross > 0 THEN Drawn(mid, u, gross) ELSE Earned(mid, u, -gross)

Settled(mo, u, p, released, gross, fee) ==
    LET mid == AfterFee(mo, u, p, released, fee)
    IN  IF gross > 0 THEN Drawn(mid, u, gross)
        ELSE Earned(mid, u, CappedLoss(released, gross, fee))

(* The position book *)

\* Open interest and skew after size contracts more on one side.
Exposed(b, m, long, size) ==
    [b EXCEPT !.oi[m][long] = @ + size, !.skew[m] = @ + Sign(long) * size]

\* Mutant: a partial close releases margin and keeps it on file as well.
RestKeepsMargin(q, size, at) ==
    [q EXCEPT !.size = @ - size, !.fidx = index[q.market][q.long]]

\* Part of a position gone; funding counts as settled for all of the rest.
Rest(q, size, at) ==
    [q EXCEPT !.size = @ - size, !.margin = @ - Released(q, size),
              !.fidx = index[q.market][q.long],
              !.leverage = CeilDiv((q.size - size) * at,
                                   q.margin - Released(q, size))]

Reduced(b, p, size, at) ==
    LET q == b.pos[p]
    IN  [Exposed(b, q.market, q.long, -size) EXCEPT !.pos[p] = Rest(q, size, at)]

\* Mutants: the counters, or the list of the user, are left as they were.
RemovedUncounted(b, p) ==
    [b EXCEPT !.pos[p] = NoPosition, !.users[b.pos[p].owner] = @ \ {p}]
RemovedButListed(b, p) ==
    LET q == b.pos[p]
    IN  [Exposed(b, q.market, q.long, -q.size) EXCEPT !.pos[p] = NoPosition]

\* close_position leaves the id in the list of its market.
Removed(b, p) ==
    LET q == b.pos[p]
    IN  [Exposed(b, q.market, q.long, -q.size) EXCEPT
            !.pos[p] = NoPosition, !.users[q.owner] = @ \ {p}]

\* risk_close_position: a full close also clears the list of the market.
CanRiskClose(b, p, size) ==
    LET q == b.pos[p]
    IN  /\ size > 0 /\ size <= q.size
        /\ size < q.size => q.margin - Released(q, size) > 0

RiskClosed(b, p, size, at) ==
    LET q == b.pos[p]
    IN  IF size = q.size
        THEN [Removed(b, p) EXCEPT !.markets[q.market] = @ \ {p}]
        ELSE Reduced(b, p, size, at)

-----------------------------------------------------------------------------
Init ==
    /\ book = [pos     |-> [p \in PosIds |-> NoPosition],
               users   |-> [u \in Traders |-> {}],
               markets |-> [m \in Markets |-> {}],
               oi      |-> [m \in Markets |-> [long \in BOOLEAN |-> 0]],
               skew    |-> [m \in Markets |-> 0]]
    /\ money = [bal    |-> [a \in Accounts |->
                              IF a = Slp THEN Seed
                              ELSE IF a \in Traders THEN Stake ELSE 0],
                lock   |-> [p \in PosIds |-> 0],
                locked |-> [u \in Traders |-> 0],
                assets |-> Seed]
    /\ nextId = 1
    /\ price \in [Markets -> Prices]
    /\ index = [m \in Markets |-> [long \in BOOLEAN |-> 0]]
    /\ cooling = {}
    /\ paused = [perp |-> FALSE, risk |-> FALSE]
    /\ held = Seed + Stake * Cardinality(Traders)

(* The vault and the SLP vault on their own *)

Deposit(u, d) ==
    /\ d > 0 /\ held + d <= MaxHeld
    /\ money' = [money EXCEPT !.bal[u] = @ + d]
    /\ held' = held + d
    /\ UNCHANGED <<book, nextId, world, cooling>>

MarginOf(u) == SumFunction([p \in Of(u) |-> book.pos[p].margin])

Withdraw(u, d) ==
    /\ d > 0 /\ d <= money.bal[u] /\ d <= held
    /\ money.bal[u] - d >= MarginOf(u)
    /\ money' = [money EXCEPT !.bal[u] = @ - d]
    /\ held' = held - d
    /\ UNCHANGED <<book, nextId, world, cooling>>

LiquidityIn(d) ==
    /\ d > 0 /\ held + d <= MaxHeld
    /\ money' = [money EXCEPT !.bal[Slp] = @ + d, !.assets = @ + d]
    /\ held' = held + d
    /\ UNCHANGED <<book, nextId, world, cooling>>

\* The assets fall by what the shares are worth, the balance by that rounded
\* down to native units.
LiquidityOut(worth, d) ==
    /\ d > 0 /\ d <= worth /\ worth <= money.assets
    /\ d <= money.bal[Slp] /\ d <= held
    /\ money' = [money EXCEPT !.bal[Slp] = @ - d, !.assets = @ - worth]
    /\ held' = held - d
    /\ UNCHANGED <<book, nextId, world, cooling>>

(* Trading *)

\* Mutant: only the new position has to be covered.
CoversOnlyNew(u, balance, notional) == balance >= InitialMargin(notional)

\* The risk engine's check, on the balance after the fee.
Covers(u, balance, notional) ==
    balance >= MarginOf(u) + InitialMargin(notional)

OpenPosition(u, m, size, long, lev) ==
    LET p        == nextId
        exec     == ExecutionPrice(m, size, long)
        notional == size * exec
        margin   == notional \div lev
        fee      == ApplyBps(notional, TakerBps)
        after    == Earned(Locked(money, u, p, margin), u, fee)
    IN  /\ ~paused.perp /\ p \in PosIds
        /\ size > 0 /\ lev > 0 /\ lev <= MaxLeverage
        /\ size * price[m] >= MinNotional
        /\ book.oi[m][long] + size <= MaxOI
        /\ margin > 0
        /\ margin <= money.bal[u] - money.locked[u]
        /\ fee <= money.bal[u]
        /\ margin >= InitialMargin(notional)
        /\ Covers(u, after.bal[u], notional)
        /\ Cardinality(book.users[u]) < MaxPositions
        /\ money' = after
        /\ book' = [Exposed(book, m, long, size) EXCEPT
                       !.pos[p] = [owner |-> u, market |-> m, long |-> long,
                                   size |-> size, entry |-> exec,
                                   margin |-> margin, leverage |-> lev,
                                   fidx |-> index[m][long]],
                       !.users[u] = @ \cup {p},
                       !.markets[m] = @ \cup {p}]
        /\ nextId' = nextId + 1
        /\ UNCHANGED <<world, cooling, held>>

ClosePosition(p) ==
    LET q     == book.pos[p]
        exec  == ExecutionPrice(q.market, q.size, ~q.long)
        gross == Pnl(q, q.size, exec)
        fee   == ApplyBps(q.size * exec, MakerBps)
    IN  /\ ~paused.perp /\ p \in Open
        /\ CanSettle(money, q.owner, p, q.margin, gross, fee)
        /\ money' = Settled(money, q.owner, p, q.margin, gross, fee)
        /\ book' = Removed(book, p)
        /\ UNCHANGED <<nextId, world, cooling, held>>

AddMargin(p, d) ==
    LET u == book.pos[p].owner
    IN  /\ ~paused.perp /\ p \in Open
        /\ d > 0 /\ d <= money.bal[u] - money.locked[u]
        /\ money' = Locked(money, u, p, d)
        /\ book' = [book EXCEPT !.pos[p].margin = @ + d]
        /\ UNCHANGED <<nextId, world, cooling, held>>

RemoveMargin(p, d) ==
    LET q   == book.pos[p]
        lev == CeilDiv(Notional(q), q.margin - d)
    IN  /\ ~paused.perp /\ p \in Open
        /\ d > 0 /\ d < q.margin
        /\ lev <= MaxLeverage
        /\ CanUnlock(money, p, d)
        /\ money' = Unlocked(money, q.owner, p, d)
        /\ book' = [book EXCEPT !.pos[p].margin = @ - d, !.pos[p].leverage = lev]
        /\ UNCHANGED <<nextId, world, cooling, held>>

PartialClose(p, size) ==
    LET q        == book.pos[p]
        exec     == ExecutionPrice(q.market, size, ~q.long)
        gross    == Pnl(q, size, exec)
        fee      == ApplyBps(size * exec, MakerBps)
        released == Released(q, size)
    IN  /\ ~paused.perp /\ p \in Open
        /\ size > 0 /\ size < q.size
        /\ CanSettle(money, q.owner, p, released, gross, fee)
        /\ q.margin - released > 0
        /\ money' = Settled(money, q.owner, p, released, gross, fee)
        /\ book' = Reduced(book, p, size, price[q.market])
        /\ UNCHANGED <<nextId, world, cooling, held>>

(* Liquidation and deleveraging *)

LiquidationSize(q) ==
    IF Notional(q) <= PartialThreshold THEN q.size
    ELSE Most(ApplyBps(q.size, PartialBps), 1)

\* distribute_liquidation_value: the penalty comes out of the user's balance,
\* the trading loss stays there, and bad debt only lowers the assets.
Penalty(q, size) == ApplyBps(size * price[q.market], LiquidationBps)
Reward(q, size)  == ApplyBps(Penalty(q, size), RewardBps)
Shortfall(q, size) ==
    Penalty(q, size) - Released(q, size) - Pnl(q, size, price[q.market])

Rewarded(mo, k, p, q, size) ==
    Paid(Unlocked(mo, q.owner, p, Released(q, size)), q.owner, k, Reward(q, size))

CanDistribute(mo, k, p, q, size) ==
    /\ CanUnlock(mo, p, Released(q, size))
    /\ Reward(q, size) <= mo.bal[q.owner]
    /\ Penalty(q, size) - Reward(q, size)
         <= Rewarded(mo, k, p, q, size).bal[q.owner]

\* Mutant: the keeper pays the pool's part.
DistributedByKeeper(mo, k, p, q, size) ==
    Earned(Rewarded(mo, k, p, q, size), k, Penalty(q, size) - Reward(q, size))

Distributed(mo, k, p, q, size) ==
    LET paid == Earned(Rewarded(mo, k, p, q, size), q.owner,
                       Penalty(q, size) - Reward(q, size))
    IN  [paid EXCEPT !.assets = @ - Most(Shortfall(q, size), 0)]

\* run_adl on the book a partial liquidation left: the winner with the best
\* return times leverage is closed in part, its gain paid if the SLP vault can.
\* Its margin stays in its bucket.
WinnersIn(b, m) ==
    {w \in b.markets[m] : Pnl(b.pos[w], b.pos[w].size, price[m]) > 0}

Outranks(b, v, w) ==
    LET gain(x) == Pnl(b.pos[x], b.pos[x].size, price[b.pos[x].market])
                     * b.pos[x].leverage
        lhs == gain(v) * b.pos[w].margin
        rhs == gain(w) * b.pos[v].margin
    IN  lhs > rhs \/ (lhs = rhs /\ v <= w)

AdlSize(q, coverage) ==
    Most((q.size * Least(coverage, Notional(q))) \div Notional(q), 1)

\* The size the deleveraging closes never exceeds the position.
Deleverage(b, mo, m, coverage) ==
    /\ \A w \in b.markets[m] : b.pos[w] # NoPosition
    /\ IF WinnersIn(b, m) = {}
       THEN book' = b /\ money' = mo
       ELSE \E w \in WinnersIn(b, m) :
              /\ \A v \in WinnersIn(b, m) : Outranks(b, w, v)
              /\ LET q    == b.pos[w]
                     size == Least(AdlSize(q, coverage), q.size)
                     gain == Pnl(q, size, price[m])
                 IN  /\ CanRiskClose(b, w, size)
                     /\ book' = RiskClosed(b, w, size, price[m])
                     /\ money' = IF gain > 0 /\ CanDraw(mo, gain)
                                 THEN Drawn(mo, q.owner, gain) ELSE mo

Liquidate(k, p) ==
    LET q     == book.pos[p]
        size  == LiquidationSize(q)
        after == RiskClosed(book, p, size, price[q.market])
        paid  == Distributed(money, k, p, q, size)
        rest  == Rest(q, size, price[q.market])
    IN  /\ ~paused.risk /\ p \in Open /\ Unhealthy(q)
        /\ Notional(q) > PartialThreshold => p \notin cooling
        /\ CanRiskClose(book, p, size)
        /\ CanDistribute(money, k, p, q, size)
        /\ IF size < q.size /\ Unhealthy(rest)
           THEN Deleverage(after, paid, q.market,
                           Maintenance(Notional(rest)) - Equity(rest))
           ELSE book' = after /\ money' = paid
        /\ cooling' = IF Notional(q) > PartialThreshold
                      THEN cooling \cup {p} ELSE cooling
        /\ UNCHANGED <<nextId, world, held>>

(* Funding, the oracle, the clock and the admins *)

\* Mutant: a payment runs the wrong way.
FundingReversed(mo, u, pay) == Paid(mo, u, FundingPool, pay)

\* A gain comes from the funding pool, a debt goes to it.
CanPayFunding(mo, u, pay) ==
    IF pay > 0 THEN pay <= mo.bal[FundingPool] ELSE -pay <= mo.bal[u]

FundingPaid(mo, u, pay) == Paid(mo, FundingPool, u, pay)

SettleFunding(p) ==
    LET q   == book.pos[p]
        pay == FundingPnl(q, q.size)
    IN  /\ p \in Open
        /\ CanPayFunding(money, q.owner, pay)
        /\ money' = FundingPaid(money, q.owner, pay)
        /\ book' = [book EXCEPT !.pos[p].fidx = index[q.market][q.long]]
        /\ UNCHANGED <<nextId, world, cooling, held>>

FundingTick(m, d) ==
    /\ Abs(index[m][TRUE] + d) <= MaxFunding
    /\ index' = [index EXCEPT ![m][TRUE] = @ + d, ![m][FALSE] = @ - d]
    /\ UNCHANGED <<book, money, nextId, price, paused, cooling, held>>

OracleMoves(m, q) ==
    /\ price' = [price EXCEPT ![m] = q]
    /\ UNCHANGED <<book, money, nextId, index, paused, cooling, held>>

CooldownEnds(p) ==
    /\ cooling' = cooling \ {p}
    /\ UNCHANGED <<book, money, nextId, world, held>>

SetPaused(engine, on) ==
    /\ Pausable
    /\ paused' = [paused EXCEPT ![engine] = on]
    /\ UNCHANGED <<book, money, nextId, price, index, cooling, held>>

-----------------------------------------------------------------------------
VaultStep ==
    \/ \E u \in Traders, d \in Amounts : Deposit(u, d) \/ Withdraw(u, d)
    \/ \E d \in Amounts : LiquidityIn(d)
    \/ \E worth, d \in Amounts : LiquidityOut(worth, d)

TradeStep ==
    \/ \E u \in Traders, m \in Markets, size \in Sizes, long \in BOOLEAN,
          lev \in Leverages : OpenPosition(u, m, size, long, lev)
    \/ \E p \in PosIds : ClosePosition(p)
    \/ \E p \in PosIds, d \in Amounts : AddMargin(p, d) \/ RemoveMargin(p, d)
    \/ \E p \in PosIds, size \in Sizes : PartialClose(p, size)

KeeperStep ==
    \/ \E k \in Keepers, p \in PosIds : Liquidate(k, p)
    \/ \E p \in PosIds : SettleFunding(p)

WorldStep ==
    \/ \E m \in Markets, d \in Ticks : FundingTick(m, d)
    \/ \E m \in Markets, q \in Prices : OracleMoves(m, q)
    \/ \E p \in cooling : CooldownEnds(p)
    \/ \E engine \in {"perp", "risk"}, on \in BOOLEAN : SetPaused(engine, on)

Next == VaultStep \/ TradeStep \/ KeeperStep \/ WorldStep

Spec == Init /\ [][Next]_vars

-----------------------------------------------------------------------------
(* Properties *)

\* Every store of the engines and the vaults holds what its type says: no
\* balance and no bucket is negative, every stored position has a size and a
\* margin.  Open interest, skew and net asset value are only integers here.
TypeOK ==
    /\ book \in Book
    /\ money \in Money
    /\ nextId \in Nat \ {0}
    /\ price \in [Markets -> Prices]
    /\ index \in [Markets -> [BOOLEAN -> Int]]
    /\ cooling \subseteq PosIds
    /\ paused \in [perp : BOOLEAN, risk : BOOLEAN]
    /\ held \in Nat

Exposure(m, long) ==
    LET ps == {p \in Open : book.pos[p].market = m /\ book.pos[p].long = long}
    IN  SumFunction([p \in ps |-> book.pos[p].size])

\* The counters that price and cap every trade are the positions themselves:
\* open interest is the size open on a side, and the skew the difference of the
\* sides, after any mix of opens, partial closes, liquidations and ADL.
ExposureIsOpen ==
    \A m \in Markets :
        /\ \A long \in BOOLEAN : book.oi[m][long] = Exposure(m, long)
        /\ book.skew[m] = book.oi[m][TRUE] - book.oi[m][FALSE]

\* The id lists agree with the stored positions: a user's list is exact, the
\* list of a market misses no open position, and no future id is in use.
IndexesAgree ==
    /\ \A u \in Traders : book.users[u] = Of(u)
    /\ \A p \in Open : p \in book.markets[book.pos[p].market] /\ p < nextId
    /\ \A p \in PosIds : p >= nextId => money.lock[p] = 0

\* The bucket of a position in the vault holds at least the margin the engine
\* has on file for it, so releasing that margin never fails.
LocksCoverMargins ==
    \A p \in Open : book.pos[p].margin <= money.lock[p]

\* Vault and engine agree exactly, in both directions: an open position has its
\* margin in its bucket, and the bucket of any other id is empty.
LocksAreMargins ==
    \A p \in PosIds :
        money.lock[p] = IF p \in Open THEN book.pos[p].margin ELSE 0

\* What the bucket of an id holds beyond the margin on file.
Stranded(p) ==
    money.lock[p] - (IF p \in Open THEN book.pos[p].margin ELSE 0)

\* Margin leaves the engine's file and its bucket together, but for one case:
\* deleveraging, which follows a partial liquidation, closes a position and
\* leaves its margin in the bucket.  No later step ever takes it out of there.
OnlyDeleveragingStrands ==
    [][\A p \in PosIds :
          \/ Stranded(p)' = Stranded(p)
          \/ /\ Stranded(p)' > Stranded(p) /\ book'.pos[p] # book.pos[p]
             /\ cooling \subseteq cooling' /\ cooling' # cooling]_vars

\* The net asset value that prices the pool's shares is backed by the pool's
\* balance in the vault.
NavBacked == money.assets <= money.bal[Slp]

Promise == INSTANCE Pool WITH assets <- money.assets, bal <- money.bal[Slp]

\* Whatever a transaction chains - fees, payouts, ADL, bad debt - its net effect
\* on the pool keeps the promise the share holders' side keeps too: no value
\* without money, and no money out beyond the value the pool had before.
ImplementsPool == Promise!Spec

\* Trading, funding, liquidation and ADL only move money: the balances add up
\* to the tokens the vault holds.
Conservation == SumFunction(money.bal) = held

\* Nobody pays for another's position: a balance of a trader falls only when the
\* trader withdraws or when one of the trader's own positions changes.
NobodyElsePays ==
    [][\A u \in Traders :
          (money'.bal[u] < money.bal[u] /\ held' = held) =>
              \E p \in PosIds : /\ book'.pos[p] # book.pos[p]
                                /\ \E b \in {book, book'} : p \in b.users[u]]_vars

Accrued(u) ==
    LET due == [p \in Of(u) |-> FundingPnl(book.pos[p], book.pos[p].size)]
    IN  money.bal[u] + SumFunction(due)

SameExposure ==
    \A p \in PosIds :
        \/ book'.pos[p] = book.pos[p]
        \/ /\ p \in Open /\ book'.pos[p] # NoPosition
           /\ book'.pos[p].size = book.pos[p].size

\* Settling funding and moving margin change no trader's wealth: as long as no
\* position changes size, balance plus funding due stays what it was.
SettlingIsNeutral ==
    [][(SameExposure /\ index' = index /\ held' = held)
       => \A u \in Traders : Accrued(u)' = Accrued(u)]_vars

\* A position is opened only by a user who, after the fee is paid, still has the
\* margins of all earlier positions and the initial margin of the new one.
OpenIsCollateralised ==
    [][\A p \in PosIds \ Open :
          LET q == book'.pos[p]
          IN  q # NoPosition =>
                  money'.bal[q.owner] >=
                      MarginOf(q.owner) + InitialMargin(q.size * q.entry)]_vars
=============================================================================
