----------------------------- MODULE Terminal -----------------------------
(***************************************************************************)
(* What the trading terminal calculates from what it has read: the mark    *)
(* price an order is made at, whether the form may be submitted, the       *)
(* liquidation price it announces, the depth of the order book, the names  *)
(* of past deposits and the words for a contract's error.  Money and       *)
(* prices are integers; Unknown is a value not read yet.                   *)
(***************************************************************************)
EXTENDS Integers, FiniteSets, Sequences
LOCAL INSTANCE FiniteSetsExt
LOCAL INSTANCE SequencesExt

Unknown == -1000
IsKnown(x) == x # Unknown
Positive(x) == IsKnown(x) /\ x > 0

\* The first positive of four sources; an RWA's own price goes first.
CurrentMark(isRwa, rwaPrice, markProp, polledMark, oraclePrice) ==
    LET sources == (IF isRwa THEN <<rwaPrice>> ELSE <<>>) \o
                       <<markProp, polledMark, oraclePrice>>
        usable == SelectSeq(sources, Positive)
    IN  IF usable = <<>> THEN Unknown ELSE Head(usable)

Lev(leverage, maxLeverage) ==
    Max({1, Min({maxLeverage, leverage})})

MarginRequired(size, lev) == IF size > 0 THEN size \div lev ELSE 0

HasSufficientMargin(margin, free) == ~IsKnown(free) \/ margin = 0 \/ margin <= free

\* The share of the free collateral an order takes, in percent.
RiskPct(size, margin, free) ==
    IF size > 0 /\ Positive(free) THEN Min({100, (margin * 100) \div free}) ELSE 0

\* What each kind of order still needs once size, margin and oracle are fine.
ModeReady(f) ==
    CASE f.mode = "market" -> Positive(f.mark)
      [] f.mode = "limit" -> f.clobAvailable /\ f.limitPrice > 0
      [] f.mode = "stop" -> f.stopPrice > 0
      [] f.mode = "tp_sl" -> f.stopPrice > 0 /\ f.tpPrice > 0

OracleBlocked(f) == f.isRwa /\ f.stale /\ ~f.update

CanSubmit(f) ==
    /\ f.connected /\ ~f.pending
    /\ f.size > 0
    /\ HasSufficientMargin(MarginRequired(f.size, f.lev), f.free)
    /\ ~OracleBlocked(f)
    /\ ModeReady(f)

ButtonLabel(f) ==
    IF ~f.connected THEN "connect"
    ELSE IF f.phase # "idle" THEN f.phase
    ELSE IF f.size > 0 /\ ~HasSufficientMargin(MarginRequired(f.size, f.lev), f.free)
         THEN "collateral"
    ELSE IF OracleBlocked(f) THEN "stale"
    ELSE IF f.mode = "market" /\ ~Positive(f.mark) THEN "waiting"
    ELSE f.mode

-----------------------------------------------------------------------------
\* The liquidation price the form and the positions table announce, in
\* thousandths (1/lev cut there too): 0.5% of the entry is the maintenance margin.
ShownLiquidation(price, lev, isLong) ==
    IF ~IsKnown(price) \/ lev <= 1 THEN Unknown
    ELSE IF isLong THEN price * (1000 - 1000 \div lev + 5)
                   ELSE price * (1000 + 1000 \div lev - 5)

\* The risk engine's, for one unit of size and before funding: the maintenance
\* margin is half of the market's own initial margin at the mark.
LiquidatableAt(mark, price, lev, maxLeverage, isLong) ==
    LET margin == price \div lev
        gain == IF isLong THEN mark - price ELSE price - mark
    IN  margin + gain < (mark \div maxLeverage) \div 2

\* A long of leverage 5 opened at 1000 is announced to be liquidated at 805.
\* Where the market allows leverage 10 the contract takes it at 840 already;
\* the two only meet where it allows 100.
ASSUME LiquidationComesEarly ==
    /\ ShownLiquidation(1000, 5, TRUE) = 805000
    /\ LiquidatableAt(840, 1000, 5, 10, TRUE)
    /\ ~LiquidatableAt(806, 1000, 5, 100, TRUE)

-----------------------------------------------------------------------------
HalfBands == 10

\* Math.round(delta / (mid / 1000)): the nearest band, halves upward.
Band(price, mid) == (2000 * (price - mid) + mid) \div (2 * mid)

Remaining(o) == Max({0, o.size - o.filled})

\* The depth shown: one row for each band of a thousandth of the mark on
\* either side of it, with the sizes still open added up.
Depth(orders, mid) ==
    LET shown == {o \in orders : Remaining(o) > 0 /\ o.price > 0 /\
                                  Band(o.price, mid) \in -HalfBands .. HalfBands}
    IN  [b \in {Band(o.price, mid) : o \in shown} |->
            MapThenSumSet(Remaining, {o \in shown : Band(o.price, mid) = b})]

Asks(depth) == {b \in DOMAIN depth : b > 0}
Bids(depth) == {b \in DOMAIN depth : b < 0}

\* An order at the mark is in band 0 and on neither side of the book; a bid
\* above the mark is listed with the asks.
ASSUME TheMiddleIsNotShown ==
    LET book == {[id |-> 1, price |-> 1000, size |-> 5, filled |-> 0, isLong |-> TRUE],
                  [id |-> 2, price |-> 1002, size |-> 5, filled |-> 2, isLong |-> TRUE],
                  [id |-> 3, price |-> 900, size |-> 5, filled |-> 0, isLong |-> TRUE]}
        depth == Depth(book, 1000)
    IN  /\ DOMAIN depth = {0, 2} /\ depth[2] = 3
        /\ Asks(depth) = {2} /\ Bids(depth) = {}

-----------------------------------------------------------------------------
Quotient(a, b) == IF a >= 0 THEN a \div b ELSE -((-a) \div b)

HealthPct(free, margin) == IF margin <= 0 THEN 100 ELSE Quotient(free * 100, margin)
HealthWidth(free, margin) ==
    IF margin <= 0 THEN 100 ELSE Max({5, Min({100, HealthPct(free, margin)})})
HealthColor(free, margin) ==
    LET pct == HealthPct(free, margin)
    IN  IF pct > 50 THEN "green" ELSE IF pct > 25 THEN "amber" ELSE "red"

\* What the portfolio margin saves against margins taken one by one, in 1e-4 %.
Savings(portfolio, isolated) == 1000000 - (portfolio * 1000000) \div isolated

-----------------------------------------------------------------------------
\* A past call, as Horizon lists it: the contract, the function, its arguments.
Parameters(args) == 2 + Len(args)

OperationType(contract, parameters) ==
    IF contract = "vault"
    THEN CASE parameters = 3 -> "deposit"
           [] parameters = 4 -> "bridge"
           [] OTHER -> "vault-op"
    ELSE IF parameters >= 5 THEN "bridge-out" ELSE "bridge"

\* The rows of the deposit history: an account's calls of the vault and the
\* bridge merged with the bridge's own history, newest first.
OrderHistory(ops, bridgeRows) ==
    LET native == {[time |-> op.time,
                    kind |-> OperationType(op.contract, Parameters(op.args))] :
                      op \in {p \in ops : p.contract \in {"vault", "bridge"}}}
    IN  SetToSortSeq(native \cup bridgeRows, LAMBDA a, b : a.time > b.time)

\* Deposits and withdrawals of the vault have three arguments, five
\* parameters: neither is ever named, and nothing is called a withdrawal.
ASSUME DepositsAreNotNamed ==
    LET call == [contract |-> "vault", args |-> <<"user", "token", "native">>, time |-> 2]
    IN  /\ OrderHistory({call}, {[time |-> 3, kind |-> "bridge"]}) =
             <<[time |-> 3, kind |-> "bridge"], [time |-> 2, kind |-> "vault-op"]>>
        /\ \A n \in 2 .. 9 : OperationType("vault", n) # "withdraw"

-----------------------------------------------------------------------------
PerpErrors ==
    <<"initialized", "unauthorized", "config", "marketExists", "marketNotFound",
      "marketInactive", "leverage", "size", "slippage", "openInterest",
      "positionNotFound", "notOwner", "margin", "action", "overflow",
      "orderNotFound", "orderExpired", "orderCondition", "bracketNotFound",
      "twapNotFound", "icebergNotFound", "trailing", "plan", "planComplete",
      "liquidity", "paused", "tooManyPositions", "oracleStale", "oraclePrice",
      "noSlpVault">>
RiskErrors ==
    <<"initialized", "unauthorized", "config", "position", "marginLow", "withdraw",
      "notLiquidatable", "overflow", "noAdl", "cooldown", "paused">>
SlpErrors ==
    <<"initialized", "unauthorized", "config", "amount", "shares", "overflow",
      "cap", "cooldown", "skewCap", "allowance", "liquidity", "caller">>

\* The message for a contract's error code; kind "unknown" asks the tables in turn.
DecodedError(kind, code) ==
    LET tables == CASE kind = "perpEngine" -> <<PerpErrors>>
                    [] kind = "risk" -> <<RiskErrors>>
                    [] kind = "slpVault" -> <<SlpErrors>>
                    [] kind = "unknown" -> <<PerpErrors, RiskErrors, SlpErrors>>
        having == SelectSeq(tables, LAMBDA t : code \in DOMAIN t)
    IN  IF having = <<>> THEN "raw" ELSE Head(having)[code]

\* Transactions are explained with kind "unknown": whatever the risk engine or
\* the SLP vault refuses is explained as the perp engine's error of that number.
ASSUME UnknownIsPerp ==
    \A code \in DOMAIN PerpErrors : DecodedError("unknown", code) = PerpErrors[code]

\* The order form has a table of its own, of the perp engine's codes.
OrderFormError(code) ==
    CASE code = 9 -> "collateral" [] code = 10 -> "lockLimit" [] code = 11 -> "noAccount"
      [] code \in {5, 6, 7, 8, 13, 25, 26, 27, 28, 29} -> PerpErrors[code]
      [] OTHER -> "raw"

\* Slippage, open interest and a missing position are explained as the vault's.
ASSUME ThreeAreExplainedWrong ==
    {code \in DOMAIN PerpErrors : OrderFormError(code) \notin {PerpErrors[code], "raw"}} =
        {9, 10, 11}
=============================================================================
