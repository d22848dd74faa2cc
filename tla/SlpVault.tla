------------------------------ MODULE SlpVault ------------------------------
(***************************************************************************)
(* The SLP vault (contracts/stellax-slp-vault): shares of the pool that is *)
(* the counterparty of every trade, their price, the withdrawal guards,    *)
(* and the entry points through which the engines and the fee sweeper      *)
(* change the pool's net asset value.                                      *)
(*                                                                         *)
(* Money and shares are in internal units; the token counts native units,  *)
(* Unit internal ones each.  The rest of the collateral vault is two       *)
(* balances: the treasury's and, in one sum, the traders'.                 *)
(*                                                                         *)
(* A definition whose comment starts with "Mutant" is a plausible bug that *)
(* a property has to notice; nothing in the specification refers to it.    *)
(***************************************************************************)
EXTENDS Integers, FiniteSets, Functions

CONSTANTS
    Holders,       \* accounts that may hold shares
    Admin,         \* the admin, a holder
    Engines,       \* contracts the admin may authorise
    Unit,          \* internal units per native token unit
    Natives,       \* native amounts a call may carry
    ShareAmounts,  \* share amounts a call may carry
    Amounts,       \* internal amounts the engines move
    Approvals,     \* allowances a holder may grant
    Cooldowns, SkewCaps, DepositCaps,   \* settings the admin may choose
    OpenInterests, \* values the perp engine may report
    BPS,
    TraderMoney,   \* what traders hold initially
    MaxMoney,      \* bound: money in the collateral vault
    MaxShares,     \* bound: share supply
    MaxTime,       \* bound: ledger time
    Migrating      \* whether the admin uses admin_credit_assets

ASSUME SlpConstants ==
    /\ Admin \in Holders
    /\ Unit \in Nat \ {0} /\ BPS \in Nat \ {0}
    /\ Natives \subseteq Nat /\ ShareAmounts \subseteq Nat
    /\ Amounts \subseteq Nat /\ Approvals \subseteq Int
    /\ Cooldowns \subseteq Nat /\ SkewCaps \subseteq Nat
    /\ DepositCaps \subseteq Nat \ {0} /\ OpenInterests \subseteq Nat
    /\ TraderMoney \in Nat /\ MaxMoney \in Nat /\ MaxShares \in Nat /\ MaxTime \in Nat
    /\ Migrating \in BOOLEAN

\* Finitely many accounts ever hold shares.
ASSUME SlpIsFinite == IsFiniteSet(Holders)

VARIABLES
    shares,       \* holder -> ShareBalance
    allowance,    \* owner, spender -> Allowance
    totalShares,
    assets,       \* TotalAssets, the tracked net asset value
    unlockAt,     \* holder -> end of the withdrawal cooldown
    config,       \* cooldown, skewCap, cap
    callers,      \* authorised callers
    bal,          \* the pool's balance in the collateral vault
    treasury,     \* the treasury's balance there
    traders,      \* everybody else's balance there
    oi,           \* open interest on both sides, as the perp engine reports it;
                  \* a market whose query fails counts 0
    now           \* ledger time

ledger == <<shares, allowance, totalShares, unlockAt>>
world  == <<oi, now>>
vars   == <<ledger, assets, config, callers, bal, treasury, traders, world>>

-----------------------------------------------------------------------------
(* Share price *)

\* mul_div rounds towards zero.
Abs(x) == IF x < 0 THEN -x ELSE x

MulDiv(a, b, c) ==
    LET quotient == Abs(a * b) \div Abs(c)
    IN  IF (a * b < 0) = (c < 0) THEN quotient ELSE -quotient

\* Mutant: shares are rounded up.
MintedUp(amount) ==
    IF totalShares = 0 \/ assets <= 0 THEN amount
    ELSE (amount * totalShares + assets - 1) \div assets

Minted(amount) ==
    IF totalShares = 0 \/ assets = 0 THEN amount
    ELSE MulDiv(amount, totalShares, assets)

\* What a number of shares is worth.
Underlying(s) == MulDiv(s, assets, totalShares)

\* Mutant: the net asset value before the redemption.
UnderSkewCapBefore(s) ==
    (config.skewCap > 0 /\ assets > 0) => oi * BPS <= assets * config.skewCap

\* Open interest against the net asset value that would be left; not asked when
\* nothing would be.
UnderSkewCap(s) ==
    LET left == assets - Underlying(s)
    IN  (config.skewCap > 0 /\ assets > 0 /\ left > 0)
        => oi * BPS <= left * config.skewCap

-----------------------------------------------------------------------------
Init ==
    /\ shares = [u \in Holders |-> 0]
    /\ allowance = [u \in Holders |-> [v \in Holders |-> 0]]
    /\ totalShares = 0
    /\ assets = 0
    /\ unlockAt = [u \in Holders |-> 0]
    /\ config \in [cooldown : Cooldowns, skewCap : SkewCaps, cap : DepositCaps]
    /\ callers \in SUBSET Engines
    /\ bal = 0
    /\ treasury = 0
    /\ traders = TraderMoney
    /\ oi \in OpenInterests
    /\ now = 0

(* Providing liquidity *)

Mint(u, n) ==
    LET amount == n * Unit
    IN  /\ n > 0 /\ assets + amount <= config.cap
        /\ bal + treasury + traders + amount <= MaxMoney
        /\ Minted(amount) > 0 /\ totalShares + Minted(amount) <= MaxShares
        /\ bal' = bal + amount
        /\ assets' = assets + amount
        /\ shares' = [shares EXCEPT ![u] = @ + Minted(amount)]
        /\ totalShares' = totalShares + Minted(amount)

Deposit(u, n) ==
    /\ Mint(u, n)
    /\ unlockAt' = [unlockAt EXCEPT ![u] = now + config.cooldown]
    /\ UNCHANGED <<allowance, config, callers, treasury, traders, world>>

\* The admin's bootstrap deposit sets no cooldown.
SeedPool(n) ==
    /\ Mint(Admin, n)
    /\ UNCHANGED <<allowance, unlockAt, config, callers, treasury, traders, world>>

\* Mutant: the holder's own balance is not asked.
OwnsTogether(u, s) == s > 0 /\ s <= totalShares

Owns(u, s) == s > 0 /\ s <= shares[u]

\* The shares are worth Underlying; the token pays whole native units of it.
Withdraw(u, s) ==
    LET worth  == Underlying(s)
        native == worth \div Unit
    IN  /\ Owns(u, s)
        /\ now >= unlockAt[u]
        /\ UnderSkewCap(s)
        /\ native > 0 /\ native * Unit <= bal
        /\ shares' = [shares EXCEPT ![u] = @ - s]
        /\ totalShares' = totalShares - s
        /\ assets' = assets - worth
        /\ bal' = bal - native * Unit
        /\ UNCHANGED <<allowance, unlockAt, config, callers, treasury, traders, world>>

(* The share token *)

\* Mutant: both balances are read before either is written.
SharesMovedStale(from, to, s) ==
    [shares EXCEPT ![from] = shares[from] - s, ![to] = shares[to] + s]

SharesMoved(from, to, s) ==
    LET less == [shares EXCEPT ![from] = @ - s]
    IN  [less EXCEPT ![to] = @ + s]

Transfer(from, to, s) ==
    /\ Owns(from, s)
    /\ shares' = SharesMoved(from, to, s)
    /\ UNCHANGED <<allowance, totalShares, unlockAt, assets, config, callers,
                   bal, treasury, traders, world>>

Approve(from, spender, a) ==
    /\ allowance' = [allowance EXCEPT ![from][spender] = a]
    /\ UNCHANGED <<shares, totalShares, unlockAt, assets, config, callers,
                   bal, treasury, traders, world>>

TransferFrom(spender, from, to, s) ==
    /\ Owns(from, s) /\ s <= allowance[from][spender]
    /\ allowance' = [allowance EXCEPT ![from][spender] = @ - s]
    /\ shares' = SharesMoved(from, to, s)
    /\ UNCHANGED <<totalShares, unlockAt, assets, config, callers,
                   bal, treasury, traders, world>>

(* The engines: money first, then the net asset value, in one transaction *)

CreditPnl(c, d) ==
    /\ c \in callers /\ d > 0
    /\ d <= traders
    /\ traders' = traders - d
    /\ bal' = bal + d
    /\ assets' = assets + d
    /\ UNCHANGED <<ledger, config, callers, treasury, world>>

\* Mutant: only the balance is asked, which may exceed the value.
DrawOutOfBalance(c, d) ==
    /\ c \in callers /\ d > 0
    /\ d <= bal
    /\ assets' = assets - d
    /\ bal' = bal - d
    /\ traders' = traders + d
    /\ UNCHANGED <<ledger, config, callers, treasury, world>>

DrawPnl(c, d) ==
    /\ c \in callers /\ d > 0
    /\ d <= assets /\ d <= bal
    /\ assets' = assets - d
    /\ bal' = bal - d
    /\ traders' = traders + d
    /\ UNCHANGED <<ledger, config, callers, treasury, world>>

\* Bad debt; bounded so that the value stays above -MaxMoney.
RecordLoss(c, d) ==
    /\ c \in callers /\ d > 0
    /\ assets - d >= -MaxMoney
    /\ assets' = assets - d
    /\ UNCHANGED <<ledger, config, callers, bal, treasury, traders, world>>

(* Fees *)

SweepFees(n) ==
    /\ n > 0 /\ n * Unit <= treasury
    /\ treasury' = treasury - n * Unit
    /\ bal' = bal + n * Unit
    /\ assets' = assets + n * Unit
    /\ UNCHANGED <<ledger, config, callers, traders, world>>

\* The treasury's balance in the collateral vault: the admin pays in, callers
\* of the vault that it authorised pay out.
SeedTreasury(n) ==
    /\ n > 0 /\ bal + treasury + traders + n * Unit <= MaxMoney
    /\ treasury' = treasury + n * Unit
    /\ UNCHANGED <<ledger, assets, config, callers, bal, traders, world>>

TreasuryPays(d) ==
    /\ d > 0 /\ d <= treasury
    /\ treasury' = treasury - d
    /\ traders' = traders + d
    /\ UNCHANGED <<ledger, assets, config, callers, bal, world>>

(* The admin, the perp engine and the clock *)

AdminCreditAssets(d) ==
    /\ Migrating /\ d > 0 /\ assets + d <= MaxMoney
    /\ assets' = assets + d
    /\ UNCHANGED <<ledger, config, callers, bal, treasury, traders, world>>

Configure(new) ==
    /\ config' = new
    /\ UNCHANGED <<ledger, assets, callers, bal, treasury, traders, world>>

SetCallers(new) ==
    /\ callers' = new
    /\ UNCHANGED <<ledger, assets, config, bal, treasury, traders, world>>

OpenInterestMoves(x) ==
    /\ oi' = x
    /\ UNCHANGED <<ledger, assets, config, callers, bal, treasury, traders, now>>

Tick ==
    /\ now < MaxTime
    /\ now' = now + 1
    /\ UNCHANGED <<ledger, assets, config, callers, bal, treasury, traders, oi>>

-----------------------------------------------------------------------------
LpStep ==
    \/ \E u \in Holders, n \in Natives : Deposit(u, n)
    \/ \E n \in Natives : SeedPool(n)
    \/ \E u \in Holders, s \in ShareAmounts : Withdraw(u, s)
    \/ \E u, v \in Holders, s \in ShareAmounts : Transfer(u, v, s)
    \/ \E u, v \in Holders, a \in Approvals : Approve(u, v, a)
    \/ \E u, v, w \in Holders, s \in ShareAmounts : TransferFrom(u, v, w, s)

EngineStep ==
    \E c \in Engines, d \in Amounts :
        CreditPnl(c, d) \/ DrawPnl(c, d) \/ RecordLoss(c, d)

TreasuryStep ==
    \/ \E n \in Natives : SeedTreasury(n)
    \/ \E d \in Amounts : TreasuryPays(d)

AdminStep ==
    \/ \E d \in Amounts : AdminCreditAssets(d)
    \/ \E x \in Cooldowns : Configure([config EXCEPT !.cooldown = x])
    \/ \E x \in SkewCaps : Configure([config EXCEPT !.skewCap = x])
    \/ \E x \in DepositCaps : Configure([config EXCEPT !.cap = x])
    \/ \E c \in Engines : SetCallers(callers \cup {c}) \/ SetCallers(callers \ {c})

WorldStep == Tick \/ \E x \in OpenInterests : OpenInterestMoves(x)

\* Everybody but the keeper that sweeps.
Others == LpStep \/ EngineStep \/ TreasuryStep \/ AdminStep \/ WorldStep

Next == Others \/ \E n \in Natives : SweepFees(n)

Spec == Init /\ [][Next]_vars

-----------------------------------------------------------------------------
(* Properties *)

\* Nobody's shares and no balance ever become negative, whatever is redeemed,
\* moved or drawn; the net asset value may, and approve takes any allowance.
TypeOK ==
    /\ shares \in [Holders -> Nat]
    /\ allowance \in [Holders -> [Holders -> Int]]
    /\ totalShares \in Nat
    /\ assets \in Int
    /\ unlockAt \in [Holders -> Nat]
    /\ config \in [cooldown : Cooldowns, skewCap : SkewCaps, cap : DepositCaps]
    /\ callers \subseteq Engines
    /\ bal \in Nat /\ treasury \in Nat /\ traders \in Nat
    /\ oi \in OpenInterests
    /\ now \in Nat

\* The share supply that prices every deposit and redemption is what the holders
\* have, through mints, burns and transfers, to oneself included.
SharesAddUp == SumFunction(shares) = totalShares

\* Nobody's shares lose value because somebody else comes or goes: a deposit or
\* a redemption never lowers the price of the shares that stay.  Both round
\* against the caller.
LpsDoNotDilute ==
    [][(totalShares > 0 /\ totalShares' > 0 /\ totalShares' # totalShares)
       => assets' * totalShares >= assets * totalShares']_vars

Promise == INSTANCE Pool

\* The vault keeps the pool's promise: its value rises only with money that
\* arrives, and what leaves, to holders or winners, is covered by value.  Only
\* the credit of a migration, which the admin grants by hand, is outside of it.
ImplementsPool ==
    /\ Promise!Init
    /\ [][Promise!Next \/ \E d \in Amounts : AdminCreditAssets(d)]_<<assets, bal>>

\* A redemption leaves the open interest within the skew cap of the net asset
\* value that stays to pay for it - unless it takes the last share.
SkewCapHolds ==
    [][(0 < totalShares' /\ totalShares' < totalShares)
       => config.skewCap = 0 \/ oi * BPS <= assets' * config.skewCap]_vars
=============================================================================
