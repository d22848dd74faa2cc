------------------------------- MODULE Vault -------------------------------
(***************************************************************************)
(* The collateral vault (contracts/stellax-vault): custody of the tokens,  *)
(* master balances, sub-account balances, cross-margin buckets and         *)
(* isolated-margin buckets.  A contract call is atomic: an error reverts   *)
(* all of it, so an action is one successful call.                         *)
(*                                                                         *)
(* Balances, buckets and limits are in internal units; the token contract  *)
(* counts native units, Unit internal ones each (10^(18 - decimals)).      *)
(*                                                                         *)
(* A definition whose comment starts with "Mutant" is a plausible bug that *)
(* a property has to notice; nothing in the specification refers to it.    *)
(***************************************************************************)
EXTENDS Integers, Sequences, FiniteSets, Functions

CONSTANTS
    Traders,          \* accounts of users
    Treasury,         \* account of the protocol treasury
    Insurance,        \* account of the insurance fund
    SlpPool,          \* account of the liquidity pool
    TokenOrder,       \* supported tokens, in the order of supported_tokens
    PosIds,           \* position ids used as bucket keys
    SubIds,           \* sub-account ids a caller may pass; 0 is the master
    Callers,          \* contracts the admin may authorise
    Unit,             \* internal units per native token unit
    Natives,          \* native amounts a call may carry
    Amounts,          \* internal amounts a call may carry
    Losses,           \* signed results realised on an isolated position
    Prices,           \* oracle prices, in PRECISION-ths
    PRECISION,        \* the price of one
    Haircut,          \* token -> haircut, in parts of BPS
    BPS,
    Caps,             \* deposit caps the admin may choose
    Wallet,           \* native tokens every trader and the admin start with
    MaxBucket,        \* bound: size of one margin bucket
    MaxEscrow,        \* bound: native tokens escrowed on the EVM side
    MarginTransfers   \* whether an authorised caller uses transfer_margin

Tokens   == Range(TokenOrder)
Accounts == Traders \cup {Treasury, Insurance, SlpPool}

ASSUME VaultConstants ==
    /\ Unit \in Nat \ {0} /\ PRECISION \in Nat \ {0} /\ BPS \in Nat \ {0}
    /\ Natives \subseteq Nat /\ Amounts \subseteq Nat /\ Losses \subseteq Int
    /\ SubIds \subseteq Nat /\ Prices \subseteq Nat /\ Caps \subseteq Nat \ {0}
    /\ Wallet \in Nat /\ MaxBucket \in Nat /\ MaxEscrow \in Nat /\ MarginTransfers \in BOOLEAN
    /\ Haircut \in [Tokens -> 0..BPS]

\* At any time the contract's storage holds finitely many entries.
ASSUME VaultIsFinite ==
    /\ IsFiniteSet(Traders) /\ IsFiniteSet(PosIds)
    /\ IsFiniteSet(SubIds) /\ IsFiniteSet(Tokens)

VARIABLES
    balance,     \* account, token -> master balance
    sub,         \* trader, sub id, token -> sub-account balance
    cross,       \* trader, position -> LockedMargin
    crossTotal,  \* trader -> LockedMarginTotal
    iso,         \* trader, position -> IsolatedMargin
    isoTotal,    \* trader -> IsolatedMarginTotal
    collateral,  \* token -> [active, cap]
    callers,     \* authorised callers
    price,       \* token -> oracle price
    held,        \* token -> native tokens the vault contract holds
    wallet,      \* trader, token -> native tokens in the user's own account
    escrow       \* token -> native tokens escrowed on the EVM side, net

locks  == <<cross, crossTotal, iso, isoTotal>>
admin  == <<collateral, callers>>
chain  == <<held, wallet, escrow>>
vars   == <<balance, sub, locks, admin, price, chain>>

-----------------------------------------------------------------------------
(* Reading the ledger *)

CrossSum(u) == SumFunction(cross[u])
IsoSum(u)   == SumFunction(iso[u])

\* Value of an amount of a token: price, then haircut, both rounded down.
CollateralValue(t, amount) ==
    LET gross == (amount * price[t]) \div PRECISION
    IN  (gross * (BPS - Haircut[t])) \div BPS

TotalCollateral(u) ==
    SumFunction([t \in Tokens |-> CollateralValue(t, balance[u][t])])

\* A held token that the admin switched off makes the valuation fail.
Valued(u) == \A t \in Tokens : balance[u][t] # 0 => collateral[t].active

\* risk.get_account_equity: the stored margins of the user's positions, which
\* the perp engine mirrors in the cross buckets.
RiskLockedMargin(u) == CrossSum(u)

\* current_token_total: tokens on chain, not balances in the ledger.  The
\* treasury, insurance and pool addresses hold none outside the vault here.
TokenTotal(t) == Unit * held[t]

UnderCap(t, n) ==
    /\ collateral[t].active
    /\ TokenTotal(t) + Unit * n <= collateral[t].cap

\* Mutant: isolated margin counts as free.
FreeIgnoringIsolated(u) == TotalCollateral(u) - crossTotal[u]

FreeForLock(u) == TotalCollateral(u) - crossTotal[u] - isoTotal[u]

Add(f, u, k, d) == [f EXCEPT ![u][k] = @ + d]

\* Mutant: both balances are read before either is written.
MovedFromStale(b, from, to, t, d) ==
    [b EXCEPT ![from][t] = b[from][t] - d, ![to][t] = b[to][t] + d]

Moved(b, from, to, t, d) == Add(Add(b, from, t, -d), to, t, d)

-----------------------------------------------------------------------------
Init ==
    /\ balance = [a \in Accounts |-> [t \in Tokens |-> 0]]
    /\ sub = [u \in Traders |-> [s \in SubIds \ {0} |-> [t \in Tokens |-> 0]]]
    /\ cross = [u \in Traders |-> [p \in PosIds |-> 0]]
    /\ crossTotal = [u \in Traders |-> 0]
    /\ iso = cross
    /\ isoTotal = crossTotal
    /\ \E cap \in Caps :
          collateral = [t \in Tokens |-> [active |-> TRUE, cap |-> cap]]
    /\ callers \in SUBSET Callers
    /\ price \in [Tokens -> Prices]
    /\ held = [t \in Tokens |-> 0]
    /\ wallet = [u \in Traders |-> [t \in Tokens |-> Wallet]]
    /\ escrow = [t \in Tokens |-> 0]

(* Deposits and withdrawals *)

Deposit(u, t, n) ==
    /\ n > 0 /\ UnderCap(t, n) /\ wallet[u][t] >= n
    /\ wallet' = Add(wallet, u, t, -n)
    /\ held' = [held EXCEPT ![t] = @ + n]
    /\ balance' = Add(balance, u, t, Unit * n)
    /\ UNCHANGED <<sub, locks, admin, price, escrow>>

\* Mutant: the margin is compared with the balance before the withdrawal.
WithdrawStale(u, t, n) ==
    /\ n > 0 /\ collateral[t].active
    /\ balance[u][t] >= Unit * n
    /\ balance[u][t] >= RiskLockedMargin(u)
    /\ held[t] >= n
    /\ held' = [held EXCEPT ![t] = @ - n]
    /\ wallet' = Add(wallet, u, t, n)
    /\ balance' = Add(balance, u, t, -(Unit * n))
    /\ UNCHANGED <<sub, locks, admin, price, escrow>>

\* Only the balance of the token withdrawn is compared with the locked margin.
Withdraw(u, t, n) ==
    /\ n > 0 /\ collateral[t].active
    /\ balance[u][t] >= Unit * n
    /\ balance[u][t] - Unit * n >= RiskLockedMargin(u)
    /\ held[t] >= n
    /\ held' = [held EXCEPT ![t] = @ - n]
    /\ wallet' = Add(wallet, u, t, n)
    /\ balance' = Add(balance, u, t, -(Unit * n))
    /\ UNCHANGED <<sub, locks, admin, price, escrow>>

DepositSub(u, s, t, n) ==
    /\ n > 0 /\ s # 0 /\ UnderCap(t, n) /\ wallet[u][t] >= n
    /\ wallet' = Add(wallet, u, t, -n)
    /\ held' = [held EXCEPT ![t] = @ + n]
    /\ sub' = [sub EXCEPT ![u][s][t] = @ + Unit * n]
    /\ UNCHANGED <<balance, locks, admin, price, escrow>>

WithdrawSub(u, s, t, n) ==
    /\ n > 0 /\ s # 0 /\ collateral[t].active
    /\ sub[u][s][t] >= Unit * n
    /\ held[t] >= n
    /\ held' = [held EXCEPT ![t] = @ - n]
    /\ wallet' = Add(wallet, u, t, n)
    /\ sub' = [sub EXCEPT ![u][s][t] = @ - Unit * n]
    /\ UNCHANGED <<balance, locks, admin, price, escrow>>

TransferBetweenSubs(u, s1, s2, t, d) ==
    /\ d > 0 /\ s1 # 0 /\ s2 # 0 /\ s1 # s2
    /\ sub[u][s1][t] >= d
    /\ sub' = [sub EXCEPT ![u][s1][t] = @ - d, ![u][s2][t] = @ + d]
    /\ UNCHANGED <<balance, locks, admin, price, chain>>

\* The admin's own tokens, credited to the treasury account.  The admin is
\* one of the traders' wallets.
SeedTreasury(u, t, n) ==
    /\ n > 0 /\ UnderCap(t, n) /\ wallet[u][t] >= n
    /\ wallet' = Add(wallet, u, t, -n)
    /\ held' = [held EXCEPT ![t] = @ + n]
    /\ balance' = Add(balance, Treasury, t, Unit * n)
    /\ UNCHANGED <<sub, locks, admin, price, escrow>>

(* The bridge: no token moves on this chain *)

Credit(u, t, n) ==
    /\ callers # {} /\ n > 0 /\ UnderCap(t, n)
    /\ escrow[t] + n <= MaxEscrow
    /\ escrow' = [escrow EXCEPT ![t] = @ + n]
    /\ balance' = Add(balance, u, t, Unit * n)
    /\ UNCHANGED <<sub, locks, admin, price, held, wallet>>

\* Mutant: the balance is not checked.
DebitUnchecked(u, t, n) ==
    /\ callers # {} /\ n > 0 /\ collateral[t].active
    /\ escrow[t] - n >= -MaxEscrow
    /\ escrow' = [escrow EXCEPT ![t] = @ - n]
    /\ balance' = Add(balance, u, t, -(Unit * n))
    /\ UNCHANGED <<sub, locks, admin, price, held, wallet>>

Debit(u, t, n) ==
    /\ callers # {} /\ n > 0 /\ collateral[t].active
    /\ balance[u][t] >= Unit * n
    /\ escrow[t] - n >= -MaxEscrow
    /\ escrow' = [escrow EXCEPT ![t] = @ - n]
    /\ balance' = Add(balance, u, t, -(Unit * n))
    /\ UNCHANGED <<sub, locks, admin, price, held, wallet>>

(* Balance moves of authorised callers *)

MoveBalance(from, to, t, d) ==
    /\ callers # {} /\ d > 0
    /\ balance[from][t] >= d
    /\ balance' = Moved(balance, from, to, t, d)
    /\ UNCHANGED <<sub, locks, admin, price, chain>>

\* Leg 2 runs on the balances leg 1 left.
AtomicSwap(a, b, ta, da, tb, db) ==
    /\ callers # {} /\ da > 0 /\ db > 0 /\ ta # tb
    /\ balance[a][ta] >= da
    /\ LET leg1 == Moved(balance, a, b, ta, da)
       IN  /\ leg1[b][tb] >= db
           /\ balance' = Moved(leg1, b, a, tb, db)
    /\ UNCHANGED <<sub, locks, admin, price, chain>>

(* Margin buckets *)

\* Mutant: the total grows by less than the bucket.
LockMarginShort(u, p, d) ==
    /\ callers # {} /\ d > 0 /\ Valued(u)
    /\ d <= FreeForLock(u) /\ cross[u][p] + d <= MaxBucket
    /\ cross' = Add(cross, u, p, d)
    /\ crossTotal' = [crossTotal EXCEPT ![u] = @ + d - 1]
    /\ UNCHANGED <<balance, sub, iso, isoTotal, admin, price, chain>>

LockMargin(u, p, d) ==
    /\ callers # {} /\ d > 0 /\ Valued(u)
    /\ d <= FreeForLock(u) /\ cross[u][p] + d <= MaxBucket
    /\ cross' = Add(cross, u, p, d)
    /\ crossTotal' = [crossTotal EXCEPT ![u] = @ + d]
    /\ UNCHANGED <<balance, sub, iso, isoTotal, admin, price, chain>>

\* Mutant: the total is not lowered with the bucket.
UnlockBucketOnly(u, p, d) ==
    /\ callers # {} /\ d > 0 /\ d <= cross[u][p]
    /\ cross' = Add(cross, u, p, -d)
    /\ UNCHANGED <<balance, sub, crossTotal, iso, isoTotal, admin, price, chain>>

UnlockMargin(u, p, d) ==
    /\ callers # {} /\ d > 0 /\ d <= cross[u][p]
    /\ cross' = Add(cross, u, p, -d)
    /\ crossTotal' = [crossTotal EXCEPT ![u] = @ - d]
    /\ UNCHANGED <<balance, sub, iso, isoTotal, admin, price, chain>>

LockIsolated(u, p, d) ==
    /\ callers # {} /\ d > 0 /\ Valued(u)
    /\ d <= FreeForLock(u) /\ iso[u][p] + d <= MaxBucket
    /\ iso' = Add(iso, u, p, d)
    /\ isoTotal' = [isoTotal EXCEPT ![u] = @ + d]
    /\ UNCHANGED <<balance, sub, cross, crossTotal, admin, price, chain>>

UnlockIsolated(u, p, d) ==
    /\ callers # {} /\ d > 0 /\ d <= iso[u][p]
    /\ iso' = Add(iso, u, p, -d)
    /\ isoTotal' = [isoTotal EXCEPT ![u] = @ - d]
    /\ UNCHANGED <<balance, sub, cross, crossTotal, admin, price, chain>>

\* A gain releases the whole bucket, a loss eats at most all of it.
Consumed(bucket, pnl) ==
    IF pnl >= 0 \/ -pnl > bucket THEN bucket ELSE -pnl

RealizeIsolatedPnl(u, p, pnl) ==
    /\ callers # {} /\ iso[u][p] > 0
    /\ LET consumed == Consumed(iso[u][p], pnl)
       IN  /\ iso' = Add(iso, u, p, -consumed)
           /\ isoTotal' = [isoTotal EXCEPT ![u] = @ - consumed]
    /\ UNCHANGED <<balance, sub, cross, crossTotal, admin, price, chain>>

\* The first supported token the user holds pays as much as it can; the total
\* drops by the whole amount and no bucket changes.
TransferMargin(u, recipient, d) ==
    /\ MarginTransfers /\ callers # {} /\ d > 0 /\ d <= crossTotal[u]
    /\ LET has == {i \in DOMAIN TokenOrder : balance[u][TokenOrder[i]] # 0}
       IN  IF has = {} THEN UNCHANGED balance
           ELSE \E i \in has :
                  /\ \A j \in has : i <= j
                  /\ LET t    == TokenOrder[i]
                         paid == IF balance[u][t] < d THEN balance[u][t] ELSE d
                     IN  balance' = Moved(balance, u, recipient, t, paid)
    /\ crossTotal' = [crossTotal EXCEPT ![u] = @ - d]
    /\ UNCHANGED <<sub, cross, iso, isoTotal, admin, price, chain>>

(* Administration and the oracle *)

AddAuthorizedCaller(c) ==
    /\ callers' = callers \cup {c}
    /\ UNCHANGED <<balance, sub, locks, collateral, price, chain>>

UpdateCollateralConfig(t, on, cap) ==
    /\ collateral' = [collateral EXCEPT ![t] = [active |-> on, cap |-> cap]]
    /\ UNCHANGED <<balance, sub, locks, callers, price, chain>>

OracleMoves(t, q) ==
    /\ price' = [price EXCEPT ![t] = q]
    /\ UNCHANGED <<balance, sub, locks, admin, chain>>

-----------------------------------------------------------------------------
UserStep ==
    \E u \in Traders, t \in Tokens :
        \/ \E n \in Natives : \/ Deposit(u, t, n)
                              \/ Withdraw(u, t, n)
                              \/ SeedTreasury(u, t, n)
        \/ \E n \in Natives, s \in SubIds : \/ DepositSub(u, s, t, n)
                                            \/ WithdrawSub(u, s, t, n)
        \/ \E s1, s2 \in SubIds, d \in Amounts :
              TransferBetweenSubs(u, s1, s2, t, d)

BridgeStep ==
    \E u \in Traders, t \in Tokens, n \in Natives :
        Credit(u, t, n) \/ Debit(u, t, n)

BalanceStep ==
    \E a, b \in Accounts, t \in Tokens, d \in Amounts :
        \/ MoveBalance(a, b, t, d)
        \/ \E t2 \in Tokens, d2 \in Amounts : AtomicSwap(a, b, t, d, t2, d2)

MarginStep ==
    \E u \in Traders :
        \/ \E p \in PosIds, d \in Amounts : \/ LockMargin(u, p, d)
                                            \/ UnlockMargin(u, p, d)
                                            \/ LockIsolated(u, p, d)
                                            \/ UnlockIsolated(u, p, d)
        \/ \E p \in PosIds, pnl \in Losses : RealizeIsolatedPnl(u, p, pnl)
        \/ \E r \in {Treasury, Insurance}, d \in Amounts : TransferMargin(u, r, d)

AdminStep ==
    \/ \E c \in Callers : AddAuthorizedCaller(c)
    \/ \E t \in Tokens, on \in BOOLEAN, cap \in Caps :
          UpdateCollateralConfig(t, on, cap)
    \/ \E t \in Tokens, q \in Prices : OracleMoves(t, q)

Next == UserStep \/ BridgeStep \/ BalanceStep \/ MarginStep \/ AdminStep

Spec == Init /\ [][Next]_vars

-----------------------------------------------------------------------------
(* Properties *)

\* Every ledger holds what its type says: no balance and no bucket is negative.
TypeOK ==
    /\ balance \in [Accounts -> [Tokens -> Nat]]
    /\ sub \in [Traders -> [SubIds \ {0} -> [Tokens -> Nat]]]
    /\ cross \in [Traders -> [PosIds -> Nat]]
    /\ crossTotal \in [Traders -> Int]
    /\ iso \in [Traders -> [PosIds -> Nat]]
    /\ isoTotal \in [Traders -> Int]
    /\ collateral \in [Tokens -> [active : BOOLEAN, cap : Caps]]
    /\ callers \subseteq Callers
    /\ price \in [Tokens -> Prices]
    /\ held \in [Tokens -> Nat]
    /\ wallet \in [Traders -> [Tokens -> Nat]]
    /\ escrow \in [Tokens -> Int]

SubSum(u, t) ==
    SumFunction([s \in SubIds \ {0} |-> sub[u][s][t]])

Liabilities(t) ==
    SumFunction([a \in Accounts |-> balance[a][t]])
    + SumFunction([u \in Traders |-> SubSum(u, t)])

\* Nothing is created or destroyed: what the vault owes in a token is what it
\* holds plus what is escrowed on the EVM side, whatever mix of deposits,
\* swaps, seizures and bridge calls led here.
Conservation ==
    \A t \in Tokens : Liabilities(t) = Unit * (held[t] + escrow[t])

\* The cached totals never exceed the sums of their buckets, also when margin
\* has been seized, and the isolated total is exact: a total above its buckets
\* would hold back collateral that no position needs.
TotalsBoundedByBuckets ==
    \A u \in Traders : crossTotal[u] <= CrossSum(u) /\ isoTotal[u] = IsoSum(u)

Gap(u) == CrossSum(u) - crossTotal[u]

\* Only seizing margin lets the cross total fall behind its buckets, which makes
\* collateral look free that positions rely on: no lock, unlock or settlement does.
OnlySeizuresOpenGaps ==
    [][\A u \in Traders :
          Gap(u)' > Gap(u) => cross' = cross /\ crossTotal[u]' < crossTotal[u]]_vars

Pledged(u) == CrossSum(u) + IsoSum(u)

\* A lock never pledges the same collateral twice: unless margin was seized from
\* under a user's buckets, after a step that adds to them all of them together
\* are covered by the collateral.
NoDoublePledge ==
    [][\A u \in Traders : Gap(u) = 0 /\ Pledged(u)' > Pledged(u) =>
                              Pledged(u)' <= TotalCollateral(u)']_vars

\* The withdrawal guard keeps equity at zero or above: tokens reach a wallet
\* out of a master balance only if what is left still covers the margins the
\* user's positions hold, unless margin was seized from under them.
WithdrawKeepsEquity ==
    [][\A u \in Traders :
          ((Gap(u) = 0 /\ \E t \in Tokens : /\ balance[u][t]' < balance[u][t]
                                           /\ held[t]' < held[t])
             => TotalCollateral(u)' >= CrossSum(u)')]_vars
=============================================================================
