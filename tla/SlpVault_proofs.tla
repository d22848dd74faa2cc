-------------------------- MODULE SlpVault_proofs --------------------------
(* Theorems about the shares of the SLP vault, for all values of its constants. *)
EXTENDS SlpVault, Arithmetic, TLAPS

-----------------------------------------------------------------------------
(* mul_div *)

LEMMA MulDivNat ==
    ASSUME NEW a \in Nat, NEW b \in Nat, NEW c \in Nat \ {0}
    PROVE  MulDiv(a, b, c) = (a * b) \div c
<1>1. a * b \in Nat
  BY TimesNat
<1>2. Abs(a * b) = a * b /\ Abs(c) = c
  BY <1>1 DEF Abs
<1>3. ~(a * b < 0) /\ ~(c < 0)
  BY <1>1
<1> QED
  BY <1>2, <1>3 DEF MulDiv

\* A product of a natural number and one that is not positive, divided, is not
\* positive.
LEMMA MulDivOfDebt ==
    ASSUME NEW a \in Nat, NEW b \in Int, NEW c \in Nat \ {0}, b <= 0
    PROVE  MulDiv(a, b, c) \in Int /\ MulDiv(a, b, c) <= 0
<1> DEFINE x == a * b
<1>1. x \in Int /\ x <= 0
  BY SMT
<1>2. MulDiv(a, b, c) = IF (x < 0) = (c < 0) THEN Abs(x) \div Abs(c) ELSE -(Abs(x) \div Abs(c))
  BY DEF MulDiv
<1> HIDE DEF x
<1>3. Abs(x) \in Nat /\ Abs(c) = c /\ (x = 0 => Abs(x) = 0)
  BY <1>1 DEF Abs
<1>4. Abs(x) \div c \in Nat
  BY <1>3, DivNat
<1>5. CASE x = 0
  <2>1. Abs(x) \div c = 0
    BY <1>3, <1>5, SMT
  <2>2. MulDiv(a, b, c) = 0
    BY <1>2, <1>3, <2>1
  <2> QED
    BY <2>2
<1>6. CASE x # 0
  <2>1. x < 0 /\ ~(c < 0)
    BY <1>1, <1>6
  <2>2. MulDiv(a, b, c) = -(Abs(x) \div c)
    BY <1>2, <1>3, <2>1
  <2> QED
    BY <1>4, <2>2
<1> QED
  BY <1>5, <1>6

\* Nothing is minted when the net asset value is negative.
LEMMA MulDivByDebt ==
    ASSUME NEW a \in Nat, NEW b \in Nat, NEW c \in Int, c < 0
    PROVE  MulDiv(a, b, c) \in Int /\ MulDiv(a, b, c) <= 0
<1> DEFINE x == a * b
           y == -c
<1>1. x \in Nat /\ y \in Nat \ {0}
  BY TimesNat
<1>2. MulDiv(a, b, c) = IF (x < 0) = (c < 0) THEN Abs(x) \div Abs(c) ELSE -(Abs(x) \div Abs(c))
  BY DEF MulDiv
<1> HIDE DEF x
<1>3. Abs(x) = x /\ Abs(c) = y /\ ~(x < 0)
  BY <1>1 DEF Abs
<1> HIDE DEF y
<1>4. x \div y \in Nat
  BY <1>1, DivNat
<1>5. MulDiv(a, b, c) = -(x \div y)
  BY <1>2, <1>3
<1> QED
  BY <1>4, <1>5

\* A proper share of an amount is less than the amount.
LEMMA ProperShare ==
    ASSUME NEW x \in Nat \ {0}, NEW y \in Nat \ {0}, NEW r \in Nat, r < y
    PROVE  (r * x) \div y < x
<1> DEFINE s == (r * x) \div y
<1>1. r * x \in Nat
  BY TimesNat
<1>2. s \in Nat
  BY <1>1, DivNat
<1>3. y * s <= r * x
  BY <1>1, DivMod
<1>4. r * x < y * x
  BY SMT
<1> HIDE DEF s
<1>5. ASSUME s >= x PROVE FALSE
  <2>1. y * s >= y * x
    BY <1>2, <1>5, SMT
  <2>2. y * s \in Int /\ y * x \in Int
    BY <1>2, SMT
  <2> QED
    BY <1>1, <1>3, <1>4, <2>1, <2>2
<1>6. s < x
  BY <1>2, <1>5
<1> QED
  BY <1>6 DEF s

-----------------------------------------------------------------------------
(* Minting and redeeming *)

LEMMA MintedParts ==
    ASSUME TypeOK, NEW n \in Natives, n > 0, Minted(n * Unit) > 0
    PROVE  /\ n * Unit \in Nat \ {0} /\ Minted(n * Unit) \in Nat \ {0}
           /\ totalShares > 0 =>
                 assets >= 0 /\ assets * Minted(n * Unit) <= (n * Unit) * totalShares
<1> DEFINE amount == n * Unit
           minted == Minted(amount)
<1>1. amount \in Nat \ {0}
  <2>1. n \in Nat \ {0} /\ Unit \in Nat \ {0}
    BY SlpConstants
  <2> QED
    BY <2>1, SMT
<1>2. totalShares \in Nat /\ assets \in Int
  BY DEF TypeOK
<1>3. minted = IF totalShares = 0 \/ assets = 0 THEN amount
               ELSE MulDiv(amount, totalShares, assets)
  BY DEF Minted
<1>4. minted > 0
  OBVIOUS
<1> HIDE DEF amount, minted
<1>5. CASE totalShares = 0
  BY <1>1, <1>3, <1>5 DEF amount, minted
<1>6. CASE totalShares > 0 /\ assets = 0
  <2>1. minted = amount
    BY <1>3, <1>6
  <2>2. assets * minted = 0 /\ amount * totalShares \in Nat
    <3>1. 0 * amount = 0
      BY <1>1, SMT
    <3> QED
      BY <1>1, <1>2, <1>6, <2>1, <3>1, TimesNat
  <2> QED
    BY <1>1, <1>6, <2>1, <2>2 DEF amount, minted
<1>7. CASE totalShares > 0 /\ assets < 0
  <2>1. minted <= 0 /\ minted \in Int
    BY <1>1, <1>2, <1>3, <1>7, MulDivByDebt
  <2> QED
    BY <1>4, <2>1
<1>8. CASE totalShares > 0 /\ assets > 0
  <2>1. assets \in Nat \ {0} /\ amount * totalShares \in Nat
    BY <1>1, <1>2, <1>8, TimesNat
  <2>2. minted = (amount * totalShares) \div assets
    BY <1>1, <1>2, <1>3, <1>8, <2>1, MulDivNat
  <2>3. minted \in Nat /\ assets * minted <= amount * totalShares
    BY <2>1, <2>2, DivNat, DivMod
  <2>4. minted \in Nat \ {0} /\ assets >= 0
    BY <1>4, <2>1, <2>3
  <2> QED
    BY <1>1, <2>3, <2>4 DEF amount, minted
<1> QED
  BY <1>2, <1>5, <1>6, <1>7, <1>8

\* Nobody owns more shares than there are.
LEMMA OwnedBound ==
    ASSUME TypeOK, SharesAddUp, NEW u \in Holders
    PROVE  shares[u] \in Nat /\ shares[u] <= totalShares
<1>1. shares \in [Holders -> Nat] /\ shares \in [Holders -> Int]
  BY DEF TypeOK
<1> QED
  BY <1>1, SumFunctionType, SlpIsFinite DEF SharesAddUp

\* A redemption needs value and pays at most its part of it, rounded down.
LEMMA WithdrawParts ==
    ASSUME TypeOK, SharesAddUp, NEW u \in Holders, NEW s \in ShareAmounts, Withdraw(u, s)
    PROVE  \E worth \in Nat, paid \in Nat :
             /\ worth = Underlying(s) /\ 0 < paid /\ paid <= worth /\ paid <= bal
             /\ s \in Nat \ {0} /\ s <= shares[u] /\ s <= totalShares
             /\ assets > 0 /\ worth <= assets /\ worth * totalShares <= s * assets
             /\ s < totalShares => worth < assets
             /\ assets' = assets - worth /\ bal' = bal - paid
             /\ totalShares' = totalShares - s
             /\ shares' = [shares EXCEPT ![u] = @ - s]
             /\ UnderSkewCap(s)
             /\ UNCHANGED <<allowance, unlockAt, config, callers, treasury, traders, world>>
<1> DEFINE worth  == Underlying(s)
           native == worth \div Unit
           paid   == native * Unit
<1>1. s \in Nat \ {0} /\ s <= shares[u]
  BY SlpConstants DEF Withdraw, Owns
<1>2. s <= totalShares /\ totalShares \in Nat \ {0} /\ assets \in Int /\ Unit \in Nat \ {0}
  BY <1>1, OwnedBound, SlpConstants DEF TypeOK
<1>3. native > 0 /\ paid <= bal
  BY DEF Withdraw
<1>4. worth = MulDiv(s, assets, totalShares)
  BY DEF Underlying
<1> HIDE DEF worth
<1>5. ASSUME worth \in Int, worth <= 0 PROVE FALSE
  <2>1. worth \div Unit <= 0
    BY <1>2, <1>5, SMT
  <2>2. worth \div Unit \in Int
    BY <1>2, <1>5, DivInt
  <2> QED
    BY <1>3, <2>1, <2>2
<1>6. assets > 0
  <2>1. CASE assets <= 0
    BY <1>1, <1>2, <1>4, <1>5, <2>1, MulDivOfDebt
  <2> QED
    BY <1>2, <2>1
<1>7. assets \in Nat \ {0}
  BY <1>2, <1>6
<1>8. worth = (s * assets) \div totalShares
  BY <1>1, <1>2, <1>4, <1>7, MulDivNat
<1>9. s * assets \in Nat
  BY <1>1, <1>7, TimesNat
<1>10. worth \in Nat /\ worth <= assets
  <2>1. s \in 0..totalShares
    BY <1>1, <1>2
  <2>2. s * assets = assets * s
    BY <1>1, <1>7, SMT
  <2> QED
    BY <1>2, <1>7, <1>8, <2>1, <2>2, ShareBound
<1>11. worth * totalShares <= s * assets
  <2>1. totalShares * worth <= s * assets
    BY <1>2, <1>8, <1>9, DivMod
  <2>2. totalShares * worth = worth * totalShares
    BY <1>2, <1>10, SMT
  <2> QED
    BY <2>1, <2>2
<1>12. s < totalShares => worth < assets
  BY <1>1, <1>2, <1>7, <1>8, ProperShare
<1>13. native \in Nat \ {0}
  BY <1>2, <1>3, <1>10, DivNat
<1>14. Unit * native <= worth
  BY <1>2, <1>10, DivMod
<1> HIDE DEF native
<1>15. paid \in Nat \ {0} /\ paid = Unit * native
  BY <1>2, <1>13, SMT
<1>16. /\ assets' = assets - worth /\ bal' = bal - paid
       /\ totalShares' = totalShares - s
       /\ shares' = [shares EXCEPT ![u] = @ - s]
       /\ UnderSkewCap(s)
       /\ UNCHANGED <<allowance, unlockAt, config, callers, treasury, traders, world>>
  BY DEF Withdraw, worth, native
<1> HIDE DEF paid
<1>17. 0 < paid /\ paid <= worth
  BY <1>10, <1>14, <1>15
<1> QED
  BY <1>1, <1>2, <1>3, <1>6, <1>10, <1>11, <1>12, <1>15, <1>16, <1>17 DEF worth

-----------------------------------------------------------------------------
(* The supply is what the holders have *)

\* One balance changes by x, and the supply with it.
LEMMA SupplyMoves ==
    ASSUME TypeOK, SharesAddUp, NEW u \in Holders, NEW x \in Int, shares[u] + x >= 0,
           shares' = [shares EXCEPT ![u] = shares[u] + x], totalShares' = totalShares + x
    PROVE  shares' \in [Holders -> Nat] /\ SharesAddUp' /\ totalShares' \in Nat
<1>1. shares \in [Holders -> Nat] /\ shares[u] \in Nat /\ totalShares \in Nat
  BY DEF TypeOK
<1>2. shares[u] <= totalShares
  BY OwnedBound
<1>3. totalShares' \in Nat
  BY <1>1, <1>2
<1>4. shares' \in [Holders -> Nat] /\ shares'[u] = shares[u] + x
      /\ \A v \in Holders \ {u} : shares'[v] = shares[v]
  BY <1>1
<1> DEFINE old == shares
           new == shares'
<1> HIDE DEF old, new
<1>5. /\ old \in [Holders -> Int] /\ new \in [Holders -> Int] /\ new[u] - old[u] = x
      /\ \A v \in Holders \ {u} : new[v] = old[v]
  BY <1>1, <1>4 DEF old, new
<1>6. SumFunction(new) = SumFunction(old) + (new[u] - old[u])
  BY <1>5, SumChange, SlpIsFinite
<1>7. SumFunction(shares') = totalShares'
  BY <1>1, <1>5, <1>6 DEF SharesAddUp, old, new
<1> QED
  BY <1>3, <1>4, <1>7 DEF SharesAddUp

\* A transfer, to oneself included, keeps the sum.
LEMMA TransferKeeps ==
    ASSUME TypeOK, SharesAddUp, NEW from \in Holders, NEW to \in Holders,
           NEW s \in ShareAmounts, Owns(from, s),
           shares' = SharesMoved(from, to, s), totalShares' = totalShares
    PROVE  shares' \in [Holders -> Nat] /\ SharesAddUp'
<1> DEFINE less == [shares EXCEPT ![from] = @ - s]
           more == [less EXCEPT ![to] = @ + s]
<1>1. shares \in [Holders -> Nat] /\ s \in Nat /\ s <= shares[from]
  BY SlpConstants DEF TypeOK, Owns
<1>2. /\ less \in [Holders -> Nat] /\ less[from] - shares[from] = -s
      /\ \A v \in Holders \ {from} : less[v] = shares[v]
  BY <1>1
<1>3. shares' = more
  BY DEF SharesMoved
<1> HIDE DEF less
<1>4. /\ more \in [Holders -> Nat] /\ more[to] - less[to] = s
      /\ \A v \in Holders \ {to} : more[v] = less[v]
  BY <1>1, <1>2
<1> HIDE DEF more
<1>5. shares \in [Holders -> Int] /\ less \in [Holders -> Int] /\ more \in [Holders -> Int]
  BY <1>1, <1>2, <1>4
<1>6. SumFunction(less) = SumFunction(shares) + (less[from] - shares[from])
  BY <1>2, <1>5, SumChange, SlpIsFinite
<1>7. SumFunction(more) = SumFunction(less) + (more[to] - less[to])
  BY <1>4, <1>5, SumChange, SlpIsFinite
<1>8. SumFunction(shares) \in Int
  BY <1>5, SumFunctionType, SlpIsFinite
<1>9. SumFunction(more) = SumFunction(shares)
  BY <1>1, <1>2, <1>4, <1>6, <1>7, <1>8
<1> QED
  BY <1>3, <1>4, <1>9 DEF SharesAddUp
-----------------------------------------------------------------------------
(* The invariant *)

IInv == TypeOK /\ SharesAddUp

LEMMA InitHolds == ASSUME Init PROVE IInv
<1>1. TypeOK
  BY SlpConstants DEF Init, TypeOK
<1>2. shares \in [Holders -> Int] /\ \A u \in Holders : shares[u] = 0
  BY DEF Init
<1>3. SumFunction(shares) = 0
  BY <1>2, SumZero, SlpIsFinite
<1>4. SharesAddUp
  BY <1>3 DEF SharesAddUp, Init
<1> QED
  BY <1>1, <1>4 DEF IInv

\* A mint credits whole units to the pool and shares to one holder.
LEMMA MintHolds ==
    ASSUME IInv, NEW u \in Holders, NEW n \in Natives, Mint(u, n),
           unlockAt' \in [Holders -> Nat],
           UNCHANGED <<allowance, config, callers, treasury, traders, world>>
    PROVE  IInv'
<1> DEFINE x == Minted(n * Unit)
           amount == n * Unit
<1>1. amount \in Nat \ {0} /\ x \in Nat \ {0}
  BY MintedParts DEF Mint, IInv
<1>2. /\ bal' = bal + amount /\ assets' = assets + amount
      /\ shares' = [shares EXCEPT ![u] = @ + x] /\ totalShares' = totalShares + x
  BY DEF Mint
<1> HIDE DEF x, amount
<1>3. x \in Int /\ shares[u] + x >= 0
  BY <1>1 DEF IInv, TypeOK
<1>4. shares' = [shares EXCEPT ![u] = shares[u] + x]
  BY <1>2
<1>5. shares' \in [Holders -> Nat] /\ SharesAddUp' /\ totalShares' \in Nat
  BY <1>2, <1>3, <1>4, SupplyMoves DEF IInv
<1>6. bal' \in Nat /\ assets' \in Int
  BY <1>1, <1>2 DEF IInv, TypeOK
<1> QED
  BY <1>5, <1>6 DEF IInv, TypeOK, world

LEMMA WithdrawHolds ==
    ASSUME IInv, NEW u \in Holders, NEW s \in ShareAmounts, Withdraw(u, s)
    PROVE  IInv'
<1>1. PICK worth \in Nat, paid \in Nat :
        /\ paid <= bal /\ s \in Nat \ {0} /\ s <= shares[u]
        /\ assets' = assets - worth /\ bal' = bal - paid
        /\ totalShares' = totalShares - s
        /\ shares' = [shares EXCEPT ![u] = @ - s]
        /\ UNCHANGED <<allowance, unlockAt, config, callers, treasury, traders, world>>
  BY WithdrawParts DEF IInv
<1>2. shares[u] \in Nat /\ totalShares \in Nat /\ assets \in Int /\ bal \in Nat
  BY DEF IInv, TypeOK
<1> DEFINE x == -s
<1>3. x \in Int /\ shares[u] + x >= 0 /\ totalShares' = totalShares + x
      /\ shares[u] - s = shares[u] + x
  BY <1>1, <1>2
<1> HIDE DEF x
<1>4. shares' \in [Holders -> Nat] /\ SharesAddUp' /\ totalShares' \in Nat
  <2>1. shares' = [shares EXCEPT ![u] = shares[u] + x]
    BY <1>1, <1>3
  <2> QED
    BY <1>3, <2>1, SupplyMoves DEF IInv
<1>5. bal' \in Nat /\ assets' \in Int
  BY <1>1, <1>2
<1> QED
  BY <1>1, <1>4, <1>5 DEF IInv, TypeOK, world

\* A transfer changes the balances and perhaps an allowance, nothing else.
LEMMA TransferHolds ==
    ASSUME IInv, NEW from \in Holders, NEW to \in Holders, NEW s \in ShareAmounts,
           Owns(from, s), shares' = SharesMoved(from, to, s),
           allowance' \in [Holders -> [Holders -> Int]],
           UNCHANGED <<totalShares, unlockAt, assets, config, callers,
                       bal, treasury, traders, world>>
    PROVE  IInv'
<1>1. shares' \in [Holders -> Nat] /\ SharesAddUp'
  BY TransferKeeps DEF IInv
<1> QED
  BY <1>1 DEF IInv, TypeOK, world

LEMMA LpStepHolds == ASSUME IInv, LpStep PROVE IInv'
<1>1. ASSUME NEW u \in Holders, NEW n \in Natives, Deposit(u, n) PROVE IInv'
  <2>1. now + config.cooldown \in Nat
    <3>1. now \in Nat /\ config.cooldown \in Cooldowns
      BY DEF IInv, TypeOK
    <3>2. config.cooldown \in Nat
      BY <3>1, SlpConstants
    <3> QED
      BY <3>1, <3>2
  <2>2. unlockAt' \in [Holders -> Nat]
    BY <1>1, <2>1 DEF Deposit, IInv, TypeOK
  <2> QED
    BY <1>1, <2>2, MintHolds DEF Deposit
<1>2. ASSUME NEW n \in Natives, SeedPool(n) PROVE IInv'
  BY <1>2, MintHolds, SlpConstants DEF SeedPool, IInv, TypeOK
<1>3. ASSUME NEW u \in Holders, NEW s \in ShareAmounts, Withdraw(u, s) PROVE IInv'
  BY <1>3, WithdrawHolds
<1>4. ASSUME NEW u \in Holders, NEW v \in Holders, NEW s \in ShareAmounts, Transfer(u, v, s)
      PROVE  IInv'
  BY <1>4, TransferHolds DEF Transfer, IInv, TypeOK
<1>5. ASSUME NEW u \in Holders, NEW v \in Holders, NEW a \in Approvals, Approve(u, v, a)
      PROVE  IInv'
  <2>1. a \in Int
    BY SlpConstants
  <2>2. allowance' \in [Holders -> [Holders -> Int]]
    BY <1>5, <2>1 DEF Approve, IInv, TypeOK
  <2> QED
    BY <1>5, <2>2 DEF Approve, IInv, TypeOK, SharesAddUp, world
<1>6. ASSUME NEW u \in Holders, NEW v \in Holders, NEW w \in Holders,
             NEW s \in ShareAmounts, TransferFrom(u, v, w, s)
      PROVE  IInv'
  <2>1. s \in Int
    BY SlpConstants
  <2>2. allowance' \in [Holders -> [Holders -> Int]]
    BY <1>6, <2>1 DEF TransferFrom, IInv, TypeOK
  <2> QED
    BY <1>6, <2>2, TransferHolds DEF TransferFrom
<1> QED
  BY <1>1, <1>2, <1>3, <1>4, <1>5, <1>6, Zenon DEF LpStep

\* Steps that leave the shares alone need to keep only the types.
LEMMA SharesUntouched ==
    ASSUME IInv, TypeOK', UNCHANGED <<shares, totalShares>>
    PROVE  IInv'
BY DEF IInv, SharesAddUp

LEMMA EngineStepHolds == ASSUME IInv, EngineStep PROVE IInv'
<1>1. \A d \in Amounts : d \in Nat
  BY SlpConstants
<1>2. ASSUME NEW c \in Engines, NEW d \in Amounts, CreditPnl(c, d) PROVE IInv'
  BY <1>1, <1>2, SharesUntouched DEF CreditPnl, IInv, TypeOK, ledger, world
<1>3. ASSUME NEW c \in Engines, NEW d \in Amounts, DrawPnl(c, d) PROVE IInv'
  BY <1>1, <1>3, SharesUntouched DEF DrawPnl, IInv, TypeOK, ledger, world
<1>4. ASSUME NEW c \in Engines, NEW d \in Amounts, RecordLoss(c, d) PROVE IInv'
  BY <1>1, <1>4, SharesUntouched DEF RecordLoss, IInv, TypeOK, ledger, world
<1> QED
  BY <1>2, <1>3, <1>4, Zenon DEF EngineStep

LEMMA NativeUnits ==
    ASSUME NEW n \in Natives
    PROVE  n \in Nat /\ n * Unit \in Nat
BY SlpConstants, TimesNat

LEMMA TreasuryStepHolds == ASSUME IInv, TreasuryStep PROVE IInv'
<1>1. ASSUME NEW n \in Natives, SeedTreasury(n) PROVE IInv'
  BY <1>1, NativeUnits, SharesUntouched DEF SeedTreasury, IInv, TypeOK, ledger, world
<1>2. ASSUME NEW d \in Amounts, TreasuryPays(d) PROVE IInv'
  <2>1. d \in Nat
    BY SlpConstants
  <2> QED
    BY <1>2, <2>1, SharesUntouched DEF TreasuryPays, IInv, TypeOK, ledger, world
<1> QED
  BY <1>1, <1>2, Zenon DEF TreasuryStep

LEMMA SweepHolds == ASSUME IInv, NEW n \in Natives, SweepFees(n) PROVE IInv'
BY NativeUnits, SharesUntouched DEF SweepFees, IInv, TypeOK, ledger, world

LEMMA AdminStepHolds == ASSUME IInv, AdminStep PROVE IInv'
<1>1. ASSUME NEW d \in Amounts, AdminCreditAssets(d) PROVE IInv'
  <2>1. d \in Nat
    BY SlpConstants
  <2> QED
    BY <1>1, <2>1, SharesUntouched DEF AdminCreditAssets, IInv, TypeOK, ledger, world
<1>2. ASSUME NEW new \in [cooldown : Cooldowns, skewCap : SkewCaps, cap : DepositCaps],
             Configure(new)
      PROVE  IInv'
  BY <1>2, SharesUntouched DEF Configure, IInv, TypeOK, ledger, world
<1>3. ASSUME NEW new \in SUBSET Engines, SetCallers(new) PROVE IInv'
  BY <1>3, SharesUntouched DEF SetCallers, IInv, TypeOK, ledger, world
<1>4. ASSUME NEW x \in Cooldowns, Configure([config EXCEPT !.cooldown = x]) PROVE IInv'
  BY <1>2, <1>4 DEF IInv, TypeOK
<1>5. ASSUME NEW x \in SkewCaps, Configure([config EXCEPT !.skewCap = x]) PROVE IInv'
  BY <1>2, <1>5 DEF IInv, TypeOK
<1>6. ASSUME NEW x \in DepositCaps, Configure([config EXCEPT !.cap = x]) PROVE IInv'
  BY <1>2, <1>6 DEF IInv, TypeOK
<1>7. ASSUME NEW c \in Engines, SetCallers(callers \cup {c}) \/ SetCallers(callers \ {c})
      PROVE  IInv'
  <2>1. callers \cup {c} \in SUBSET Engines /\ callers \ {c} \in SUBSET Engines
    BY DEF IInv, TypeOK
  <2> QED
    BY <1>3, <1>7, <2>1
<1> QED
  BY <1>1, <1>4, <1>5, <1>6, <1>7, Zenon DEF AdminStep

LEMMA WorldStepHolds == ASSUME IInv, WorldStep PROVE IInv'
<1>1. CASE Tick
  BY <1>1, SharesUntouched DEF Tick, IInv, TypeOK, ledger
<1>2. ASSUME NEW x \in OpenInterests, OpenInterestMoves(x) PROVE IInv'
  BY <1>2, SharesUntouched DEF OpenInterestMoves, IInv, TypeOK, ledger
<1> QED
  BY <1>1, <1>2 DEF WorldStep

LEMMA StepHolds == ASSUME IInv, [Next]_vars PROVE IInv'
<1>1. CASE UNCHANGED vars
  BY <1>1 DEF IInv, TypeOK, SharesAddUp, vars, ledger, world
<1> QED
  BY <1>1, LpStepHolds, EngineStepHolds, TreasuryStepHolds, SweepHolds,
     AdminStepHolds, WorldStepHolds, Zenon DEF Next, Others

\* Types and supply hold in every reachable state; neither is inductive without
\* the other: a redemption is bounded by the holder's shares, and only the sum
\* bounds these by the supply.
THEOREM Invariance == Spec => []IInv
<1>1. Init => IInv
  BY InitHolds
<1>2. IInv /\ [Next]_vars => IInv'
  BY StepHolds
<1> QED
  BY <1>1, <1>2, PTL DEF Spec

\* No balance of shares or money becomes negative, whatever is redeemed, moved
\* or drawn.
THEOREM TypeCorrect == Spec => []TypeOK
<1>1. IInv => TypeOK
  BY DEF IInv
<1> QED
  BY <1>1, Invariance, PTL

\* The share supply is the sum of what the holders have.
THEOREM SupplyIsShares == Spec => []SharesAddUp
<1>1. IInv => SharesAddUp
  BY DEF IInv
<1> QED
  BY <1>1, Invariance, PTL

-----------------------------------------------------------------------------
(* Price, skew cap and the pool's promise *)

\* Only a deposit or a redemption changes the supply.
LEMMA SupplySteps ==
    ASSUME [Next]_vars, totalShares' # totalShares
    PROVE  /\ UNCHANGED <<config, world>>
           /\ \/ \E u \in Holders, n \in Natives : Mint(u, n)
              \/ \E u \in Holders, s \in ShareAmounts : Withdraw(u, s)
<1>1. CASE LpStep
  BY <1>1, SlpConstants DEF LpStep, Deposit, SeedPool, Withdraw, Transfer, Approve, TransferFrom
<1>2. CASE EngineStep
  BY <1>2 DEF EngineStep, CreditPnl, DrawPnl, RecordLoss, ledger
<1>3. CASE TreasuryStep
  BY <1>3 DEF TreasuryStep, SeedTreasury, TreasuryPays, ledger
<1>4. CASE AdminStep
  BY <1>4 DEF AdminStep, AdminCreditAssets, Configure, SetCallers, ledger
<1>5. CASE WorldStep
  BY <1>5 DEF WorldStep, Tick, OpenInterestMoves, ledger
<1>6. ASSUME NEW n \in Natives, SweepFees(n) PROVE FALSE
  BY <1>6 DEF SweepFees, ledger
<1> QED
  BY <1>1, <1>2, <1>3, <1>4, <1>5, <1>6 DEF Next, Others, vars, ledger

\* What a deposit mints is worth at most the deposit, so the price does not fall.
LEMMA MintKeepsPrice ==
    ASSUME IInv, NEW u \in Holders, NEW n \in Natives, Mint(u, n), totalShares > 0
    PROVE  assets' * totalShares >= assets * totalShares'
<1> DEFINE amount == n * Unit
           minted == Minted(amount)
<1>1. amount \in Nat /\ minted \in Nat /\ assets * minted <= amount * totalShares
  BY MintedParts DEF Mint, IInv
<1>2. assets' = assets + amount /\ totalShares' = totalShares + minted
  BY DEF Mint
<1>3. assets \in Int /\ totalShares \in Int
  BY DEF IInv, TypeOK
<1> HIDE DEF amount, minted
<1>4. assets' * totalShares = assets * totalShares + amount * totalShares
  BY <1>1, <1>2, <1>3, SMT
<1>5. assets * totalShares' = assets * totalShares + assets * minted
  BY <1>1, <1>2, <1>3, SMT
<1>6. /\ assets * totalShares \in Int /\ amount * totalShares \in Int
      /\ assets * minted \in Int
  BY <1>1, <1>3, TimesInt
<1> QED
  BY <1>1, <1>4, <1>5, <1>6

LEMMA WithdrawKeepsPrice ==
    ASSUME IInv, NEW u \in Holders, NEW s \in ShareAmounts, Withdraw(u, s)
    PROVE  assets' * totalShares >= assets * totalShares'
<1>1. PICK worth \in Nat, paid \in Nat :
        /\ s \in Nat \ {0} /\ worth * totalShares <= s * assets
        /\ assets' = assets - worth /\ totalShares' = totalShares - s
  BY WithdrawParts DEF IInv
<1>2. assets \in Int /\ totalShares \in Int
  BY DEF IInv, TypeOK
<1>3. assets' * totalShares = assets * totalShares - worth * totalShares
  BY <1>1, <1>2, SMT
<1>4. assets * totalShares' = assets * totalShares - s * assets
  BY <1>1, <1>2, SMT
<1>5. /\ assets * totalShares \in Int /\ worth * totalShares \in Int /\ s * assets \in Int
  BY <1>1, <1>2, TimesInt
<1> QED
  BY <1>1, <1>3, <1>4, <1>5

\* Coming and going never lowers the price of the shares that stay.
THEOREM NobodyDilutes == Spec => LpsDoNotDilute
<1>1. IInv /\ [Next]_vars
        => ((totalShares > 0 /\ totalShares' > 0 /\ totalShares' # totalShares)
              => assets' * totalShares >= assets * totalShares')
  BY SupplySteps, MintKeepsPrice, WithdrawKeepsPrice
<1> QED
  BY <1>1, Invariance, PTL DEF Spec, LpsDoNotDilute

\* A redemption that leaves shares leaves value, so the skew cap is asked, and
\* asked about what is left.
THEOREM SkewCapAsked == Spec => SkewCapHolds
<1>1. ASSUME IInv, [Next]_vars, 0 < totalShares', totalShares' < totalShares
      PROVE  config.skewCap = 0 \/ oi * BPS <= assets' * config.skewCap
  <2>1. totalShares \in Nat /\ assets \in Int /\ config.skewCap \in Nat
    BY <1>1, SlpConstants DEF IInv, TypeOK
  <2>2. ASSUME NEW u \in Holders, NEW n \in Natives, Mint(u, n) PROVE FALSE
    <3>1. Minted(n * Unit) \in Nat /\ totalShares' = totalShares + Minted(n * Unit)
      BY <1>1, <2>2, MintedParts DEF Mint, IInv
    <3> QED
      BY <1>1, <2>1, <3>1
  <2>3. ASSUME NEW u \in Holders, NEW s \in ShareAmounts, Withdraw(u, s)
        PROVE  config.skewCap = 0 \/ oi * BPS <= assets' * config.skewCap
    <3>1. PICK worth \in Nat, paid \in Nat :
            /\ worth = Underlying(s) /\ s \in Nat \ {0} /\ assets > 0
            /\ s < totalShares => worth < assets
            /\ assets' = assets - worth /\ totalShares' = totalShares - s
            /\ UnderSkewCap(s)
      BY <1>1, <2>3, WithdrawParts DEF IInv
    <3>2. s < totalShares
      BY <1>1, <2>1, <3>1
    <3>3. assets' > 0 /\ assets' = assets - Underlying(s)
      BY <2>1, <3>1, <3>2
    <3> QED
      BY <2>1, <3>1, <3>3 DEF UnderSkewCap
  <2>4. totalShares' # totalShares
    BY <1>1, <2>1
  <2> QED
    BY <1>1, <2>2, <2>3, <2>4, SupplySteps
<1>2. IInv /\ [Next]_vars
        => ((0 < totalShares' /\ totalShares' < totalShares)
              => (config.skewCap = 0 \/ oi * BPS <= assets' * config.skewCap))
  BY <1>1
<1> QED
  BY <1>2, Invariance, PTL DEF Spec, SkewCapHolds

\* Every step is one the pool promises, changes neither value nor money, or is
\* the admin's credit.
LEMMA PoolStep ==
    ASSUME IInv, IInv', [Next]_vars
    PROVE  \/ Promise!Next
           \/ UNCHANGED <<assets, bal>>
           \/ \E d \in Amounts : AdminCreditAssets(d)
<1>0. /\ assets \in Int /\ bal \in Nat /\ assets' \in Int /\ bal' \in Nat
      /\ \A d \in Amounts : d \in Nat
  BY SlpConstants DEF IInv, TypeOK
<1>1. ASSUME NEW u \in Holders, NEW n \in Natives, Mint(u, n) PROVE Promise!Next
  <2>1. n * Unit \in Nat /\ bal' = bal + n * Unit /\ assets' = assets + n * Unit
    BY <1>1, NativeUnits DEF Mint
  <2> QED
    BY <1>0, <2>1 DEF Promise!Next
<1>2. ASSUME NEW u \in Holders, NEW s \in ShareAmounts, Withdraw(u, s) PROVE Promise!Next
  <2>1. PICK worth \in Nat, paid \in Nat :
          /\ paid <= worth /\ worth <= assets
          /\ assets' = assets - worth /\ bal' = bal - paid
    BY <1>2, WithdrawParts DEF IInv
  <2> QED
    BY <1>0, <2>1 DEF Promise!Next
<1>3. CASE LpStep
  BY <1>1, <1>2, <1>3, SlpConstants
     DEF LpStep, Deposit, SeedPool, Transfer, Approve, TransferFrom
<1>4. CASE EngineStep
  <2>1. ASSUME NEW c \in Engines, NEW d \in Amounts, CreditPnl(c, d) PROVE Promise!Next
    BY <1>0, <2>1 DEF CreditPnl, Promise!Next
  <2>2. ASSUME NEW c \in Engines, NEW d \in Amounts, DrawPnl(c, d) PROVE Promise!Next
    BY <1>0, <2>2 DEF DrawPnl, Promise!Next
  <2>3. ASSUME NEW c \in Engines, NEW d \in Amounts, RecordLoss(c, d) PROVE Promise!Next
    BY <1>0, <2>3 DEF RecordLoss, Promise!Next
  <2> QED
    BY <1>4, <2>1, <2>2, <2>3 DEF EngineStep
<1>5. CASE TreasuryStep
  BY <1>5 DEF TreasuryStep, SeedTreasury, TreasuryPays
<1>6. CASE AdminStep
  BY <1>6 DEF AdminStep, Configure, SetCallers
<1>7. CASE WorldStep
  BY <1>7 DEF WorldStep, Tick, OpenInterestMoves
<1>8. ASSUME NEW n \in Natives, SweepFees(n) PROVE Promise!Next
  <2>1. n * Unit \in Nat /\ bal' = bal + n * Unit /\ assets' = assets + n * Unit
    BY <1>8, NativeUnits DEF SweepFees
  <2> QED
    BY <1>0, <2>1 DEF Promise!Next
<1> QED
  BY <1>3, <1>4, <1>5, <1>6, <1>7, <1>8 DEF Next, Others, vars

\* The vault implements the promise of the pool, but for the admin's credit.
THEOREM PromiseKept == Spec => ImplementsPool
<1>1. Init => Promise!Init
  BY DEF Init, Promise!Init
<1>2. IInv /\ IInv' /\ [Next]_vars
        => [Promise!Next \/ \E d \in Amounts : AdminCreditAssets(d)]_<<assets, bal>>
  BY PoolStep
<1> QED
  BY <1>1, <1>2, Invariance, PTL DEF Spec, ImplementsPool
=============================================================================
