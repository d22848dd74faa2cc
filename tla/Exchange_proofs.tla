-------------------------- MODULE Exchange_proofs --------------------------
(***************************************************************************)
(* Theorems about the exchange, for all values of its constants.           *)
(*                                                                         *)
(* The types, the margins and the pool: a bucket covers the margins of its *)
(* positions and the pool's assets are backed.  Then the position book:    *)
(* the lists of ids, the open interest and the skew are those of the       *)
(* stored positions.  Last the money: balances add up to what the vault    *)
(* holds, nobody pays for another's position, settling funding or moving   *)
(* margin makes nobody richer or poorer, and margin and bucket part by     *)
(* deleveraging only.                                                      *)
(***************************************************************************)
EXTENDS Exchange, Arithmetic, TLAPS

-----------------------------------------------------------------------------
(* Rates *)

\* A rate of an amount is at most the amount.
LEMMA BpsBound ==
    ASSUME NEW x \in Nat, NEW rate \in 0..BPS
    PROVE  ApplyBps(x, rate) \in Nat /\ ApplyBps(x, rate) <= x
BY ShareBound, ExchangeConstants DEF ApplyBps

-----------------------------------------------------------------------------
(* The money *)

\* Money mo, reached from money was within one transaction, backs the assets of
\* the pool, and what became of the pool in between is as Pool allows.
PoolKept(was, mo) ==
    /\ mo.assets <= mo.bal[Slp]
    /\ mo.assets - was.assets <= mo.bal[Slp] - was.bal[Slp]
    /\ mo.bal[Slp] < was.bal[Slp] => was.bal[Slp] - mo.bal[Slp] <= was.assets

LEMMA PoolNumbers ==
    ASSUME NEW mo \in Money
    PROVE  mo.assets \in Int /\ mo.bal[Slp] \in Nat
BY DEF Money, Accounts

LEMMA Names == Slp \in Accounts /\ FundingPool \in Accounts
               /\ Slp # FundingPool /\ Slp \notin Users /\ FundingPool \notin Users
               /\ Users \subseteq Accounts /\ Traders \subseteq Users
BY ExchangeConstants DEF Accounts, Users

\* Locking or unlocking changes one bucket and no balance.
LEMMA LockedMoney ==
    ASSUME NEW mo \in Money, NEW u \in Traders, NEW p \in PosIds,
           NEW d \in Int, mo.lock[p] + d >= 0
    PROVE  LET new == Locked(mo, u, p, d)
           IN  /\ new \in Money
               /\ new.bal = mo.bal
               /\ new.assets = mo.assets
               /\ new.lock = [mo.lock EXCEPT ![p] = @ + d]
<1> DEFINE lock   == [mo.lock EXCEPT ![p] = @ + d]
           locked == [mo.locked EXCEPT ![u] = @ + d]
<1>1. lock \in [PosIds -> Nat] /\ locked \in [Traders -> Int]
  BY DEF Money
<1>2. Locked(mo, u, p, d) = [mo EXCEPT !.lock = lock, !.locked = locked]
  BY DEF Locked, Money
<1> HIDE DEF lock, locked
<1>3. Locked(mo, u, p, d) = [bal |-> mo.bal, lock |-> lock,
                             locked |-> locked, assets |-> mo.assets]
  BY <1>2 DEF Money
<1> QED
  BY <1>1, <1>3 DEF Money, lock

\* A payment that the payer can make keeps every balance a natural number.
LEMMA PaidMoney ==
    ASSUME NEW mo \in Money, NEW from \in Accounts, NEW to \in Accounts,
           NEW d \in Int, d <= mo.bal[from], -d <= mo.bal[to]
    PROVE  LET new == Paid(mo, from, to, d)
           IN  /\ new \in Money
               /\ new.lock = mo.lock
               /\ new.assets = mo.assets
               /\ \A a \in Accounts \ {from, to} : new.bal[a] = mo.bal[a]
               /\ from # to => /\ new.bal[from] = mo.bal[from] - d
                               /\ new.bal[to] = mo.bal[to] + d
<1> DEFINE one == [mo.bal EXCEPT ![from] = @ - d]
           two == [one EXCEPT ![to] = @ + d]
<1>1. mo.bal \in [Accounts -> Nat]
  BY DEF Money
<1>2. one \in [Accounts -> Int]
  BY <1>1, SMT
<1>3. two \in [Accounts -> Nat]
  BY <1>1, SMT
<1>4. Paid(mo, from, to, d) = [mo EXCEPT !.bal = two]
  BY DEF Paid, Moved
<1>5. [mo EXCEPT !.bal = two] \in Money
  BY <1>3 DEF Money
<1>6. /\ \A a \in Accounts \ {from, to} : two[a] = mo.bal[a]
      /\ from # to => two[from] = mo.bal[from] - d /\ two[to] = mo.bal[to] + d
  BY <1>1, <1>2, SMT
<1> HIDE DEF two
<1> QED
  BY <1>4, <1>5, <1>6 DEF Money

\* What the pool earns raises its balance and its assets alike.
LEMMA EarnedMoney ==
    ASSUME NEW was \in Money, NEW mo \in Money, NEW from \in Users,
           NEW d \in Nat, d <= mo.bal[from]
    PROVE  LET new == Earned(mo, from, d)
           IN  /\ new \in Money
               /\ new.lock = mo.lock
               /\ new.bal[from] = mo.bal[from] - d
               /\ PoolKept(was, mo) => PoolKept(was, new)
<1> DEFINE paid == Paid(mo, from, Slp, d)
<1>1. from \in Accounts /\ Slp \in Accounts /\ from # Slp
  BY Names
<1>2. mo.bal[Slp] \in Nat /\ mo.bal[from] \in Nat
  BY <1>1 DEF Money
<1>3. /\ paid \in Money /\ paid.lock = mo.lock /\ paid.assets = mo.assets
      /\ paid.bal[from] = mo.bal[from] - d /\ paid.bal[Slp] = mo.bal[Slp] + d
  BY <1>1, <1>2, PaidMoney
<1>4. Earned(mo, from, d) = [paid EXCEPT !.assets = @ + d]
  BY DEF Earned
<1> HIDE DEF paid
<1>5. /\ [paid EXCEPT !.assets = @ + d] \in Money
      /\ [paid EXCEPT !.assets = @ + d].lock = paid.lock
      /\ [paid EXCEPT !.assets = @ + d].bal = paid.bal
      /\ [paid EXCEPT !.assets = @ + d].assets = paid.assets + d
  BY <1>3 DEF Money
<1>6. mo.assets \in Int
  BY DEF Money
<1> QED
  BY <1>2, <1>3, <1>4, <1>5, <1>6, PoolNumbers DEF PoolKept

\* What the pool pays lowers its balance and its assets alike.
LEMMA DrawnMoney ==
    ASSUME NEW was \in Money, NEW mo \in Money, NEW to \in Users,
           NEW d \in Nat, CanDraw(mo, d)
    PROVE  LET new == Drawn(mo, to, d)
           IN  /\ new \in Money
               /\ new.lock = mo.lock
               /\ PoolKept(was, mo) => PoolKept(was, new)
<1> DEFINE paid == Paid(mo, Slp, to, d)
<1>1. to \in Accounts /\ Slp \in Accounts /\ to # Slp
  BY Names
<1>2. mo.bal[Slp] \in Nat /\ mo.bal[to] \in Nat /\ d <= mo.bal[Slp]
      /\ d <= mo.assets
  BY <1>1 DEF Money, CanDraw
<1>3. /\ paid \in Money /\ paid.lock = mo.lock /\ paid.assets = mo.assets
      /\ paid.bal[Slp] = mo.bal[Slp] - d
  BY <1>1, <1>2, PaidMoney
<1>4. Drawn(mo, to, d) = [paid EXCEPT !.assets = @ - d]
  BY DEF Drawn
<1> HIDE DEF paid
<1>5. /\ [paid EXCEPT !.assets = @ - d] \in Money
      /\ [paid EXCEPT !.assets = @ - d].lock = paid.lock
      /\ [paid EXCEPT !.assets = @ - d].bal = paid.bal
      /\ [paid EXCEPT !.assets = @ - d].assets = paid.assets - d
  BY <1>3 DEF Money
<1>6. mo.assets \in Int
  BY DEF Money
<1> QED
  BY <1>2, <1>3, <1>4, <1>5, <1>6, PoolNumbers DEF PoolKept

\* Releasing what a bucket holds.
LEMMA UnlockedMoney ==
    ASSUME NEW mo \in Money, NEW u \in Traders, NEW p \in PosIds,
           NEW d \in Int, CanUnlock(mo, p, d)
    PROVE  LET new == Unlocked(mo, u, p, d)
           IN  /\ new \in Money
               /\ new.bal = mo.bal
               /\ new.assets = mo.assets
               /\ new.lock = [mo.lock EXCEPT ![p] = @ - d]
<1> DEFINE new == Unlocked(mo, u, p, d)
<1>1. mo.lock[p] \in Nat
  BY DEF Money
<1>2. -d \in Int /\ mo.lock[p] + (-d) >= 0
  BY <1>1 DEF CanUnlock
<1>3. new = Locked(mo, u, p, -d)
  BY DEF Unlocked
<1> HIDE DEF new
<1>4. /\ new \in Money /\ new.bal = mo.bal /\ new.assets = mo.assets
      /\ new.lock = [mo.lock EXCEPT ![p] = @ + (-d)]
  BY <1>2, <1>3, LockedMoney
<1>5. [mo.lock EXCEPT ![p] = @ + (-d)] = [mo.lock EXCEPT ![p] = @ - d]
  BY <1>1
<1> QED
  BY <1>4, <1>5 DEF new

\* The fee and the loss that a close takes fit into the margin released.
LEMMA Charges ==
    ASSUME NEW released \in Nat, NEW gross \in Int, NEW fee \in Int
    PROVE  /\ ClosingFee(released, fee) \in Nat
           /\ CappedLoss(released, gross, fee) \in Nat
           /\ ClosingFee(released, fee) + CappedLoss(released, gross, fee) <= released
<1>1. ClosingFee(released, fee) \in Nat /\ ClosingFee(released, fee) <= released
  BY DEF ClosingFee, Least
<1> QED
  BY <1>1 DEF CappedLoss, Least

\* settle_position_close releases one bucket and keeps the pool's assets backed,
\* whatever the result of the position.
LEMMA SettledMoney ==
    ASSUME NEW was \in Money, NEW mo \in Money, NEW u \in Traders,
           NEW p \in PosIds, NEW released \in Int, NEW gross \in Int, NEW fee \in Int,
           CanSettle(mo, u, p, released, gross, fee)
    PROVE  LET new == Settled(mo, u, p, released, gross, fee)
           IN  /\ new \in Money
               /\ new.lock = [mo.lock EXCEPT ![p] = @ - released]
               /\ PoolKept(was, mo) => PoolKept(was, new)
<1> DEFINE cf   == ClosingFee(released, fee)
           loss == CappedLoss(released, gross, fee)
           free == Unlocked(mo, u, p, released)
           mid  == AfterFee(mo, u, p, released, fee)
<1>1. /\ CanUnlock(mo, p, released) /\ cf + loss <= mo.bal[u]
      /\ (gross > 0 => CanDraw(mid, gross))
  BY DEF CanSettle
<1>2. mo.bal[u] \in Nat /\ u \in Users
  BY Names DEF Money
<1>3. released \in Nat
  BY <1>1 DEF CanUnlock
<1>4. cf \in Nat /\ loss \in Nat
  BY <1>3, Charges
<1>5. /\ free \in Money /\ free.bal = mo.bal /\ free.assets = mo.assets
      /\ free.lock = [mo.lock EXCEPT ![p] = @ - released]
  BY <1>1, UnlockedMoney
<1>6. mid = Earned(free, u, cf)
  BY DEF AfterFee
<1> HIDE DEF cf, loss, free, mid
<1>7. /\ mid \in Money /\ mid.lock = free.lock
      /\ mid.bal[u] = mo.bal[u] - cf /\ (PoolKept(was, mo) => PoolKept(was, mid))
  BY <1>1, <1>2, <1>4, <1>5, <1>6, EarnedMoney DEF PoolKept
<1>8. CASE gross > 0
  BY <1>1, <1>2, <1>5, <1>7, <1>8, DrawnMoney DEF Settled, mid
<1>9. CASE ~(gross > 0)
  <2>1. Settled(mo, u, p, released, gross, fee) = Earned(mid, u, loss)
    BY <1>9 DEF Settled, mid, loss
  <2>2. loss <= mid.bal[u]
    BY <1>1, <1>2, <1>4, <1>7
  <2> QED
    BY <1>2, <1>4, <1>5, <1>7, <2>1, <2>2, EarnedMoney
<1> QED
  BY <1>8, <1>9

\* The keeper and the pool share the penalty.
LEMMA PenaltyParts ==
    ASSUME NEW q \in Position, NEW size \in Nat, price[q.market] \in Nat
    PROVE  Reward(q, size) \in Nat /\ Penalty(q, size) - Reward(q, size) \in Nat
<1>1. size * price[q.market] \in Nat
  BY TimesNat
<1>2. LiquidationBps \in 0..BPS /\ RewardBps \in 0..BPS
  BY ExchangeConstants
<1>3. Penalty(q, size) \in Nat
  BY <1>1, <1>2, BpsBound DEF Penalty
<1>4. Reward(q, size) \in Nat /\ Reward(q, size) <= Penalty(q, size)
  BY <1>2, <1>3, BpsBound DEF Reward
<1> QED
  BY <1>3, <1>4

\* distribute_liquidation_value releases one bucket, and writing bad debt off the
\* pool's assets keeps what is left of them backed.
LEMMA DistributedMoney ==
    ASSUME NEW was \in Money, NEW mo \in Money, NEW k \in Keepers,
           NEW p \in PosIds, NEW q \in Position, NEW size \in Nat,
           price[q.market] \in Nat,
           Released(q, size) \in Int, Shortfall(q, size) \in Int,
           CanDistribute(mo, k, p, q, size)
    PROVE  LET new == Distributed(mo, k, p, q, size)
           IN  /\ new \in Money
               /\ new.lock = [mo.lock EXCEPT ![p] = @ - Released(q, size)]
               /\ PoolKept(was, mo) => PoolKept(was, new)
<1> DEFINE released == Released(q, size)
           free     == Unlocked(mo, q.owner, p, released)
           rewarded == Rewarded(mo, k, p, q, size)
           reward   == Reward(q, size)
           toPool   == Penalty(q, size) - Reward(q, size)
           paid     == Earned(rewarded, q.owner, toPool)
<1>1. /\ released > 0 /\ released <= mo.lock[p]
      /\ reward <= mo.bal[q.owner] /\ toPool <= rewarded.bal[q.owner]
  BY DEF CanDistribute, CanUnlock
<1>2. q.owner \in Traders /\ q.owner \in Users /\ k \in Users
      /\ q.owner \in Accounts /\ k \in Accounts /\ Slp # q.owner /\ Slp # k
      /\ Slp \in Accounts
  BY Names DEF Position, Users
<1>3. reward \in Nat /\ toPool \in Nat
  BY PenaltyParts
<1>4. mo.lock[p] \in Nat /\ \A a \in Accounts : mo.bal[a] \in Nat
  BY DEF Money
<1>5. /\ free \in Money /\ free.bal = mo.bal /\ free.assets = mo.assets
      /\ free.lock = [mo.lock EXCEPT ![p] = @ - released]
  BY <1>2, UnlockedMoney DEF CanDistribute
<1>6. rewarded = Paid(free, q.owner, k, reward)
  BY DEF Rewarded
<1>7. Distributed(mo, k, p, q, size)
        = [paid EXCEPT !.assets = @ - Most(Shortfall(q, size), 0)]
  BY DEF Distributed
<1>8. Most(Shortfall(q, size), 0) \in Nat
  BY DEF Most
<1> DEFINE loss == Most(Shortfall(q, size), 0)
<1> HIDE DEF free, rewarded, reward, toPool, paid, loss
<1>9. /\ rewarded \in Money /\ rewarded.lock = free.lock
      /\ rewarded.assets = free.assets /\ rewarded.bal[Slp] = mo.bal[Slp]
  <2>1. reward <= free.bal[q.owner] /\ -reward <= free.bal[k] /\ reward \in Int
    BY <1>1, <1>2, <1>3, <1>4, <1>5
  <2>2. Slp \in Accounts \ {q.owner, k}
    BY <1>2
  <2> QED
    BY <1>2, <1>5, <1>6, <2>1, <2>2, PaidMoney
<1>10. /\ paid \in Money /\ paid.lock = rewarded.lock
       /\ PoolKept(was, mo) => PoolKept(was, paid)
  BY <1>1, <1>2, <1>3, <1>5, <1>9, EarnedMoney DEF paid, PoolKept
<1>11. /\ [paid EXCEPT !.assets = @ - loss] \in Money
       /\ [paid EXCEPT !.assets = @ - loss].lock = paid.lock
       /\ [paid EXCEPT !.assets = @ - loss].bal = paid.bal
       /\ [paid EXCEPT !.assets = @ - loss].assets = paid.assets - loss
  BY <1>8, <1>10 DEF Money, loss
<1>12. paid.assets \in Int /\ paid.bal[Slp] \in Nat
  BY <1>2, <1>10 DEF Money
<1> QED
  BY <1>5, <1>7, <1>8, <1>9, <1>10, <1>11, <1>12, PoolNumbers DEF PoolKept, loss

-----------------------------------------------------------------------------
(* The book *)

IndexOK == index \in [Markets -> [BOOLEAN -> Int]]

LEMMA PositionFields ==
    ASSUME NEW q \in Position
    PROVE  /\ q.owner \in Traders /\ q.market \in Markets /\ q.long \in BOOLEAN
           /\ q.size \in Nat \ {0} /\ q.entry \in Int /\ q.margin \in Nat \ {0}
           /\ q.leverage \in Int /\ q.fidx \in Int
BY DEF Position

\* A fill moves the counters of its market and nothing else.
LEMMA ExposedBook ==
    ASSUME NEW b \in Book, NEW m \in Markets, NEW long \in BOOLEAN,
           NEW size \in Int
    PROVE  LET new == Exposed(b, m, long, size)
           IN  /\ new \in Book /\ new.pos = b.pos
               /\ new.users = b.users /\ new.markets = b.markets
<1> DEFINE oi   == [b.oi EXCEPT ![m][long] = @ + size]
           skew == [b.skew EXCEPT ![m] = @ + Sign(long) * size]
<1>1. b.oi \in [Markets -> [BOOLEAN -> Int]] /\ b.skew \in [Markets -> Int]
  BY DEF Book
<1>2. oi \in [Markets -> [BOOLEAN -> Int]]
  BY <1>1
<1>3. Sign(long) * size \in Int
  BY DEF Sign
<1>4. skew \in [Markets -> Int]
  BY <1>1, <1>3
<1>5. Exposed(b, m, long, size) = [b EXCEPT !.oi = oi, !.skew = skew]
  BY DEF Exposed, Book
<1> HIDE DEF oi, skew
<1>6. Exposed(b, m, long, size) = [pos |-> b.pos, users |-> b.users,
                                   markets |-> b.markets, oi |-> oi, skew |-> skew]
  BY <1>5 DEF Book
<1> QED
  BY <1>2, <1>4, <1>6 DEF Book

\* A full close empties the id.
LEMMA RemovedBook ==
    ASSUME NEW b \in Book, NEW p \in PosIds, b.pos[p] \in Position
    PROVE  LET new == Removed(b, p)
           IN  /\ new \in Book
               /\ new.pos = [b.pos EXCEPT ![p] = NoPosition]
<1> DEFINE q     == b.pos[p]
           e     == Exposed(b, q.market, q.long, -q.size)
           pos   == [e.pos EXCEPT ![p] = NoPosition]
           users == [e.users EXCEPT ![q.owner] = @ \ {p}]
<1>1. q.owner \in Traders /\ q.market \in Markets /\ q.long \in BOOLEAN
      /\ -q.size \in Int
  BY DEF Position
<1>2. e \in Book /\ e.pos = b.pos
  BY <1>1, ExposedBook
<1>3. Removed(b, p) = [e EXCEPT !.pos[p] = NoPosition, !.users[q.owner] = @ \ {p}]
  BY DEF Removed
<1> HIDE DEF e
<1>4. pos \in [PosIds -> Position \cup {NoPosition}]
      /\ users \in [Traders -> SUBSET PosIds]
  BY <1>1, <1>2 DEF Book
<1>5. Removed(b, p) = [e EXCEPT !.pos = pos, !.users = users]
  BY <1>2, <1>3 DEF Book
<1> HIDE DEF pos, users
<1>6. Removed(b, p) = [pos |-> pos, users |-> users, markets |-> e.markets,
                       oi |-> e.oi, skew |-> e.skew]
  BY <1>2, <1>5 DEF Book
<1> QED
  BY <1>2, <1>4, <1>6 DEF Book, pos

\* The share of the margin that a partial close releases.
LEMMA ReleasedBound ==
    ASSUME NEW q \in Position, NEW size \in Nat, size <= q.size
    PROVE  Released(q, size) \in Nat /\ Released(q, size) <= q.margin
BY PositionFields, ShareBound DEF Released

LEMMA RestPosition ==
    ASSUME IndexOK, NEW q \in Position, NEW size \in Nat \ {0}, size < q.size,
           NEW at \in Int, q.margin - Released(q, size) > 0
    PROVE  /\ Rest(q, size, at) \in Position
           /\ Rest(q, size, at).margin = q.margin - Released(q, size)
<1> DEFINE margin == q.margin - Released(q, size)
           lev    == CeilDiv((q.size - size) * at, margin)
<1>1. Released(q, size) \in Nat
  BY PositionFields, ReleasedBound
<1>2. margin \in Nat \ {0}
  BY <1>1, PositionFields
<1>3. lev \in Int
  <2>1. (q.size - size) * at \in Int
    BY PositionFields
  <2>2. \A x \in Int, y \in Nat \ {0} : CeilDiv(x, y) \in Int
    BY SMT DEF CeilDiv
  <2> HIDE DEF margin
  <2> QED
    BY <1>2, <2>1, <2>2
<1>4. index[q.market][q.long] \in Int
  BY PositionFields DEF IndexOK
<1>5. Rest(q, size, at) = [q EXCEPT !.size = q.size - size, !.margin = margin,
                              !.fidx = index[q.market][q.long], !.leverage = lev]
  BY PositionFields DEF Rest, Position
<1> HIDE DEF margin, lev
<1>6. Rest(q, size, at) =
        [owner |-> q.owner, market |-> q.market, long |-> q.long,
         size |-> q.size - size, entry |-> q.entry, margin |-> margin,
         leverage |-> lev, fidx |-> index[q.market][q.long]]
  BY <1>5 DEF Position
<1>7. q.size - size \in Nat \ {0}
  BY PositionFields
<1>8. Rest(q, size, at) \in Position /\ Rest(q, size, at).margin = margin
  BY <1>2, <1>3, <1>4, <1>6, <1>7, PositionFields DEF Position
<1> QED
  BY <1>8 DEF margin

\* A partial close replaces one position by its rest.
LEMMA ReducedBook ==
    ASSUME IndexOK, NEW b \in Book, NEW p \in PosIds, b.pos[p] \in Position,
           NEW size \in Nat \ {0}, size < b.pos[p].size, NEW at \in Int,
           b.pos[p].margin - Released(b.pos[p], size) > 0
    PROVE  LET new == Reduced(b, p, size, at)
           IN  /\ new \in Book
               /\ new.pos = [b.pos EXCEPT ![p] = Rest(b.pos[p], size, at)]
<1> DEFINE q   == b.pos[p]
           r   == Rest(q, size, at)
           e   == Exposed(b, q.market, q.long, -size)
           pos == [e.pos EXCEPT ![p] = r]
<1>1. r \in Position
  BY RestPosition
<1>2. e \in Book /\ e.pos = b.pos
  <2>1. q.market \in Markets /\ q.long \in BOOLEAN /\ -size \in Int
    BY DEF Position
  <2> QED
    BY <2>1, ExposedBook
<1>3. Reduced(b, p, size, at) = [e EXCEPT !.pos[p] = r]
  BY DEF Reduced
<1> HIDE DEF e, r
<1>4. pos \in [PosIds -> Position \cup {NoPosition}]
  BY <1>1, <1>2 DEF Book
<1>5. Reduced(b, p, size, at) = [e EXCEPT !.pos = pos]
  BY <1>2, <1>3 DEF Book
<1> HIDE DEF pos
<1>6. Reduced(b, p, size, at) = [pos |-> pos, users |-> e.users,
                       markets |-> e.markets, oi |-> e.oi, skew |-> e.skew]
  BY <1>2, <1>5 DEF Book
<1> QED
  BY <1>2, <1>4, <1>6 DEF Book, pos, r

\* A forced close leaves at one id no position or a smaller margin.
LEMMA RiskClosedBook ==
    ASSUME IndexOK, NEW b \in Book, NEW p \in PosIds, b.pos[p] \in Position,
           NEW size \in Int, CanRiskClose(b, p, size), NEW at \in Int
    PROVE  LET new == RiskClosed(b, p, size, at)
           IN  /\ new \in Book
               /\ Released(b.pos[p], size) \in Nat
               /\ new.pos = [b.pos EXCEPT ![p] = new.pos[p]]
               /\ new.pos[p] # NoPosition =>
                    new.pos[p].margin = b.pos[p].margin - Released(b.pos[p], size)
<1> DEFINE q == b.pos[p]
<1>1. size \in Nat \ {0} /\ size <= q.size /\ q.size \in Nat
      /\ (size < q.size => q.margin - Released(q, size) > 0)
  BY PositionFields DEF CanRiskClose
<1>2. Released(q, size) \in Nat
  BY <1>1, ReleasedBound
<1>3. CASE size = q.size
  <2> DEFINE r       == Removed(b, p)
             markets == [r.markets EXCEPT ![q.market] = @ \ {p}]
  <2>1. r \in Book /\ r.pos = [b.pos EXCEPT ![p] = NoPosition]
    BY RemovedBook
  <2>2. RiskClosed(b, p, size, at) = [r EXCEPT !.markets[q.market] = @ \ {p}]
    BY <1>3 DEF RiskClosed
  <2>3. q.market \in Markets
    BY PositionFields
  <2> HIDE DEF r
  <2>4. markets \in [Markets -> SUBSET PosIds]
    BY <2>1, <2>3 DEF Book
  <2>5. RiskClosed(b, p, size, at) = [r EXCEPT !.markets = markets]
    BY <2>1, <2>2 DEF Book
  <2> HIDE DEF markets
  <2>6. RiskClosed(b, p, size, at) = [pos |-> r.pos, users |-> r.users,
                       markets |-> markets, oi |-> r.oi, skew |-> r.skew]
    BY <2>1, <2>5 DEF Book
  <2>7. RiskClosed(b, p, size, at) \in Book
    BY <2>1, <2>4, <2>6 DEF Book
  <2>8. RiskClosed(b, p, size, at).pos = [b.pos EXCEPT ![p] = NoPosition]
        /\ RiskClosed(b, p, size, at).pos[p] = NoPosition
    BY <2>1, <2>6 DEF Book
  <2> QED
    BY <1>2, <2>7, <2>8
<1>4. CASE size # q.size
  <2>1. size < q.size
    BY <1>1, <1>4
  <2>2. RiskClosed(b, p, size, at) = Reduced(b, p, size, at)
    BY <1>4 DEF RiskClosed
  <2>3. /\ Reduced(b, p, size, at) \in Book
        /\ Reduced(b, p, size, at).pos = [b.pos EXCEPT ![p] = Rest(q, size, at)]
    BY <1>1, <2>1, ReducedBook
  <2>4. /\ Rest(q, size, at) \in Position
        /\ Rest(q, size, at).margin = q.margin - Released(q, size)
    BY <1>1, <2>1, RestPosition
  <2>5. Reduced(b, p, size, at).pos[p] = Rest(q, size, at)
    BY <2>3 DEF Book
  <2> QED
    BY <1>2, <2>2, <2>3, <2>4, <2>5
<1> QED
  BY <1>3, <1>4

-----------------------------------------------------------------------------
(* The inductive invariant *)

IInv == TypeOK /\ LocksCoverMargins /\ NavBacked

Kept(b, mo) ==
    \A p \in PosIds : b.pos[p] # NoPosition => b.pos[p].margin <= mo.lock[p]

\* What the invariant says of the two stores.
LEMMA Stores ==
    ASSUME IInv
    PROVE  /\ book \in Book /\ money \in Money /\ Kept(book, money)
           /\ PoolKept(money, money) /\ IndexOK /\ price \in [Markets -> Prices]
           /\ \A p \in Open : p \in PosIds /\ book.pos[p] \in Position
BY PoolNumbers DEF IInv, TypeOK, LocksCoverMargins, NavBacked, Kept, PoolKept,
                   IndexOK, Open, Book

\* Four facts about the stores make the next state sound when nothing else moved.
LEMMA Assemble ==
    ASSUME IInv, book' \in Book, money' \in Money, Kept(book', money'),
           PoolKept(money, money'), nextId' \in Nat \ {0}, cooling' \subseteq PosIds,
           held' \in Nat, UNCHANGED world
    PROVE  IInv' /\ PoolKept(money, money')
BY DEF IInv, TypeOK, LocksCoverMargins, NavBacked, Kept, PoolKept, Open, world

LEMMA Idle ==
    ASSUME IInv
    PROVE  nextId \in Nat \ {0} /\ cooling \subseteq PosIds /\ held \in Nat
BY DEF IInv, TypeOK

LEMMA PnlInt ==
    ASSUME IndexOK, NEW q \in Position, NEW size \in Int, NEW exit \in Int
    PROVE  Pnl(q, size, exit) \in Int
<1>1. q.entry \in Int /\ q.fidx \in Int /\ index[q.market][q.long] \in Int
  BY PositionFields DEF IndexOK
<1>2. Sign(q.long) \in Int
  BY DEF Sign
<1>3. TradePnl(q, size, exit) \in Int
  BY <1>1, <1>2, TimesInt DEF TradePnl
<1>4. FundingPnl(q, size) \in Int
  BY <1>1, TimesInt DEF FundingPnl
<1> QED
  BY <1>3, <1>4 DEF Pnl

LEMMA RateInt ==
    ASSUME NEW x \in Int, NEW rate \in 0..BPS
    PROVE  ApplyBps(x, rate) \in Int
<1>1. x * rate \in Int
  BY TimesInt
<1> QED
  BY <1>1, DivInt, ExchangeConstants DEF ApplyBps

LEMMA ExecutionInt ==
    ASSUME IInv, NEW m \in Markets, NEW size \in Int, NEW buy
    PROVE  ExecutionPrice(m, size, buy) \in Int
<1> DEFINE mid == 2 * book.skew[m] + Sign(buy) * size
<1>1. price[m] \in Nat /\ book.skew[m] \in Int
  BY ExchangeConstants DEF IInv, TypeOK, Book
<1>2. Sign(buy) \in Int
  BY DEF Sign
<1>3. mid \in Int /\ Abs(mid) \in Int
  BY <1>1, <1>2, TimesInt DEF Abs
<1>4. Sign(buy) * ApplyBps(price[m], RebateBps) \in Int
  <2>1. RebateBps \in 0..BPS
    BY ExchangeConstants
  <2>2. ApplyBps(price[m], RebateBps) \in Int
    BY <1>1, <2>1, RateInt
  <2> QED
    BY <1>2, <2>2, TimesInt
<1>5. Sign(buy) * ((Abs(mid) * price[m]) \div (2 * SkewScale)) \in Int
  <2>1. Abs(mid) * price[m] \in Int /\ 2 * SkewScale \in Nat \ {0}
    BY <1>1, <1>3, TimesInt, ExchangeConstants
  <2> HIDE DEF mid
  <2>2. (Abs(mid) * price[m]) \div (2 * SkewScale) \in Int
    BY <2>1, DivInt
  <2> QED
    BY <1>2, <2>2, TimesInt
<1> QED
  BY <1>1, <1>3, <1>4, <1>5 DEF ExecutionPrice

-----------------------------------------------------------------------------
(* Each action preserves the invariant *)

\* The book with position q under the new id p.
Opened(b, p, q) ==
    [Exposed(b, q.market, q.long, q.size) EXCEPT
        !.pos[p] = q, !.users[q.owner] = @ \cup {p}, !.markets[q.market] = @ \cup {p}]

LEMMA OpenedParts ==
    ASSUME NEW b \in Book, NEW p \in PosIds, NEW q \in Position,
           NEW c, c = Opened(b, p, q)
    PROVE  /\ c.pos = [b.pos EXCEPT ![p] = q]
           /\ c.users = [b.users EXCEPT ![q.owner] = @ \cup {p}]
           /\ c.markets = [b.markets EXCEPT ![q.market] = @ \cup {p}]
           /\ c.oi = Exposed(b, q.market, q.long, q.size).oi
           /\ c.skew = Exposed(b, q.market, q.long, q.size).skew
           /\ c = [pos |-> c.pos, users |-> c.users, markets |-> c.markets,
                   oi |-> c.oi, skew |-> c.skew]
<1> DEFINE e       == Exposed(b, q.market, q.long, q.size)
           pos     == [e.pos EXCEPT ![p] = q]
           users   == [e.users EXCEPT ![q.owner] = @ \cup {p}]
           markets == [e.markets EXCEPT ![q.market] = @ \cup {p}]
<1>1. q.owner \in Traders /\ q.market \in Markets /\ q.long \in BOOLEAN /\ q.size \in Int
  BY PositionFields
<1>2. e \in Book /\ e.pos = b.pos /\ e.users = b.users /\ e.markets = b.markets
  BY <1>1, ExposedBook
<1>3. c = [e EXCEPT !.pos[p] = q, !.users[q.owner] = @ \cup {p},
                    !.markets[q.market] = @ \cup {p}]
  BY DEF Opened
<1> HIDE DEF e
<1>4. c = [e EXCEPT !.pos = pos, !.users = users, !.markets = markets]
  BY <1>2, <1>3 DEF Book
<1> HIDE DEF pos, users, markets
<1>5. c = [pos |-> pos, users |-> users, markets |-> markets,
           oi |-> e.oi, skew |-> e.skew]
  BY <1>2, <1>4 DEF Book
<1>6. /\ c.pos = pos /\ c.users = users /\ c.markets = markets
      /\ c.oi = e.oi /\ c.skew = e.skew
  BY <1>5
<1> QED
  BY <1>2, <1>5, <1>6 DEF pos, users, markets, e

LEMMA OpenedBook ==
    ASSUME NEW b \in Book, NEW p \in PosIds, NEW q \in Position
    PROVE  Opened(b, p, q) \in Book /\ Opened(b, p, q).pos = [b.pos EXCEPT ![p] = q]
<1> DEFINE c == Opened(b, p, q)
           e == Exposed(b, q.market, q.long, q.size)
<1>1. q.owner \in Traders /\ q.market \in Markets /\ q.long \in BOOLEAN /\ q.size \in Int
  BY PositionFields
<1>2. e \in Book
  BY <1>1, ExposedBook
<1>3. /\ c.pos = [b.pos EXCEPT ![p] = q]
      /\ c.users = [b.users EXCEPT ![q.owner] = @ \cup {p}]
      /\ c.markets = [b.markets EXCEPT ![q.market] = @ \cup {p}]
      /\ c.oi = e.oi /\ c.skew = e.skew
      /\ c = [pos |-> c.pos, users |-> c.users, markets |-> c.markets,
              oi |-> c.oi, skew |-> c.skew]
  BY OpenedParts
<1> HIDE DEF c, e
<1>4. /\ c.pos \in [PosIds -> Position \cup {NoPosition}]
      /\ c.users \in [Traders -> SUBSET PosIds]
      /\ c.markets \in [Markets -> SUBSET PosIds]
  BY <1>1, <1>3 DEF Book
<1>5. c.oi \in [Markets -> [BOOLEAN -> Int]] /\ c.skew \in [Markets -> Int]
  BY <1>2, <1>3 DEF Book
<1>6. c \in Book
  BY <1>3, <1>4, <1>5 DEF Book
<1> QED
  BY <1>3, <1>6 DEF c

\* What opening a position does: it locks the margin, pays the fee and enters
\* the position under the next id, for a trader who can cover all margins.
LEMMA OpenParts ==
    ASSUME IInv, NEW u \in Traders, NEW m \in Markets, NEW size \in Sizes,
           NEW long \in BOOLEAN, NEW lev \in Leverages,
           OpenPosition(u, m, size, long, lev)
    PROVE  \E q \in Position, fee \in Nat :
             /\ q.owner = u /\ q.size = size /\ nextId \in PosIds /\ fee <= money.bal[u]
             /\ money' = Earned(Locked(money, u, nextId, q.margin), u, fee)
             /\ book' = Opened(book, nextId, q)
             /\ money'.bal[u] >= MarginOf(u) + InitialMargin(q.size * q.entry)
             /\ nextId' = nextId + 1 /\ UNCHANGED <<world, cooling, held>>
<1> DEFINE p        == nextId
           exec     == ExecutionPrice(m, size, long)
           notional == size * exec
           margin   == notional \div lev
           fee      == ApplyBps(notional, TakerBps)
           q        == [owner |-> u, market |-> m, long |-> long,
                        size |-> size, entry |-> exec, margin |-> margin,
                        leverage |-> lev, fidx |-> index[m][long]]
<1>1. size \in Nat \ {0} /\ lev \in Nat \ {0} /\ p \in PosIds
      /\ margin > 0 /\ fee <= money.bal[u]
      /\ money' = Earned(Locked(money, u, p, margin), u, fee)
      /\ money'.bal[u] >= MarginOf(u) + InitialMargin(notional)
      /\ book' = [Exposed(book, m, long, size) EXCEPT
                     !.pos[p] = q, !.users[u] = @ \cup {p}, !.markets[m] = @ \cup {p}]
      /\ nextId' = nextId + 1 /\ UNCHANGED <<world, cooling, held>>
  BY ExchangeConstants DEF OpenPosition, Covers
<1>2. index[m][long] \in Int
  BY Stores DEF IndexOK
<1>3. exec \in Int /\ notional \in Int /\ margin \in Nat \ {0}
  <2>1. exec \in Int
    BY <1>1, ExecutionInt
  <2>2. notional \in Int
    BY <1>1, <2>1, TimesInt
  <2>3. margin \in Int
    BY <1>1, <2>2, DivInt
  <2> QED
    BY <1>1, <2>1, <2>2, <2>3
<1>4. fee \in Nat
  <2>1. notional > 0
    BY <1>1, <1>3, SMT
  <2> HIDE DEF notional
  <2>2. notional \in Nat
    BY <1>3, <2>1
  <2> QED
    BY <2>2, BpsBound, ExchangeConstants
<1>5. q \in Position
  BY <1>1, <1>2, <1>3, ExchangeConstants DEF Position
<1>6. /\ q.owner = u /\ q.market = m /\ q.long = long /\ q.size = size
      /\ q.margin = margin /\ q.size * q.entry = notional
  OBVIOUS
<1> HIDE DEF notional, margin, fee, q
<1>7. book' = Opened(book, p, q)
  BY <1>1, <1>6 DEF Opened
<1> QED
  BY <1>1, <1>4, <1>5, <1>6, <1>7

LEMMA OpenPreserves ==
    ASSUME IInv, NEW u \in Traders, NEW m \in Markets, NEW size \in Sizes,
           NEW long \in BOOLEAN, NEW lev \in Leverages,
           OpenPosition(u, m, size, long, lev)
    PROVE  IInv' /\ PoolKept(money, money')
<1> DEFINE p == nextId
<1>1. PICK q \in Position, fee \in Nat :
        /\ q.owner = u /\ p \in PosIds /\ fee <= money.bal[u]
        /\ money' = Earned(Locked(money, u, p, q.margin), u, fee)
        /\ book' = Opened(book, p, q)
        /\ nextId' = nextId + 1 /\ UNCHANGED <<world, cooling, held>>
  BY OpenParts
<1> DEFINE locked == Locked(money, u, p, q.margin)
<1>2. book \in Book /\ money \in Money /\ Kept(book, money)
      /\ PoolKept(money, money)
  BY Stores
<1>3. money.lock[p] \in Nat /\ q.margin \in Nat
  BY <1>1, <1>2, PositionFields DEF Money
<1>4. /\ locked \in Money /\ locked.bal = money.bal
      /\ locked.assets = money.assets
      /\ locked.lock = [money.lock EXCEPT ![p] = @ + q.margin]
  BY <1>1, <1>2, <1>3, LockedMoney
<1> HIDE DEF locked
<1>5. money' \in Money /\ money'.lock = locked.lock /\ PoolKept(money, money')
  BY <1>1, <1>2, <1>4, EarnedMoney, Names DEF PoolKept, locked
<1>6. book' \in Book /\ book'.pos = [book.pos EXCEPT ![p] = q]
  BY <1>1, <1>2, OpenedBook
<1>7. Kept(book', money')
  <2>1. money'.lock = [money.lock EXCEPT ![p] = money.lock[p] + q.margin]
    BY <1>4, <1>5
  <2>2. q.margin <= money.lock[p] + q.margin
    BY <1>3
  <2> QED
    BY <1>1, <1>2, <1>3, <1>6, <2>1, <2>2 DEF Kept, Book, Money
<1>8. nextId' \in Nat \ {0} /\ cooling' \subseteq PosIds /\ held' \in Nat
  BY <1>1, Idle
<1> QED
  BY <1>1, <1>5, <1>6, <1>7, <1>8, Assemble

\* What every action on an open position starts from.
LEMMA AtPosition ==
    ASSUME IInv, NEW p \in Open
    PROVE  /\ p \in PosIds /\ book.pos[p] \in Position
           /\ book.pos[p].owner \in Traders /\ book.pos[p].market \in Markets
           /\ book.pos[p].long \in BOOLEAN
           /\ book.pos[p].size \in Nat \ {0} /\ book.pos[p].margin \in Nat \ {0}
           /\ money.lock[p] \in Nat /\ book.pos[p].margin <= money.lock[p]
           /\ price[book.pos[p].market] \in Nat \ {0}
<1>1. p \in PosIds /\ book.pos[p] \in Position
      /\ money \in Money /\ Kept(book, money) /\ price \in [Markets -> Prices]
  BY Stores
<1>2. book.pos[p] # NoPosition
  BY DEF Open
<1> QED
  BY <1>1, <1>2, PositionFields, ExchangeConstants DEF Kept, Money

\* What closing a position does: all of the margin is settled with the result.
LEMMA CloseParts ==
    ASSUME IInv, NEW p \in PosIds, ClosePosition(p)
    PROVE  \E gross \in Int, fee \in Int :
             LET q == book.pos[p]
             IN  /\ p \in Open /\ CanSettle(money, q.owner, p, q.margin, gross, fee)
                 /\ money' = Settled(money, q.owner, p, q.margin, gross, fee)
                 /\ book' = Removed(book, p)
                 /\ UNCHANGED <<nextId, world, cooling, held>>
<1> DEFINE q     == book.pos[p]
           exec  == ExecutionPrice(q.market, q.size, ~q.long)
           gross == Pnl(q, q.size, exec)
           fee   == ApplyBps(q.size * exec, MakerBps)
<1>1. /\ p \in Open /\ CanSettle(money, q.owner, p, q.margin, gross, fee)
      /\ money' = Settled(money, q.owner, p, q.margin, gross, fee)
      /\ book' = Removed(book, p)
      /\ UNCHANGED <<nextId, world, cooling, held>>
  BY DEF ClosePosition
<1>2. q \in Position /\ q.market \in Markets /\ q.size \in Nat
  BY <1>1, AtPosition
<1>3. IndexOK
  BY Stores
<1>4. gross \in Int /\ fee \in Int
  <2>0. \A buy : ExecutionPrice(q.market, q.size, buy) \in Int
    BY <1>2, ExecutionInt
  <2>1. exec \in Int
    BY <2>0
  <2> HIDE DEF exec
  <2>2. q.size * exec \in Int
    BY <1>2, <2>1, TimesInt
  <2>3. gross \in Int
    BY <1>2, <1>3, <2>1, PnlInt
  <2>4. MakerBps \in 0..BPS
    BY ExchangeConstants
  <2>5. fee \in Int
    BY <2>2, <2>4, RateInt
  <2> QED
    BY <2>3, <2>5
<1> HIDE DEF gross, fee
<1> QED
  BY <1>1, <1>4

LEMMA ClosePreserves ==
    ASSUME IInv, NEW p \in PosIds, ClosePosition(p)
    PROVE  IInv' /\ PoolKept(money, money')
<1> DEFINE q == book.pos[p]
<1>1. PICK gross \in Int, fee \in Int :
        /\ p \in Open /\ CanSettle(money, q.owner, p, q.margin, gross, fee)
        /\ money' = Settled(money, q.owner, p, q.margin, gross, fee)
        /\ book' = Removed(book, p)
        /\ UNCHANGED <<nextId, world, cooling, held>>
  BY CloseParts
<1>2. q \in Position /\ q.owner \in Traders /\ q.margin \in Int
  BY <1>1, AtPosition
<1>3. book \in Book /\ money \in Money /\ Kept(book, money)
      /\ PoolKept(money, money)
  BY Stores
<1>4. /\ money' \in Money /\ PoolKept(money, money')
      /\ money'.lock = [money.lock EXCEPT ![p] = @ - q.margin]
  BY <1>1, <1>2, <1>3, SettledMoney
<1>5. book' \in Book /\ book'.pos = [book.pos EXCEPT ![p] = NoPosition]
  BY <1>1, <1>2, <1>3, RemovedBook
<1>6. Kept(book', money')
  BY <1>3, <1>4, <1>5 DEF Kept, Book, Money
<1>7. nextId' \in Nat \ {0} /\ cooling' \subseteq PosIds /\ held' \in Nat
  BY <1>1, Idle
<1> QED
  BY <1>1, <1>4, <1>5, <1>6, <1>7, Assemble

\* A stored position whose margin and leverage are replaced stays a position.
LEMMA RemarginedBook ==
    ASSUME NEW b \in Book, NEW p \in PosIds, b.pos[p] \in Position,
           NEW r \in Position
    PROVE  LET new == [b EXCEPT !.pos = [b.pos EXCEPT ![p] = r]]
           IN  new \in Book /\ new.pos = [b.pos EXCEPT ![p] = r]
BY DEF Book

\* A bucket that moves along with its position's margin still covers it.
LEMMA RemarginedKept ==
    ASSUME NEW b \in Book, NEW mo \in Money, Kept(b, mo),
           NEW c \in Book, NEW mt \in Money,
           NEW p \in PosIds, NEW r \in Position, NEW d \in Int,
           c.pos = [b.pos EXCEPT ![p] = r],
           mt.lock = [mo.lock EXCEPT ![p] = @ + d],
           r.margin <= mo.lock[p] + d
    PROVE  Kept(c, mt)
<1> SUFFICES ASSUME NEW s \in PosIds, c.pos[s] # NoPosition
             PROVE  c.pos[s].margin <= mt.lock[s]
  BY DEF Kept
<1>1. /\ b.pos \in [PosIds -> Position \cup {NoPosition}]
      /\ mo.lock \in [PosIds -> Nat]
  BY DEF Book, Money
<1>2. CASE s = p
  <2>1. c.pos[s] = r
    BY <1>1, <1>2
  <2>2. mt.lock[s] = mo.lock[p] + d
    BY <1>1, <1>2
  <2> QED
    BY <2>1, <2>2
<1>3. CASE s # p
  <2>1. c.pos[s] = b.pos[s] /\ mt.lock[s] = mo.lock[s]
    BY <1>1, <1>3
  <2> QED
    BY <2>1 DEF Kept
<1> QED
  BY <1>2, <1>3

\* What adding margin does: the bucket and the margin on file grow alike.
LEMMA AddMarginParts ==
    ASSUME IInv, NEW p \in PosIds, NEW d \in Amounts, AddMargin(p, d)
    PROVE  \E r \in Position :
             LET q == book.pos[p]
             IN  /\ p \in Open /\ d \in Nat /\ r.margin = q.margin + d
                 /\ r.owner = q.owner /\ r.market = q.market /\ r.long = q.long
                 /\ r.size = q.size /\ r.fidx = q.fidx
                 /\ money' = Locked(money, q.owner, p, d)
                 /\ book' = [book EXCEPT !.pos = [book.pos EXCEPT ![p] = r]]
                 /\ UNCHANGED <<nextId, world, cooling, held>>
<1> DEFINE q == book.pos[p]
           r == [q EXCEPT !.margin = @ + d]
<1>1. /\ p \in Open /\ d \in Nat \ {0}
      /\ money' = Locked(money, q.owner, p, d)
      /\ book' = [book EXCEPT !.pos[p].margin = @ + d]
      /\ UNCHANGED <<nextId, world, cooling, held>>
  BY ExchangeConstants DEF AddMargin
<1>2. q \in Position /\ q.margin \in Nat \ {0} /\ book \in Book
  BY <1>1, AtPosition, Stores
<1>3. /\ r \in Position /\ r.margin = q.margin + d
      /\ r.owner = q.owner /\ r.market = q.market /\ r.long = q.long
      /\ r.size = q.size /\ r.fidx = q.fidx
  BY <1>1, <1>2 DEF Position
<1>4. book' = [book EXCEPT !.pos = [book.pos EXCEPT ![p] = r]]
  BY <1>1, <1>2 DEF Book
<1> HIDE DEF r
<1> QED
  BY <1>1, <1>3, <1>4

LEMMA AddMarginPreserves ==
    ASSUME IInv, NEW p \in PosIds, NEW d \in Amounts, AddMargin(p, d)
    PROVE  IInv' /\ PoolKept(money, money')
<1> DEFINE q == book.pos[p]
<1>1. PICK r \in Position :
        /\ p \in Open /\ d \in Nat /\ r.margin = q.margin + d
        /\ money' = Locked(money, q.owner, p, d)
        /\ book' = [book EXCEPT !.pos = [book.pos EXCEPT ![p] = r]]
        /\ UNCHANGED <<nextId, world, cooling, held>>
  BY AddMarginParts
<1>2. /\ q \in Position /\ q.owner \in Traders /\ q.margin \in Nat \ {0}
      /\ money.lock[p] \in Nat /\ q.margin <= money.lock[p]
  BY <1>1, AtPosition
<1>3. book \in Book /\ money \in Money /\ Kept(book, money)
      /\ PoolKept(money, money)
  BY Stores
<1>4. /\ money' \in Money /\ money'.bal = money.bal
      /\ money'.assets = money.assets
      /\ money'.lock = [money.lock EXCEPT ![p] = @ + d]
  BY <1>1, <1>2, <1>3, LockedMoney
<1>5. book' \in Book /\ book'.pos = [book.pos EXCEPT ![p] = r]
  BY <1>1, <1>2, <1>3, RemarginedBook
<1>6. Kept(book', money')
  <2>1. d \in Int /\ r.margin <= money.lock[p] + d
    BY <1>1, <1>2
  <2> QED
    BY <1>3, <1>4, <1>5, <2>1, RemarginedKept
<1>7. nextId' \in Nat \ {0} /\ cooling' \subseteq PosIds /\ held' \in Nat
  BY <1>1, Idle
<1> QED
  BY <1>1, <1>3, <1>4, <1>5, <1>6, <1>7, Assemble DEF PoolKept

Remargined(q, margin, lev) == [q EXCEPT !.margin = margin, !.leverage = lev]

LEMMA RemarginedPosition ==
    ASSUME NEW q \in Position, NEW margin \in Nat \ {0}, NEW lev \in Int
    PROVE  LET new == Remargined(q, margin, lev)
           IN  /\ new \in Position /\ new.margin = margin
               /\ new.owner = q.owner /\ new.market = q.market /\ new.long = q.long
               /\ new.size = q.size /\ new.fidx = q.fidx
<1> DEFINE one == [q EXCEPT !.margin = margin]
           two == [one EXCEPT !.leverage = lev]
<1>1. /\ one \in Position /\ one.margin = margin
      /\ one.owner = q.owner /\ one.market = q.market /\ one.long = q.long
      /\ one.size = q.size /\ one.fidx = q.fidx
  BY DEF Position
<1>2. Remargined(q, margin, lev) = two
  BY DEF Remargined
<1> HIDE DEF one
<1>3. /\ two \in Position /\ two.margin = one.margin
      /\ two.owner = one.owner /\ two.market = one.market /\ two.long = one.long
      /\ two.size = one.size /\ two.fidx = one.fidx
  BY <1>1 DEF Position
<1> QED
  BY <1>1, <1>2, <1>3

\* What removing margin does: the bucket and the margin on file shrink alike.
LEMMA RemoveMarginParts ==
    ASSUME IInv, NEW p \in PosIds, NEW d \in Amounts, RemoveMargin(p, d)
    PROVE  \E r \in Position :
             LET q == book.pos[p]
             IN  /\ p \in Open /\ d \in Nat /\ r.margin = q.margin - d
                 /\ r.owner = q.owner /\ r.market = q.market /\ r.long = q.long
                 /\ r.size = q.size /\ r.fidx = q.fidx
                 /\ CanUnlock(money, p, d) /\ money' = Locked(money, q.owner, p, -d)
                 /\ book' = [book EXCEPT !.pos = [book.pos EXCEPT ![p] = r]]
                 /\ UNCHANGED <<nextId, world, cooling, held>>
<1> DEFINE q   == book.pos[p]
           lev == CeilDiv(Notional(q), q.margin - d)
           r   == [q EXCEPT !.margin = @ - d, !.leverage = lev]
<1>1. /\ p \in Open /\ d \in Nat \ {0} /\ d < q.margin /\ CanUnlock(money, p, d)
      /\ money' = Locked(money, q.owner, p, -d)
      /\ book' = [book EXCEPT !.pos[p].margin = @ - d, !.pos[p].leverage = lev]
      /\ UNCHANGED <<nextId, world, cooling, held>>
  BY ExchangeConstants DEF RemoveMargin, Unlocked
<1>2. /\ q \in Position /\ q.margin \in Nat \ {0} /\ book \in Book
      /\ q.size \in Nat /\ price[q.market] \in Nat
  BY <1>1, AtPosition, Stores
<1>3. q.margin - d \in Nat \ {0}
  BY <1>1, <1>2
<1>4. lev \in Int
  <2>1. Notional(q) \in Int
    BY <1>2, TimesInt DEF Notional
  <2>2. \A x \in Int, y \in Nat \ {0} : CeilDiv(x, y) \in Int
    BY SMT DEF CeilDiv
  <2> QED
    BY <1>3, <2>1, <2>2
<1> HIDE DEF lev
<1>5. /\ r \in Position /\ r.margin = q.margin - d
      /\ r.owner = q.owner /\ r.market = q.market /\ r.long = q.long
      /\ r.size = q.size /\ r.fidx = q.fidx
  <2> DEFINE margin == q.margin - d
             new    == Remargined(q, margin, lev)
  <2>1. r = new
    BY <1>2 DEF Position, Remargined
  <2>2. margin \in Nat \ {0}
    BY <1>3
  <2> HIDE DEF margin, q
  <2>3. /\ new \in Position /\ new.margin = margin
        /\ new.owner = q.owner /\ new.market = q.market /\ new.long = q.long
        /\ new.size = q.size /\ new.fidx = q.fidx
    BY <1>2, <1>4, <2>2, RemarginedPosition
  <2> QED
    BY <2>1, <2>3 DEF margin
<1>6. book' = [book EXCEPT !.pos = [book.pos EXCEPT ![p] = r]]
  BY <1>1, <1>2 DEF Book
<1> HIDE DEF r
<1> QED
  BY <1>1, <1>5, <1>6

LEMMA RemoveMarginPreserves ==
    ASSUME IInv, NEW p \in PosIds, NEW d \in Amounts, RemoveMargin(p, d)
    PROVE  IInv' /\ PoolKept(money, money')
<1> DEFINE q == book.pos[p]
<1>1. PICK r \in Position :
        /\ p \in Open /\ d \in Nat /\ r.margin = q.margin - d
        /\ CanUnlock(money, p, d) /\ money' = Locked(money, q.owner, p, -d)
        /\ book' = [book EXCEPT !.pos = [book.pos EXCEPT ![p] = r]]
        /\ UNCHANGED <<nextId, world, cooling, held>>
  BY RemoveMarginParts
<1>2. /\ q \in Position /\ q.owner \in Traders /\ q.margin \in Nat \ {0}
      /\ money.lock[p] \in Nat /\ q.margin <= money.lock[p]
  BY <1>1, AtPosition
<1>3. book \in Book /\ money \in Money /\ Kept(book, money)
      /\ PoolKept(money, money)
  BY Stores
<1>4. -d \in Int /\ money.lock[p] + (-d) >= 0
  BY <1>1, <1>2 DEF CanUnlock
<1>5. /\ money' \in Money /\ money'.bal = money.bal
      /\ money'.assets = money.assets
      /\ money'.lock = [money.lock EXCEPT ![p] = @ + (-d)]
  BY <1>1, <1>2, <1>3, <1>4, LockedMoney
<1>6. book' \in Book /\ book'.pos = [book.pos EXCEPT ![p] = r]
  BY <1>1, <1>2, <1>3, RemarginedBook
<1>7. Kept(book', money')
  <2>1. r.margin <= money.lock[p] + (-d)
    BY <1>1, <1>2
  <2> QED
    BY <1>3, <1>4, <1>5, <1>6, <2>1, RemarginedKept
<1>8. nextId' \in Nat \ {0} /\ cooling' \subseteq PosIds /\ held' \in Nat
  BY <1>1, Idle
<1> QED
  BY <1>1, <1>3, <1>5, <1>6, <1>7, <1>8, Assemble DEF PoolKept

\* What a partial close does: a share of the margin is settled with the result.
LEMMA PartialCloseParts ==
    ASSUME IInv, NEW p \in PosIds, NEW size \in Sizes, PartialClose(p, size)
    PROVE  \E gross \in Int, fee \in Int :
             LET q        == book.pos[p]
                 released == Released(q, size)
             IN  /\ p \in Open /\ size \in Nat \ {0} /\ size < q.size
                 /\ released \in Nat /\ q.margin - released > 0
                 /\ CanSettle(money, q.owner, p, released, gross, fee)
                 /\ money' = Settled(money, q.owner, p, released, gross, fee)
                 /\ book' = Reduced(book, p, size, price[q.market])
                 /\ UNCHANGED <<nextId, world, cooling, held>>
<1> DEFINE q        == book.pos[p]
           exec     == ExecutionPrice(q.market, size, ~q.long)
           gross    == Pnl(q, size, exec)
           fee      == ApplyBps(size * exec, MakerBps)
           released == Released(q, size)
<1>1. /\ p \in Open /\ size \in Nat \ {0} /\ size < q.size
      /\ CanSettle(money, q.owner, p, released, gross, fee)
      /\ q.margin - released > 0
      /\ money' = Settled(money, q.owner, p, released, gross, fee)
      /\ book' = Reduced(book, p, size, price[q.market])
      /\ UNCHANGED <<nextId, world, cooling, held>>
  BY ExchangeConstants DEF PartialClose
<1>2. q \in Position /\ q.market \in Markets /\ q.size \in Nat
  BY <1>1, AtPosition
<1>3. IndexOK
  BY Stores
<1>4. gross \in Int /\ fee \in Int
  <2>0. \A buy : ExecutionPrice(q.market, size, buy) \in Int
    BY <1>1, <1>2, ExecutionInt
  <2>1. exec \in Int
    BY <2>0
  <2> HIDE DEF exec
  <2>2. size * exec \in Int
    BY <1>1, <2>1, TimesInt
  <2>3. gross \in Int
    BY <1>1, <1>2, <1>3, <2>1, PnlInt
  <2>4. MakerBps \in 0..BPS
    BY ExchangeConstants
  <2>5. fee \in Int
    BY <2>2, <2>4, RateInt
  <2> QED
    BY <2>3, <2>5
<1>5. released \in Nat
  BY <1>1, <1>2, ReleasedBound
<1> HIDE DEF gross, fee, released
<1> QED
  BY <1>1, <1>4, <1>5 DEF released

LEMMA PartialClosePreserves ==
    ASSUME IInv, NEW p \in PosIds, NEW size \in Sizes, PartialClose(p, size)
    PROVE  IInv' /\ PoolKept(money, money')
<1> DEFINE q        == book.pos[p]
           released == Released(q, size)
           r        == Rest(q, size, price[q.market])
<1>1. PICK gross \in Int, fee \in Int :
        /\ p \in Open /\ size \in Nat \ {0} /\ size < q.size
        /\ released \in Nat /\ q.margin - released > 0
        /\ CanSettle(money, q.owner, p, released, gross, fee)
        /\ money' = Settled(money, q.owner, p, released, gross, fee)
        /\ book' = Reduced(book, p, size, price[q.market])
        /\ UNCHANGED <<nextId, world, cooling, held>>
  BY PartialCloseParts
<1>2. /\ q \in Position /\ q.owner \in Traders /\ q.market \in Markets
      /\ q.size \in Nat /\ q.margin \in Nat \ {0}
      /\ price[q.market] \in Int
      /\ money.lock[p] \in Nat /\ q.margin <= money.lock[p]
  BY <1>1, AtPosition
<1>3. book \in Book /\ money \in Money /\ Kept(book, money)
      /\ PoolKept(money, money)
      /\ IndexOK
  BY Stores
<1>4. r.margin = q.margin - released
  BY <1>1, <1>2, <1>3, RestPosition
<1>5. book' \in Book /\ book'.pos = [book.pos EXCEPT ![p] = r]
  BY <1>1, <1>2, <1>3, ReducedBook
<1> HIDE DEF released, r
<1>6. /\ money' \in Money /\ PoolKept(money, money')
      /\ money'.lock = [money.lock EXCEPT ![p] = @ - released]
  BY <1>1, <1>2, <1>3, SettledMoney
<1>7. Kept(book', money')
  <2>1. book'.pos[p] = r /\ \A x \in PosIds \ {p} : book'.pos[x] = book.pos[x]
    BY <1>1, <1>3, <1>5 DEF Book
  <2>2. /\ money'.lock[p] = money.lock[p] - released
        /\ \A x \in PosIds \ {p} : money'.lock[x] = money.lock[x]
    BY <1>1, <1>3, <1>6 DEF Money
  <2>3. r.margin <= money'.lock[p]
    BY <1>1, <1>2, <1>4, <2>2
  <2> QED
    BY <1>3, <2>1, <2>2, <2>3 DEF Kept
<1>8. nextId' \in Nat \ {0} /\ cooling' \subseteq PosIds /\ held' \in Nat
  BY <1>1, Idle
<1> QED
  BY <1>1, <1>5, <1>6, <1>7, <1>8, Assemble

\* What deleveraging does, if anything: a forced close of one open position, and
\* its gain is paid if there is one and the pool can.
LEMMA DeleverageParts ==
    ASSUME IndexOK, price \in [Markets -> Prices], NEW b \in Book, NEW mo,
           NEW m \in Markets, NEW coverage \in Int, Deleverage(b, mo, m, coverage)
    PROVE  \/ book' = b /\ money' = mo
           \/ \E w \in PosIds, size \in Int, gain \in Int :
                /\ b.pos[w] \in Position /\ CanRiskClose(b, w, size)
                /\ book' = RiskClosed(b, w, size, price[m])
                /\ money' = IF gain > 0 /\ CanDraw(mo, gain)
                            THEN Drawn(mo, b.pos[w].owner, gain) ELSE mo
<1>1. CASE WinnersIn(b, m) = {}
  BY <1>1 DEF Deleverage
<1>2. CASE WinnersIn(b, m) # {}
  <2>1. PICK w \in WinnersIn(b, m) :
          LET q    == b.pos[w]
              size == Least(AdlSize(q, coverage), q.size)
              gain == Pnl(q, size, price[m])
          IN  /\ CanRiskClose(b, w, size)
              /\ book' = RiskClosed(b, w, size, price[m])
              /\ money' = IF gain > 0 /\ CanDraw(mo, gain)
                          THEN Drawn(mo, q.owner, gain) ELSE mo
    BY <1>2 DEF Deleverage
  <2> DEFINE q    == b.pos[w]
             size == Least(AdlSize(q, coverage), q.size)
             gain == Pnl(q, size, price[m])
  <2>2. w \in PosIds /\ q \in Position
    <3>1. w \in b.markets[m] /\ b.markets[m] \subseteq PosIds
      BY DEF WinnersIn, Book
    <3>2. b.pos[w] # NoPosition
      BY <1>2, <3>1 DEF Deleverage
    <3> QED
      BY <3>1, <3>2 DEF Book
  <2>3. q.market \in Markets /\ q.size \in Nat \ {0}
    BY <2>2, PositionFields
  <2>4. price[m] \in Int /\ price[q.market] \in Nat \ {0}
    <3>1. \A x \in Prices : x \in Nat \ {0}
      BY ExchangeConstants
    <3> QED
      BY <2>3, <3>1
  <2>5. size \in Int
    <3>1. Notional(q) \in Nat \ {0}
      BY <2>3, <2>4, SMT DEF Notional
    <3>2. q.size * Least(coverage, Notional(q)) \in Int
      BY <2>3, <3>1, TimesInt DEF Least
    <3>3. (q.size * Least(coverage, Notional(q))) \div Notional(q) \in Int
      BY <3>1, <3>2, DivInt
    <3>4. AdlSize(q, coverage) \in Int
      BY <3>3 DEF AdlSize, Most
    <3> QED
      BY <2>3, <3>4 DEF Least
  <2> HIDE DEF size
  <2>6. gain \in Int
    BY <2>2, <2>4, <2>5, PnlInt
  <2>7. /\ CanRiskClose(b, w, size)
        /\ book' = RiskClosed(b, w, size, price[m])
        /\ money' = IF gain > 0 /\ CanDraw(mo, gain)
                    THEN Drawn(mo, q.owner, gain) ELSE mo
    BY <2>1 DEF size
  <2> HIDE DEF gain
  <2> QED
    BY <2>2, <2>5, <2>6, <2>7
<1> QED
  BY <1>1, <1>2

\* Deleveraging starts from any sound pair of stores, those a partial liquidation
\* left included: the winner's margin shrinks, its bucket does not.
LEMMA DeleverageSound ==
    ASSUME IndexOK, price \in [Markets -> Prices], money \in Money,
           NEW b \in Book, NEW mo \in Money, Kept(b, mo), PoolKept(money, mo),
           NEW m \in Markets, NEW coverage \in Int,
           Deleverage(b, mo, m, coverage)
    PROVE  /\ book' \in Book /\ money' \in Money
           /\ Kept(book', money') /\ PoolKept(money, money')
<1>1. CASE book' = b /\ money' = mo
  BY <1>1
<1>2. ASSUME NEW w \in PosIds, NEW size \in Int, NEW gain \in Int,
             b.pos[w] \in Position, CanRiskClose(b, w, size),
             book' = RiskClosed(b, w, size, price[m]),
             money' = IF gain > 0 /\ CanDraw(mo, gain)
                      THEN Drawn(mo, b.pos[w].owner, gain) ELSE mo
      PROVE  /\ book' \in Book /\ money' \in Money
             /\ Kept(book', money') /\ PoolKept(money, money')
  <2> DEFINE q == b.pos[w]
             r == book'.pos[w]
  <2>1. q.owner \in Users /\ q.margin \in Nat /\ mo.lock[w] \in Nat /\ q.margin <= mo.lock[w]
    <3>1. q # NoPosition
      BY <1>2, ExchangeConstants
    <3> QED
      BY <1>2, <3>1, PositionFields, Names DEF Kept, Money
  <2>2. price[m] \in Int
    <3>1. \A x \in Prices : x \in Int
      BY ExchangeConstants
    <3> QED
      BY <3>1
  <2>3. money' \in Money /\ money'.lock = mo.lock /\ PoolKept(money, money')
    BY <1>2, <2>1, DrawnMoney
  <2>4. book' \in Book /\ Released(q, size) \in Nat
    BY <1>2, <2>2, RiskClosedBook
  <2>5. /\ book'.pos = [b.pos EXCEPT ![w] = r]
        /\ r # NoPosition => r.margin = q.margin - Released(q, size)
    BY <1>2, <2>2, RiskClosedBook
  <2>6. Kept(book', money')
    <3>1. r # NoPosition => r.margin <= mo.lock[w]
      BY <2>1, <2>4, <2>5
    <3> QED
      BY <2>3, <2>5, <3>1 DEF Kept, Book
  <2> QED
    BY <2>3, <2>4, <2>6
<1> QED
  BY <1>1, <1>2, DeleverageParts

\* What a liquidation does: it closes some or all of the position, distributes
\* the value, and may deleverage on what that left.
LEMMA LiquidateParts ==
    ASSUME IInv, NEW k \in Keepers, NEW p \in PosIds, Liquidate(k, p)
    PROVE  \E size \in Nat \ {0} :
             LET q     == book.pos[p]
                 after == RiskClosed(book, p, size, price[q.market])
                 paid  == Distributed(money, k, p, q, size)
             IN  /\ size <= q.size /\ CanRiskClose(book, p, size)
                 /\ CanDistribute(money, k, p, q, size)
                 /\ Released(q, size) \in Nat /\ Shortfall(q, size) \in Int
                 /\ \/ book' = after /\ money' = paid
                    \/ /\ Notional(q) > PartialThreshold /\ p \notin cooling
                       /\ \E coverage \in Int : Deleverage(after, paid, q.market, coverage)
<1> DEFINE q     == book.pos[p]
           size  == LiquidationSize(q)
           after == RiskClosed(book, p, size, price[q.market])
           paid  == Distributed(money, k, p, q, size)
           rest  == Rest(q, size, price[q.market])
           short == Maintenance(Notional(rest)) - Equity(rest)
<1>1. /\ p \in Open /\ CanRiskClose(book, p, size)
      /\ CanDistribute(money, k, p, q, size)
      /\ \/ /\ size < q.size /\ Deleverage(after, paid, q.market, short)
         \/ book' = after /\ money' = paid
  BY DEF Liquidate
<1>2. /\ q \in Position /\ q.market \in Markets /\ q.size \in Nat \ {0}
      /\ price[q.market] \in Nat \ {0}
  BY <1>1, AtPosition
<1>3. IndexOK /\ price \in [Markets -> Prices]
  BY Stores
<1>4. size \in Int
  <2>1. PartialBps \in 0..BPS
    BY ExchangeConstants
  <2>2. ApplyBps(q.size, PartialBps) \in Int
    BY <1>2, <2>1, RateInt
  <2> QED
    BY <1>2, <2>2 DEF LiquidationSize, Most
<1> HIDE DEF size
<1>5. size \in Nat \ {0} /\ size <= q.size
  BY <1>1, <1>2, <1>4 DEF CanRiskClose
<1>6. Released(q, size) \in Nat
  BY <1>2, <1>5, ReleasedBound
<1>7. Shortfall(q, size) \in Int
  <2>1. size * price[q.market] \in Nat
    BY <1>2, <1>5, TimesNat
  <2>2. LiquidationBps \in 0..BPS
    BY ExchangeConstants
  <2>3. Penalty(q, size) \in Int
    BY <2>1, <2>2, BpsBound DEF Penalty
  <2>4. Pnl(q, size, price[q.market]) \in Int
    BY <1>2, <1>3, <1>5, PnlInt
  <2> QED
    BY <1>6, <2>3, <2>4 DEF Shortfall
<1>8. size < q.size => short \in Int
  <2> SUFFICES ASSUME size < q.size PROVE short \in Int
    OBVIOUS
  <2>1. rest \in Position
    <3>1. price[q.market] \in Int
      BY <1>2
    <3> QED
      BY <1>1, <1>2, <1>3, <1>5, <3>1, RestPosition DEF CanRiskClose
  <2> HIDE DEF rest
  <2>2. rest.market \in Markets /\ rest.size \in Nat /\ rest.margin \in Nat
    BY <2>1, PositionFields
  <2>3. price[rest.market] \in Nat
    BY <1>3, <2>2, ExchangeConstants
  <2>4. Notional(rest) \in Int
    BY <2>2, <2>3, TimesInt DEF Notional
  <2>5. InitialMargin(Notional(rest)) \in Int
    BY <2>4, DivInt, ExchangeConstants DEF InitialMargin
  <2>6. MaintenanceBps \in 0..BPS
    BY ExchangeConstants
  <2>7. Maintenance(Notional(rest)) \in Int
    BY <2>5, <2>6, RateInt DEF Maintenance
  <2>8. Equity(rest) \in Int
    BY <1>3, <2>1, <2>2, <2>3, PnlInt DEF Equity
  <2> QED
    BY <2>7, <2>8
<1> HIDE DEF short, after, paid
<1>9. size < q.size => Notional(q) > PartialThreshold /\ p \notin cooling
  <2>1. Notional(q) \in Int /\ PartialThreshold \in Int
    BY <1>2, TimesInt, ExchangeConstants DEF Notional
  <2>2. Notional(q) <= PartialThreshold => size = q.size
    BY DEF LiquidationSize, size
  <2>3. Notional(q) > PartialThreshold => p \notin cooling
    BY DEF Liquidate
  <2> QED
    BY <1>2, <1>5, <2>1, <2>2, <2>3
<1>10. \/ book' = after /\ money' = paid
       \/ /\ Notional(q) > PartialThreshold /\ p \notin cooling
          /\ \E coverage \in Int : Deleverage(after, paid, q.market, coverage)
  BY <1>1, <1>8, <1>9
<1> QED
  BY <1>1, <1>5, <1>6, <1>7, <1>10 DEF after, paid

LEMMA LiquidatePreserves ==
    ASSUME IInv, NEW k \in Keepers, NEW p \in PosIds, Liquidate(k, p)
    PROVE  IInv' /\ PoolKept(money, money')
<1> DEFINE q           == book.pos[p]
           after(size) == RiskClosed(book, p, size, price[q.market])
           paid(size)  == Distributed(money, k, p, q, size)
<1>1. PICK size \in Nat \ {0} :
        /\ size <= q.size /\ CanRiskClose(book, p, size)
        /\ CanDistribute(money, k, p, q, size)
        /\ Released(q, size) \in Nat /\ Shortfall(q, size) \in Int
        /\ \/ book' = after(size) /\ money' = paid(size)
           \/ \E coverage \in Int : Deleverage(after(size), paid(size), q.market, coverage)
  BY LiquidateParts
<1>2. /\ p \in Open /\ (cooling' = cooling \cup {p} \/ cooling' = cooling)
      /\ UNCHANGED <<nextId, world, held>>
  BY DEF Liquidate
<1>3. /\ q \in Position /\ q.market \in Markets
      /\ q.margin \in Nat /\ money.lock[p] \in Nat /\ q.margin <= money.lock[p]
      /\ price[q.market] \in Nat /\ price[q.market] \in Int
  BY <1>2, AtPosition
<1>4. /\ book \in Book /\ money \in Money /\ Kept(book, money)
      /\ PoolKept(money, money) /\ IndexOK /\ price \in [Markets -> Prices]
  BY Stores
<1> DEFINE a == after(size)
           m == paid(size)
           r == a.pos[p]
<1>5. /\ m \in Money /\ PoolKept(money, m)
      /\ m.lock = [money.lock EXCEPT ![p] = @ - Released(q, size)]
  BY <1>1, <1>3, <1>4, DistributedMoney
<1>6. /\ a \in Book /\ a.pos = [book.pos EXCEPT ![p] = r]
      /\ r # NoPosition => r.margin = q.margin - Released(q, size)
  BY <1>1, <1>3, <1>4, RiskClosedBook, SMTT(30)
<1>7. \/ book' = a /\ money' = m
      \/ \E coverage \in Int : Deleverage(a, m, q.market, coverage)
  BY <1>1
<1> HIDE DEF a, m
<1>8. Kept(a, m)
  <2>1. r # NoPosition => r.margin <= money.lock[p] - Released(q, size)
    BY <1>1, <1>3, <1>6
  <2> QED
    BY <1>1, <1>4, <1>5, <1>6, <2>1 DEF Kept, Book, Money
<1>9. /\ book' \in Book /\ money' \in Money
      /\ Kept(book', money') /\ PoolKept(money, money')
  BY <1>3, <1>4, <1>5, <1>6, <1>7, <1>8, DeleverageSound
<1>10. nextId' \in Nat \ {0} /\ cooling' \subseteq PosIds /\ held' \in Nat
  BY <1>2, Idle
<1> QED
  BY <1>2, <1>9, <1>10, Assemble

\* What settling funding does: the owner and the funding pool exchange what the
\* position owes, and the position is at the index of its side.
LEMMA SettleFundingParts ==
    ASSUME IInv, NEW p \in PosIds, SettleFunding(p)
    PROVE  \E r \in Position, pay \in Int :
             LET q == book.pos[p]
             IN  /\ p \in Open /\ pay = FundingPnl(q, q.size)
                 /\ pay <= money.bal[FundingPool] /\ -pay <= money.bal[q.owner]
                 /\ r.margin = q.margin /\ r.fidx = index[q.market][q.long]
                 /\ r.owner = q.owner /\ r.market = q.market /\ r.long = q.long
                 /\ r.size = q.size
                 /\ money' = Paid(money, FundingPool, q.owner, pay)
                 /\ book' = [book EXCEPT !.pos = [book.pos EXCEPT ![p] = r]]
                 /\ UNCHANGED <<nextId, world, cooling, held>>
<1> DEFINE q   == book.pos[p]
           pay == FundingPnl(q, q.size)
           r   == [q EXCEPT !.fidx = index[q.market][q.long]]
<1>1. /\ p \in Open
      /\ IF pay > 0 THEN pay <= money.bal[FundingPool]
         ELSE -pay <= money.bal[q.owner]
      /\ money' = Paid(money, FundingPool, q.owner, pay)
      /\ book' = [book EXCEPT !.pos[p].fidx = index[q.market][q.long]]
      /\ UNCHANGED <<nextId, world, cooling, held>>
  BY DEF SettleFunding, CanPayFunding, FundingPaid
<1>2. /\ q \in Position /\ q.owner \in Traders /\ q.market \in Markets
      /\ q.long \in BOOLEAN /\ q.size \in Int
  BY <1>1, AtPosition
<1>3. /\ book \in Book /\ money \in Money /\ index[q.market][q.long] \in Int
  BY <1>2, Stores DEF IndexOK
<1>4. pay \in Int
  <2>1. q.fidx \in Int
    BY <1>2, PositionFields
  <2> QED
    BY <1>2, <1>3, <2>1, TimesInt DEF FundingPnl
<1>5. /\ r \in Position /\ r.margin = q.margin /\ r.fidx = index[q.market][q.long]
      /\ r.owner = q.owner /\ r.market = q.market /\ r.long = q.long
      /\ r.size = q.size
  BY <1>2, <1>3 DEF Position
<1>6. book' = [book EXCEPT !.pos = [book.pos EXCEPT ![p] = r]]
  BY <1>1, <1>2, <1>3 DEF Book
<1>7. pay <= money.bal[FundingPool] /\ -pay <= money.bal[q.owner]
  <2>1. money.bal[FundingPool] \in Nat /\ money.bal[q.owner] \in Nat
    BY <1>2, <1>3, Names DEF Money
  <2> HIDE DEF pay
  <2> QED
    BY <1>1, <1>4, <2>1
<1> HIDE DEF r
<1> QED
  BY <1>1, <1>4, <1>5, <1>6, <1>7

LEMMA SettleFundingPreserves ==
    ASSUME IInv, NEW p \in PosIds, SettleFunding(p)
    PROVE  IInv' /\ PoolKept(money, money')
<1> DEFINE q == book.pos[p]
<1>1. PICK r \in Position, pay \in Int :
        /\ p \in Open
        /\ pay <= money.bal[FundingPool] /\ -pay <= money.bal[q.owner]
        /\ r.margin = q.margin
        /\ money' = Paid(money, FundingPool, q.owner, pay)
        /\ book' = [book EXCEPT !.pos = [book.pos EXCEPT ![p] = r]]
        /\ UNCHANGED <<nextId, world, cooling, held>>
  BY SettleFundingParts
<1>2. q \in Position /\ q.owner \in Traders /\ q.margin <= money.lock[p]
  BY <1>1, AtPosition
<1>3. book \in Book /\ money \in Money /\ Kept(book, money)
      /\ PoolKept(money, money)
  BY Stores
<1>4. /\ FundingPool \in Accounts /\ q.owner \in Accounts
      /\ Slp \in Accounts \ {FundingPool, q.owner}
  BY <1>2, Names
<1>5. /\ money' \in Money /\ money'.lock = money.lock
      /\ money'.assets = money.assets /\ money'.bal[Slp] = money.bal[Slp]
  BY <1>1, <1>3, <1>4, PaidMoney
<1>6. book' \in Book /\ book'.pos = [book.pos EXCEPT ![p] = r]
  BY <1>1, <1>2, <1>3, RemarginedBook
<1>7. Kept(book', money')
  BY <1>1, <1>2, <1>3, <1>5, <1>6 DEF Kept, Book
<1>8. nextId' \in Nat \ {0} /\ cooling' \subseteq PosIds /\ held' \in Nat
  BY <1>1, Idle
<1> QED
  BY <1>1, <1>3, <1>5, <1>6, <1>7, <1>8, Assemble DEF PoolKept

\* A balance and the net asset value shift; only the pool's balance may let the
\* net asset value rise, and by no more than itself.
LEMMA ShiftPreserves ==
    ASSUME IInv, NEW a \in Accounts, NEW x \in Int, NEW v \in Int,
           money.bal[a] + x >= 0,
           IF a = Slp THEN v - money.assets <= x /\ -x <= Most(money.assets, 0)
           ELSE v = money.assets,
           money' = [bal    |-> [money.bal EXCEPT ![a] = @ + x],
                     lock   |-> money.lock,
                     locked |-> money.locked,
                     assets |-> v],
           UNCHANGED <<book, nextId, world, cooling>>, held' \in Nat
    PROVE  IInv' /\ PoolKept(money, money')
<1>0. /\ book \in Book /\ money \in Money /\ Kept(book, money)
      /\ PoolKept(money, money)
      /\ nextId \in Nat \ {0} /\ cooling \subseteq PosIds
  BY Stores, Idle
<1>1. money.assets \in Int /\ money.bal \in [Accounts -> Nat]
  BY <1>0 DEF Money
<1> DEFINE bal == [money.bal EXCEPT ![a] = @ + x]
<1>2. bal \in [Accounts -> Nat]
  BY <1>1
<1>3. /\ a # Slp => bal[Slp] = money.bal[Slp]
      /\ a = Slp => bal[Slp] = money.bal[Slp] + x
  BY <1>1, Names
<1>4. money'.bal = bal /\ money'.assets = v
  OBVIOUS
<1> HIDE DEF bal
<1>5. money' \in Money /\ money'.lock = money.lock
  BY <1>0, <1>1, <1>2, <1>4 DEF Money, bal
<1>6. money.bal[Slp] \in Int /\ money.assets <= money.bal[Slp]
  BY <1>0, <1>1, Names DEF PoolKept
<1>7. v <= bal[Slp]
  BY <1>1, <1>3, <1>6
<1>8. PoolKept(money, money')
  BY <1>1, <1>3, <1>4, <1>6, <1>7 DEF PoolKept, Most
<1>9. Kept(book, money')
  BY <1>0, <1>5 DEF Kept
<1> QED
  BY <1>0, <1>5, <1>8, <1>9, Assemble

\* Deposits and withdrawals, of traders and of liquidity providers.
LEMMA VaultPreserves ==
    ASSUME IInv, VaultStep
    PROVE  IInv' /\ PoolKept(money, money')
<1>0. money \in Money /\ held \in Nat
  BY Stores, Idle
<1>1. /\ money.assets \in Int /\ money.bal \in [Accounts -> Nat]
      /\ money = [bal |-> money.bal, lock |-> money.lock,
                  locked |-> money.locked, assets |-> money.assets]
  BY <1>0 DEF Money
<1>3. ASSUME NEW u \in Traders, NEW d \in Amounts, Deposit(u, d)
      PROVE IInv' /\ PoolKept(money, money')
  <2>1. /\ d \in Nat /\ held' = held + d
        /\ money' = [money EXCEPT !.bal[u] = @ + d]
        /\ UNCHANGED <<book, nextId, world, cooling>>
    BY <1>3, ExchangeConstants DEF Deposit
  <2>2. money' = [bal |-> [money.bal EXCEPT ![u] = @ + d], lock |-> money.lock,
                  locked |-> money.locked, assets |-> money.assets]
    BY <1>1, <2>1
  <2>3. /\ u \in Accounts /\ u # Slp /\ money.bal[u] + d >= 0
        /\ held' \in Nat /\ d \in Int
    BY <1>0, <1>1, <2>1, Names
  <2> QED
    BY <1>1, <2>1, <2>2, <2>3, ShiftPreserves
<1>4. ASSUME NEW u \in Traders, NEW d \in Amounts, Withdraw(u, d)
      PROVE IInv' /\ PoolKept(money, money')
  <2>1. /\ d \in Nat /\ held' = held - d /\ d <= held /\ d <= money.bal[u]
        /\ money' = [money EXCEPT !.bal[u] = @ - d]
        /\ UNCHANGED <<book, nextId, world, cooling>>
    BY <1>4, ExchangeConstants DEF Withdraw
  <2>3. /\ u \in Accounts /\ u # Slp /\ money.bal[u] + (-d) >= 0
        /\ held' \in Nat /\ -d \in Int
    BY <1>0, <1>1, <2>1, Names
  <2>4. money.bal[u] - d = money.bal[u] + (-d)
    BY <1>1, <2>1, <2>3
  <2>2. money' = [bal |-> [money.bal EXCEPT ![u] = @ + (-d)], lock |-> money.lock,
                  locked |-> money.locked, assets |-> money.assets]
    BY <1>1, <2>1, <2>4
  <2> QED
    BY <1>1, <2>1, <2>2, <2>3, ShiftPreserves
<1>5. ASSUME NEW d \in Amounts, LiquidityIn(d)
      PROVE IInv' /\ PoolKept(money, money')
  <2>1. /\ d \in Nat /\ held' = held + d
        /\ money' = [money EXCEPT !.bal[Slp] = @ + d, !.assets = @ + d]
        /\ UNCHANGED <<book, nextId, world, cooling>>
    BY <1>5, ExchangeConstants DEF LiquidityIn
  <2>2. money' = [bal |-> [money.bal EXCEPT ![Slp] = @ + d], lock |-> money.lock,
                  locked |-> money.locked, assets |-> money.assets + d]
    BY <1>1, <2>1
  <2>3. /\ Slp \in Accounts /\ money.bal[Slp] + d >= 0 /\ held' \in Nat
        /\ d \in Int /\ money.assets + d \in Int
        /\ (money.assets + d) - money.assets <= d
        /\ -d <= Most(money.assets, 0)
    BY <1>0, <1>1, <2>1, Names DEF Most
  <2> QED
    BY <1>1, <2>1, <2>2, <2>3, ShiftPreserves
<1>6. ASSUME NEW worth \in Amounts, NEW d \in Amounts, LiquidityOut(worth, d)
      PROVE IInv' /\ PoolKept(money, money')
  <2>1. /\ d \in Nat /\ worth \in Nat /\ d <= worth /\ worth <= money.assets
        /\ held' = held - d /\ d <= held /\ d <= money.bal[Slp]
        /\ money' = [money EXCEPT !.bal[Slp] = @ - d, !.assets = @ - worth]
        /\ UNCHANGED <<book, nextId, world, cooling>>
    BY <1>6, ExchangeConstants DEF LiquidityOut
  <2>3. /\ Slp \in Accounts /\ money.bal[Slp] + (-d) >= 0
        /\ held' \in Nat /\ -d \in Int /\ money.assets + (-worth) \in Int
        /\ (money.assets + (-worth)) - money.assets <= -d
        /\ -(-d) <= Most(money.assets, 0)
    BY <1>0, <1>1, <2>1, Names DEF Most
  <2>4. /\ money.bal[Slp] - d = money.bal[Slp] + (-d)
        /\ money.assets - worth = money.assets + (-worth)
    BY <1>1, <2>1, <2>3
  <2>2. money' = [bal |-> [money.bal EXCEPT ![Slp] = @ + (-d)], lock |-> money.lock,
                  locked |-> money.locked, assets |-> money.assets + (-worth)]
    BY <1>1, <2>1, <2>4
  <2> QED
    BY <1>1, <2>1, <2>2, <2>3, ShiftPreserves
<1> QED
  BY <1>3, <1>4, <1>5, <1>6 DEF VaultStep

\* Sums and differences of integers are integers.
LEMMA SumInt ==
    ASSUME NEW a \in Int, NEW b \in Int
    PROVE  a + b \in Int /\ a - b \in Int
BY SMT

\* The accumulated funding of a market moves by opposite amounts on its sides.
LEMMA TickIndex ==
    ASSUME index \in [Markets -> [BOOLEAN -> Int]],
           NEW m \in Markets, NEW d \in Int,
           index' = [index EXCEPT ![m][TRUE] = @ + d, ![m][FALSE] = @ - d]
    PROVE  index' \in [Markets -> [BOOLEAN -> Int]]
<1> DEFINE one == [index EXCEPT ![m] = [index[m] EXCEPT ![TRUE] = index[m][TRUE] + d]]
<1>1. index[m] \in [BOOLEAN -> Int]
  OBVIOUS
<1>2. /\ index[m][TRUE] \in Int /\ index[m][FALSE] \in Int
      /\ index[m][TRUE] + d \in Int /\ index[m][FALSE] - d \in Int
  <2>1. index[m][TRUE] \in Int /\ index[m][FALSE] \in Int
    BY <1>1, Zenon
  <2> HIDE DEF one
  <2> QED
    BY <2>1, SumInt, Zenon
<1>3. one \in [Markets -> [BOOLEAN -> Int]] /\ one[m][FALSE] = index[m][FALSE]
  BY <1>1, <1>2
<1>4. index' = [one EXCEPT ![m] = [one[m] EXCEPT ![FALSE] = one[m][FALSE] - d]]
  OBVIOUS
<1> HIDE DEF one
<1>5. one[m] \in [BOOLEAN -> Int] /\ one[m][FALSE] - d \in Int
  BY <1>2, <1>3
<1>6. [one[m] EXCEPT ![FALSE] = one[m][FALSE] - d] \in [BOOLEAN -> Int]
  BY <1>5
<1> QED
  BY <1>3, <1>4, <1>6

\* The oracle, the funding index, the clock and the admins move no money.
LEMMA WorldPreserves ==
    ASSUME IInv, WorldStep
    PROVE  IInv'
<1> USE DEF IInv, TypeOK, LocksCoverMargins, NavBacked, Open
<1>1. ASSUME NEW m \in Markets, NEW d \in Ticks, FundingTick(m, d) PROVE IInv'
  <2>1. d \in Int
    BY ExchangeConstants
  <2>2. index' \in [Markets -> [BOOLEAN -> Int]]
    BY <1>1, <2>1, TickIndex DEF FundingTick
  <2> QED
    BY <1>1, <2>2 DEF FundingTick
<1>2. ASSUME NEW m \in Markets, NEW q \in Prices, OracleMoves(m, q) PROVE IInv'
  BY <1>2 DEF OracleMoves
<1>3. ASSUME NEW p \in cooling, CooldownEnds(p) PROVE IInv'
  BY <1>3 DEF CooldownEnds, world
<1>4. ASSUME NEW engine \in {"perp", "risk"}, NEW on \in BOOLEAN,
             SetPaused(engine, on)
      PROVE IInv'
  BY <1>4 DEF SetPaused
<1> QED
  BY <1>1, <1>2, <1>3, <1>4 DEF WorldStep

LEMMA StepPreserves ==
    ASSUME IInv, [Next]_vars
    PROVE  IInv' /\ PoolKept(money, money')
<1>0. money' = money => PoolKept(money, money')
  BY Stores
<1>1. CASE TradeStep
  BY <1>1, OpenPreserves, ClosePreserves, AddMarginPreserves,
     RemoveMarginPreserves, PartialClosePreserves DEF TradeStep
<1>2. CASE KeeperStep
  BY <1>2, LiquidatePreserves, SettleFundingPreserves DEF KeeperStep
<1>3. CASE UNCHANGED vars
  <2>1. money' = money
    BY <1>3 DEF vars
  <2>2. IInv'
    BY <1>3 DEF vars, world, IInv, TypeOK, LocksCoverMargins, NavBacked, Open
  <2> QED
    BY <1>0, <2>1, <2>2
<1>4. CASE WorldStep
  <2>1. money' = money
    BY <1>4 DEF WorldStep, FundingTick, OracleMoves, CooldownEnds, SetPaused
  <2> QED
    BY <1>0, <1>4, <2>1, WorldPreserves
<1> QED
  BY <1>1, <1>2, <1>3, <1>4, VaultPreserves DEF Next

\* The invariant holds before the first call.
LEMMA InitHolds == Init => IInv
<1> SUFFICES ASSUME Init PROVE IInv
  OBVIOUS
<1>1. book \in Book
  BY DEF Init, Book
<1>2. money \in Money
  BY ExchangeConstants DEF Init, Money
<1>3. held \in Nat
  <2>1. Cardinality(Traders) \in Nat
    BY ExchangeConstants, FS_CardinalityType
  <2>2. Stake * Cardinality(Traders) \in Nat
    BY <2>1, TimesNat, ExchangeConstants
  <2> QED
    BY <2>2, ExchangeConstants DEF Init
<1>4. /\ nextId \in Nat \ {0} /\ price \in [Markets -> Prices]
      /\ index \in [Markets -> [BOOLEAN -> Int]]
      /\ cooling \subseteq PosIds /\ paused \in [perp : BOOLEAN, risk : BOOLEAN]
  BY DEF Init
<1>5. \A p \in PosIds : book.pos[p] = NoPosition
  BY DEF Init
<1>6. money.assets <= money.bal[Slp]
  BY Names, ExchangeConstants DEF Init
<1> QED
  BY <1>1, <1>2, <1>3, <1>4, <1>5, <1>6
     DEF IInv, TypeOK, LocksCoverMargins, NavBacked, Open

-----------------------------------------------------------------------------
(* Theorems about types, margins and the pool *)

\* IInv is an invariant of the exchange.
THEOREM Invariance == Spec => []IInv
BY InitHolds, StepPreserves, PTL DEF Spec

\* No balance and no bucket of the vault ever becomes negative, and a stored
\* position always has a size and a margin, for any book, rates and prices.
THEOREM TypeCorrect == Spec => []TypeOK
<1>1. IInv => TypeOK
  BY DEF IInv
<1> QED
  BY <1>1, Invariance, PTL

\* The margin bucket of an open position always covers the margin the engine
\* has on file, so no close or liquidation fails for want of locked margin.
THEOREM LocksCover == Spec => []LocksCoverMargins
<1>1. IInv => LocksCoverMargins
  BY DEF IInv
<1> QED
  BY <1>1, Invariance, PTL

\* The net asset value of the pool never exceeds its balance in the vault.
THEOREM NavIsBacked == Spec => []NavBacked
<1>1. IInv => NavBacked
  BY DEF IInv
<1> QED
  BY <1>1, Invariance, PTL

\* The exchange implements Pool: whatever chain of fees, payouts, liquidations
\* and deleveraging a transaction makes, its net effect gives the pool no value
\* without money and takes no money out beyond the value the pool had.
THEOREM PoolPromiseKept == Spec => ImplementsPool
<1>1. Init => Promise!Init
  BY InitHolds, PoolNumbers DEF IInv, TypeOK, NavBacked, Promise!Init
<1>2. IInv /\ IInv' /\ [Next]_vars
        => [Promise!Next]_<<money.assets, money.bal[Slp]>>
  <2> SUFFICES ASSUME IInv, IInv', [Next]_vars PROVE Promise!Next
    OBVIOUS
  <2>1. PoolKept(money, money') /\ money' \in Money
    BY StepPreserves DEF IInv, TypeOK
  <2>2. money'.assets \in Int /\ money'.bal[Slp] \in Nat
    BY <2>1, PoolNumbers
  <2> QED
    BY <2>1, <2>2 DEF PoolKept, Promise!Next
<1> QED
  BY <1>1, <1>2, Invariance, PTL DEF Spec, ImplementsPool, Promise!Spec

-----------------------------------------------------------------------------
(* Counters and positions *)

Positions == [PosIds -> Position \cup {NoPosition}]

\* What the id p of the positions pos adds to the open interest of a side.
Weight(pos, m, long) ==
    [p \in PosIds |-> IF /\ pos[p] # NoPosition
                         /\ pos[p].market = m /\ pos[p].long = long
                      THEN pos[p].size ELSE 0]

\* The counters of book b are those of the positions pos.
CountedAs(b, pos) ==
    \A m \in Markets :
        /\ \A long \in BOOLEAN : b.oi[m][long] = SumFunction(Weight(pos, m, long))
        /\ b.skew[m] = b.oi[m][TRUE] - b.oi[m][FALSE]

LEMMA WeightType ==
    ASSUME NEW pos \in Positions, NEW m, NEW long
    PROVE  Weight(pos, m, long) \in [PosIds -> Int]
<1>1. ASSUME NEW p \in PosIds, pos[p] # NoPosition PROVE pos[p].size \in Int
  BY <1>1, PositionFields DEF Positions
<1> QED
  BY <1>1 DEF Weight

\* One entry of a table of integers grows, the others stay.
LEMMA Grown ==
    ASSUME NEW A, NEW B, NEW f \in [A -> [B -> Int]], NEW a \in A, NEW k \in B, NEW d \in Int
    PROVE  [f EXCEPT ![a][k] = @ + d][a][k] = f[a][k] + d
OBVIOUS

\* The counters that Exposed writes.
LEMMA ExposedCounters ==
    ASSUME NEW b \in Book, NEW m \in Markets, NEW long \in BOOLEAN, NEW d \in Int
    PROVE  /\ Exposed(b, m, long, d).oi = [b.oi EXCEPT ![m][long] = @ + d]
           /\ Exposed(b, m, long, d).skew = [b.skew EXCEPT ![m] = @ + Sign(long) * d]
BY DEF Exposed, Book

\* When the positions change at one id and the counters by as much as that id
\* weighs more or less, the counters are again those of the positions.
LEMMA ExposedCounted ==
    ASSUME NEW b \in Book, NEW m \in Markets, NEW long \in BOOLEAN, NEW d \in Int,
           NEW pos \in Positions, NEW new \in Positions, NEW p \in PosIds,
           \A x \in PosIds \ {p} : new[x] = pos[x],
           \A n \in Markets, l \in BOOLEAN :
               Weight(new, n, l)[p] - Weight(pos, n, l)[p] = IF n = m /\ l = long THEN d ELSE 0,
           CountedAs(b, pos)
    PROVE  CountedAs(Exposed(b, m, long, d), new)
<1> DEFINE c == Exposed(b, m, long, d)
<1>1. b.oi \in [Markets -> [BOOLEAN -> Int]] /\ b.skew \in [Markets -> Int]
  BY DEF Book
<1>2. c.oi = [b.oi EXCEPT ![m][long] = @ + d] /\ c.skew = [b.skew EXCEPT ![m] = @ + Sign(long) * d]
  BY ExposedCounters
<1> HIDE DEF c
<1>3. c.oi[m][long] = b.oi[m][long] + d
  <2>1. b.oi \in [Markets -> [BOOLEAN -> Int]]
    BY <1>1
  <2>2. [b.oi EXCEPT ![m][long] = @ + d][m][long] = b.oi[m][long] + d
    BY <2>1, Grown, Zenon
  <2>3. c.oi = [b.oi EXCEPT ![m][long] = @ + d]
    BY <1>2
  <2> QED
    BY <2>2, <2>3, Zenon
<1>4. ASSUME NEW n \in Markets, NEW l \in BOOLEAN, n # m \/ l # long
      PROVE  c.oi[n][l] = b.oi[n][l]
  <2>1. b.oi \in [Markets -> [BOOLEAN -> Int]]
    BY <1>1
  <2>2. [b.oi EXCEPT ![m][long] = @ + d][n][l] = b.oi[n][l]
    <3>1. CASE n = m
      BY <1>4, <2>1, <3>1
    <3>2. CASE n # m
      BY <2>1, <3>2
    <3> QED
      BY <3>1, <3>2
  <2>3. c.oi = [b.oi EXCEPT ![m][long] = @ + d]
    BY <1>2
  <2> QED
    BY <2>2, <2>3, Zenon
<1>5. ASSUME NEW n \in Markets, NEW l \in BOOLEAN
      PROVE  c.oi[n][l] = SumFunction(Weight(new, n, l))
  <2> DEFINE f == Weight(pos, n, l)
             g == Weight(new, n, l)
  <2>1. f \in [PosIds -> Int] /\ g \in [PosIds -> Int]
    BY WeightType
  <2>2. \A x \in PosIds \ {p} : g[x] = f[x]
    BY DEF Weight
  <2>3. g[p] - f[p] = IF n = m /\ l = long THEN d ELSE 0
    OBVIOUS
  <2>4. b.oi[n][l] = SumFunction(f)
    BY DEF CountedAs
  <2> HIDE DEF f, g
  <2>5. SumFunction(g) = SumFunction(f) + (g[p] - f[p])
    BY <2>1, <2>2, ExchangeIsFinite, SumChange
  <2>6. SumFunction(f) \in Int
    BY <2>1, ExchangeIsFinite, SumFunctionType
  <2>7. CASE n = m /\ l = long
    <3>1. SumFunction(g) = b.oi[n][l] + d
      BY <2>3, <2>4, <2>5, <2>7
    <3> QED
      BY <1>3, <2>7, <3>1 DEF g
  <2>8. CASE ~(n = m /\ l = long)
    <3>1. SumFunction(g) = b.oi[n][l]
      BY <2>3, <2>4, <2>5, <2>6, <2>8
    <3> QED
      BY <1>4, <2>8, <3>1 DEF g
  <2> QED
    BY <2>7, <2>8
<1>6. ASSUME NEW n \in Markets
      PROVE  c.skew[n] = c.oi[n][TRUE] - c.oi[n][FALSE]
  <2> DEFINE up == b.oi[n][TRUE]
             down == b.oi[n][FALSE]
  <2>1. b.skew[n] = up - down
    BY DEF CountedAs
  <2>2. up \in Int /\ down \in Int /\ b.skew[n] \in Int
    BY <1>1
  <2>3. CASE n = m /\ long = TRUE
    <3>1. c.oi[n][TRUE] = up + d
      BY <1>3, <2>3
    <3>2. c.oi[n][FALSE] = down
      BY <1>4, <2>3
    <3>3. c.skew[n] = b.skew[n] + d
      BY <1>1, <1>2, <2>3 DEF Sign
    <3> HIDE DEF up, down
    <3>4. c.skew[n] = (up + d) - down
      BY <2>1, <2>2, <3>3
    <3> QED
      BY <3>1, <3>2, <3>4, Zenon
  <2>4. CASE n = m /\ long = FALSE
    <3>1. c.oi[n][FALSE] = down + d
      BY <1>3, <2>4
    <3>2. c.oi[n][TRUE] = up
      BY <1>4, <2>4
    <3>3. c.skew[n] = b.skew[n] - d
      BY <1>1, <1>2, <2>2, <2>4 DEF Sign
    <3> HIDE DEF up, down
    <3>4. c.skew[n] = up - (down + d)
      BY <2>1, <2>2, <3>3
    <3> QED
      BY <3>1, <3>2, <3>4, Zenon
  <2>5. CASE n # m
    <3>1. c.oi[n][FALSE] = down /\ c.oi[n][TRUE] = up
      BY <1>4, <2>5
    <3>2. c.skew[n] = b.skew[n]
      BY <1>1, <1>2, <2>5
    <3> QED
      BY <2>1, <3>1, <3>2
  <2> QED
    BY <2>3, <2>4, <2>5
<1> QED
  BY <1>5, <1>6 DEF CountedAs, c
-----------------------------------------------------------------------------
(* A sound book, and closing in it *)

OpenIn(b)    == {p \in PosIds : b.pos[p] # NoPosition}
OwnedIn(b, u) == {p \in OpenIn(b) : b.pos[p].owner = u}

\* The id lists of book b are those of its positions.
Listed(b) ==
    /\ \A u \in Traders : b.users[u] = OwnedIn(b, u)
    /\ \A p \in OpenIn(b) : p \in b.markets[b.pos[p].market]

Sound(b) == Listed(b) /\ CountedAs(b, b.pos)

\* Only oi and skew count.
LEMMA CountedAlike ==
    ASSUME NEW b, NEW c, c.oi = b.oi, c.skew = b.skew, NEW pos, CountedAs(b, pos)
    PROVE  CountedAs(c, pos)
BY DEF CountedAs

\* What Removed leaves of each part of the book.
LEMMA RemovedParts ==
    ASSUME NEW b \in Book, NEW p \in PosIds, b.pos[p] \in Position
    PROVE  LET q   == b.pos[p]
               e   == Exposed(b, q.market, q.long, -q.size)
               new == Removed(b, p)
           IN  /\ new.users = [b.users EXCEPT ![q.owner] = @ \ {p}]
               /\ new.markets = b.markets
               /\ new.oi = e.oi /\ new.skew = e.skew
<1> DEFINE q == b.pos[p]
           e == Exposed(b, q.market, q.long, -q.size)
<1>1. q.market \in Markets /\ q.long \in BOOLEAN /\ -q.size \in Int
  BY PositionFields
<1>2. e \in Book /\ e.users = b.users /\ e.markets = b.markets
  BY <1>1, ExposedBook
<1>3. Removed(b, p) = [e EXCEPT !.pos[p] = NoPosition, !.users[q.owner] = @ \ {p}]
  BY DEF Removed
<1> HIDE DEF e, q
<1>4. /\ Removed(b, p).users = [e.users EXCEPT ![q.owner] = @ \ {p}]
      /\ Removed(b, p).markets = e.markets
      /\ Removed(b, p).oi = e.oi /\ Removed(b, p).skew = e.skew
  BY <1>2, <1>3 DEF Book
<1> QED
  BY <1>2, <1>4 DEF e, q

\* The rest of a position is on the same side of the same market.
LEMMA RestParts ==
    ASSUME NEW q \in Position, NEW size \in Nat, NEW at \in Int
    PROVE  LET r == Rest(q, size, at)
           IN  /\ r.owner = q.owner /\ r.market = q.market /\ r.long = q.long
               /\ r.size = q.size - size
BY DEF Rest, Position

LEMMA ReducedParts ==
    ASSUME NEW b \in Book, NEW p \in PosIds, b.pos[p] \in Position,
           NEW size \in Nat, NEW at \in Int
    PROVE  LET q   == b.pos[p]
               e   == Exposed(b, q.market, q.long, -size)
               new == Reduced(b, p, size, at)
           IN  /\ new.users = b.users /\ new.markets = b.markets
               /\ new.oi = e.oi /\ new.skew = e.skew
<1> DEFINE q == b.pos[p]
           e == Exposed(b, q.market, q.long, -size)
           r == Rest(q, size, at)
<1>1. q.market \in Markets /\ q.long \in BOOLEAN /\ -size \in Int
  BY PositionFields
<1>2. e \in Book /\ e.users = b.users /\ e.markets = b.markets
  BY <1>1, ExposedBook
<1>3. Reduced(b, p, size, at) = [e EXCEPT !.pos[p] = r]
  BY DEF Reduced
<1> HIDE DEF e, r
<1>4. /\ Reduced(b, p, size, at).users = e.users
      /\ Reduced(b, p, size, at).markets = e.markets
      /\ Reduced(b, p, size, at).oi = e.oi /\ Reduced(b, p, size, at).skew = e.skew
  BY <1>2, <1>3 DEF Book
<1> QED
  BY <1>2, <1>4 DEF e

\* A full close leaves a sound book.
LEMMA RemovedSound ==
    ASSUME NEW b \in Book, NEW p \in PosIds, b.pos[p] \in Position, Sound(b)
    PROVE  Sound(Removed(b, p))
<1> DEFINE q == b.pos[p]
           c == Removed(b, p)
           e == Exposed(b, q.market, q.long, -q.size)
<1>1. q.market \in Markets /\ q.long \in BOOLEAN /\ -q.size \in Int /\ q.size \in Int
      /\ q.owner \in Traders /\ q # NoPosition
  BY PositionFields, ExchangeConstants
<1>2. c \in Book /\ c.pos = [b.pos EXCEPT ![p] = NoPosition]
  BY RemovedBook
<1>3. /\ c.users = [b.users EXCEPT ![q.owner] = @ \ {p}] /\ c.markets = b.markets
      /\ c.oi = e.oi /\ c.skew = e.skew
  BY RemovedParts
<1>4. b.pos \in Positions /\ c.pos \in Positions /\ b.users \in [Traders -> SUBSET PosIds]
  BY <1>2 DEF Book, Positions
<1> HIDE DEF c
<1>5. c.pos[p] = NoPosition /\ \A x \in PosIds \ {p} : c.pos[x] = b.pos[x]
  BY <1>2, <1>4 DEF Positions
<1>6. Listed(c)
  <2>1. \A u \in Traders : b.users[u] = OwnedIn(b, u)
    BY DEF Sound, Listed
  <2>2. OpenIn(c) = OpenIn(b) \ {p}
    BY <1>5 DEF OpenIn
  <2>3. ASSUME NEW u \in Traders PROVE c.users[u] = OwnedIn(c, u)
    <3>1. OwnedIn(c, u) = OwnedIn(b, u) \ {p}
      BY <1>5, <2>2 DEF OwnedIn, OpenIn
    <3>2. CASE u = q.owner
      <4>1. c.users[u] = b.users[u] \ {p}
        BY <1>3, <1>4, <3>2
      <4> QED
        BY <2>1, <3>1, <4>1
    <3>3. CASE u # q.owner
      <4>1. c.users[u] = b.users[u]
        BY <1>3, <1>4, <3>3
      <4>2. p \notin OwnedIn(b, u)
        BY <3>3 DEF OwnedIn
      <4> QED
        BY <2>1, <3>1, <4>1, <4>2
    <3> QED
      BY <3>2, <3>3
  <2>4. \A x \in OpenIn(c) : x \in c.markets[c.pos[x].market]
    BY <1>3, <1>5, <2>2 DEF Sound, Listed, OpenIn
  <2> QED
    BY <2>3, <2>4 DEF Listed
<1>7. CountedAs(e, c.pos)
  <2>1. ASSUME NEW n \in Markets, NEW l \in BOOLEAN
        PROVE  Weight(c.pos, n, l)[p] - Weight(b.pos, n, l)[p]
                 = IF n = q.market /\ l = q.long THEN -q.size ELSE 0
    <3>1. Weight(c.pos, n, l)[p] = 0
      BY <1>5 DEF Weight
    <3>2. Weight(b.pos, n, l)[p] = IF q.market = n /\ q.long = l THEN q.size ELSE 0
      BY <1>1 DEF Weight
    <3> QED
      BY <1>1, <3>1, <3>2
  <2>2. CountedAs(b, b.pos)
    BY DEF Sound
  <2> HIDE DEF q
  <2> QED
    BY <1>1, <1>4, <1>5, <2>1, <2>2, ExposedCounted, SMTT(30)
<1>8. CountedAs(c, c.pos)
  BY <1>3, <1>7, CountedAlike
<1> QED
  BY <1>6, <1>8 DEF Sound, c

\* When one position is replaced by another of the same owner and market, the
\* lists of ids stay right.
LEMMA ReplacedListed ==
    ASSUME NEW b \in Book, NEW c \in Book, NEW p \in OpenIn(b), NEW r \in Position,
           r.owner = b.pos[p].owner, r.market = b.pos[p].market,
           c.pos = [b.pos EXCEPT ![p] = r], c.users = b.users, c.markets = b.markets,
           Listed(b)
    PROVE  Listed(c)
<1>1. r # NoPosition /\ p \in PosIds /\ b.pos[p] # NoPosition
  BY ExchangeConstants DEF OpenIn
<1>2. c.pos[p] = r /\ \A x \in PosIds \ {p} : c.pos[x] = b.pos[x]
  BY <1>1 DEF Book
<1>3. OpenIn(c) = OpenIn(b)
  BY <1>1, <1>2 DEF OpenIn
<1>4. \A x \in OpenIn(b) : c.pos[x].owner = b.pos[x].owner /\ c.pos[x].market = b.pos[x].market
  BY <1>2 DEF OpenIn
<1>5. \A u \in Traders : OwnedIn(c, u) = OwnedIn(b, u)
  BY <1>3, <1>4 DEF OwnedIn
<1> QED
  BY <1>3, <1>4, <1>5 DEF Listed

\* A partial close leaves a sound book.
LEMMA ReducedSound ==
    ASSUME IndexOK, NEW b \in Book, NEW p \in PosIds, b.pos[p] \in Position, Sound(b),
           NEW size \in Nat \ {0}, size < b.pos[p].size, NEW at \in Int,
           b.pos[p].margin - Released(b.pos[p], size) > 0
    PROVE  Sound(Reduced(b, p, size, at))
<1> DEFINE q == b.pos[p]
           c == Reduced(b, p, size, at)
           e == Exposed(b, q.market, q.long, -size)
           r == Rest(q, size, at)
<1>1. q.market \in Markets /\ q.long \in BOOLEAN /\ -size \in Int /\ q.size \in Int
      /\ q # NoPosition
  BY PositionFields, ExchangeConstants
<1>2. c \in Book /\ c.pos = [b.pos EXCEPT ![p] = r]
  BY ReducedBook
<1>3. c.users = b.users /\ c.markets = b.markets /\ c.oi = e.oi /\ c.skew = e.skew
  BY ReducedParts
<1>4. r \in Position
  BY RestPosition
<1>5. r.owner = q.owner /\ r.market = q.market /\ r.long = q.long /\ r.size = q.size - size
  BY RestParts
<1>6. b.pos \in Positions /\ c.pos \in Positions
  BY <1>2 DEF Book, Positions
<1> HIDE DEF c, r
<1>7. c.pos[p] = r /\ \A x \in PosIds \ {p} : c.pos[x] = b.pos[x]
  BY <1>2, <1>6 DEF Positions
<1>8. Listed(c)
  <2>1. p \in OpenIn(b) /\ Listed(b)
    BY <1>1 DEF OpenIn, Sound
  <2> QED
    BY <1>2, <1>3, <1>4, <1>5, <2>1, ReplacedListed
<1>9. CountedAs(e, c.pos)
  <2>1. ASSUME NEW n \in Markets, NEW l \in BOOLEAN
        PROVE  Weight(c.pos, n, l)[p] - Weight(b.pos, n, l)[p]
                 = IF n = q.market /\ l = q.long THEN -size ELSE 0
    <3>0. r # NoPosition
      BY <1>4, ExchangeConstants
    <3>1. Weight(c.pos, n, l)[p] = IF q.market = n /\ q.long = l THEN q.size - size ELSE 0
      BY <1>5, <1>7, <3>0 DEF Weight
    <3>2. Weight(b.pos, n, l)[p] = IF q.market = n /\ q.long = l THEN q.size ELSE 0
      BY <1>1 DEF Weight
    <3> QED
      BY <1>1, <3>1, <3>2
  <2>2. CountedAs(b, b.pos)
    BY DEF Sound
  <2> DEFINE d == -size
  <2>3. d \in Int /\ e = Exposed(b, q.market, q.long, d)
    BY <1>1
  <2>4. \A n \in Markets, l \in BOOLEAN :
          Weight(c.pos, n, l)[p] - Weight(b.pos, n, l)[p]
            = IF n = q.market /\ l = q.long THEN d ELSE 0
    BY <2>1
  <2> HIDE DEF q, d, e
  <2>5. CountedAs(Exposed(b, q.market, q.long, d), c.pos)
    BY <1>1, <1>6, <1>7, <2>2, <2>3, <2>4, ExposedCounted, SMTT(30)
  <2> QED
    BY <2>3, <2>5
<1>10. CountedAs(c, c.pos)
  BY <1>3, <1>9, CountedAlike
<1> QED
  BY <1>8, <1>10 DEF Sound, c
\* A forced close, whole or in part, leaves a sound book, and at its id nothing
\* or a position on the same side.
LEMMA RiskClosedSound ==
    ASSUME IndexOK, NEW b \in Book, NEW p \in PosIds, b.pos[p] \in Position, Sound(b),
           NEW size \in Int, CanRiskClose(b, p, size), NEW at \in Int
    PROVE  Sound(RiskClosed(b, p, size, at))
<1> DEFINE q == b.pos[p]
           c == RiskClosed(b, p, size, at)
<1>1. size \in Nat \ {0} /\ size <= q.size /\ q.size \in Nat /\ q.market \in Markets
      /\ (size < q.size => q.margin - Released(q, size) > 0)
  BY PositionFields DEF CanRiskClose
<1>2. CASE size = q.size
  <2> DEFINE r == Removed(b, p)
  <2>1. r \in Book /\ r.pos = [b.pos EXCEPT ![p] = NoPosition]
    BY RemovedBook
  <2>2. Sound(r)
    BY RemovedSound
  <2>3. c = [r EXCEPT !.markets[q.market] = @ \ {p}]
    BY <1>2 DEF RiskClosed
  <2> HIDE DEF r, c
  <2>4. /\ c.pos = r.pos /\ c.users = r.users /\ c.oi = r.oi /\ c.skew = r.skew
        /\ c.markets = [r.markets EXCEPT ![q.market] = @ \ {p}]
    BY <2>1, <2>3 DEF Book
  <2>5. OpenIn(c) = OpenIn(r) /\ p \notin OpenIn(r)
    BY <2>1, <2>4 DEF OpenIn, Book
  <2>6. \A u \in Traders : OwnedIn(c, u) = OwnedIn(r, u)
    BY <2>4, <2>5 DEF OwnedIn
  <2>7. ASSUME NEW x \in OpenIn(c) PROVE x \in c.markets[c.pos[x].market]
    <3>1. x # p /\ x \in r.markets[r.pos[x].market] /\ c.pos[x] = r.pos[x]
      BY <2>2, <2>4, <2>5 DEF Sound, Listed
    <3>2. x \in PosIds /\ r.pos[x] \in Position
      BY <2>1, <2>5 DEF OpenIn, Book
    <3>3. r.pos[x].market \in Markets /\ r.markets \in [Markets -> SUBSET PosIds]
      BY <2>1, <3>2, PositionFields DEF Book
    <3> QED
      BY <1>1, <2>4, <3>1, <3>3
  <2>8. Listed(c)
    BY <2>2, <2>4, <2>6, <2>7 DEF Sound, Listed
  <2>9. CountedAs(c, c.pos)
    BY <2>2, <2>4, CountedAlike DEF Sound
  <2> QED
    BY <2>8, <2>9 DEF Sound, c
<1>3. CASE size # q.size
  <2>1. size < q.size
    BY <1>1, <1>3
  <2>2. c = Reduced(b, p, size, at)
    BY <1>3 DEF RiskClosed
  <2> QED
    BY <1>1, <2>1, <2>2, ReducedSound
<1> QED
  BY <1>2, <1>3

\* Replacing a position by one of the same owner, side and size, counters and
\* lists untouched, leaves a sound book.
LEMMA RemarginedSound ==
    ASSUME NEW b \in Book, Sound(b), NEW p \in PosIds, b.pos[p] \in Position,
           NEW r \in Position, r.owner = b.pos[p].owner, r.market = b.pos[p].market,
           r.long = b.pos[p].long, r.size = b.pos[p].size
    PROVE  Sound([b EXCEPT !.pos = [b.pos EXCEPT ![p] = r]])
<1> DEFINE c == [b EXCEPT !.pos = [b.pos EXCEPT ![p] = r]]
<1>1. c \in Book /\ c.pos = [b.pos EXCEPT ![p] = r]
  BY RemarginedBook
<1>2. c.users = b.users /\ c.markets = b.markets /\ c.oi = b.oi /\ c.skew = b.skew
  BY DEF Book
<1> HIDE DEF c
<1>3. p \in OpenIn(b) /\ r # NoPosition /\ b.pos[p] # NoPosition
  BY ExchangeConstants DEF OpenIn
<1>4. Listed(c)
  BY <1>1, <1>2, <1>3, ReplacedListed DEF Sound
<1>5. c.pos[p] = r /\ \A x \in PosIds \ {p} : c.pos[x] = b.pos[x]
  BY <1>1 DEF Book
<1>6. ASSUME NEW m \in Markets, NEW l \in BOOLEAN
      PROVE  Weight(c.pos, m, l) = Weight(b.pos, m, l)
  BY <1>3, <1>5 DEF Weight
<1>7. CountedAs(c, c.pos)
  BY <1>2, <1>6 DEF Sound, CountedAs
<1> QED
  BY <1>4, <1>7 DEF Sound, c

\* Opening a position at a free id leaves a sound book.
LEMMA OpenedSound ==
    ASSUME NEW b \in Book, Sound(b), NEW p \in PosIds, b.pos[p] = NoPosition,
           NEW q \in Position, NEW c \in Book, c = Opened(b, p, q)
    PROVE  Sound(c)
<1> DEFINE e == Exposed(b, q.market, q.long, q.size)
<1>1. q.market \in Markets /\ q.long \in BOOLEAN /\ q.size \in Int /\ q.owner \in Traders
      /\ q # NoPosition
  BY PositionFields, ExchangeConstants
<1>2. /\ c.pos = [b.pos EXCEPT ![p] = q]
      /\ c.users = [b.users EXCEPT ![q.owner] = @ \cup {p}]
      /\ c.markets = [b.markets EXCEPT ![q.market] = @ \cup {p}]
      /\ c.oi = e.oi /\ c.skew = e.skew
  BY OpenedParts
<1> HIDE DEF e
<1>3. /\ b.pos \in Positions /\ c.pos \in Positions
      /\ b.users \in [Traders -> SUBSET PosIds] /\ b.markets \in [Markets -> SUBSET PosIds]
  BY DEF Book, Positions
<1>4. c.pos[p] = q /\ \A x \in PosIds \ {p} : c.pos[x] = b.pos[x]
  BY <1>2, <1>3 DEF Positions
<1>5. Listed(c)
  <2>1. OpenIn(c) = OpenIn(b) \cup {p} /\ p \notin OpenIn(b)
    BY <1>1, <1>4 DEF OpenIn
  <2>2. ASSUME NEW u \in Traders PROVE c.users[u] = OwnedIn(c, u)
    <3>1. b.users[u] = OwnedIn(b, u)
      BY DEF Sound, Listed
    <3>2. OwnedIn(c, u) = OwnedIn(b, u) \cup {x \in {p} : q.owner = u}
      BY <1>4, <2>1 DEF OwnedIn, OpenIn
    <3>3. CASE u = q.owner
      <4>1. c.users[u] = b.users[u] \cup {p}
        BY <1>2, <1>3, <3>3
      <4> QED
        BY <3>1, <3>2, <3>3, <4>1
    <3>4. CASE u # q.owner
      <4>1. c.users[u] = b.users[u]
        BY <1>2, <1>3, <3>4
      <4> QED
        BY <3>1, <3>2, <3>4, <4>1
    <3> QED
      BY <3>3, <3>4
  <2>3. ASSUME NEW x \in OpenIn(c) PROVE x \in c.markets[c.pos[x].market]
    <3>1. CASE x = p
      BY <1>1, <1>2, <1>3, <1>4, <3>1
    <3>2. CASE x # p
      <4>1. x \in OpenIn(b) /\ x \in PosIds /\ c.pos[x] = b.pos[x]
        BY <1>4, <2>1, <3>2 DEF OpenIn
      <4>2. x \in b.markets[b.pos[x].market]
        BY <4>1 DEF Sound, Listed
      <4>3. b.pos[x].market \in Markets
        BY <1>3, <4>1, PositionFields DEF OpenIn, Positions
      <4> QED
        BY <1>1, <1>2, <1>3, <4>1, <4>2, <4>3
    <3> QED
      BY <3>1, <3>2
  <2> QED
    BY <2>2, <2>3 DEF Listed
<1>6. CountedAs(e, c.pos)
  <2>1. \A n \in Markets, l \in BOOLEAN :
          Weight(c.pos, n, l)[p] - Weight(b.pos, n, l)[p]
            = IF n = q.market /\ l = q.long THEN q.size ELSE 0
    BY <1>1, <1>4 DEF Weight
  <2>2. CountedAs(b, b.pos)
    BY DEF Sound
  <2> DEFINE m == q.market
             long == q.long
             d == q.size
  <2>3. e = Exposed(b, m, long, d)
    BY DEF e
  <2>4. m \in Markets /\ long \in BOOLEAN /\ d \in Int
    BY <1>1
  <2>5. \A n \in Markets, l \in BOOLEAN :
          Weight(c.pos, n, l)[p] - Weight(b.pos, n, l)[p]
            = IF n = m /\ l = long THEN d ELSE 0
    BY <2>1
  <2> HIDE DEF m, long, d, e
  <2>6. CountedAs(Exposed(b, m, long, d), c.pos)
    BY <1>3, <1>4, <2>2, <2>4, <2>5, ExposedCounted
  <2> QED
    BY <2>3, <2>6
<1>7. CountedAs(c, c.pos)
  BY <1>2, <1>6, CountedAlike
<1> QED
  BY <1>5, <1>7 DEF Sound

-----------------------------------------------------------------------------
(* Each action leaves a sound book and every closed id as it is *)

\* From book b and money mo to c and mt, nothing happens at closed ids.
Elsewhere(b, mo, c, mt) ==
    \A x \in PosIds : b.pos[x] = NoPosition =>
        c.pos[x] = NoPosition /\ mt.lock[x] = mo.lock[x]

\* A change at one open id is none elsewhere.
LEMMA AtOneId ==
    ASSUME NEW b \in Book, NEW mo \in Money, NEW c, NEW mt,
           NEW p \in PosIds, b.pos[p] # NoPosition, NEW r, NEW k,
           c.pos = [b.pos EXCEPT ![p] = r], mt.lock = [mo.lock EXCEPT ![p] = k]
    PROVE  Elsewhere(b, mo, c, mt)
BY DEF Elsewhere, Book, Money

LEMMA OpenAt ==
    ASSUME IInv, NEW p \in Open
    PROVE  /\ p \in PosIds /\ book.pos[p] # NoPosition /\ book.pos[p] \in Position
           /\ book \in Book /\ money \in Money /\ IndexOK
BY Stores, AtPosition DEF Open

LEMMA CloseSound ==
    ASSUME IInv, Sound(book), NEW p \in PosIds, ClosePosition(p)
    PROVE  Sound(book') /\ Elsewhere(book, money, book', money')
<1> DEFINE q == book.pos[p]
<1>1. PICK gross \in Int, fee \in Int :
        /\ p \in Open /\ CanSettle(money, q.owner, p, q.margin, gross, fee)
        /\ money' = Settled(money, q.owner, p, q.margin, gross, fee)
        /\ book' = Removed(book, p)
  BY CloseParts
<1>2. q \in Position /\ q.owner \in Traders /\ q.margin \in Int
  BY <1>1, AtPosition
<1>3. book \in Book /\ money \in Money /\ q # NoPosition
  BY <1>1, OpenAt
<1>4. money'.lock = [money.lock EXCEPT ![p] = @ - q.margin]
  BY <1>1, <1>2, <1>3, SettledMoney
<1>5. book'.pos = [book.pos EXCEPT ![p] = NoPosition]
  BY <1>1, <1>2, <1>3, RemovedBook
<1>6. Sound(book')
  BY <1>1, <1>2, <1>3, RemovedSound
<1> QED
  BY <1>3, <1>4, <1>5, <1>6, AtOneId

LEMMA PartialCloseSound ==
    ASSUME IInv, Sound(book), NEW p \in PosIds, NEW size \in Sizes, PartialClose(p, size)
    PROVE  Sound(book') /\ Elsewhere(book, money, book', money')
<1> DEFINE q        == book.pos[p]
           released == Released(q, size)
<1>1. PICK gross \in Int, fee \in Int :
        /\ p \in Open /\ size \in Nat \ {0} /\ size < q.size
        /\ released \in Nat /\ q.margin - released > 0
        /\ CanSettle(money, q.owner, p, released, gross, fee)
        /\ money' = Settled(money, q.owner, p, released, gross, fee)
        /\ book' = Reduced(book, p, size, price[q.market])
  BY PartialCloseParts
<1>2. q \in Position /\ q.owner \in Traders /\ price[q.market] \in Int
  BY <1>1, AtPosition
<1>3. book \in Book /\ money \in Money /\ q # NoPosition /\ IndexOK
  BY <1>1, OpenAt
<1>4. book'.pos = [book.pos EXCEPT ![p] = Rest(q, size, price[q.market])]
  BY <1>1, <1>2, <1>3, ReducedBook
<1>5. Sound(book')
  BY <1>1, <1>2, <1>3, ReducedSound
<1> HIDE DEF released
<1>6. money'.lock = [money.lock EXCEPT ![p] = @ - released]
  BY <1>1, <1>2, <1>3, SettledMoney
<1> QED
  BY <1>3, <1>4, <1>5, <1>6, AtOneId

LEMMA AddMarginSound ==
    ASSUME IInv, Sound(book), NEW p \in PosIds, NEW d \in Amounts, AddMargin(p, d)
    PROVE  Sound(book') /\ Elsewhere(book, money, book', money')
<1> DEFINE q == book.pos[p]
<1>1. PICK r \in Position :
        /\ p \in Open /\ d \in Nat
        /\ r.owner = q.owner /\ r.market = q.market /\ r.long = q.long /\ r.size = q.size
        /\ money' = Locked(money, q.owner, p, d)
        /\ book' = [book EXCEPT !.pos = [book.pos EXCEPT ![p] = r]]
  BY AddMarginParts
<1>2. q \in Position /\ q.owner \in Traders /\ money.lock[p] \in Nat
  BY <1>1, AtPosition
<1>3. book \in Book /\ money \in Money /\ q # NoPosition
  BY <1>1, OpenAt
<1>4. money'.lock = [money.lock EXCEPT ![p] = @ + d]
  BY <1>1, <1>2, <1>3, LockedMoney
<1>5. book'.pos = [book.pos EXCEPT ![p] = r]
  BY <1>1, <1>2, <1>3, RemarginedBook
<1>6. Sound(book')
  BY <1>1, <1>2, <1>3, RemarginedSound
<1> QED
  BY <1>3, <1>4, <1>5, <1>6, AtOneId

LEMMA RemoveMarginSound ==
    ASSUME IInv, Sound(book), NEW p \in PosIds, NEW d \in Amounts, RemoveMargin(p, d)
    PROVE  Sound(book') /\ Elsewhere(book, money, book', money')
<1> DEFINE q == book.pos[p]
<1>1. PICK r \in Position :
        /\ p \in Open /\ d \in Nat /\ CanUnlock(money, p, d)
        /\ r.owner = q.owner /\ r.market = q.market /\ r.long = q.long /\ r.size = q.size
        /\ money' = Locked(money, q.owner, p, -d)
        /\ book' = [book EXCEPT !.pos = [book.pos EXCEPT ![p] = r]]
  BY RemoveMarginParts
<1>2. q \in Position /\ q.owner \in Traders /\ money.lock[p] \in Nat
  BY <1>1, AtPosition
<1>3. book \in Book /\ money \in Money /\ q # NoPosition
  BY <1>1, OpenAt
<1>4. -d \in Int /\ money.lock[p] + (-d) >= 0
  BY <1>1, <1>2 DEF CanUnlock
<1>5. money'.lock = [money.lock EXCEPT ![p] = @ + (-d)]
  BY <1>1, <1>2, <1>3, <1>4, LockedMoney
<1>6. book'.pos = [book.pos EXCEPT ![p] = r]
  BY <1>1, <1>2, <1>3, RemarginedBook
<1>7. Sound(book')
  BY <1>1, <1>2, <1>3, RemarginedSound
<1> QED
  BY <1>3, <1>5, <1>6, <1>7, AtOneId

LEMMA SettleFundingSound ==
    ASSUME IInv, Sound(book), NEW p \in PosIds, SettleFunding(p)
    PROVE  Sound(book') /\ Elsewhere(book, money, book', money')
<1> DEFINE q == book.pos[p]
<1>1. PICK r \in Position, pay \in Int :
        /\ p \in Open
        /\ pay <= money.bal[FundingPool] /\ -pay <= money.bal[q.owner]
        /\ r.owner = q.owner /\ r.market = q.market /\ r.long = q.long /\ r.size = q.size
        /\ money' = Paid(money, FundingPool, q.owner, pay)
        /\ book' = [book EXCEPT !.pos = [book.pos EXCEPT ![p] = r]]
  BY SettleFundingParts
<1>2. q \in Position /\ q.owner \in Accounts /\ FundingPool \in Accounts
  BY <1>1, AtPosition, Names
<1>3. book \in Book /\ money \in Money /\ q # NoPosition
  BY <1>1, OpenAt
<1>4. money'.lock = money.lock
  BY <1>1, <1>2, <1>3, PaidMoney
<1>5. book'.pos = [book.pos EXCEPT ![p] = r]
  BY <1>1, <1>2, <1>3, RemarginedBook
<1>6. Sound(book')
  BY <1>1, <1>2, <1>3, RemarginedSound
<1>7. money.lock = [money.lock EXCEPT ![p] = money.lock[p]]
  BY <1>3 DEF Money
<1> QED
  BY <1>3, <1>4, <1>5, <1>6, <1>7, AtOneId

LEMMA DeleverageKeepsSound ==
    ASSUME IndexOK, price \in [Markets -> Prices],
           NEW b \in Book, Sound(b), NEW mo \in Money, NEW m \in Markets,
           NEW coverage \in Int, Deleverage(b, mo, m, coverage)
    PROVE  Sound(book') /\ Elsewhere(b, mo, book', money')
<1>1. CASE book' = b /\ money' = mo
  BY <1>1 DEF Elsewhere
<1>2. ASSUME NEW w \in PosIds, NEW size \in Int, NEW gain \in Int,
             b.pos[w] \in Position, CanRiskClose(b, w, size),
             book' = RiskClosed(b, w, size, price[m]),
             money' = IF gain > 0 /\ CanDraw(mo, gain)
                      THEN Drawn(mo, b.pos[w].owner, gain) ELSE mo
      PROVE  Sound(book') /\ Elsewhere(b, mo, book', money')
  <2>1. b.pos[w].owner \in Users /\ b.pos[w] # NoPosition
    BY <1>2, ExchangeConstants, PositionFields, Names
  <2>2. price[m] \in Int
    <3>1. \A x \in Prices : x \in Int
      BY ExchangeConstants
    <3> QED
      BY <3>1
  <2>3. money'.lock = mo.lock
    BY <1>2, <2>1, DrawnMoney
  <2>4. book'.pos = [b.pos EXCEPT ![w] = book'.pos[w]]
    BY <1>2, <2>2, RiskClosedBook
  <2>5. Sound(book')
    BY <1>2, <2>2, RiskClosedSound
  <2>6. mo.lock = [mo.lock EXCEPT ![w] = mo.lock[w]]
    BY DEF Money
  <2> QED
    BY <2>1, <2>3, <2>4, <2>5, <2>6, AtOneId
<1> QED
  BY <1>1, <1>2, DeleverageParts

LEMMA LiquidateSound ==
    ASSUME IInv, Sound(book), NEW k \in Keepers, NEW p \in PosIds, Liquidate(k, p)
    PROVE  Sound(book') /\ Elsewhere(book, money, book', money')
<1> DEFINE q           == book.pos[p]
           after(size) == RiskClosed(book, p, size, price[q.market])
           paid(size)  == Distributed(money, k, p, q, size)
<1>1. PICK size \in Nat \ {0} :
        /\ size <= q.size /\ CanRiskClose(book, p, size)
        /\ CanDistribute(money, k, p, q, size)
        /\ Released(q, size) \in Nat /\ Shortfall(q, size) \in Int
        /\ \/ book' = after(size) /\ money' = paid(size)
           \/ \E coverage \in Int : Deleverage(after(size), paid(size), q.market, coverage)
  BY LiquidateParts
<1>2. p \in Open
  BY DEF Liquidate
<1>3. /\ q \in Position /\ q.market \in Markets /\ q # NoPosition
      /\ price[q.market] \in Nat /\ price[q.market] \in Int
  BY <1>2, AtPosition, OpenAt
<1>4. /\ book \in Book /\ money \in Money /\ IndexOK /\ price \in [Markets -> Prices]
  BY Stores
<1> DEFINE a == after(size)
           m == paid(size)
<1>5. m \in Money /\ m.lock = [money.lock EXCEPT ![p] = @ - Released(q, size)]
  BY <1>1, <1>3, <1>4, DistributedMoney
<1>6. a \in Book /\ a.pos = [book.pos EXCEPT ![p] = a.pos[p]]
  BY <1>1, <1>3, <1>4, RiskClosedBook
<1>7. Sound(a)
  BY <1>1, <1>3, <1>4, RiskClosedSound
<1>8. \/ book' = a /\ money' = m
      \/ \E coverage \in Int : Deleverage(a, m, q.market, coverage)
  BY <1>1
<1> HIDE DEF a, m
<1>9. Elsewhere(book, money, a, m)
  BY <1>3, <1>4, <1>5, <1>6, AtOneId
<1>10. CASE book' = a /\ money' = m
  BY <1>7, <1>9, <1>10
<1>11. ASSUME NEW coverage \in Int, Deleverage(a, m, q.market, coverage)
       PROVE  Sound(book') /\ Elsewhere(book, money, book', money')
  <2>1. Sound(book') /\ Elsewhere(a, m, book', money')
    BY <1>3, <1>4, <1>5, <1>6, <1>7, <1>11, DeleverageKeepsSound
  <2> QED
    BY <1>9, <2>1 DEF Elsewhere
<1> QED
  BY <1>8, <1>10, <1>11

-----------------------------------------------------------------------------
(* The inductive invariant of the book *)

\* No future id is in use: it has no position and an empty bucket.
Fresh(b, mo, n) ==
    \A x \in PosIds : x >= n => b.pos[x] = NoPosition /\ mo.lock[x] = 0

BookInv == IInv /\ Sound(book) /\ Fresh(book, money, nextId)

LEMMA FreshKept ==
    ASSUME BookInv, Elsewhere(book, money, book', money'), nextId' = nextId
    PROVE  Fresh(book', money', nextId')
BY DEF BookInv, Fresh, Elsewhere

\* Opening takes the next id, which was free.
LEMMA OpenSound ==
    ASSUME BookInv, NEW u \in Traders, NEW m \in Markets, NEW size \in Sizes,
           NEW long \in BOOLEAN, NEW lev \in Leverages,
           OpenPosition(u, m, size, long, lev)
    PROVE  Sound(book') /\ Fresh(book', money', nextId')
<1> DEFINE p == nextId
<1>0. IInv /\ Sound(book) /\ Fresh(book, money, p)
  BY DEF BookInv
<1>1. PICK q \in Position, fee \in Nat :
        /\ q.owner = u /\ p \in PosIds /\ fee <= money.bal[u]
        /\ money' = Earned(Locked(money, u, p, q.margin), u, fee)
        /\ book' = Opened(book, p, q)
        /\ nextId' = p + 1
  BY <1>0, OpenParts
<1> DEFINE locked == Locked(money, u, p, q.margin)
<1>2. book \in Book /\ money \in Money /\ p \in Nat
  BY <1>0, Stores, Idle
<1>3. money.lock[p] \in Nat /\ q.margin \in Nat
  BY <1>1, <1>2, PositionFields DEF Money
<1>4. /\ locked \in Money /\ locked.bal = money.bal
      /\ locked.lock = [money.lock EXCEPT ![p] = @ + q.margin]
  BY <1>1, <1>2, <1>3, LockedMoney
<1> HIDE DEF locked
<1>5. money'.lock = locked.lock
  BY <1>1, <1>2, <1>4, EarnedMoney, Names DEF locked
<1>6. book' \in Book /\ book'.pos = [book.pos EXCEPT ![p] = q]
  BY <1>1, <1>2, OpenedBook
<1>7. book.pos[p] = NoPosition
  BY <1>0, <1>1, <1>2 DEF Fresh
<1>8. Sound(book')
  BY <1>0, <1>1, <1>2, <1>6, <1>7, OpenedSound
<1>9. ASSUME NEW x \in PosIds, x >= p + 1
      PROVE  book'.pos[x] = NoPosition /\ money'.lock[x] = 0
  <2>0. x \in Nat
    BY ExchangeConstants
  <2>1. x # p /\ x >= p
    BY <1>2, <1>9, <2>0
  <2>2. book.pos[x] = NoPosition /\ money.lock[x] = 0
    BY <1>0, <2>1 DEF Fresh
  <2> QED
    BY <1>2, <1>4, <1>5, <1>6, <2>1, <2>2 DEF Book, Money
<1> QED
  BY <1>1, <1>8, <1>9 DEF Fresh

\* The book stays sound and nothing happens at closed ids.
Quiet == Sound(book') /\ Elsewhere(book, money, book', money') /\ nextId' = nextId

\* Actions that leave the book and the buckets alone.
LEMMA ElsewhereSound ==
    ASSUME IInv, Sound(book), book' = book, money'.lock = money.lock, nextId' = nextId
    PROVE  Quiet
BY DEF Elsewhere, Quiet

\* Every step but the opening of a position is quiet.
LEMMA QuietStep ==
    ASSUME IInv, Sound(book), [Next]_vars
    PROVE  \/ Quiet
           \/ \E u \in Traders, m \in Markets, size \in Sizes, long \in BOOLEAN,
                 lev \in Leverages : OpenPosition(u, m, size, long, lev)
<1>1. CASE VaultStep
  <2>1. money \in Money
    BY Stores
  <2>2. book' = book /\ nextId' = nextId /\ money'.lock = money.lock
    BY <1>1, <2>1 DEF VaultStep, Deposit, Withdraw, LiquidityIn, LiquidityOut, Money
  <2> QED
    BY <2>2, ElsewhereSound
<1>2. CASE TradeStep
  <2>1. ASSUME NEW p \in PosIds, ClosePosition(p) PROVE Quiet
    BY <2>1, CloseSound DEF ClosePosition, Quiet
  <2>2. ASSUME NEW p \in PosIds, NEW d \in Amounts, AddMargin(p, d) PROVE Quiet
    BY <2>2, AddMarginSound DEF AddMargin, Quiet
  <2>3. ASSUME NEW p \in PosIds, NEW d \in Amounts, RemoveMargin(p, d) PROVE Quiet
    BY <2>3, RemoveMarginSound DEF RemoveMargin, Quiet
  <2>4. ASSUME NEW p \in PosIds, NEW size \in Sizes, PartialClose(p, size) PROVE Quiet
    BY <2>4, PartialCloseSound DEF PartialClose, Quiet
  <2> QED
    BY <1>2, <2>1, <2>2, <2>3, <2>4, Zenon DEF TradeStep
<1>3. CASE KeeperStep
  <2>1. ASSUME NEW k \in Keepers, NEW p \in PosIds, Liquidate(k, p) PROVE Quiet
    BY <2>1, LiquidateSound DEF Liquidate, Quiet
  <2>2. ASSUME NEW p \in PosIds, SettleFunding(p) PROVE Quiet
    BY <2>2, SettleFundingSound DEF SettleFunding, Quiet
  <2> QED
    BY <1>3, <2>1, <2>2, Zenon DEF KeeperStep
<1>4. CASE WorldStep
  <2>1. book' = book /\ money' = money /\ nextId' = nextId
    BY <1>4 DEF WorldStep, FundingTick, OracleMoves, CooldownEnds, SetPaused
  <2> QED
    BY <2>1, ElsewhereSound
<1>5. CASE UNCHANGED vars
  BY <1>5, ElsewhereSound DEF vars
<1> QED
  BY <1>1, <1>2, <1>3, <1>4, <1>5 DEF Next

LEMMA BookStep ==
    ASSUME BookInv, [Next]_vars
    PROVE  BookInv'
<1>1. IInv /\ Sound(book)
  BY DEF BookInv
<1>2. IInv'
  BY <1>1, StepPreserves
<1>3. Sound(book') /\ Fresh(book', money', nextId')
  BY <1>1, QuietStep, FreshKept, OpenSound DEF Quiet
<1> QED
  BY <1>2, <1>3 DEF BookInv

LEMMA BookInit == Init => BookInv
<1> SUFFICES ASSUME Init PROVE BookInv
  OBVIOUS
<1>1. IInv
  BY InitHolds
<1>2. /\ book.pos = [p \in PosIds |-> NoPosition]
      /\ book.users = [u \in Traders |-> {}]
      /\ book.oi = [m \in Markets |-> [long \in BOOLEAN |-> 0]]
      /\ book.skew = [m \in Markets |-> 0]
      /\ money.lock = [p \in PosIds |-> 0]
  BY DEF Init
<1>3. OpenIn(book) = {}
  BY <1>2 DEF OpenIn
<1>4. Listed(book)
  BY <1>2, <1>3 DEF Listed, OwnedIn
<1>5. CountedAs(book, book.pos)
  <2>1. ASSUME NEW m \in Markets, NEW long \in BOOLEAN
        PROVE  SumFunction(Weight(book.pos, m, long)) = 0
    <3>1. book.pos \in Positions
      BY <1>2 DEF Positions
    <3>2. Weight(book.pos, m, long) \in [PosIds -> Int]
      BY <3>1, WeightType
    <3>3. \A x \in PosIds : Weight(book.pos, m, long)[x] = 0
      BY <1>2 DEF Weight
    <3> QED
      BY <3>2, <3>3, SumZero, ExchangeIsFinite
  <2>2. \A m \in Markets, long \in BOOLEAN : book.oi[m][long] = 0
    BY <1>2
  <2>3. \A m \in Markets : book.skew[m] = 0
    BY <1>2
  <2>4. \A m \in Markets : book.skew[m] = book.oi[m][TRUE] - book.oi[m][FALSE]
    <3> TAKE m \in Markets
    <3>1. book.oi[m][TRUE] = 0 /\ book.oi[m][FALSE] = 0 /\ book.skew[m] = 0
      BY <2>2, <2>3, Zenon
    <3>2. 0 = 0 - 0
      OBVIOUS
    <3> QED
      BY <3>1, <3>2, Zenon
  <2>5. \A m \in Markets, long \in BOOLEAN :
          book.oi[m][long] = SumFunction(Weight(book.pos, m, long))
    BY <2>1, <2>2, Zenon
  <2> QED
    BY <2>4, <2>5, Zenon DEF CountedAs
<1>6. Fresh(book, money, nextId)
  BY <1>2 DEF Fresh
<1> QED
  BY <1>1, <1>4, <1>5, <1>6 DEF BookInv, Sound

-----------------------------------------------------------------------------
(* Theorems about the book *)

\* BookInv is an invariant of the exchange.
THEOREM BookInvariance == Spec => []BookInv
BY BookInit, BookStep, PTL DEF Spec

\* The list of a user is exactly the user's open positions, the list of a market
\* misses none, and no future id is in use, after any liquidation and ADL.
THEOREM ListsAreRight == Spec => []IndexesAgree
<1>1. BookInv => IndexesAgree
  <2> SUFFICES ASSUME BookInv PROVE IndexesAgree
    OBVIOUS
  <2>1. Listed(book) /\ Fresh(book, money, nextId) /\ nextId \in Nat
    BY Idle DEF BookInv, Sound
  <2>2. OpenIn(book) = Open /\ \A u : OwnedIn(book, u) = Of(u)
    BY DEF OpenIn, Open, OwnedIn, Of
  <2>3. ASSUME NEW p \in Open PROVE p < nextId
    <3>1. p \in PosIds /\ p \in Nat /\ book.pos[p] # NoPosition
      BY ExchangeConstants DEF Open
    <3> QED
      BY <2>1, <3>1 DEF Fresh
  <2> QED
    BY <2>1, <2>2, <2>3 DEF IndexesAgree, Listed, Fresh
<1> QED
  BY <1>1, BookInvariance, PTL

\* The sum over all ids of what they weigh is the sum over the open ones.
LEMMA ExposureIsWeight ==
    ASSUME IInv, NEW m \in Markets, NEW long \in BOOLEAN
    PROVE  Exposure(m, long) = SumFunction(Weight(book.pos, m, long))
<1> DEFINE D == {p \in Open : book.pos[p].market = m /\ book.pos[p].long = long}
           f == Weight(book.pos, m, long)
           g == [p \in D |-> book.pos[p].size]
<1>1. book.pos \in Positions
  BY Stores DEF Book, Positions
<1>2. f \in [PosIds -> Int] /\ D \in SUBSET PosIds
  BY <1>1, WeightType DEF Open
<1>3. \A x \in D : f[x] = book.pos[x].size
  BY DEF Weight, Open
<1>4. \A x \in PosIds \ D : f[x] = 0
  BY DEF Weight, Open
<1>5. Exposure(m, long) = SumFunction(g)
  BY DEF Exposure
<1> HIDE DEF D, f
<1>6. g \in [D -> Int] /\ \A x \in D : g[x] = f[x]
  BY <1>2, <1>3
<1> HIDE DEF g
<1>7. SumFunction(f) = SumFunction(g)
  BY <1>2, <1>4, <1>6, SumRestrict, ExchangeIsFinite
<1> QED
  BY <1>5, <1>7 DEF f

\* Open interest and skew are those of the open positions, so the price impact
\* and the cap on open interest see what is really open.
THEOREM CountersAreTrue == Spec => []ExposureIsOpen
<1>1. BookInv => ExposureIsOpen
  BY ExposureIsWeight DEF BookInv, Sound, CountedAs, ExposureIsOpen
<1> QED
  BY <1>1, BookInvariance, PTL

\* When a position appears, its owner has, after the fee, the margins of all
\* earlier positions and the initial margin of the new one.
THEOREM OpensAreCovered == Spec => OpenIsCollateralised
<1> DEFINE Covered(p) ==
             LET q == book'.pos[p]
             IN  q # NoPosition =>
                   money'.bal[q.owner] >=
                       MarginOf(q.owner) + InitialMargin(q.size * q.entry)
<1>1. ASSUME BookInv, [Next]_vars, NEW p \in PosIds \ Open PROVE Covered(p)
  <2>1. IInv /\ Sound(book) /\ book \in Book /\ book.pos[p] = NoPosition
    BY <1>1, Stores DEF BookInv, Open
  <2>2. CASE Quiet
    BY <2>1, <2>2 DEF Quiet, Elsewhere
  <2>3. ASSUME NEW u \in Traders, NEW m \in Markets, NEW size \in Sizes,
               NEW long \in BOOLEAN, NEW lev \in Leverages,
               OpenPosition(u, m, size, long, lev)
        PROVE  Covered(p)
    <3>1. PICK q \in Position, fee \in Nat :
            /\ q.owner = u /\ nextId \in PosIds
            /\ book' = Opened(book, nextId, q)
            /\ money'.bal[u] >= MarginOf(u) + InitialMargin(q.size * q.entry)
      BY <2>1, <2>3, OpenParts
    <3>2. book'.pos = [book.pos EXCEPT ![nextId] = q]
      BY <2>1, <3>1, OpenedBook
    <3>3. CASE p = nextId
      <4>1. book'.pos[p] = q
        BY <2>1, <3>2, <3>3 DEF Book
      <4> QED
        BY <3>1, <4>1
    <3>4. CASE p # nextId
      <4>1. book'.pos[p] = NoPosition
        BY <2>1, <3>2, <3>4 DEF Book
      <4> QED
        BY <4>1
    <3> QED
      BY <3>3, <3>4
  <2> QED
    BY <1>1, <2>1, <2>2, <2>3, QuietStep
<1>2. BookInv /\ [Next]_vars => \A p \in PosIds \ Open : Covered(p)
  BY <1>1
<1> QED
  BY <1>2, BookInvariance, PTL DEF Spec, OpenIsCollateralised

-----------------------------------------------------------------------------
(* Payments *)

\* From money mo to mt the balances keep their sum and only the traders in
\* payers may have less.
Fair(mo, mt, payers) ==
    /\ SumFunction(mt.bal) = SumFunction(mo.bal)
    /\ \A u \in Traders \ payers : mt.bal[u] >= mo.bal[u]

LEMMA AccountsFinite == IsFiniteSet(Accounts)
<1>1. IsFiniteSet(Users)
  BY ExchangeConstants, ExchangeIsFinite, FS_Union DEF Users
<1>2. IsFiniteSet({Slp, FundingPool})
  <2>1. IsFiniteSet({Slp}) /\ IsFiniteSet({FundingPool})
    BY FS_Singleton
  <2>2. {Slp, FundingPool} = {Slp} \cup {FundingPool}
    OBVIOUS
  <2> QED
    BY <2>1, <2>2, FS_Union
<1> QED
  BY <1>1, <1>2, FS_Union DEF Accounts

LEMMA FairItself ==
    ASSUME NEW mo \in Money, NEW mt, mt.bal = mo.bal, NEW payers
    PROVE  Fair(mo, mt, payers)
<1>1. \A u \in Traders : mo.bal[u] \in Nat
  BY Names DEF Money
<1>2. \A u \in Traders : mo.bal[u] >= mo.bal[u]
  BY <1>1
<1> QED
  BY <1>2 DEF Fair

LEMMA FairChain ==
    ASSUME NEW a \in Money, NEW b \in Money, NEW c \in Money, NEW payers,
           Fair(a, b, payers), Fair(b, c, payers)
    PROVE  Fair(a, c, payers)
<1>1. \A u \in Traders : a.bal[u] \in Nat /\ b.bal[u] \in Nat /\ c.bal[u] \in Nat
  BY Names DEF Money
<1> QED
  BY <1>1 DEF Fair

\* A payment keeps the sum of the balances.
LEMMA PaidSum ==
    ASSUME NEW mo \in Money, NEW from \in Accounts, NEW to \in Accounts, NEW d \in Int
    PROVE  SumFunction(Paid(mo, from, to, d).bal) = SumFunction(mo.bal)
<1> DEFINE zero == mo.bal
           one  == [zero EXCEPT ![from] = @ - d]
           two  == [one EXCEPT ![to] = @ + d]
<1>1. zero \in [Accounts -> Int]
  BY DEF Money
<1>2. Paid(mo, from, to, d).bal = two
  BY DEF Paid, Moved, Money
<1> HIDE DEF zero
<1>3. /\ one \in [Accounts -> Int] /\ one[from] - zero[from] = -d
      /\ \A x \in Accounts \ {from} : one[x] = zero[x]
  BY <1>1
<1> HIDE DEF one
<1>4. /\ two \in [Accounts -> Int] /\ two[to] - one[to] = d
      /\ \A x \in Accounts \ {to} : two[x] = one[x]
  BY <1>3
<1> HIDE DEF two
<1>5. SumFunction(one) = SumFunction(zero) + (one[from] - zero[from])
  BY <1>1, <1>3, AccountsFinite, SumChange
<1>6. SumFunction(two) = SumFunction(one) + (two[to] - one[to])
  BY <1>3, <1>4, AccountsFinite, SumChange
<1>7. SumFunction(zero) \in Int
  BY <1>1, AccountsFinite, SumFunctionType
<1>8. SumFunction(two) = SumFunction(zero)
  BY <1>3, <1>4, <1>5, <1>6, <1>7
<1> QED
  BY <1>2, <1>8 DEF zero

\* Who pays what he has charges nobody else.
LEMMA PaidFair ==
    ASSUME NEW mo \in Money, NEW from \in Accounts, NEW to \in Accounts,
           NEW d \in Nat, d <= mo.bal[from]
    PROVE  Paid(mo, from, to, d) \in Money /\ Fair(mo, Paid(mo, from, to, d), {from})
<1> DEFINE new == Paid(mo, from, to, d)
<1>0. \A a \in Accounts : mo.bal[a] \in Nat
  BY DEF Money
<1>1. d \in Int /\ -d <= mo.bal[to]
  BY <1>0
<1>2. /\ new \in Money
      /\ \A a \in Accounts \ {from, to} : new.bal[a] = mo.bal[a]
      /\ from # to => new.bal[to] = mo.bal[to] + d
  BY <1>1, PaidMoney
<1>3. SumFunction(new.bal) = SumFunction(mo.bal)
  BY <1>1, PaidSum
<1> HIDE DEF new
<1>4. ASSUME NEW u \in Traders \ {from} PROVE new.bal[u] >= mo.bal[u]
  <2>1. u \in Accounts /\ mo.bal[u] \in Nat
    BY <1>0, Names
  <2>2. CASE u = to
    BY <1>2, <2>1, <2>2
  <2>3. CASE u # to
    BY <1>2, <2>1, <2>3
  <2> QED
    BY <2>2, <2>3
<1> QED
  BY <1>2, <1>3, <1>4 DEF Fair, new

\* Funding paid or received by a trader is nobody else's.
LEMMA FundingFair ==
    ASSUME NEW mo \in Money, NEW u \in Traders, NEW pay \in Int,
           pay <= mo.bal[FundingPool], -pay <= mo.bal[u]
    PROVE  Fair(mo, Paid(mo, FundingPool, u, pay), {u})
<1> DEFINE new == Paid(mo, FundingPool, u, pay)
<1>1. FundingPool \in Accounts /\ u \in Accounts /\ FundingPool \notin Traders
      /\ Traders \subseteq Accounts
  BY Names
<1>2. \A a \in Accounts \ {FundingPool, u} : new.bal[a] = mo.bal[a]
  BY <1>1, PaidMoney
<1>3. SumFunction(new.bal) = SumFunction(mo.bal)
  BY <1>1, PaidSum
<1>4. \A v \in Traders : mo.bal[v] \in Nat
  BY <1>1 DEF Money
<1> HIDE DEF new
<1>5. \A v \in Traders \ {u} : new.bal[v] >= mo.bal[v]
  BY <1>1, <1>2, <1>4
<1> QED
  BY <1>3, <1>5 DEF Fair, new

LEMMA EarnedFair ==
    ASSUME NEW mo \in Money, NEW from \in Users, NEW d \in Nat, d <= mo.bal[from]
    PROVE  Earned(mo, from, d) \in Money /\ Fair(mo, Earned(mo, from, d), {from})
<1> DEFINE paid == Paid(mo, from, Slp, d)
<1>1. from \in Accounts /\ Slp \in Accounts
  BY Names
<1>2. paid \in Money /\ Fair(mo, paid, {from})
  BY <1>1, PaidFair
<1>3. Earned(mo, from, d) = [paid EXCEPT !.assets = @ + d]
  BY DEF Earned
<1> HIDE DEF paid
<1>4. Earned(mo, from, d).bal = paid.bal /\ Earned(mo, from, d) \in Money
  BY <1>2, <1>3 DEF Money
<1> QED
  BY <1>2, <1>4 DEF Fair

\* What the pool pays costs no trader anything.
LEMMA DrawnFair ==
    ASSUME NEW mo \in Money, NEW to \in Users, NEW d \in Nat, CanDraw(mo, d), NEW payers
    PROVE  Drawn(mo, to, d) \in Money /\ Fair(mo, Drawn(mo, to, d), payers)
<1> DEFINE paid == Paid(mo, Slp, to, d)
<1>1. to \in Accounts /\ Slp \in Accounts /\ Slp \notin Traders
  BY Names
<1>2. d <= mo.bal[Slp]
  BY DEF CanDraw
<1>3. paid \in Money /\ Fair(mo, paid, {Slp})
  BY <1>1, <1>2, PaidFair
<1>4. Drawn(mo, to, d) = [paid EXCEPT !.assets = @ - d]
  BY DEF Drawn
<1> HIDE DEF paid
<1>5. Drawn(mo, to, d).bal = paid.bal /\ Drawn(mo, to, d) \in Money
  BY <1>3, <1>4 DEF Money
<1> QED
  BY <1>1, <1>3, <1>5 DEF Fair

\* A close charges its owner only.
LEMMA SettledFair ==
    ASSUME NEW mo \in Money, NEW u \in Traders, NEW p \in PosIds,
           NEW released \in Int, NEW gross \in Int, NEW fee \in Int,
           CanSettle(mo, u, p, released, gross, fee)
    PROVE  Fair(mo, Settled(mo, u, p, released, gross, fee), {u})
<1> DEFINE cf   == ClosingFee(released, fee)
           loss == CappedLoss(released, gross, fee)
           free == Unlocked(mo, u, p, released)
           mid  == AfterFee(mo, u, p, released, fee)
           new  == Settled(mo, u, p, released, gross, fee)
<1>1. /\ CanUnlock(mo, p, released) /\ cf + loss <= mo.bal[u]
      /\ (gross > 0 => CanDraw(mid, gross))
  BY DEF CanSettle
<1>2. mo.bal[u] \in Nat /\ u \in Users
  BY Names DEF Money
<1>3. released \in Nat
  BY <1>1 DEF CanUnlock
<1>4. cf \in Nat /\ loss \in Nat
  BY <1>3, Charges
<1>5. /\ free \in Money /\ free.bal = mo.bal
      /\ free.lock = [mo.lock EXCEPT ![p] = @ - released]
  BY <1>1, UnlockedMoney
<1>6. mid = Earned(free, u, cf)
  BY DEF AfterFee
<1>7. new = IF gross > 0 THEN Drawn(mid, u, gross) ELSE Earned(mid, u, loss)
  BY DEF Settled
<1> HIDE DEF cf, loss, free, mid, new
<1>8. mid \in Money /\ Fair(free, mid, {u})
  <2>1. cf <= free.bal[u]
    BY <1>1, <1>2, <1>4, <1>5
  <2> QED
    BY <1>2, <1>4, <1>5, <1>6, <2>1, EarnedFair
<1>9. mid.bal[u] = mo.bal[u] - cf
  BY <1>1, <1>2, <1>4, <1>5, <1>6, EarnedMoney
<1>10. new \in Money /\ Fair(mid, new, {u})
  <2>1. CASE gross > 0
    <3>1. new = Drawn(mid, u, gross) /\ gross \in Nat /\ CanDraw(mid, gross)
      BY <1>1, <1>7, <2>1
    <3> QED
      BY <1>2, <1>8, <3>1, DrawnFair
  <2>2. CASE ~(gross > 0)
    <3>1. new = Earned(mid, u, loss) /\ loss <= mid.bal[u]
      BY <1>1, <1>2, <1>4, <1>7, <1>9, <2>2
    <3> QED
      BY <1>2, <1>4, <1>8, <3>1, EarnedFair
  <2> QED
    BY <2>1, <2>2
<1>11. Fair(mo, free, {u})
  BY <1>5, FairItself
<1>12. Fair(mo, mid, {u})
  BY <1>5, <1>8, <1>11, FairChain
<1> QED
  BY <1>8, <1>10, <1>12, FairChain DEF new

\* A liquidation charges the owner of the position only.
LEMMA DistributedFair ==
    ASSUME NEW mo \in Money, NEW k \in Keepers, NEW p \in PosIds,
           NEW q \in Position, NEW size \in Nat, price[q.market] \in Nat,
           Released(q, size) \in Int, Shortfall(q, size) \in Int,
           CanDistribute(mo, k, p, q, size)
    PROVE  Fair(mo, Distributed(mo, k, p, q, size), {q.owner})
<1> DEFINE u        == q.owner
           free     == Unlocked(mo, u, p, Released(q, size))
           rewarded == Rewarded(mo, k, p, q, size)
           reward   == Reward(q, size)
           toPool   == Penalty(q, size) - Reward(q, size)
           paid     == Earned(rewarded, u, toPool)
           new      == Distributed(mo, k, p, q, size)
<1>1. /\ CanUnlock(mo, p, Released(q, size))
      /\ reward <= mo.bal[u] /\ toPool <= rewarded.bal[u]
  BY DEF CanDistribute
<1>2. /\ u \in Traders /\ u \in Users /\ u \in Accounts /\ k \in Accounts
  BY Names, PositionFields DEF Users
<1>3. reward \in Nat /\ toPool \in Nat
  BY PenaltyParts
<1>4. /\ free \in Money /\ free.bal = mo.bal
      /\ free.lock = [mo.lock EXCEPT ![p] = @ - Released(q, size)]
  BY <1>1, <1>2, UnlockedMoney
<1>5. rewarded = Paid(free, u, k, reward)
  BY DEF Rewarded
<1>6. new = [paid EXCEPT !.assets = @ - Most(Shortfall(q, size), 0)]
  BY DEF Distributed
<1>7. Most(Shortfall(q, size), 0) \in Int
  BY DEF Most
<1> DEFINE loss == Most(Shortfall(q, size), 0)
<1> HIDE DEF free, rewarded, reward, toPool, paid, new, loss
<1>8. rewarded \in Money /\ Fair(free, rewarded, {u})
  BY <1>1, <1>2, <1>3, <1>4, <1>5, PaidFair
<1>9. paid \in Money /\ Fair(rewarded, paid, {u})
  BY <1>1, <1>2, <1>3, <1>8, EarnedFair DEF paid
<1>10. new \in Money /\ new.bal = paid.bal
  BY <1>6, <1>7, <1>9 DEF Money, loss
<1>11. Fair(mo, free, {u}) /\ Fair(paid, new, {u})
  BY <1>4, <1>9, <1>10, FairItself
<1>12. Fair(mo, rewarded, {u})
  BY <1>4, <1>8, <1>11, FairChain
<1>13. Fair(mo, paid, {u})
  BY <1>8, <1>9, <1>12, FairChain
<1> QED
  BY <1>9, <1>10, <1>11, <1>13, FairChain DEF new

-----------------------------------------------------------------------------
(* What changes hands in a step *)

\* Some position of u changed.
Answers(u) ==
    \E p \in PosIds : /\ book'.pos[p] # book.pos[p]
                      /\ \E b \in {book, book'} : p \in b.users[u]

\* Money only moves, and from nobody who has no part in it.
Moves ==
    /\ held' = held /\ SumFunction(money'.bal) = SumFunction(money.bal)
    /\ \A u \in Traders : money'.bal[u] < money.bal[u] => Answers(u)

LEMMA FairMoves ==
    ASSUME money \in Money, money' \in Money, NEW u \in Traders, Fair(money, money', {u}),
           Answers(u), held' = held
    PROVE  Moves
<1>1. \A v \in Traders : money.bal[v] \in Nat /\ money'.bal[v] \in Nat
  BY Names DEF Money
<1> QED
  BY <1>1 DEF Fair, Moves

LEMMA FreeMoves ==
    ASSUME money \in Money, money' \in Money, Fair(money, money', {}), held' = held
    PROVE  Moves
<1>1. \A v \in Traders : money.bal[v] \in Nat /\ money'.bal[v] \in Nat
  BY Names DEF Money
<1> QED
  BY <1>1 DEF Fair, Moves

LEMMA SameMoves ==
    ASSUME money \in Money, money' \in Money, money'.bal = money.bal, held' = held
    PROVE  Moves
BY FairItself, FreeMoves

\* The owner of an open position that changed has a part in it.
LEMMA OwnerAnswers ==
    ASSUME BookInv, NEW p \in Open, book'.pos[p] # book.pos[p]
    PROVE  Answers(book.pos[p].owner)
<1>1. /\ p \in PosIds /\ book.pos[p].owner \in Traders
      /\ p \in OwnedIn(book, book.pos[p].owner)
  BY AtPosition DEF BookInv, OwnedIn, OpenIn, Open
<1>2. p \in book.users[book.pos[p].owner]
  BY <1>1 DEF BookInv, Sound, Listed
<1> QED
  BY <1>1, <1>2 DEF Answers

LEMMA OpenMoves ==
    ASSUME BookInv, NEW u \in Traders, NEW m \in Markets, NEW size \in Sizes,
           NEW long \in BOOLEAN, NEW lev \in Leverages,
           OpenPosition(u, m, size, long, lev)
    PROVE  Moves
<1> DEFINE p == nextId
<1>0. IInv /\ Fresh(book, money, p) /\ book \in Book /\ money \in Money /\ p \in Nat
  BY Stores, Idle DEF BookInv
<1>1. PICK q \in Position, fee \in Nat :
        /\ q.owner = u /\ p \in PosIds /\ fee <= money.bal[u]
        /\ money' = Earned(Locked(money, u, p, q.margin), u, fee)
        /\ book' = Opened(book, p, q)
        /\ UNCHANGED held
  BY <1>0, OpenParts
<1> DEFINE locked == Locked(money, u, p, q.margin)
<1>2. q.margin \in Int /\ money.lock[p] + q.margin >= 0 /\ u \in Users
  <2>1. money.lock[p] \in Nat /\ q.margin \in Nat
    BY <1>0, <1>1, PositionFields DEF Money
  <2> QED
    BY <2>1, Names
<1>3. /\ locked \in Money /\ locked.bal = money.bal
      /\ locked.lock = [money.lock EXCEPT ![p] = @ + q.margin]
  BY <1>0, <1>1, <1>2, LockedMoney
<1>4. money' \in Money /\ Fair(locked, money', {u})
  BY <1>1, <1>2, <1>3, EarnedFair
<1>5. Fair(money, money', {u})
  BY <1>3, <1>4 DEF Fair
<1>6. Answers(u)
  <2>1. /\ book'.pos = [book.pos EXCEPT ![p] = q] /\ book' \in Book
    BY <1>0, <1>1, OpenedBook
  <2>2. book.pos[p] = NoPosition /\ book'.pos[p] = q /\ q # NoPosition
    BY <1>0, <1>1, <2>1, ExchangeConstants DEF Fresh, Book
  <2>3. Sound(book')
    BY <1>1, OpenSound
  <2>4. p \in OwnedIn(book', u)
    BY <1>1, <2>2 DEF OwnedIn, OpenIn
  <2>5. p \in book'.users[u]
    BY <2>3, <2>4 DEF Sound, Listed
  <2> QED
    BY <1>1, <2>2, <2>5 DEF Answers
<1> QED
  BY <1>0, <1>1, <1>4, <1>5, <1>6, FairMoves

LEMMA CloseMoves ==
    ASSUME BookInv, NEW p \in PosIds, ClosePosition(p)
    PROVE  Moves
<1> DEFINE q == book.pos[p]
<1>0. IInv /\ IInv'
  BY ClosePreserves DEF BookInv
<1>1. PICK gross \in Int, fee \in Int :
        /\ p \in Open /\ CanSettle(money, q.owner, p, q.margin, gross, fee)
        /\ money' = Settled(money, q.owner, p, q.margin, gross, fee)
        /\ book' = Removed(book, p)
        /\ UNCHANGED held
  BY <1>0, CloseParts
<1>2. q \in Position /\ q.owner \in Traders /\ q.margin \in Int
  BY <1>0, <1>1, AtPosition
<1>3. book \in Book /\ money \in Money /\ money' \in Money /\ q # NoPosition
  BY <1>0, <1>1, OpenAt DEF IInv, TypeOK
<1>4. Fair(money, money', {q.owner})
  BY <1>1, <1>2, <1>3, SettledFair
<1>5. book'.pos[p] # q
  <2>1. book'.pos = [book.pos EXCEPT ![p] = NoPosition]
    BY <1>1, <1>2, <1>3, RemovedBook
  <2> QED
    BY <1>3, <2>1 DEF Book
<1> QED
  BY <1>1, <1>2, <1>3, <1>4, <1>5, OwnerAnswers, FairMoves

LEMMA PartialCloseMoves ==
    ASSUME BookInv, NEW p \in PosIds, NEW size \in Sizes, PartialClose(p, size)
    PROVE  Moves
<1> DEFINE q        == book.pos[p]
           released == Released(q, size)
           r        == Rest(q, size, price[q.market])
<1>0. IInv /\ IInv'
  BY PartialClosePreserves DEF BookInv
<1>1. PICK gross \in Int, fee \in Int :
        /\ p \in Open /\ size \in Nat \ {0} /\ size < q.size
        /\ released \in Nat /\ q.margin - released > 0
        /\ CanSettle(money, q.owner, p, released, gross, fee)
        /\ money' = Settled(money, q.owner, p, released, gross, fee)
        /\ book' = Reduced(book, p, size, price[q.market])
        /\ UNCHANGED held
  BY <1>0, PartialCloseParts
<1>2. q \in Position /\ q.owner \in Traders /\ price[q.market] \in Int /\ q.size \in Nat
  BY <1>0, <1>1, AtPosition
<1>3. book \in Book /\ money \in Money /\ money' \in Money /\ IndexOK
  BY <1>0, <1>1, OpenAt DEF IInv, TypeOK
<1>5. book'.pos[p] # q
  <2>1. book'.pos = [book.pos EXCEPT ![p] = r]
    BY <1>1, <1>2, <1>3, ReducedBook
  <2>2. r.size = q.size - size
    BY <1>1, <1>2, RestParts
  <2>3. r # q
    BY <1>1, <1>2, <2>2
  <2> HIDE DEF r
  <2> QED
    BY <1>3, <2>1, <2>3 DEF Book
<1> HIDE DEF released, r
<1>4. Fair(money, money', {q.owner})
  BY <1>1, <1>2, <1>3, SettledFair
<1> QED
  BY <1>1, <1>2, <1>3, <1>4, <1>5, OwnerAnswers, FairMoves

\* Moving margin touches no balance.
LEMMA MarginMoves ==
    ASSUME BookInv, NEW p \in PosIds, NEW d \in Amounts,
           AddMargin(p, d) \/ RemoveMargin(p, d)
    PROVE  Moves
<1>0. IInv /\ IInv'
  BY AddMarginPreserves, RemoveMarginPreserves DEF BookInv
<1>1. money \in Money /\ money' \in Money
  BY <1>0 DEF IInv, TypeOK
<1>2. money'.bal = money.bal /\ held' = held
  BY <1>1 DEF AddMargin, RemoveMargin, Unlocked, Locked, Money
<1> QED
  BY <1>1, <1>2, SameMoves

LEMMA SettleFundingMoves ==
    ASSUME BookInv, NEW p \in PosIds, SettleFunding(p)
    PROVE  Moves
<1> DEFINE q == book.pos[p]
<1>0. IInv /\ IInv'
  BY SettleFundingPreserves DEF BookInv
<1>1. PICK r \in Position, pay \in Int :
        /\ p \in Open /\ pay = FundingPnl(q, q.size)
        /\ pay <= money.bal[FundingPool] /\ -pay <= money.bal[q.owner]
        /\ r.fidx = index[q.market][q.long]
        /\ money' = Paid(money, FundingPool, q.owner, pay)
        /\ book' = [book EXCEPT !.pos = [book.pos EXCEPT ![p] = r]]
        /\ UNCHANGED held
  BY <1>0, SettleFundingParts
<1>2. /\ q \in Position /\ q.owner \in Traders /\ q.size \in Int
      /\ q.market \in Markets /\ q.long \in BOOLEAN
  BY <1>0, <1>1, AtPosition
<1>3. book \in Book /\ money \in Money /\ money' \in Money /\ IndexOK
  BY <1>0, <1>1, OpenAt DEF IInv, TypeOK
<1>4. Fair(money, money', {q.owner})
  BY <1>1, <1>2, <1>3, FundingFair
<1>5. CASE r = q
  <2>1. index[q.market][q.long] \in Int
    BY <1>2, <1>3 DEF IndexOK
  <2>2. pay = -((index[q.market][q.long] - q.fidx) * q.size)
    BY <1>1 DEF FundingPnl
  <2>3. q.fidx = index[q.market][q.long]
    BY <1>1, <1>5
  <2>4. pay = 0
    <3>1. index[q.market][q.long] - q.fidx = 0
      BY <2>1, <2>3
    <3>2. 0 * q.size = 0
      BY <1>2
    <3> QED
      BY <2>2, <3>1, <3>2
  <2>5. FundingPool \in Accounts /\ q.owner \in Accounts /\ FundingPool # q.owner
    BY <1>2, Names
  <2>6. ASSUME NEW u \in Traders PROVE money'.bal[u] >= money.bal[u]
    <3>1. u \in Accounts /\ money.bal[u] \in Nat /\ u # FundingPool
      BY <1>3, Names DEF Money
    <3>2. CASE u = q.owner
      <4>1. money'.bal[u] = money.bal[u] + 0
        BY <1>1, <1>3, <2>4, <2>5, <3>2, PaidMoney
      <4> QED
        BY <3>1, <4>1
    <3>3. CASE u # q.owner
      BY <1>4, <3>3 DEF Fair
    <3> QED
      BY <3>2, <3>3
  <2>7. Fair(money, money', {})
    BY <1>4, <2>6 DEF Fair
  <2> QED
    BY <1>1, <1>3, <2>7, FreeMoves
<1>6. CASE r # q
  <2>1. book'.pos = [book.pos EXCEPT ![p] = r]
    BY <1>1, <1>2, <1>3, RemarginedBook
  <2>2. book'.pos[p] # q
    BY <1>3, <1>6, <2>1 DEF Book
  <2> QED
    BY <1>1, <1>2, <1>3, <1>4, <2>2, OwnerAnswers, FairMoves
<1> QED
  BY <1>5, <1>6

\* A forced close leaves nothing or less.
Shrunk(b, c, p) ==
    \/ c.pos[p] = NoPosition
    \/ c.pos[p] # NoPosition /\ b.pos[p] \in Position /\ c.pos[p].size < b.pos[p].size

LEMMA RiskClosedShrinks ==
    ASSUME IndexOK, NEW b \in Book, NEW p \in PosIds, b.pos[p] \in Position,
           NEW size \in Int, CanRiskClose(b, p, size), NEW at \in Int
    PROVE  Shrunk(b, RiskClosed(b, p, size, at), p)
<1> DEFINE q == b.pos[p]
           c == RiskClosed(b, p, size, at)
<1>1. size \in Nat \ {0} /\ size <= q.size /\ q.size \in Nat /\ q.market \in Markets
      /\ (size < q.size => q.margin - Released(q, size) > 0)
  BY PositionFields DEF CanRiskClose
<1>2. CASE size = q.size
  <2> DEFINE r == Removed(b, p)
  <2>1. r \in Book /\ r.pos = [b.pos EXCEPT ![p] = NoPosition]
    BY RemovedBook
  <2>2. c = [r EXCEPT !.markets[q.market] = @ \ {p}]
    BY <1>2 DEF RiskClosed
  <2> HIDE DEF r, c
  <2>3. c.pos[p] = NoPosition
    BY <2>1, <2>2 DEF Book
  <2> QED
    BY <2>3 DEF Shrunk, c
<1>3. CASE size # q.size
  <2>1. size < q.size
    BY <1>1, <1>3
  <2>2. c = Reduced(b, p, size, at)
    BY <1>3 DEF RiskClosed
  <2> DEFINE r == Rest(q, size, at)
  <2>3. c.pos = [b.pos EXCEPT ![p] = r]
    BY <1>1, <2>1, <2>2, ReducedBook
  <2>4. r.size = q.size - size
    BY <1>1, RestParts
  <2>5. r \in Position
    BY <1>1, <2>1, RestPosition
  <2> HIDE DEF r, c
  <2>6. c.pos[p] = r /\ r # NoPosition
    BY <2>3, <2>5, ExchangeConstants DEF Book
  <2>7. r.size < q.size
    BY <1>1, <2>4
  <2> QED
    BY <2>6, <2>7 DEF Shrunk, c
<1> QED
  BY <1>2, <1>3

LEMMA DeleverageFair ==
    ASSUME IndexOK, price \in [Markets -> Prices],
           NEW b \in Book, NEW mo \in Money, NEW m \in Markets,
           NEW coverage \in Int, Deleverage(b, mo, m, coverage)
    PROVE  /\ Fair(mo, money', {})
           /\ \A p \in PosIds : book'.pos[p] = b.pos[p] \/ Shrunk(b, book', p)
<1>1. CASE book' = b /\ money' = mo
  BY <1>1, FairItself
<1>2. ASSUME NEW w \in PosIds, NEW size \in Int, NEW gain \in Int,
             b.pos[w] \in Position, CanRiskClose(b, w, size),
             book' = RiskClosed(b, w, size, price[m]),
             money' = IF gain > 0 /\ CanDraw(mo, gain)
                      THEN Drawn(mo, b.pos[w].owner, gain) ELSE mo
      PROVE  /\ Fair(mo, money', {})
             /\ \A p \in PosIds : book'.pos[p] = b.pos[p] \/ Shrunk(b, book', p)
  <2>1. b.pos[w].owner \in Users
    BY <1>2, PositionFields, Names
  <2>2. price[m] \in Int
    <3>1. \A x \in Prices : x \in Int
      BY ExchangeConstants
    <3> QED
      BY <3>1
  <2>3. Fair(mo, money', {})
    <3>1. CASE gain > 0 /\ CanDraw(mo, gain)
      BY <1>2, <2>1, <3>1, DrawnFair
    <3>2. CASE ~(gain > 0 /\ CanDraw(mo, gain))
      BY <1>2, <3>2, FairItself
    <3> QED
      BY <3>1, <3>2
  <2>4. book'.pos = [b.pos EXCEPT ![w] = book'.pos[w]]
    BY <1>2, <2>2, RiskClosedBook
  <2>5. Shrunk(b, book', w)
    BY <1>2, <2>2, RiskClosedShrinks
  <2>6. \A p \in PosIds \ {w} : book'.pos[p] = b.pos[p]
    BY <2>4 DEF Book
  <2> QED
    BY <2>3, <2>5, <2>6
<1> QED
  BY <1>1, <1>2, DeleverageParts

\* A liquidation charges the owner, and leaves nothing or less of the position.
LEMMA LiquidateEffect ==
    ASSUME BookInv, NEW k \in Keepers, NEW p \in PosIds, Liquidate(k, p)
    PROVE  /\ Fair(money, money', {book.pos[p].owner})
           /\ book'.pos[p] = NoPosition \/ book'.pos[p].size < book.pos[p].size
<1> DEFINE q           == book.pos[p]
           after(size) == RiskClosed(book, p, size, price[q.market])
           paid(size)  == Distributed(money, k, p, q, size)
<1>0. IInv /\ IInv'
  BY LiquidatePreserves DEF BookInv
<1>1. PICK size \in Nat \ {0} :
        /\ size <= q.size /\ CanRiskClose(book, p, size)
        /\ CanDistribute(money, k, p, q, size)
        /\ Released(q, size) \in Nat /\ Shortfall(q, size) \in Int
        /\ \/ book' = after(size) /\ money' = paid(size)
           \/ \E coverage \in Int : Deleverage(after(size), paid(size), q.market, coverage)
  BY <1>0, LiquidateParts
<1>2. p \in Open /\ held' = held
  BY DEF Liquidate
<1>3. /\ q \in Position /\ q.market \in Markets /\ q # NoPosition
      /\ price[q.market] \in Nat /\ price[q.market] \in Int /\ q.owner \in Traders
      /\ q.size \in Nat
  BY <1>0, <1>2, AtPosition, OpenAt
<1>4. /\ book \in Book /\ money \in Money /\ money' \in Money
      /\ IndexOK /\ price \in [Markets -> Prices]
  BY <1>0, Stores DEF IInv, TypeOK
<1> DEFINE a == after(size)
           m == paid(size)
<1>5. m \in Money /\ m.lock = [money.lock EXCEPT ![p] = @ - Released(q, size)]
  BY <1>1, <1>3, <1>4, DistributedMoney
<1>6. Fair(money, m, {q.owner})
  BY <1>1, <1>3, <1>4, DistributedFair
<1>7. a \in Book /\ a.pos = [book.pos EXCEPT ![p] = a.pos[p]]
  BY <1>1, <1>3, <1>4, RiskClosedBook
<1>8. Shrunk(book, a, p)
  BY <1>1, <1>3, <1>4, RiskClosedShrinks
<1>9. \/ book' = a /\ money' = m
      \/ \E coverage \in Int : Deleverage(a, m, q.market, coverage)
  BY <1>1
<1> HIDE DEF a, m
<1>10. /\ Fair(m, money', {q.owner})
       /\ book'.pos[p] = a.pos[p] \/ Shrunk(a, book', p)
  <2>1. CASE book' = a /\ money' = m
    BY <1>5, <2>1, FairItself
  <2>2. ASSUME NEW coverage \in Int, Deleverage(a, m, q.market, coverage)
        PROVE  /\ Fair(m, money', {q.owner})
               /\ book'.pos[p] = a.pos[p] \/ Shrunk(a, book', p)
    BY <1>3, <1>4, <1>5, <1>7, <2>2, DeleverageFair DEF Fair
  <2> QED
    BY <1>9, <2>1, <2>2
<1>11. Fair(money, money', {q.owner})
  BY <1>4, <1>5, <1>6, <1>10, FairChain
<1>12. book'.pos[p] = NoPosition \/ book'.pos[p].size < q.size
  <2>1. \A x \in Position : x.size \in Nat
    BY PositionFields
  <2>2. a.pos[p] \in Position \cup {NoPosition} /\ book'.pos[p] \in Position \cup {NoPosition}
    BY <1>0, <1>7 DEF Book, IInv, TypeOK
  <2> DEFINE x == a.pos[p]
             y == book'.pos[p]
  <2>3. x = NoPosition \/ (x \in Position /\ x.size < q.size)
    BY <1>8, <2>2 DEF Shrunk
  <2>4. \/ y = x \/ y = NoPosition
        \/ y \in Position /\ x \in Position /\ y.size < x.size
    BY <1>10, <2>2 DEF Shrunk
  <2> HIDE DEF x, y
  <2>5. x \in Position => x # NoPosition
    BY ExchangeConstants
  <2>6. y = NoPosition \/ y.size < q.size
    <3>1. x \in Position => x.size \in Nat
      BY <2>1
    <3>2. y \in Position => y.size \in Nat
      BY <2>1
    <3> QED
      BY <1>3, <2>3, <2>4, <2>5, <3>1, <3>2
  <2> QED
    BY <2>6 DEF y
<1> QED
  BY <1>11, <1>12

LEMMA LiquidateMoves ==
    ASSUME BookInv, NEW k \in Keepers, NEW p \in PosIds, Liquidate(k, p)
    PROVE  Moves
<1> DEFINE q == book.pos[p]
<1>1. /\ Fair(money, money', {q.owner})
      /\ book'.pos[p] = NoPosition \/ book'.pos[p].size < q.size
  BY LiquidateEffect
<1>2. IInv /\ IInv' /\ p \in Open /\ held' = held
  BY LiquidatePreserves DEF BookInv, Liquidate
<1>3. money \in Money /\ money' \in Money
  BY <1>2 DEF IInv, TypeOK
<1>4. q.owner \in Traders /\ q.size \in Nat /\ q # NoPosition
  BY <1>2, AtPosition, OpenAt
<1>5. book'.pos[p] # q
  BY <1>1, <1>4
<1> QED
  BY <1>1, <1>2, <1>3, <1>4, <1>5, OwnerAnswers, FairMoves

-----------------------------------------------------------------------------
(* Balances and the tokens of the vault *)

\* A deposit or a withdrawal changes one balance and the tokens alike.
LEMMA Shifted ==
    ASSUME money \in Money, Conservation, held \in Nat, NEW a \in Accounts, NEW x \in Int,
           money'.bal = [money.bal EXCEPT ![a] = @ + x], held' = held + x
    PROVE  Conservation'
<1> DEFINE old == money.bal
           new == money'.bal
<1>1. old \in [Accounts -> Int] /\ SumFunction(old) = held
  BY DEF Money, Conservation
<1>2. new = [old EXCEPT ![a] = @ + x]
  OBVIOUS
<1> HIDE DEF old, new
<1>3. /\ new \in [Accounts -> Int] /\ new[a] - old[a] = x
      /\ \A y \in Accounts \ {a} : new[y] = old[y]
  BY <1>1, <1>2
<1>4. SumFunction(new) = SumFunction(old) + (new[a] - old[a])
  BY <1>1, <1>3, AccountsFinite, SumChange
<1>5. SumFunction(new) = held + x
  BY <1>1, <1>3, <1>4
<1> QED
  BY <1>5 DEF Conservation, new

\* Deposits and withdrawals keep the sum, and a balance of a trader falls only
\* together with the tokens.
LEMMA VaultMoves ==
    ASSUME BookInv, Conservation, VaultStep
    PROVE  /\ Conservation'
           /\ \A u \in Traders : money'.bal[u] < money.bal[u] => held' # held
<1>1. money \in Money /\ held \in Nat /\ money.bal \in [Accounts -> Nat]
  BY Stores, Idle DEF BookInv, Money
<1>2. \A u \in Traders : u \in Accounts /\ money.bal[u] \in Nat /\ u # Slp
  BY <1>1, Names
<1>3. Slp \in Accounts /\ \A d \in Amounts : d \in Nat
  BY Names, ExchangeConstants
<1>4. ASSUME NEW u \in Traders, NEW d \in Amounts, Deposit(u, d)
      PROVE  /\ Conservation'
             /\ \A v \in Traders : money'.bal[v] < money.bal[v] => held' # held
  <2>1. d \in Nat /\ u \in Accounts /\ held' = held + d
        /\ money'.bal = [money.bal EXCEPT ![u] = @ + d]
    BY <1>1, <1>2, <1>3, <1>4 DEF Deposit, Money
  <2>2. Conservation'
    BY <1>1, <2>1, Shifted
  <2>3. \A v \in Traders : ~(money'.bal[v] < money.bal[v])
    BY <1>1, <1>2, <2>1
  <2> QED
    BY <2>2, <2>3
<1>5. ASSUME NEW u \in Traders, NEW d \in Amounts, Withdraw(u, d)
      PROVE  Conservation' /\ held' # held
  <2>1. d \in Nat \ {0} /\ u \in Accounts /\ held' = held - d
        /\ money'.bal = [money.bal EXCEPT ![u] = @ - d]
    BY <1>1, <1>2, <1>3, <1>5 DEF Withdraw, Money
  <2>2. /\ -d \in Int /\ held' = held + (-d)
        /\ money'.bal = [money.bal EXCEPT ![u] = @ + (-d)]
    BY <1>1, <2>1
  <2>3. Conservation'
    BY <1>1, <2>1, <2>2, Shifted
  <2> QED
    BY <1>1, <2>1, <2>3
<1>6. ASSUME NEW d \in Amounts, LiquidityIn(d)
      PROVE  Conservation' /\ held' # held
  <2>1. d \in Nat \ {0} /\ held' = held + d
        /\ money'.bal = [money.bal EXCEPT ![Slp] = @ + d]
    BY <1>1, <1>3, <1>6 DEF LiquidityIn, Money
  <2>2. Conservation'
    BY <1>1, <1>3, <2>1, Shifted
  <2> QED
    BY <1>1, <2>1, <2>2
<1>7. ASSUME NEW worth \in Amounts, NEW d \in Amounts, LiquidityOut(worth, d)
      PROVE  Conservation' /\ held' # held
  <2>1. d \in Nat \ {0} /\ held' = held - d
        /\ money'.bal = [money.bal EXCEPT ![Slp] = @ - d]
    BY <1>1, <1>3, <1>7 DEF LiquidityOut, Money
  <2>2. /\ -d \in Int /\ held' = held + (-d)
        /\ money'.bal = [money.bal EXCEPT ![Slp] = @ + (-d)]
    BY <1>1, <1>3, <2>1
  <2>3. Conservation'
    BY <1>1, <1>3, <2>2, Shifted
  <2> QED
    BY <1>1, <2>1, <2>3
<1> QED
  BY <1>4, <1>5, <1>6, <1>7 DEF VaultStep

\* A step that is no deposit or withdrawal only moves money.
LEMMA MovesStep ==
    ASSUME BookInv, [Next]_vars
    PROVE  VaultStep \/ Moves
<1>1. IInv /\ money \in Money
  BY Stores DEF BookInv
<1>2. IInv' /\ money' \in Money
  <2>1. IInv'
    BY <1>1, StepPreserves
  <2> QED
    BY <2>1 DEF IInv, TypeOK
<1>3. CASE TradeStep
  <2>1. ASSUME NEW p \in PosIds, NEW d \in Amounts, AddMargin(p, d) PROVE Moves
    BY <2>1, MarginMoves
  <2>2. ASSUME NEW p \in PosIds, NEW d \in Amounts, RemoveMargin(p, d) PROVE Moves
    BY <2>2, MarginMoves
  <2> QED
    BY <1>3, <2>1, <2>2, OpenMoves, CloseMoves, PartialCloseMoves, Zenon DEF TradeStep
<1>4. CASE KeeperStep
  BY <1>4, LiquidateMoves, SettleFundingMoves DEF KeeperStep
<1>5. CASE WorldStep
  <2>1. money' = money /\ held' = held
    BY <1>5 DEF WorldStep, FundingTick, OracleMoves, CooldownEnds, SetPaused
  <2> QED
    BY <1>1, <1>2, <2>1, SameMoves
<1>6. CASE UNCHANGED vars
  BY <1>1, <1>2, <1>6, SameMoves DEF vars
<1> QED
  BY <1>3, <1>4, <1>5, <1>6 DEF Next

LEMMA MoneyInit == Init => Conservation
<1> SUFFICES ASSUME Init PROVE Conservation
  OBVIOUS
<1> DEFINE f == [a \in Accounts |-> IF a \in Traders THEN Stake ELSE 0]
           g == [u \in Traders |-> Stake]
           h == money.bal
<1>1. /\ h = [a \in Accounts |-> IF a = Slp THEN Seed
                                 ELSE IF a \in Traders THEN Stake ELSE 0]
      /\ held = Seed + Stake * Cardinality(Traders)
  BY DEF Init
<1>2. Stake \in Int /\ Seed \in Int /\ Traders \in SUBSET Accounts
      /\ Slp \in Accounts /\ Slp \notin Traders /\ IsFiniteSet(Traders)
  BY Names, ExchangeConstants
<1>3. f \in [Accounts -> Int] /\ g \in [Traders -> Int] /\ h \in [Accounts -> Int]
  BY <1>1, <1>2
<1>4. /\ \A x \in Traders : g[x] = f[x] /\ g[x] = Stake
      /\ \A x \in Accounts \ Traders : f[x] = 0
  BY <1>2
<1>5. h[Slp] = Seed /\ f[Slp] = 0 /\ \A x \in Accounts \ {Slp} : h[x] = f[x]
  BY <1>1, <1>2
<1> HIDE DEF f, g, h
<1>6. SumFunction(f) = SumFunction(g)
  BY <1>2, <1>3, <1>4, AccountsFinite, SumRestrict
<1>7. SumFunction(g) = Stake * Cardinality(Traders)
  BY <1>2, <1>3, <1>4, SumConstant
<1>8. SumFunction(h) = SumFunction(f) + (h[Slp] - f[Slp])
  BY <1>2, <1>3, <1>5, AccountsFinite, SumChange
<1>9. SumFunction(f) \in Int
  BY <1>3, AccountsFinite, SumFunctionType
<1>10. SumFunction(h) = SumFunction(f) + Seed
  BY <1>2, <1>5, <1>8
<1>11. SumFunction(h) = Seed + SumFunction(f)
  BY <1>2, <1>9, <1>10
<1> QED
  BY <1>1, <1>6, <1>7, <1>11 DEF Conservation, h

-----------------------------------------------------------------------------
(* Theorems about the money *)

MoneyInv == BookInv /\ Conservation

\* MoneyInv is an invariant of the exchange.
THEOREM MoneyInvariance == Spec => []MoneyInv
<1>1. Init => MoneyInv
  BY BookInit, MoneyInit DEF MoneyInv
<1>2. MoneyInv /\ [Next]_vars => MoneyInv'
  <2> SUFFICES ASSUME MoneyInv, [Next]_vars PROVE MoneyInv'
    OBVIOUS
  <2>1. BookInv /\ Conservation
    BY DEF MoneyInv
  <2>2. BookInv'
    BY <2>1, BookStep
  <2>3. CASE VaultStep
    BY <2>1, <2>2, <2>3, VaultMoves DEF MoneyInv
  <2>4. CASE Moves
    BY <2>1, <2>2, <2>4 DEF MoneyInv, Moves, Conservation
  <2> QED
    BY <2>1, <2>3, <2>4, MovesStep
<1> QED
  BY <1>1, <1>2, PTL DEF Spec

\* Whatever trades, liquidations, deleveraging and funding do, the balances of
\* all accounts add up to the tokens the vault holds.
THEOREM MoneyConserved == Spec => []Conservation
<1>1. MoneyInv => Conservation
  BY DEF MoneyInv
<1> QED
  BY <1>1, MoneyInvariance, PTL

\* A trader's balance falls only by the trader's own withdrawal or in a call that
\* changes one of the trader's own positions: no liquidation, deleveraging or
\* funding payment of another reaches it.
THEOREM OthersNeverPay == Spec => NobodyElsePays
<1> DEFINE Own(u) ==
             (money'.bal[u] < money.bal[u] /\ held' = held) =>
                 \E p \in PosIds : /\ book'.pos[p] # book.pos[p]
                                   /\ \E b \in {book, book'} : p \in b.users[u]
<1>1. MoneyInv /\ [Next]_vars => \A u \in Traders : Own(u)
  <2> SUFFICES ASSUME MoneyInv, [Next]_vars, NEW u \in Traders PROVE Own(u)
    OBVIOUS
  <2>1. BookInv /\ Conservation
    BY DEF MoneyInv
  <2>2. CASE VaultStep
    BY <2>1, <2>2, VaultMoves
  <2>3. CASE Moves
    BY <2>3 DEF Moves, Answers
  <2> QED
    BY <2>1, <2>2, <2>3, MovesStep
<1> QED
  BY <1>1, MoneyInvariance, PTL DEF Spec, NobodyElsePays

-----------------------------------------------------------------------------
(* Funding due *)

FundingIn(ix, q) == -((ix[q.market][q.long] - q.fidx) * q.size)

\* What every id of book b owes its owner u at the funding index ix.
Due(b, ix, u) ==
    [p \in PosIds |-> IF b.pos[p] # NoPosition /\ b.pos[p].owner = u
                      THEN FundingIn(ix, b.pos[p]) ELSE 0]

AccruedIn(b, mo, ix, u) == mo.bal[u] + SumFunction(Due(b, ix, u))

OwnDue(b, ix, u) == [p \in OwnedIn(b, u) |-> FundingIn(ix, b.pos[p])]

LEMMA FundingInInt ==
    ASSUME NEW ix \in [Markets -> [BOOLEAN -> Int]], NEW q \in Position
    PROVE  FundingIn(ix, q) \in Int
<1>1. q.market \in Markets /\ q.long \in BOOLEAN /\ q.fidx \in Int /\ q.size \in Int
  BY PositionFields
<1>2. ix[q.market][q.long] \in Int
  BY <1>1
<1>3. (ix[q.market][q.long] - q.fidx) * q.size \in Int
  BY <1>1, <1>2, TimesInt
<1> QED
  BY <1>3 DEF FundingIn

LEMMA DueType ==
    ASSUME NEW b \in Book, NEW ix \in [Markets -> [BOOLEAN -> Int]], NEW u
    PROVE  Due(b, ix, u) \in [PosIds -> Int]
<1>1. ASSUME NEW p \in PosIds, b.pos[p] # NoPosition PROVE FundingIn(ix, b.pos[p]) \in Int
  BY <1>1, FundingInInt DEF Book
<1> QED
  BY <1>1 DEF Due

\* The ids of others owe u nothing.
LEMMA OwnDueSum ==
    ASSUME NEW b \in Book, NEW ix \in [Markets -> [BOOLEAN -> Int]], NEW u
    PROVE  SumFunction(OwnDue(b, ix, u)) = SumFunction(Due(b, ix, u))
<1> DEFINE f == Due(b, ix, u)
           g == OwnDue(b, ix, u)
           D == OwnedIn(b, u)
<1>1. f \in [PosIds -> Int]
  BY DueType
<1>2. D \in SUBSET PosIds /\ \A p \in D : f[p] = FundingIn(ix, b.pos[p])
  BY DEF OwnedIn, OpenIn, Due
<1>3. \A p \in PosIds \ D : f[p] = 0
  BY DEF OwnedIn, OpenIn, Due
<1>4. g = [p \in D |-> FundingIn(ix, b.pos[p])]
  BY DEF OwnDue
<1> HIDE DEF f, g, D
<1>5. g \in [D -> Int] /\ \A p \in D : g[p] = f[p]
  BY <1>1, <1>2, <1>4
<1>6. SumFunction(f) = SumFunction(g)
  BY <1>1, <1>2, <1>3, <1>5, SumRestrict, ExchangeIsFinite, SMTT(30)
<1> QED
  BY <1>6 DEF f, g

LEMMA AccruedNow ==
    ASSUME IInv, NEW u
    PROVE  Accrued(u) = AccruedIn(book, money, index, u)
<1>1. book \in Book /\ index \in [Markets -> [BOOLEAN -> Int]]
  BY Stores DEF IndexOK
<1>2. Accrued(u) = money.bal[u] + SumFunction(OwnDue(book, index, u))
  BY DEF Accrued, FundingPnl, OwnDue, FundingIn, Of, Open, OwnedIn, OpenIn
<1> QED
  BY <1>1, <1>2, OwnDueSum DEF AccruedIn

LEMMA AccruedNext ==
    ASSUME IInv', NEW u
    PROVE  Accrued(u)' = AccruedIn(book', money', index', u)
<1>1. book' \in Book /\ index' \in [Markets -> [BOOLEAN -> Int]]
  BY DEF IInv, TypeOK
<1>2. Accrued(u)' = money'.bal[u] + SumFunction(OwnDue(book', index', u))
  BY DEF Accrued, FundingPnl, OwnDue, FundingIn, Of, Open, OwnedIn, OpenIn
<1> QED
  BY <1>1, <1>2, OwnDueSum DEF AccruedIn

\* When one id changes, what is due changes by what that id owed and owes.
LEMMA DueAt ==
    ASSUME NEW b \in Book, NEW c \in Book, NEW ix \in [Markets -> [BOOLEAN -> Int]],
           NEW u, NEW p \in PosIds, NEW r, c.pos = [b.pos EXCEPT ![p] = r]
    PROVE  SumFunction(Due(c, ix, u))
             = SumFunction(Due(b, ix, u)) + (Due(c, ix, u)[p] - Due(b, ix, u)[p])
<1> DEFINE f == Due(b, ix, u)
           g == Due(c, ix, u)
<1>1. f \in [PosIds -> Int] /\ g \in [PosIds -> Int]
  BY DueType
<1>2. \A x \in PosIds \ {p} : c.pos[x] = b.pos[x]
  BY DEF Book
<1>3. \A x \in PosIds \ {p} : g[x] = f[x]
  BY <1>2 DEF Due
<1> HIDE DEF f, g
<1> QED
  BY <1>1, <1>3, SumChange, ExchangeIsFinite DEF f, g

\* Same positions, same index, same balances.
LEMMA NeutralIdle ==
    ASSUME IInv, IInv', book' = book, money'.bal = money.bal, index' = index, NEW u
    PROVE  Accrued(u)' = Accrued(u)
<1>1. Due(book', index', u) = Due(book, index, u)
  OBVIOUS
<1>2. AccruedIn(book', money', index', u) = AccruedIn(book, money, index, u)
  BY <1>1 DEF AccruedIn
<1> QED
  BY <1>2, AccruedNow, AccruedNext

LEMMA NeutralMargin ==
    ASSUME IInv, IInv', index' = index, NEW p \in PosIds, NEW d \in Amounts,
           AddMargin(p, d) \/ RemoveMargin(p, d), NEW u \in Traders
    PROVE  Accrued(u)' = Accrued(u)
<1> DEFINE q == book.pos[p]
<1>1. PICK r \in Position :
        /\ p \in Open
        /\ r.owner = q.owner /\ r.market = q.market /\ r.long = q.long
        /\ r.size = q.size /\ r.fidx = q.fidx
        /\ book' = [book EXCEPT !.pos = [book.pos EXCEPT ![p] = r]]
  BY AddMarginParts, RemoveMarginParts
<1>2. /\ book \in Book /\ book' \in Book /\ index \in [Markets -> [BOOLEAN -> Int]]
      /\ money \in Money /\ q \in Position /\ q # NoPosition
  BY <1>1, OpenAt DEF IInv, TypeOK
<1>3. book'.pos = [book.pos EXCEPT ![p] = r]
  BY <1>1, <1>2, RemarginedBook
<1>4. money'.bal = money.bal
  BY <1>2 DEF AddMargin, RemoveMargin, Unlocked, Locked, Money
<1>5. Due(book', index, u)[p] = Due(book, index, u)[p]
  <2>1. book'.pos[p] = r /\ r # NoPosition
    BY <1>1, <1>2, <1>3, ExchangeConstants DEF Book
  <2>2. FundingIn(index, r) = FundingIn(index, q)
    BY <1>1 DEF FundingIn
  <2> QED
    BY <1>1, <1>2, <2>1, <2>2 DEF Due
<1>6. /\ SumFunction(Due(book, index, u)) \in Int
      /\ Due(book, index, u)[p] \in Int
  BY <1>2, DueType, SumFunctionType, ExchangeIsFinite
<1>7. SumFunction(Due(book', index, u)) = SumFunction(Due(book, index, u))
  <2>1. SumFunction(Due(book', index, u))
          = SumFunction(Due(book, index, u)) + (Due(book', index, u)[p] - Due(book, index, u)[p])
    BY <1>2, <1>3, DueAt
  <2> QED
    BY <1>5, <1>6, <2>1
<1> QED
  BY <1>4, <1>7, AccruedNow, AccruedNext DEF AccruedIn

LEMMA NeutralFunding ==
    ASSUME IInv, IInv', index' = index, NEW p \in PosIds, SettleFunding(p), NEW u \in Traders
    PROVE  Accrued(u)' = Accrued(u)
<1> DEFINE q == book.pos[p]
<1>1. PICK r \in Position, pay \in Int :
        /\ p \in Open /\ pay = FundingPnl(q, q.size)
        /\ pay <= money.bal[FundingPool] /\ -pay <= money.bal[q.owner]
        /\ r.fidx = index[q.market][q.long]
        /\ r.owner = q.owner /\ r.market = q.market /\ r.long = q.long
        /\ money' = Paid(money, FundingPool, q.owner, pay)
        /\ book' = [book EXCEPT !.pos = [book.pos EXCEPT ![p] = r]]
  BY SettleFundingParts
<1>2. /\ book \in Book /\ book' \in Book /\ index \in [Markets -> [BOOLEAN -> Int]]
      /\ money \in Money /\ q \in Position /\ q # NoPosition
  BY <1>1, OpenAt DEF IInv, TypeOK
<1>3. book'.pos = [book.pos EXCEPT ![p] = r]
  BY <1>1, <1>2, RemarginedBook
<1>4. book'.pos[p] = r /\ r # NoPosition
  BY <1>1, <1>2, <1>3, ExchangeConstants DEF Book
<1>5. FundingPool \in Accounts /\ q.owner \in Accounts /\ FundingPool # q.owner
      /\ u \in Accounts /\ u # FundingPool
  BY <1>2, Names, PositionFields
<1>6. money.bal[u] \in Int
  BY <1>2, <1>5 DEF Money
<1> DEFINE f == Due(book, index, u)
           g == Due(book', index, u)
<1>7. SumFunction(f) \in Int /\ f[p] \in Int
  BY <1>2, DueType, SumFunctionType, ExchangeIsFinite
<1>8. SumFunction(g) = SumFunction(f) + (g[p] - f[p])
  BY <1>2, <1>3, DueAt
<1>9. CASE u = q.owner
  <2>1. money'.bal[u] = money.bal[u] + pay
    BY <1>1, <1>2, <1>5, <1>9, PaidMoney
  <2>2. f[p] = pay
    BY <1>1, <1>2, <1>9 DEF Due, FundingIn, FundingPnl
  <2>3. g[p] = 0
    <3>1. FundingIn(index, r) = -((index[q.market][q.long] - index[q.market][q.long]) * r.size)
      BY <1>1 DEF FundingIn
    <3>2. index[q.market][q.long] \in Int /\ r.size \in Int
      BY <1>1, <1>2, PositionFields
    <3>3. FundingIn(index, r) = 0
      <4>1. index[q.market][q.long] - index[q.market][q.long] = 0
        BY <3>2
      <4>2. -(0 * r.size) = 0
        BY <3>2, TimesZero, Zenon
      <4>3. FundingIn(index, r) = -(0 * r.size)
        BY <3>1, <4>1, Zenon
      <4> QED
        BY <4>2, <4>3, Zenon
    <3> QED
      BY <1>1, <1>4, <1>9, <3>3 DEF Due
  <2> HIDE DEF f, g
  <2>4. money'.bal[u] + SumFunction(g) = money.bal[u] + SumFunction(f)
    BY <1>1, <1>6, <1>7, <1>8, <2>1, <2>2, <2>3
  <2> QED
    BY <2>4, AccruedNow, AccruedNext DEF AccruedIn, f, g
<1>10. CASE u # q.owner
  <2>1. money'.bal[u] = money.bal[u]
    BY <1>1, <1>2, <1>5, <1>10, PaidMoney
  <2>2. f[p] = 0 /\ g[p] = 0
    BY <1>1, <1>4, <1>10 DEF Due
  <2> HIDE DEF f, g
  <2>3. SumFunction(g) = SumFunction(f)
    BY <1>7, <1>8, <2>2
  <2> QED
    BY <2>1, <2>3, AccruedNow, AccruedNext DEF AccruedIn, f, g
<1> QED
  BY <1>9, <1>10

\* Trades and liquidations change the exposure.
LEMMA TradesExpose ==
    ASSUME MoneyInv, SameExposure, [Next]_vars
    PROVE  \/ held' # held \/ UNCHANGED <<book, money>>
           \/ \E p \in PosIds, d \in Amounts : AddMargin(p, d) \/ RemoveMargin(p, d)
           \/ \E p \in PosIds : SettleFunding(p)
<1>0. BookInv /\ IInv /\ Fresh(book, money, nextId) /\ book \in Book /\ nextId \in Nat
      /\ held \in Nat /\ \A d \in Amounts : d \in Nat
  BY Stores, Idle, ExchangeConstants DEF MoneyInv, BookInv
<1>1. CASE VaultStep
  <2>1. ASSUME NEW u \in Traders, NEW d \in Amounts, Deposit(u, d) \/ Withdraw(u, d)
        PROVE  held' # held
    BY <1>0, <2>1 DEF Deposit, Withdraw
  <2>2. ASSUME NEW d \in Amounts, LiquidityIn(d) PROVE held' # held
    BY <1>0, <2>2 DEF LiquidityIn
  <2>3. ASSUME NEW worth \in Amounts, NEW d \in Amounts, LiquidityOut(worth, d)
        PROVE  held' # held
    BY <1>0, <2>3 DEF LiquidityOut
  <2> QED
    BY <1>1, <2>1, <2>2, <2>3 DEF VaultStep
<1>2. ASSUME NEW u \in Traders, NEW m \in Markets, NEW size \in Sizes,
             NEW long \in BOOLEAN, NEW lev \in Leverages,
             OpenPosition(u, m, size, long, lev)
      PROVE  FALSE
  <2> DEFINE p == nextId
  <2>1. PICK q \in Position, fee \in Nat : p \in PosIds /\ book' = Opened(book, p, q)
    BY <1>0, <1>2, OpenParts
  <2>2. book'.pos = [book.pos EXCEPT ![p] = q]
    BY <1>0, <2>1, OpenedBook
  <2>3. book.pos[p] = NoPosition /\ book'.pos[p] = q /\ q # NoPosition
    BY <1>0, <2>1, <2>2, ExchangeConstants DEF Fresh, Book
  <2> QED
    BY <2>1, <2>3 DEF SameExposure, Open
<1>3. ASSUME NEW p \in PosIds, ClosePosition(p) PROVE FALSE
  <2>1. p \in Open /\ book' = Removed(book, p)
    BY <1>3 DEF ClosePosition
  <2>2. book.pos[p] \in Position /\ book.pos[p] # NoPosition
    BY <1>0, <2>1, OpenAt
  <2>3. book'.pos = [book.pos EXCEPT ![p] = NoPosition]
    BY <1>0, <2>1, <2>2, RemovedBook
  <2>4. book'.pos[p] = NoPosition
    BY <1>0, <2>3 DEF Book
  <2> QED
    BY <2>2, <2>4 DEF SameExposure
<1>4. ASSUME NEW p \in PosIds, NEW size \in Sizes, PartialClose(p, size) PROVE FALSE
  <2> DEFINE q == book.pos[p]
             r == Rest(q, size, price[q.market])
  <2>1. PICK gross \in Int, fee \in Int :
          /\ p \in Open /\ size \in Nat \ {0} /\ size < q.size
          /\ q.margin - Released(q, size) > 0
          /\ book' = Reduced(book, p, size, price[q.market])
    BY <1>0, <1>4, PartialCloseParts
  <2>2. q \in Position /\ q # NoPosition /\ IndexOK /\ price[q.market] \in Int /\ q.size \in Nat
    BY <1>0, <2>1, OpenAt, AtPosition
  <2>3. book'.pos = [book.pos EXCEPT ![p] = r]
    BY <1>0, <2>1, <2>2, ReducedBook
  <2>4. r.size = q.size - size
    BY <2>1, <2>2, RestParts
  <2> HIDE DEF r
  <2>5. book'.pos[p] = r
    BY <1>0, <2>3 DEF Book
  <2>6. book'.pos[p].size # q.size
    BY <2>1, <2>2, <2>4, <2>5
  <2> QED
    BY <2>6 DEF SameExposure
<1>5. ASSUME NEW k \in Keepers, NEW p \in PosIds, Liquidate(k, p) PROVE FALSE
  <2>1. book'.pos[p] = NoPosition \/ book'.pos[p].size < book.pos[p].size
    BY <1>0, <1>5, LiquidateEffect
  <2>2. p \in Open
    BY <1>5 DEF Liquidate
  <2>3. book.pos[p] # NoPosition /\ book.pos[p].size \in Nat
    BY <1>0, <2>2, OpenAt, AtPosition
  <2> QED
    BY <2>1, <2>3 DEF SameExposure
<1>6. CASE WorldStep
  BY <1>6 DEF WorldStep, FundingTick, OracleMoves, CooldownEnds, SetPaused
<1>7. CASE UNCHANGED vars
  BY <1>7 DEF vars
<1>8. CASE TradeStep
  BY <1>2, <1>3, <1>4, <1>8, Zenon DEF TradeStep
<1>9. CASE KeeperStep
  BY <1>5, <1>9, Zenon DEF KeeperStep
<1> QED
  BY <1>1, <1>6, <1>7, <1>8, <1>9 DEF Next

\* Settling funding and moving margin make no trader richer or poorer: balance
\* plus funding due stays what it was.
THEOREM SettlingChangesNoWealth == Spec => SettlingIsNeutral
<1>1. ASSUME MoneyInv, MoneyInv', [Next]_vars, SameExposure, index' = index, held' = held,
             NEW u \in Traders
      PROVE  Accrued(u)' = Accrued(u)
  <2>1. IInv /\ IInv'
    BY <1>1 DEF MoneyInv, BookInv
  <2>2. CASE UNCHANGED <<book, money>>
    BY <1>1, <2>1, <2>2, NeutralIdle
  <2>3. ASSUME NEW p \in PosIds, NEW d \in Amounts, AddMargin(p, d) \/ RemoveMargin(p, d)
        PROVE  Accrued(u)' = Accrued(u)
    BY <1>1, <2>1, <2>3, NeutralMargin
  <2>4. ASSUME NEW p \in PosIds, SettleFunding(p)
        PROVE  Accrued(u)' = Accrued(u)
    BY <1>1, <2>1, <2>4, NeutralFunding
  <2> QED
    BY <1>1, <2>2, <2>3, <2>4, TradesExpose
<1>2. MoneyInv /\ MoneyInv' /\ [Next]_vars
        => ((SameExposure /\ index' = index /\ held' = held)
              => \A u \in Traders : Accrued(u)' = Accrued(u))
  BY <1>1
<1> QED
  BY <1>2, MoneyInvariance, PTL DEF Spec, SettlingIsNeutral
-----------------------------------------------------------------------------
(* Margins and buckets *)

MarginIn(b, p) == IF b.pos[p] # NoPosition THEN b.pos[p].margin ELSE 0
SizeIn(b, p)   == IF b.pos[p] # NoPosition THEN b.pos[p].size ELSE 0
StrandedIn(b, mo, p) == mo.lock[p] - MarginIn(b, p)

\* From one pair of stores to another no bucket parts from its margin.
Level(b, mo, c, mt) ==
    \A x \in PosIds : StrandedIn(c, mt, x) = StrandedIn(b, mo, x)

\* No position grows, but for one opened with a size a call may carry.
NoGrowth(b, c) ==
    \A x \in PosIds : SizeIn(c, x) <= SizeIn(b, x) \/ SizeIn(c, x) \in Sizes

LEMMA InNat ==
    ASSUME NEW b \in Book, NEW p \in PosIds
    PROVE  MarginIn(b, p) \in Nat /\ SizeIn(b, p) \in Nat
<1>1. b.pos[p] # NoPosition => b.pos[p] \in Position
  BY DEF Book
<1>2. b.pos[p] # NoPosition => b.pos[p].margin \in Nat /\ b.pos[p].size \in Nat
  BY <1>1, PositionFields
<1> QED
  BY <1>2 DEF MarginIn, SizeIn

\* One id changes, its margin and its bucket alike.
LEMMA LevelAt ==
    ASSUME NEW b \in Book, NEW mo \in Money, NEW c \in Book, NEW mt \in Money,
           NEW p \in PosIds, NEW r \in Position \cup {NoPosition}, NEW d \in Int,
           c.pos = [b.pos EXCEPT ![p] = r],
           mt.lock = [mo.lock EXCEPT ![p] = @ + d],
           MarginIn(c, p) = MarginIn(b, p) + d
    PROVE  Level(b, mo, c, mt)
<1>1. mo.lock \in [PosIds -> Nat] /\ mt.lock[p] = mo.lock[p] + d
      /\ \A x \in PosIds \ {p} : mt.lock[x] = mo.lock[x]
  BY DEF Money
<1>2. \A x \in PosIds \ {p} : c.pos[x] = b.pos[x]
  BY DEF Book
<1>3. \A x \in PosIds \ {p} : MarginIn(c, x) = MarginIn(b, x)
  BY <1>2 DEF MarginIn
<1>4. MarginIn(b, p) \in Int /\ mo.lock[p] \in Int
  BY <1>1, InNat
<1>5. StrandedIn(c, mt, p) = StrandedIn(b, mo, p)
  BY <1>1, <1>4 DEF StrandedIn
<1>6. \A x \in PosIds \ {p} : StrandedIn(c, mt, x) = StrandedIn(b, mo, x)
  BY <1>1, <1>3 DEF StrandedIn
<1> QED
  BY <1>5, <1>6 DEF Level

\* One id changes and does not grow.
LEMMA NoGrowthAt ==
    ASSUME NEW b \in Book, NEW c \in Book, NEW p \in PosIds, NEW r,
           c.pos = [b.pos EXCEPT ![p] = r],
           SizeIn(c, p) <= SizeIn(b, p) \/ SizeIn(c, p) \in Sizes
    PROVE  NoGrowth(b, c)
<1>1. \A x \in PosIds \ {p} : c.pos[x] = b.pos[x]
  BY DEF Book
<1>2. \A x \in PosIds \ {p} : SizeIn(c, x) = SizeIn(b, x)
  BY <1>1 DEF SizeIn
<1>3. \A x \in PosIds : SizeIn(b, x) \in Nat
  BY InNat
<1> QED
  BY <1>2, <1>3 DEF NoGrowth

\* Closing all of a position releases all of its margin.
LEMMA FullRelease ==
    ASSUME NEW q \in Position
    PROVE  Released(q, q.size) = q.margin
<1> DEFINE m == q.margin
           s == q.size
           k == (m * s) \div s
<1>1. m \in Nat /\ s \in Nat \ {0}
  BY PositionFields
<1>2. Released(q, q.size) = k
  BY DEF Released
<1> HIDE DEF m, s
<1>3. m * s \in Nat
  BY <1>1, TimesNat
<1>4. k \in Nat /\ s * k <= m * s /\ m * s < s * k + s
  BY <1>1, <1>3, DivNat, DivMod
<1> HIDE DEF k
<1>5. s * m = m * s
  BY <1>1, SMT
<1>6. ASSUME k < m PROVE FALSE
  <2>1. s * (k + 1) <= s * m
    BY <1>1, <1>4, <1>6, SMT
  <2>2. s * (k + 1) = s * k + s
    BY <1>1, <1>4, SMT
  <2>3. s * k \in Nat
    BY <1>1, <1>4, TimesNat
  <2> QED
    BY <1>1, <1>3, <1>4, <1>5, <2>1, <2>2, <2>3
<1>7. ASSUME k > m PROVE FALSE
  <2>1. s * (m + 1) <= s * k
    BY <1>1, <1>4, <1>7, SMT
  <2>2. s * (m + 1) = s * m + s
    BY <1>1, SMT
  <2>3. s * k \in Nat
    BY <1>1, <1>4, TimesNat
  <2> QED
    BY <1>1, <1>3, <1>4, <1>5, <2>1, <2>2, <2>3
<1>8. k = m
  BY <1>1, <1>4, <1>6, <1>7
<1> QED
  BY <1>2, <1>8 DEF m

\* A forced close takes the released margin off the file, all of it when it
\* closes the position.
LEMMA RiskClosedMargin ==
    ASSUME IndexOK, NEW b \in Book, NEW p \in PosIds, b.pos[p] \in Position,
           NEW size \in Int, CanRiskClose(b, p, size), NEW at \in Int
    PROVE  MarginIn(RiskClosed(b, p, size, at), p)
             = MarginIn(b, p) - Released(b.pos[p], size)
<1> DEFINE q == b.pos[p]
           c == RiskClosed(b, p, size, at)
<1>1. /\ c \in Book /\ Released(q, size) \in Nat
      /\ c.pos = [b.pos EXCEPT ![p] = c.pos[p]]
      /\ c.pos[p] # NoPosition => c.pos[p].margin = q.margin - Released(q, size)
  BY RiskClosedBook
<1>2. q # NoPosition /\ q.margin \in Nat /\ q.size \in Nat \ {0}
  BY ExchangeConstants, PositionFields
<1>3. c.pos[p] = NoPosition => size = q.size
  <2> SUFFICES ASSUME size # q.size PROVE c.pos[p] # NoPosition
    OBVIOUS
  <2>1. size \in Nat \ {0} /\ size < q.size /\ q.margin - Released(q, size) > 0
    BY <1>2 DEF CanRiskClose
  <2>2. c = Reduced(b, p, size, at)
    BY DEF RiskClosed
  <2> DEFINE r == Rest(q, size, at)
  <2>3. c.pos = [b.pos EXCEPT ![p] = r] /\ r \in Position
    BY <2>1, <2>2, ReducedBook, RestPosition
  <2> HIDE DEF r, c
  <2>4. c.pos[p] = r
    BY <2>3 DEF Book
  <2> QED
    BY <2>3, <2>4, ExchangeConstants DEF c
<1>4. c.pos[p] = NoPosition => Released(q, size) = q.margin
  BY <1>3, FullRelease
<1> HIDE DEF c
<1>5. MarginIn(c, p) = MarginIn(b, p) - Released(q, size)
  BY <1>1, <1>2, <1>4 DEF MarginIn
<1> QED
  BY <1>5 DEF c
\* What a step on one position does to buckets and sizes.
Steady == Level(book, money, book', money') /\ NoGrowth(book, book')

LEMMA OpenSteady ==
    ASSUME BookInv, NEW u \in Traders, NEW m \in Markets, NEW size \in Sizes,
           NEW long \in BOOLEAN, NEW lev \in Leverages,
           OpenPosition(u, m, size, long, lev)
    PROVE  Steady
<1> DEFINE p == nextId
<1>0. IInv /\ IInv' /\ Fresh(book, money, p) /\ p \in Nat
  BY OpenPreserves, Idle DEF BookInv
<1>1. PICK q \in Position, fee \in Nat :
        /\ q.owner = u /\ q.size = size /\ p \in PosIds /\ fee <= money.bal[u]
        /\ money' = Earned(Locked(money, u, p, q.margin), u, fee)
        /\ book' = Opened(book, p, q)
  BY <1>0, OpenParts
<1> DEFINE locked == Locked(money, u, p, q.margin)
<1>2. /\ book \in Book /\ money \in Money /\ book' \in Book /\ money' \in Money
      /\ q.margin \in Nat /\ q.size \in Nat /\ q # NoPosition /\ u \in Users
  BY <1>0, <1>1, PositionFields, Names, ExchangeConstants DEF IInv, TypeOK
<1>3. q.margin \in Int /\ money.lock[p] + q.margin >= 0
  BY <1>1, <1>2 DEF Money
<1>4. /\ locked \in Money /\ locked.bal = money.bal
      /\ locked.lock = [money.lock EXCEPT ![p] = @ + q.margin]
  BY <1>1, <1>2, <1>3, LockedMoney
<1>5. money'.lock = locked.lock
  BY <1>1, <1>2, <1>4, EarnedMoney
<1> HIDE DEF locked
<1>6. book'.pos = [book.pos EXCEPT ![p] = q]
  BY <1>1, <1>2, OpenedBook
<1>7. book.pos[p] = NoPosition /\ book'.pos[p] = q
  BY <1>0, <1>1, <1>2, <1>6 DEF Fresh, Book
<1>8. MarginIn(book', p) = MarginIn(book, p) + q.margin
  BY <1>2, <1>7 DEF MarginIn
<1>9. SizeIn(book', p) \in Sizes
  BY <1>1, <1>2, <1>7 DEF SizeIn
<1>10. money'.lock = [money.lock EXCEPT ![p] = @ + q.margin]
  BY <1>4, <1>5
<1>11. Level(book, money, book', money')
  BY <1>1, <1>2, <1>3, <1>6, <1>8, <1>10, LevelAt
<1>12. NoGrowth(book, book')
  BY <1>1, <1>2, <1>6, <1>9, NoGrowthAt
<1> QED
  BY <1>11, <1>12 DEF Steady

\* A close in part or in full: margin, bucket and size fall together.
LEMMA FallsSteady ==
    ASSUME book \in Book, money \in Money, book' \in Book, money' \in Money,
           NEW p \in PosIds, NEW r \in Position \cup {NoPosition}, NEW d \in Nat,
           book'.pos = [book.pos EXCEPT ![p] = r],
           money'.lock = [money.lock EXCEPT ![p] = @ - d],
           MarginIn(book', p) = MarginIn(book, p) - d,
           SizeIn(book', p) <= SizeIn(book, p)
    PROVE  Steady
<1> DEFINE x == -d
<1>1. x \in Int /\ MarginIn(book, p) \in Int /\ money.lock[p] \in Int
  BY InNat DEF Money
<1>2. MarginIn(book', p) = MarginIn(book, p) + x /\ money.lock[p] - d = money.lock[p] + x
  BY <1>1
<1> HIDE DEF x
<1>3. money'.lock = [money.lock EXCEPT ![p] = @ + x]
  BY <1>2
<1>4. Level(book, money, book', money')
  BY <1>1, <1>2, <1>3, LevelAt
<1>5. NoGrowth(book, book')
  BY NoGrowthAt
<1> QED
  BY <1>4, <1>5 DEF Steady

LEMMA CloseSteady ==
    ASSUME BookInv, NEW p \in PosIds, ClosePosition(p)
    PROVE  Steady
<1> DEFINE q == book.pos[p]
<1>0. IInv /\ IInv'
  BY ClosePreserves DEF BookInv
<1>1. PICK gross \in Int, fee \in Int :
        /\ p \in Open /\ CanSettle(money, q.owner, p, q.margin, gross, fee)
        /\ money' = Settled(money, q.owner, p, q.margin, gross, fee)
        /\ book' = Removed(book, p)
  BY <1>0, CloseParts
<1>2. q \in Position /\ q.owner \in Traders /\ q.margin \in Nat /\ q.margin \in Int
  BY <1>0, <1>1, AtPosition
<1>3. /\ book \in Book /\ money \in Money /\ q # NoPosition
      /\ book' \in Book /\ money' \in Money
  BY <1>0, <1>1, OpenAt DEF IInv, TypeOK
<1>4. money'.lock = [money.lock EXCEPT ![p] = @ - q.margin]
  BY <1>1, <1>2, <1>3, SettledMoney
<1>5. book'.pos = [book.pos EXCEPT ![p] = NoPosition]
  BY <1>1, <1>2, <1>3, RemovedBook
<1>6. book'.pos[p] = NoPosition
  BY <1>3, <1>5 DEF Book
<1>7. MarginIn(book', p) = MarginIn(book, p) - q.margin
  BY <1>2, <1>3, <1>6 DEF MarginIn
<1>8. SizeIn(book', p) <= SizeIn(book, p)
  <2>1. SizeIn(book', p) = 0 /\ SizeIn(book, p) \in Nat
    BY <1>3, <1>6, InNat DEF SizeIn
  <2> QED
    BY <2>1
<1> QED
  BY <1>2, <1>3, <1>4, <1>5, <1>7, <1>8, FallsSteady

LEMMA PartialCloseSteady ==
    ASSUME BookInv, NEW p \in PosIds, NEW size \in Sizes, PartialClose(p, size)
    PROVE  Steady
<1> DEFINE q        == book.pos[p]
           released == Released(q, size)
           r        == Rest(q, size, price[q.market])
<1>0. IInv /\ IInv'
  BY PartialClosePreserves DEF BookInv
<1>1. PICK gross \in Int, fee \in Int :
        /\ p \in Open /\ size \in Nat \ {0} /\ size < q.size
        /\ released \in Nat /\ q.margin - released > 0
        /\ CanSettle(money, q.owner, p, released, gross, fee)
        /\ money' = Settled(money, q.owner, p, released, gross, fee)
        /\ book' = Reduced(book, p, size, price[q.market])
  BY <1>0, PartialCloseParts
<1>2. /\ q \in Position /\ q.owner \in Traders /\ price[q.market] \in Int
      /\ q.size \in Nat /\ q.margin \in Nat
  BY <1>0, <1>1, AtPosition
<1>3. /\ book \in Book /\ money \in Money /\ IndexOK /\ q # NoPosition
      /\ book' \in Book /\ money' \in Money
  BY <1>0, <1>1, OpenAt DEF IInv, TypeOK
<1>4. /\ r \in Position /\ r.margin = q.margin - released
      /\ r.size = q.size - size
  BY <1>1, <1>2, <1>3, RestPosition, RestParts
<1>5. book'.pos = [book.pos EXCEPT ![p] = r]
  BY <1>1, <1>2, <1>3, ReducedBook
<1> HIDE DEF r, released
<1>6. released \in Int
  BY <1>1
<1>7. money'.lock = [money.lock EXCEPT ![p] = @ - released]
  BY <1>1, <1>2, <1>3, <1>6, SettledMoney
<1>8. book'.pos[p] = r /\ r # NoPosition
  BY <1>3, <1>4, <1>5, ExchangeConstants DEF Book
<1>9. MarginIn(book', p) = MarginIn(book, p) - released
  BY <1>3, <1>4, <1>8 DEF MarginIn
<1>10. SizeIn(book', p) <= SizeIn(book, p)
  <2>1. SizeIn(book', p) = q.size - size /\ SizeIn(book, p) = q.size
    BY <1>3, <1>4, <1>8 DEF SizeIn
  <2> QED
    BY <1>1, <1>2, <2>1
<1> QED
  BY <1>1, <1>3, <1>4, <1>5, <1>7, <1>9, <1>10, FallsSteady

\* A position of unchanged size whose margin moves with its bucket.
LEMMA RemarginedSteady ==
    ASSUME book \in Book, money \in Money, book' \in Book, money' \in Money,
           NEW p \in PosIds, NEW r \in Position, NEW d \in Int,
           book.pos[p] \in Position,
           book'.pos = [book.pos EXCEPT ![p] = r],
           money'.lock = [money.lock EXCEPT ![p] = @ + d],
           r.margin = book.pos[p].margin + d, r.size = book.pos[p].size
    PROVE  Steady
<1>1. book'.pos[p] = r /\ r # NoPosition /\ book.pos[p] # NoPosition
  BY ExchangeConstants DEF Book
<1>2. MarginIn(book', p) = MarginIn(book, p) + d
  BY <1>1 DEF MarginIn
<1>3. SizeIn(book', p) = SizeIn(book, p) /\ SizeIn(book, p) \in Nat
  BY <1>1, InNat DEF SizeIn
<1>4. SizeIn(book', p) <= SizeIn(book, p)
  BY <1>3
<1>5. Level(book, money, book', money')
  BY <1>2, LevelAt
<1>6. NoGrowth(book, book')
  BY <1>4, NoGrowthAt
<1> QED
  BY <1>5, <1>6 DEF Steady

LEMMA MarginSteady ==
    ASSUME BookInv, NEW p \in PosIds, NEW d \in Amounts,
           AddMargin(p, d) \/ RemoveMargin(p, d)
    PROVE  Steady
<1> DEFINE q == book.pos[p]
<1>0. IInv /\ IInv'
  BY AddMarginPreserves, RemoveMarginPreserves DEF BookInv
<1>1. PICK r \in Position, x \in Int :
        /\ p \in Open /\ r.margin = q.margin + x /\ r.size = q.size
        /\ money.lock[p] + x >= 0
        /\ money' = Locked(money, q.owner, p, x)
        /\ book' = [book EXCEPT !.pos = [book.pos EXCEPT ![p] = r]]
  <2>1. money.lock[p] \in Nat
    BY <1>0, Stores DEF Money
  <2>2. CASE AddMargin(p, d)
    <3>1. PICK r \in Position :
            /\ p \in Open /\ d \in Nat /\ r.margin = q.margin + d /\ r.size = q.size
            /\ money' = Locked(money, q.owner, p, d)
            /\ book' = [book EXCEPT !.pos = [book.pos EXCEPT ![p] = r]]
      BY <1>0, <2>2, AddMarginParts
    <3>2. d \in Int /\ money.lock[p] + d >= 0
      BY <2>1, <3>1
    <3> QED
      BY <3>1, <3>2
  <2>3. CASE RemoveMargin(p, d)
    <3>1. PICK r \in Position :
            /\ p \in Open /\ d \in Nat /\ r.margin = q.margin - d /\ r.size = q.size
            /\ CanUnlock(money, p, d) /\ money' = Locked(money, q.owner, p, -d)
            /\ book' = [book EXCEPT !.pos = [book.pos EXCEPT ![p] = r]]
      BY <1>0, <2>3, RemoveMarginParts
    <3>2. q.margin \in Nat
      BY <1>0, <3>1, AtPosition
    <3>3. -d \in Int /\ money.lock[p] + (-d) >= 0 /\ r.margin = q.margin + (-d)
      BY <2>1, <3>1, <3>2 DEF CanUnlock
    <3> QED
      BY <3>1, <3>3
  <2> QED
    BY <2>2, <2>3
<1>2. /\ book \in Book /\ money \in Money /\ book' \in Book /\ money' \in Money
      /\ q \in Position /\ q.owner \in Traders
  BY <1>0, <1>1, OpenAt, AtPosition DEF IInv, TypeOK
<1>3. money'.lock = [money.lock EXCEPT ![p] = @ + x]
  BY <1>1, <1>2, LockedMoney
<1>4. book'.pos = [book.pos EXCEPT ![p] = r]
  BY <1>1, <1>2, RemarginedBook
<1> QED
  BY <1>1, <1>2, <1>3, <1>4, RemarginedSteady

LEMMA SettleFundingSteady ==
    ASSUME BookInv, NEW p \in PosIds, SettleFunding(p)
    PROVE  Steady
<1> DEFINE q == book.pos[p]
<1>0. IInv /\ IInv'
  BY SettleFundingPreserves DEF BookInv
<1>1. PICK r \in Position, pay \in Int :
        /\ p \in Open /\ pay <= money.bal[FundingPool] /\ -pay <= money.bal[q.owner]
        /\ r.margin = q.margin /\ r.size = q.size
        /\ money' = Paid(money, FundingPool, q.owner, pay)
        /\ book' = [book EXCEPT !.pos = [book.pos EXCEPT ![p] = r]]
  BY <1>0, SettleFundingParts
<1>2. /\ book \in Book /\ money \in Money /\ book' \in Book /\ money' \in Money
      /\ q \in Position /\ q.owner \in Accounts /\ FundingPool \in Accounts
  BY <1>0, <1>1, OpenAt, AtPosition, Names DEF IInv, TypeOK
<1>3. money'.lock = money.lock
  BY <1>1, <1>2, PaidMoney
<1>4. book'.pos = [book.pos EXCEPT ![p] = r]
  BY <1>1, <1>2, RemarginedBook
<1>5. money.lock[p] \in Int /\ money.lock[p] + 0 = money.lock[p] /\ q.margin + 0 = q.margin
  BY <1>2, PositionFields DEF Money
<1>6. money'.lock = [money.lock EXCEPT ![p] = @ + 0]
  BY <1>2, <1>3, <1>5 DEF Money
<1>7. r.margin = q.margin + 0 /\ r.size = q.size /\ 0 \in Int
  BY <1>1, <1>5
<1> QED
  BY <1>1, <1>2, <1>4, <1>6, <1>7, RemarginedSteady
\* Deleveraging leaves the margin it takes off the file in the bucket.
LEMMA DeleverageStrands ==
    ASSUME IndexOK, price \in [Markets -> Prices],
           NEW b \in Book, NEW mo \in Money, NEW m \in Markets,
           NEW coverage \in Int, Deleverage(b, mo, m, coverage)
    PROVE  \A x \in PosIds :
             \/ StrandedIn(book', money', x) = StrandedIn(b, mo, x)
             \/ /\ StrandedIn(book', money', x) > StrandedIn(b, mo, x)
                /\ Shrunk(b, book', x) /\ b.pos[x] # NoPosition
<1>1. CASE book' = b /\ money' = mo
  BY <1>1
<1>2. ASSUME NEW w \in PosIds, NEW size \in Int, NEW gain \in Int,
             b.pos[w] \in Position, CanRiskClose(b, w, size),
             book' = RiskClosed(b, w, size, price[m]),
             money' = IF gain > 0 /\ CanDraw(mo, gain)
                      THEN Drawn(mo, b.pos[w].owner, gain) ELSE mo,
             NEW x \in PosIds
      PROVE  \/ StrandedIn(book', money', x) = StrandedIn(b, mo, x)
             \/ /\ StrandedIn(book', money', x) > StrandedIn(b, mo, x)
                /\ Shrunk(b, book', x) /\ b.pos[x] # NoPosition
  <2> DEFINE released == Released(b.pos[w], size)
  <2>1. b.pos[w].owner \in Users /\ b.pos[w] # NoPosition
    BY <1>2, ExchangeConstants, PositionFields, Names
  <2>2. price[m] \in Int
    <3>1. \A y \in Prices : y \in Int
      BY ExchangeConstants
    <3> QED
      BY <3>1
  <2>3. money'.lock = mo.lock
    BY <1>2, <2>1, DrawnMoney
  <2>4. /\ book' \in Book /\ released \in Nat
        /\ book'.pos = [b.pos EXCEPT ![w] = book'.pos[w]]
    BY <1>2, <2>2, RiskClosedBook
  <2>5. MarginIn(book', w) = MarginIn(b, w) - released
    BY <1>2, <2>2, RiskClosedMargin
  <2>6. Shrunk(b, book', w)
    BY <1>2, <2>2, RiskClosedShrinks
  <2> HIDE DEF released
  <2>7. /\ MarginIn(b, w) \in Nat /\ MarginIn(b, x) \in Nat /\ mo.lock[w] \in Nat
        /\ mo.lock[x] \in Nat
    BY InNat DEF Money
  <2>8. CASE x = w
    <3>1. StrandedIn(book', money', w) = StrandedIn(b, mo, w) + released
          /\ StrandedIn(b, mo, w) \in Int
      BY <2>3, <2>4, <2>5, <2>7 DEF StrandedIn
    <3>2. CASE released = 0
      BY <2>8, <3>1, <3>2
    <3>3. CASE released # 0
      BY <2>1, <2>4, <2>6, <2>8, <3>1, <3>3
    <3> QED
      BY <3>2, <3>3
  <2>9. CASE x # w
    <3>1. book'.pos[x] = b.pos[x]
      BY <2>4, <2>9 DEF Book
    <3> QED
      BY <2>3, <3>1 DEF StrandedIn, MarginIn
  <2> QED
    BY <2>8, <2>9
<1> QED
  BY <1>1, <1>2, DeleverageParts

\* A liquidation that deleverages nobody is steady; one that does is partial,
\* and strands what it deleverages.
LEMMA LiquidateSteady ==
    ASSUME BookInv, NEW k \in Keepers, NEW p \in PosIds, Liquidate(k, p)
    PROVE  /\ p \in Open
           /\ \/ Steady
              \/ /\ Notional(book.pos[p]) > PartialThreshold /\ p \notin cooling
                 /\ \A x \in PosIds :
                      \/ StrandedIn(book', money', x) = StrandedIn(book, money, x)
                      \/ /\ StrandedIn(book', money', x) > StrandedIn(book, money, x)
                         /\ book'.pos[x] # book.pos[x]
<1> DEFINE q           == book.pos[p]
           after(size) == RiskClosed(book, p, size, price[q.market])
           paid(size)  == Distributed(money, k, p, q, size)
<1>0. IInv /\ IInv'
  BY LiquidatePreserves DEF BookInv
<1>1. PICK size \in Nat \ {0} :
        /\ size <= q.size /\ CanRiskClose(book, p, size)
        /\ CanDistribute(money, k, p, q, size)
        /\ Released(q, size) \in Nat /\ Shortfall(q, size) \in Int
        /\ \/ book' = after(size) /\ money' = paid(size)
           \/ /\ Notional(q) > PartialThreshold /\ p \notin cooling
              /\ \E coverage \in Int : Deleverage(after(size), paid(size), q.market, coverage)
  BY <1>0, LiquidateParts
<1>2. p \in Open
  BY DEF Liquidate
<1>3. /\ q \in Position /\ q.market \in Markets /\ q # NoPosition
      /\ price[q.market] \in Nat /\ price[q.market] \in Int
  BY <1>0, <1>2, AtPosition, OpenAt
<1>4. /\ book \in Book /\ money \in Money /\ book' \in Book /\ money' \in Money
      /\ IndexOK /\ price \in [Markets -> Prices]
  BY <1>0, Stores DEF IInv, TypeOK
<1> DEFINE a        == after(size)
           m        == paid(size)
           released == Released(q, size)
<1>5. m \in Money /\ m.lock = [money.lock EXCEPT ![p] = @ - released]
  BY <1>1, <1>3, <1>4, DistributedMoney
<1>6. a \in Book /\ a.pos = [book.pos EXCEPT ![p] = a.pos[p]]
  BY <1>1, <1>3, <1>4, RiskClosedBook
<1>7. MarginIn(a, p) = MarginIn(book, p) - released
  BY <1>1, <1>3, <1>4, RiskClosedMargin
<1>8. Shrunk(book, a, p)
  BY <1>1, <1>3, <1>4, RiskClosedShrinks
<1>9. \/ book' = a /\ money' = m
      \/ /\ Notional(q) > PartialThreshold /\ p \notin cooling
         /\ \E coverage \in Int : Deleverage(a, m, q.market, coverage)
  BY <1>1
<1>10. released \in Nat
  BY <1>1
<1> HIDE DEF a, m, released
<1>11. a.pos[p] \in Position \cup {NoPosition}
  BY <1>6 DEF Book
<1>12. CASE book' = a /\ money' = m
  <2>1. SizeIn(a, p) <= SizeIn(book, p)
    <3>1. SizeIn(book, p) \in Nat /\ SizeIn(a, p) \in Nat
      BY <1>4, <1>6, InNat
    <3>2. a.pos[p] = NoPosition => SizeIn(a, p) = 0
      BY DEF SizeIn
    <3>3. a.pos[p] # NoPosition => SizeIn(a, p) < SizeIn(book, p)
      BY <1>3, <1>8 DEF Shrunk, SizeIn
    <3> QED
      BY <3>1, <3>2, <3>3
  <2>2. Steady
    BY <1>4, <1>5, <1>6, <1>7, <1>10, <1>11, <1>12, <2>1, FallsSteady
  <2> QED
    BY <1>2, <2>2
<1>13. ASSUME NEW coverage \in Int, Deleverage(a, m, q.market, coverage),
              NEW x \in PosIds
       PROVE  \/ StrandedIn(book', money', x) = StrandedIn(book, money, x)
              \/ /\ StrandedIn(book', money', x) > StrandedIn(book, money, x)
                 /\ book'.pos[x] # book.pos[x]
  <2>1. \/ StrandedIn(book', money', x) = StrandedIn(a, m, x)
        \/ /\ StrandedIn(book', money', x) > StrandedIn(a, m, x)
           /\ Shrunk(a, book', x) /\ a.pos[x] # NoPosition
    BY <1>3, <1>4, <1>5, <1>6, <1>13, DeleverageStrands
  <2>2. Level(book, money, a, m)
    <3> DEFINE d == -released
    <3>1. d \in Int /\ MarginIn(book, p) \in Int /\ money.lock[p] \in Int
      BY <1>4, <1>10, InNat DEF Money
    <3>2. /\ MarginIn(a, p) = MarginIn(book, p) + d
          /\ money.lock[p] - released = money.lock[p] + d
      BY <1>7, <1>10, <3>1
    <3> HIDE DEF d
    <3>3. m.lock = [money.lock EXCEPT ![p] = @ + d]
      BY <1>5, <3>2
    <3> QED
      BY <1>4, <1>5, <1>6, <1>11, <3>1, <3>2, <3>3, LevelAt
  <2>3. StrandedIn(a, m, x) = StrandedIn(book, money, x)
    BY <2>2 DEF Level
  <2>4. Shrunk(a, book', x) /\ a.pos[x] # NoPosition => book'.pos[x] # book.pos[x]
    <3> SUFFICES ASSUME Shrunk(a, book', x), a.pos[x] # NoPosition
                 PROVE  book'.pos[x] # book.pos[x]
      OBVIOUS
    <3>1. CASE x = p
      <4>1. book'.pos[p] = NoPosition \/ book'.pos[p].size < q.size
        BY LiquidateEffect
      <4>2. q.size \in Nat
        BY <1>3, PositionFields
      <4> QED
        BY <1>3, <3>1, <4>1, <4>2
    <3>2. CASE x # p
      <4>1. a.pos[x] = book.pos[x]
        BY <1>4, <1>6, <3>2 DEF Book
      <4>2. a.pos[x] \in Position
        BY <1>6 DEF Book
      <4>3. a.pos[x].size \in Nat
        BY <4>2, PositionFields
      <4> QED
        BY <4>1, <4>3 DEF Shrunk
    <3> QED
      BY <3>1, <3>2
  <2> QED
    BY <2>1, <2>3, <2>4
<1> QED
  BY <1>2, <1>9, <1>12, <1>13

\* Every step keeps buckets and sizes steady, or is such a liquidation.
LEMMA StepStrands ==
    ASSUME BookInv, [Next]_vars
    PROVE  \/ Steady
           \/ /\ cooling \subseteq cooling' /\ cooling' # cooling
              /\ \E p \in Open : Notional(book.pos[p]) > PartialThreshold
              /\ \A x \in PosIds :
                   \/ StrandedIn(book', money', x) = StrandedIn(book, money, x)
                   \/ /\ StrandedIn(book', money', x) > StrandedIn(book, money, x)
                      /\ book'.pos[x] # book.pos[x]
<1>0. IInv /\ book \in Book /\ money \in Money
  BY Stores DEF BookInv
<1>1. ASSUME book' = book, money'.lock = money.lock PROVE Steady
  <2>1. \A x \in PosIds : SizeIn(book, x) \in Nat
    BY <1>0, InNat
  <2> QED
    BY <1>1, <2>1 DEF Steady, Level, NoGrowth, StrandedIn
<1>2. CASE VaultStep
  <2>1. book' = book /\ money'.lock = money.lock
    BY <1>0, <1>2 DEF VaultStep, Deposit, Withdraw, LiquidityIn, LiquidityOut, Money
  <2> QED
    BY <1>1, <2>1
<1>3. CASE WorldStep
  <2>1. book' = book /\ money' = money
    BY <1>3 DEF WorldStep, FundingTick, OracleMoves, CooldownEnds, SetPaused
  <2> QED
    BY <1>1, <2>1
<1>4. CASE UNCHANGED vars
  BY <1>1, <1>4 DEF vars
<1>5. CASE TradeStep
  <2>1. Steady
    BY <1>5, OpenSteady, CloseSteady, PartialCloseSteady, MarginSteady, Zenon DEF TradeStep
  <2> QED
    BY <2>1
<1>6. ASSUME NEW k \in Keepers, NEW p \in PosIds, Liquidate(k, p), ~Steady
      PROVE  /\ cooling \subseteq cooling' /\ cooling' # cooling
             /\ \E x \in Open : Notional(book.pos[x]) > PartialThreshold
             /\ \A x \in PosIds :
                  \/ StrandedIn(book', money', x) = StrandedIn(book, money, x)
                  \/ /\ StrandedIn(book', money', x) > StrandedIn(book, money, x)
                     /\ book'.pos[x] # book.pos[x]
  <2>1. /\ p \in Open /\ Notional(book.pos[p]) > PartialThreshold /\ p \notin cooling
        /\ \A x \in PosIds :
             \/ StrandedIn(book', money', x) = StrandedIn(book, money, x)
             \/ /\ StrandedIn(book', money', x) > StrandedIn(book, money, x)
                /\ book'.pos[x] # book.pos[x]
    BY <1>6, LiquidateSteady
  <2>2. cooling' = cooling \cup {p}
    BY <1>6, <2>1 DEF Liquidate
  <2> QED
    BY <2>1, <2>2
<1>7. CASE KeeperStep
  <2>1. ASSUME NEW p \in PosIds, SettleFunding(p) PROVE Steady
    BY <2>1, SettleFundingSteady
  <2> QED
    BY <1>6, <1>7, <2>1 DEF KeeperStep
<1> QED
  BY <1>2, <1>3, <1>4, <1>5, <1>7 DEF Next

\* Margin and bucket part only by deleveraging, and what is stranded then never
\* leaves its bucket.
THEOREM StrandedByDeleveraging == Spec => OnlyDeleveragingStrands
<1>1. ASSUME BookInv, BookInv', [Next]_vars, NEW p \in PosIds
      PROVE  \/ Stranded(p)' = Stranded(p)
             \/ /\ Stranded(p)' > Stranded(p) /\ book'.pos[p] # book.pos[p]
                /\ cooling \subseteq cooling' /\ cooling' # cooling
  <2>1. Stranded(p) = StrandedIn(book, money, p)
    BY DEF Stranded, StrandedIn, MarginIn, Open
  <2>2. Stranded(p)' = StrandedIn(book', money', p)
    BY DEF Stranded, StrandedIn, MarginIn, Open
  <2> QED
    BY <1>1, <2>1, <2>2, StepStrands DEF Steady, Level
<1>2. BookInv /\ BookInv' /\ [Next]_vars
        => \A p \in PosIds :
             \/ Stranded(p)' = Stranded(p)
             \/ /\ Stranded(p)' > Stranded(p) /\ book'.pos[p] # book.pos[p]
                /\ cooling \subseteq cooling' /\ cooling' # cooling
  BY <1>1
<1> QED
  BY <1>2, BookInvariance, PTL DEF Spec, OnlyDeleveragingStrands

\* No call can open a position that a liquidation would close in part only.
SmallOnly ==
    \E most \in Nat : /\ \A size \in Sizes : size <= most
                      /\ \A x \in Prices : most * x <= PartialThreshold

Small(most) == \A p \in PosIds : SizeIn(book, p) <= most

\* As long as liquidations are full, nobody is deleveraged, and the bucket of an
\* id holds its margin exactly.
THEOREM BucketsAreMargins == ASSUME SmallOnly PROVE Spec => []LocksAreMargins
<1>1. PICK most \in Nat : /\ \A size \in Sizes : size <= most
                          /\ \A x \in Prices : most * x <= PartialThreshold
  BY DEF SmallOnly
<1> DEFINE Exact == \A p \in PosIds : StrandedIn(book, money, p) = 0
           Inv   == BookInv /\ Small(most) /\ Exact
<1>2. BookInv /\ Init => Inv
  <2> SUFFICES ASSUME BookInv, Init PROVE Small(most) /\ Exact
    OBVIOUS
  <2>1. \A p \in PosIds : book.pos[p] = NoPosition /\ money.lock[p] = 0
    BY DEF Init
  <2>2. \A p \in PosIds : SizeIn(book, p) = 0 /\ MarginIn(book, p) = 0
    BY <2>1 DEF SizeIn, MarginIn
  <2> QED
    BY <1>1, <2>1, <2>2 DEF Small, StrandedIn
<1>3. BookInv /\ BookInv' /\ Inv /\ [Next]_vars => Inv'
  <2> SUFFICES ASSUME BookInv, BookInv', Small(most), Exact, [Next]_vars
               PROVE  Small(most)' /\ Exact'
    OBVIOUS
  <2>1. ASSUME NEW p \in Open PROVE ~(Notional(book.pos[p]) > PartialThreshold)
    <3> DEFINE q == book.pos[p]
               x == price[q.market]
    <3>1. /\ p \in PosIds /\ q # NoPosition /\ q.size \in Nat /\ q.market \in Markets
          /\ price \in [Markets -> Prices]
      BY AtPosition, OpenAt, Stores DEF BookInv
    <3>2. q.size <= most
      BY <3>1 DEF Small, SizeIn
    <3>3. x \in Prices /\ x \in Nat
      BY <3>1, ExchangeConstants
    <3>4. most * x <= PartialThreshold
      BY <1>1, <3>3
    <3> HIDE DEF q, x
    <3>5. q.size * x <= most * x
      BY <1>1, <3>1, <3>2, <3>3, SMT
    <3>6. q.size * x \in Nat /\ most * x \in Nat
      BY <1>1, <3>1, <3>3, TimesNat
    <3>7. q.size * x <= PartialThreshold
      BY <3>4, <3>5, <3>6, ExchangeConstants
    <3> QED
      BY <3>6, <3>7, ExchangeConstants DEF Notional, q, x
  <2>2. Steady
    BY <2>1, StepStrands
  <2>3. Exact'
    BY <2>2 DEF Steady, Level
  <2>4. ASSUME NEW p \in PosIds PROVE SizeIn(book', p) <= most
    <3>1. SizeIn(book, p) \in Nat /\ SizeIn(book', p) \in Nat
      BY InNat, Stores DEF BookInv, IInv, TypeOK
    <3>2. SizeIn(book, p) <= most
      BY DEF Small
    <3>3. SizeIn(book', p) <= SizeIn(book, p) \/ SizeIn(book', p) \in Sizes
      BY <2>2 DEF Steady, NoGrowth
    <3> QED
      BY <1>1, <3>1, <3>2, <3>3
  <2>5. Small(most)'
    BY <2>4 DEF Small, SizeIn
  <2> QED
    BY <2>3, <2>5
<1>4. Inv => LocksAreMargins
  <2> SUFFICES ASSUME BookInv, Exact, NEW p \in PosIds
               PROVE  money.lock[p] = IF p \in Open THEN book.pos[p].margin ELSE 0
    BY DEF LocksAreMargins
  <2>1. money.lock[p] \in Nat /\ MarginIn(book, p) \in Nat
    BY Stores, InNat DEF BookInv, Money
  <2>2. money.lock[p] = MarginIn(book, p)
    BY <2>1 DEF StrandedIn
  <2> QED
    BY <2>2 DEF MarginIn, Open
<1> HIDE DEF Inv
<1> QED
  BY <1>2, <1>3, <1>4, BookInvariance, PTL DEF Spec
=============================================================================
