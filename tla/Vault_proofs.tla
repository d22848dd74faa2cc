---------------------------- MODULE Vault_proofs ----------------------------
(* Theorems about the collateral vault, for all values of its constants. *)
EXTENDS Vault, Arithmetic, TLAPS

-----------------------------------------------------------------------------
(* Writing into a ledger *)

\* A ledger whose one entry changes to a natural number is a ledger.
LEMMA AddKeepsNat ==
    ASSUME NEW A, NEW B, NEW f \in [A -> [B -> Nat]],
           NEW a \in A, NEW k \in B, NEW d \in Int, f[a][k] + d >= 0
    PROVE  /\ Add(f, a, k, d) \in [A -> [B -> Nat]]
           /\ Add(f, a, k, d)[a][k] = f[a][k] + d
           /\ \A x \in A, y \in B :
                  (x # a \/ y # k) => Add(f, a, k, d)[x][y] = f[x][y]
<1> DEFINE row == [f[a] EXCEPT ![k] = f[a][k] + d]
<1>1. f[a] \in [B -> Nat] /\ f[a][k] + d \in Nat
  <2>1. f[a] \in [B -> Nat]
    OBVIOUS
  <2>2. f[a][k] \in Nat
    BY <2>1
  <2> QED
    BY <2>1, <2>2
<1>2. row \in [B -> Nat] /\ row[k] = f[a][k] + d /\ \A y \in B \ {k} : row[y] = f[a][y]
  BY <1>1
<1>3. Add(f, a, k, d) = [f EXCEPT ![a] = row]
  BY DEF Add
<1> HIDE DEF row
<1> QED
  BY <1>2, <1>3

\* Tokens moved from one account to another leave a ledger of natural numbers.
LEMMA MovedKeepsNat ==
    ASSUME NEW A, NEW B, NEW f \in [A -> [B -> Nat]],
           NEW from \in A, NEW to \in A, NEW k \in B,
           NEW d \in Nat, d <= f[from][k]
    PROVE  Moved(f, from, to, k, d) \in [A -> [B -> Nat]]
<1> DEFINE less == Add(f, from, k, -d)
<1>1. f[from][k] \in Nat
  OBVIOUS
<1>2. -d \in Int /\ f[from][k] + (-d) >= 0
  BY <1>1
<1>3. less \in [A -> [B -> Nat]]
  BY <1>2, AddKeepsNat
<1> HIDE DEF less
<1>4. less[to][k] \in Nat
  BY <1>3
<1>5. d \in Int /\ less[to][k] + d >= 0
  BY <1>4
<1>6. Add(less, to, k, d) \in [A -> [B -> Nat]]
  BY <1>3, <1>5, AddKeepsNat
<1> QED
  BY <1>6 DEF Moved, less

\* A native amount is a natural number of internal units.
LEMMA NativeUnits ==
    ASSUME NEW n \in Natives
    PROVE  n \in Nat /\ Unit * n \in Nat
<1>1. n \in Nat /\ Unit \in Nat
  BY VaultConstants
<1> QED
  BY <1>1

\* The three accounts of the protocol, and the traders, are accounts.
LEMMA AccountNames ==
    /\ Traders \subseteq Accounts
    /\ Treasury \in Accounts /\ Insurance \in Accounts
BY DEF Accounts

-----------------------------------------------------------------------------
(* Each action preserves the type invariant *)

LEMMA InitTypes == Init => TypeOK
BY VaultConstants DEF Init, TypeOK

LEMMA UserPreserves ==
    ASSUME TypeOK, UserStep
    PROVE  TypeOK'
<1>1. PICK u \in Traders, t \in Tokens :
        \/ \E n \in Natives : Deposit(u, t, n) \/ Withdraw(u, t, n) \/ SeedTreasury(u, t, n)
        \/ \E n \in Natives, s \in SubIds : DepositSub(u, s, t, n) \/ WithdrawSub(u, s, t, n)
        \/ \E s1, s2 \in SubIds, d \in Amounts : TransferBetweenSubs(u, s1, s2, t, d)
  BY DEF UserStep
<1>2. /\ balance \in [Accounts -> [Tokens -> Nat]] /\ held \in [Tokens -> Nat]
      /\ wallet \in [Traders -> [Tokens -> Nat]]
      /\ sub \in [Traders -> [SubIds \ {0} -> [Tokens -> Nat]]]
      /\ u \in Accounts /\ Treasury \in Accounts
      /\ balance[u][t] \in Nat /\ balance[Treasury][t] \in Nat
      /\ wallet[u][t] \in Nat /\ held[t] \in Nat
  BY AccountNames DEF TypeOK
<1>3. ASSUME NEW n \in Natives, NEW a \in Accounts, wallet[u][t] >= n,
             wallet' = Add(wallet, u, t, -n), held' = [held EXCEPT ![t] = @ + n],
             balance' = Add(balance, a, t, Unit * n),
             UNCHANGED <<sub, locks, admin, price, escrow>>
      PROVE  TypeOK'
  <2>1. n \in Nat /\ Unit * n \in Int /\ -n \in Int /\ wallet[u][t] + (-n) >= 0
    BY <1>2, <1>3, NativeUnits
  <2>2. balance[a][t] \in Nat
    BY <1>2
  <2>3. balance[a][t] + Unit * n >= 0
    BY <2>2, NativeUnits
  <2>4. wallet' \in [Traders -> [Tokens -> Nat]]
    BY <1>2, <1>3, <2>1, AddKeepsNat
  <2>5. balance' \in [Accounts -> [Tokens -> Nat]]
    BY <1>2, <1>3, <2>1, <2>3, AddKeepsNat
  <2>6. held' \in [Tokens -> Nat]
    BY <1>2, <1>3, <2>1
  <2> QED
    BY <1>3, <2>4, <2>5, <2>6 DEF TypeOK, locks, admin
<1>4. ASSUME NEW n \in Natives, Withdraw(u, t, n) PROVE TypeOK'
  <2>1. /\ wallet' = Add(wallet, u, t, n) /\ held' = [held EXCEPT ![t] = @ - n]
        /\ balance' = Add(balance, u, t, -(Unit * n))
        /\ UNCHANGED <<sub, locks, admin, price, escrow>>
        /\ held[t] >= n /\ balance[u][t] >= Unit * n
    BY <1>4 DEF Withdraw
  <2>2. /\ n \in Nat /\ n \in Int /\ wallet[u][t] + n >= 0
        /\ -(Unit * n) \in Int /\ balance[u][t] + (-(Unit * n)) >= 0
    BY <1>2, <2>1, NativeUnits
  <2>3. wallet' \in [Traders -> [Tokens -> Nat]]
    BY <1>2, <2>1, <2>2, AddKeepsNat
  <2>4. balance' \in [Accounts -> [Tokens -> Nat]]
    BY <1>2, <2>1, <2>2, AddKeepsNat
  <2>5. held' \in [Tokens -> Nat]
    BY <1>2, <2>1, <2>2
  <2> QED
    BY <2>1, <2>3, <2>4, <2>5 DEF TypeOK, locks, admin
<1>5. ASSUME NEW s \in SubIds \ {0}, NEW row \in [Tokens -> Nat]
      PROVE  [sub EXCEPT ![u] = [sub[u] EXCEPT ![s] = row]]
               \in [Traders -> [SubIds \ {0} -> [Tokens -> Nat]]]
  BY <1>2
<1>6. ASSUME NEW s \in SubIds \ {0}
      PROVE  sub[u][s] \in [Tokens -> Nat] /\ sub[u][s][t] \in Nat
  <2>1. sub[u] \in [SubIds \ {0} -> [Tokens -> Nat]]
    BY <1>2
  <2>2. sub[u][s] \in [Tokens -> Nat]
    BY <2>1
  <2> QED
    BY <2>2
<1>7. ASSUME NEW n \in Natives, NEW s \in SubIds, DepositSub(u, s, t, n)
      PROVE  TypeOK'
  <2>1. /\ s \in SubIds \ {0} /\ wallet[u][t] >= n
        /\ wallet' = Add(wallet, u, t, -n) /\ held' = [held EXCEPT ![t] = @ + n]
        /\ sub' = [sub EXCEPT ![u] = [sub[u] EXCEPT ![s] =
                      [sub[u][s] EXCEPT ![t] = sub[u][s][t] + Unit * n]]]
        /\ UNCHANGED <<balance, locks, admin, price, escrow>>
    BY <1>7 DEF DepositSub
  <2>2. /\ n \in Nat /\ Unit * n \in Nat /\ -n \in Int /\ wallet[u][t] + (-n) >= 0
    BY <1>2, <2>1, NativeUnits
  <2>3. sub[u][s] \in [Tokens -> Nat] /\ sub[u][s][t] + Unit * n \in Nat
    BY <1>6, <2>1, <2>2
  <2>4. [sub[u][s] EXCEPT ![t] = sub[u][s][t] + Unit * n] \in [Tokens -> Nat]
    BY <2>3
  <2>5. sub' \in [Traders -> [SubIds \ {0} -> [Tokens -> Nat]]]
    BY <1>5, <2>1, <2>4
  <2>6. wallet' \in [Traders -> [Tokens -> Nat]]
    BY <1>2, <2>1, <2>2, AddKeepsNat
  <2>7. held' \in [Tokens -> Nat]
    BY <1>2, <2>1, <2>2
  <2> QED
    BY <2>1, <2>5, <2>6, <2>7 DEF TypeOK, locks, admin
<1>8. ASSUME NEW n \in Natives, NEW s \in SubIds, WithdrawSub(u, s, t, n)
      PROVE  TypeOK'
  <2>1. /\ s \in SubIds \ {0} /\ held[t] >= n /\ sub[u][s][t] >= Unit * n
        /\ wallet' = Add(wallet, u, t, n) /\ held' = [held EXCEPT ![t] = @ - n]
        /\ sub' = [sub EXCEPT ![u] = [sub[u] EXCEPT ![s] =
                      [sub[u][s] EXCEPT ![t] = sub[u][s][t] - Unit * n]]]
        /\ UNCHANGED <<balance, locks, admin, price, escrow>>
    BY <1>8 DEF WithdrawSub
  <2>2. /\ n \in Nat /\ Unit * n \in Nat /\ n \in Int /\ wallet[u][t] + n >= 0
    BY <1>2, <2>1, NativeUnits
  <2>3. sub[u][s] \in [Tokens -> Nat] /\ sub[u][s][t] - Unit * n \in Nat
    BY <1>6, <2>1, <2>2
  <2>4. [sub[u][s] EXCEPT ![t] = sub[u][s][t] - Unit * n] \in [Tokens -> Nat]
    BY <2>3
  <2>5. sub' \in [Traders -> [SubIds \ {0} -> [Tokens -> Nat]]]
    BY <1>5, <2>1, <2>4
  <2>6. wallet' \in [Traders -> [Tokens -> Nat]]
    BY <1>2, <2>1, <2>2, AddKeepsNat
  <2>7. held' \in [Tokens -> Nat]
    BY <1>2, <2>1, <2>2
  <2> QED
    BY <2>1, <2>5, <2>6, <2>7 DEF TypeOK, locks, admin
<1>9. ASSUME NEW s1 \in SubIds, NEW s2 \in SubIds, NEW d \in Amounts,
             TransferBetweenSubs(u, s1, s2, t, d)
      PROVE  TypeOK'
  <2> DEFINE less == [sub EXCEPT ![u] = [sub[u] EXCEPT ![s1] =
                        [sub[u][s1] EXCEPT ![t] = sub[u][s1][t] - d]]]
  <2>1. /\ s1 \in SubIds \ {0} /\ s2 \in SubIds \ {0} /\ s1 # s2
        /\ d \in Nat /\ sub[u][s1][t] >= d
        /\ UNCHANGED <<balance, locks, admin, price, chain>>
        /\ sub' = [sub EXCEPT ![u][s1][t] = @ - d, ![u][s2][t] = @ + d]
    BY <1>9, VaultConstants DEF TransferBetweenSubs
  <2>2. sub[u][s1][t] - d \in Nat /\ sub[u][s2][t] + d \in Nat
    BY <1>6, <2>1
  <2>3. [sub[u][s1] EXCEPT ![t] = sub[u][s1][t] - d] \in [Tokens -> Nat]
    BY <1>6, <2>1, <2>2
  <2>4. [sub[u][s2] EXCEPT ![t] = sub[u][s2][t] + d] \in [Tokens -> Nat]
    BY <1>6, <2>1, <2>2
  <2>5. less \in [Traders -> [SubIds \ {0} -> [Tokens -> Nat]]]
    BY <1>5, <2>1, <2>3
  <2>6. sub' = [less EXCEPT ![u] = [less[u] EXCEPT ![s2] =
                  [sub[u][s2] EXCEPT ![t] = sub[u][s2][t] + d]]]
    BY <1>2, <2>1
  <2> HIDE DEF less
  <2>7. less[u] \in [SubIds \ {0} -> [Tokens -> Nat]]
    BY <2>5
  <2> DEFINE row == [sub[u][s2] EXCEPT ![t] = sub[u][s2][t] + d]
             subs == [less[u] EXCEPT ![s2] = row]
  <2>8. sub' = [less EXCEPT ![u] = subs] /\ row \in [Tokens -> Nat]
    BY <2>4, <2>6
  <2> HIDE DEF row
  <2>9. subs \in [SubIds \ {0} -> [Tokens -> Nat]]
    BY <2>1, <2>7, <2>8
  <2> HIDE DEF subs
  <2>10. sub' \in [Traders -> [SubIds \ {0} -> [Tokens -> Nat]]]
    BY <2>5, <2>8, <2>9
  <2> QED
    BY <2>1, <2>10 DEF TypeOK, locks, admin, chain
<1>10. ASSUME NEW n \in Natives, Deposit(u, t, n) PROVE TypeOK'
  BY <1>2, <1>3, <1>10 DEF Deposit
<1>11. ASSUME NEW n \in Natives, SeedTreasury(u, t, n) PROVE TypeOK'
  BY <1>2, <1>3, <1>11 DEF SeedTreasury
<1> QED
  BY <1>1, <1>4, <1>7, <1>8, <1>9, <1>10, <1>11

\* Bridge credits and debits, and balance moves of the authorised contracts.
LEMMA BalancePreserves ==
    ASSUME TypeOK, BridgeStep \/ BalanceStep
    PROVE  TypeOK'
<1>1. balance \in [Accounts -> [Tokens -> Nat]] /\ escrow \in [Tokens -> Int]
  BY DEF TypeOK
<1>2. ASSUME NEW u \in Traders, NEW t \in Tokens, NEW n \in Natives, Credit(u, t, n)
      PROVE  TypeOK'
  <2>1. /\ escrow' = [escrow EXCEPT ![t] = @ + n]
        /\ balance' = Add(balance, u, t, Unit * n)
        /\ UNCHANGED <<sub, locks, admin, price, held, wallet>>
    BY <1>2 DEF Credit
  <2>2. u \in Accounts /\ balance[u][t] \in Nat
    BY <1>1, AccountNames
  <2>3. n \in Nat /\ Unit * n \in Int /\ balance[u][t] + Unit * n >= 0
    BY <2>2, NativeUnits
  <2>4. balance' \in [Accounts -> [Tokens -> Nat]]
    BY <1>1, <2>1, <2>2, <2>3, AddKeepsNat
  <2>5. escrow' \in [Tokens -> Int]
    BY <1>1, <2>1, <2>3
  <2> QED
    BY <2>1, <2>4, <2>5 DEF TypeOK, locks, admin
<1>3. ASSUME NEW u \in Traders, NEW t \in Tokens, NEW n \in Natives, Debit(u, t, n)
      PROVE  TypeOK'
  <2>1. /\ escrow' = [escrow EXCEPT ![t] = @ - n] /\ balance[u][t] >= Unit * n
        /\ balance' = Add(balance, u, t, -(Unit * n))
        /\ UNCHANGED <<sub, locks, admin, price, held, wallet>>
    BY <1>3 DEF Debit
  <2>2. u \in Accounts /\ balance[u][t] \in Nat
    BY <1>1, AccountNames
  <2>3. n \in Nat /\ -(Unit * n) \in Int /\ balance[u][t] + (-(Unit * n)) >= 0
    BY <2>1, <2>2, NativeUnits
  <2>4. balance' \in [Accounts -> [Tokens -> Nat]]
    BY <1>1, <2>1, <2>2, <2>3, AddKeepsNat
  <2>5. escrow' \in [Tokens -> Int]
    BY <1>1, <2>1, <2>3
  <2> QED
    BY <2>1, <2>4, <2>5 DEF TypeOK, locks, admin
<1>4. ASSUME NEW a \in Accounts, NEW b \in Accounts, NEW t \in Tokens,
             NEW d \in Amounts, MoveBalance(a, b, t, d)
      PROVE  TypeOK'
  <2>1. /\ d \in Nat /\ d <= balance[a][t]
        /\ balance' = Moved(balance, a, b, t, d)
        /\ UNCHANGED <<sub, locks, admin, price, chain>>
    BY <1>1, <1>4, VaultConstants DEF MoveBalance
  <2>2. balance' \in [Accounts -> [Tokens -> Nat]]
    BY <1>1, <2>1, MovedKeepsNat
  <2> QED
    BY <2>1, <2>2 DEF TypeOK, locks, admin, chain
<1>5. ASSUME NEW a \in Accounts, NEW b \in Accounts, NEW ta \in Tokens,
             NEW tb \in Tokens, NEW da \in Amounts, NEW db \in Amounts,
             AtomicSwap(a, b, ta, da, tb, db)
      PROVE  TypeOK'
  <2> DEFINE leg1 == Moved(balance, a, b, ta, da)
  <2>1. /\ da \in Nat /\ db \in Nat /\ da <= balance[a][ta] /\ db <= leg1[b][tb]
        /\ balance' = Moved(leg1, b, a, tb, db)
        /\ UNCHANGED <<sub, locks, admin, price, chain>>
    BY <1>1, <1>5, VaultConstants DEF AtomicSwap
  <2>2. leg1 \in [Accounts -> [Tokens -> Nat]]
    BY <1>1, <2>1, MovedKeepsNat
  <2> HIDE DEF leg1
  <2>3. balance' \in [Accounts -> [Tokens -> Nat]]
    BY <2>1, <2>2, MovedKeepsNat
  <2> QED
    BY <2>1, <2>3 DEF TypeOK, locks, admin, chain
<1> QED
  BY <1>2, <1>3, <1>4, <1>5 DEF BridgeStep, BalanceStep

\* Locks, releases, realised results and seizures of margin.
LEMMA MarginPreserves ==
    ASSUME TypeOK, MarginStep
    PROVE  TypeOK'
<1>1. /\ cross \in [Traders -> [PosIds -> Nat]] /\ crossTotal \in [Traders -> Int]
      /\ iso \in [Traders -> [PosIds -> Nat]] /\ isoTotal \in [Traders -> Int]
      /\ balance \in [Accounts -> [Tokens -> Nat]]
  BY DEF TypeOK
<1>2. ASSUME NEW u \in Traders, NEW p \in PosIds
      PROVE  cross[u][p] \in Nat /\ iso[u][p] \in Nat
  BY <1>1
<1>3. ASSUME NEW u \in Traders, NEW p \in PosIds, NEW d \in Int,
             cross[u][p] + d >= 0, cross' = Add(cross, u, p, d),
             crossTotal' = [crossTotal EXCEPT ![u] = @ + d],
             UNCHANGED <<balance, sub, iso, isoTotal, admin, price, chain>>
      PROVE  TypeOK'
  <2>1. cross' \in [Traders -> [PosIds -> Nat]]
    BY <1>1, <1>3, AddKeepsNat
  <2>2. crossTotal' \in [Traders -> Int]
    BY <1>1, <1>3
  <2> QED
    BY <1>3, <2>1, <2>2 DEF TypeOK, admin, chain
<1>4. ASSUME NEW u \in Traders, NEW p \in PosIds, NEW d \in Int,
             iso[u][p] + d >= 0, iso' = Add(iso, u, p, d),
             isoTotal' = [isoTotal EXCEPT ![u] = @ + d],
             UNCHANGED <<balance, sub, cross, crossTotal, admin, price, chain>>
      PROVE  TypeOK'
  <2>1. iso' \in [Traders -> [PosIds -> Nat]]
    BY <1>1, <1>4, AddKeepsNat
  <2>2. isoTotal' \in [Traders -> Int]
    BY <1>1, <1>4
  <2> QED
    BY <1>4, <2>1, <2>2 DEF TypeOK, admin, chain
<1>5. ASSUME NEW u \in Traders, NEW p \in PosIds, NEW d \in Amounts
      PROVE  /\ LockMargin(u, p, d) => TypeOK'
             /\ LockIsolated(u, p, d) => TypeOK'
  <2>1. d \in Int /\ cross[u][p] + d >= 0 /\ iso[u][p] + d >= 0
    BY <1>2, VaultConstants
  <2> QED
    BY <1>3, <1>4, <2>1 DEF LockMargin, LockIsolated
<1>6. ASSUME NEW u \in Traders, NEW p \in PosIds, NEW d \in Amounts,
             UnlockMargin(u, p, d)
      PROVE  TypeOK'
  <2>1. /\ cross' = Add(cross, u, p, -d) /\ d <= cross[u][p] /\ d \in Nat
        /\ crossTotal' = [crossTotal EXCEPT ![u] = @ - d]
        /\ UNCHANGED <<balance, sub, iso, isoTotal, admin, price, chain>>
    BY <1>6, VaultConstants DEF UnlockMargin
  <2>2. -d \in Int /\ cross[u][p] + (-d) >= 0
    BY <1>2, <2>1
  <2>3. crossTotal' = [crossTotal EXCEPT ![u] = @ + (-d)]
    BY <1>1, <2>1
  <2> QED
    BY <1>3, <2>1, <2>2, <2>3
<1>7. ASSUME NEW u \in Traders, NEW p \in PosIds, NEW d \in Int,
             d <= iso[u][p], iso' = Add(iso, u, p, -d),
             isoTotal' = [isoTotal EXCEPT ![u] = @ - d],
             UNCHANGED <<balance, sub, cross, crossTotal, admin, price, chain>>
      PROVE  TypeOK'
  <2>1. -d \in Int /\ iso[u][p] + (-d) >= 0
    BY <1>2, <1>7
  <2>2. isoTotal' = [isoTotal EXCEPT ![u] = @ + (-d)]
    BY <1>1, <1>7
  <2> QED
    BY <1>4, <1>7, <2>1, <2>2
<1>8. ASSUME NEW u \in Traders, NEW p \in PosIds, NEW d \in Amounts,
             UnlockIsolated(u, p, d)
      PROVE  TypeOK'
  <2>1. d \in Int
    BY VaultConstants
  <2> QED
    BY <1>7, <1>8, <2>1 DEF UnlockIsolated
<1>9. ASSUME NEW u \in Traders, NEW p \in PosIds, NEW pnl \in Losses,
             RealizeIsolatedPnl(u, p, pnl)
      PROVE  TypeOK'
  <2> DEFINE consumed == Consumed(iso[u][p], pnl)
  <2>1. pnl \in Int
    BY VaultConstants
  <2>2. consumed \in Int /\ consumed <= iso[u][p]
    BY <1>2, <2>1 DEF Consumed
  <2>3. /\ iso' = Add(iso, u, p, -consumed)
        /\ isoTotal' = [isoTotal EXCEPT ![u] = @ - consumed]
        /\ UNCHANGED <<balance, sub, cross, crossTotal, admin, price, chain>>
    BY <1>9 DEF RealizeIsolatedPnl
  <2> HIDE DEF consumed
  <2> QED
    BY <1>7, <2>2, <2>3
<1>10. ASSUME NEW u \in Traders, NEW r \in {Treasury, Insurance},
              NEW d \in Amounts, TransferMargin(u, r, d)
       PROVE  TypeOK'
  <2>1. /\ \/ UNCHANGED balance
           \/ \E i \in DOMAIN TokenOrder :
                 LET t    == TokenOrder[i]
                     paid == IF balance[u][t] < d THEN balance[u][t] ELSE d
                 IN  balance' = Moved(balance, u, r, t, paid)
        /\ crossTotal' = [crossTotal EXCEPT ![u] = @ - d]
        /\ UNCHANGED <<sub, cross, iso, isoTotal, admin, price, chain>>
    BY <1>10, Zenon DEF TransferMargin
  <2>2. u \in Accounts /\ r \in Accounts /\ d \in Nat
    BY AccountNames, VaultConstants
  <2>3. crossTotal' \in [Traders -> Int]
    BY <1>1, <2>1, <2>2
  <2>4. balance' \in [Accounts -> [Tokens -> Nat]]
    <3>1. CASE UNCHANGED balance
      BY <1>1, <3>1
    <3>2. ASSUME NEW t \in Tokens, NEW paid,
                 paid = IF balance[u][t] < d THEN balance[u][t] ELSE d,
                 balance' = Moved(balance, u, r, t, paid)
          PROVE  balance' \in [Accounts -> [Tokens -> Nat]]
      <4>1. balance[u][t] \in Nat
        BY <1>1, <2>2
      <4>2. paid \in Nat /\ paid <= balance[u][t]
        BY <2>2, <3>2, <4>1
      <4> QED
        BY <1>1, <2>2, <3>2, <4>2, MovedKeepsNat
    <3>3. \A i \in DOMAIN TokenOrder : TokenOrder[i] \in Tokens
      BY DEF Tokens, Range
    <3> QED
      BY <2>1, <3>1, <3>2, <3>3
  <2> QED
    BY <2>1, <2>3, <2>4 DEF TypeOK, admin, chain
<1> QED
  BY <1>5, <1>6, <1>8, <1>9, <1>10 DEF MarginStep

\* The admin and the oracle.
LEMMA AdminPreserves ==
    ASSUME TypeOK, AdminStep
    PROVE  TypeOK'
<1>1. ASSUME NEW c \in Callers, AddAuthorizedCaller(c) PROVE TypeOK'
  BY <1>1 DEF TypeOK, AddAuthorizedCaller, locks, chain
<1>2. ASSUME NEW t \in Tokens, NEW on \in BOOLEAN, NEW cap \in Caps,
             UpdateCollateralConfig(t, on, cap)
      PROVE  TypeOK'
  BY <1>2 DEF TypeOK, UpdateCollateralConfig, locks, chain
<1>3. ASSUME NEW t \in Tokens, NEW q \in Prices, OracleMoves(t, q) PROVE TypeOK'
  BY <1>3 DEF TypeOK, OracleMoves, locks, admin, chain
<1> QED
  BY <1>1, <1>2, <1>3 DEF AdminStep

LEMMA StepTypes ==
    ASSUME TypeOK, [Next]_vars
    PROVE  TypeOK'
<1>1. CASE UNCHANGED vars
  BY <1>1 DEF vars, locks, admin, chain, TypeOK
<1> QED
  BY <1>1, UserPreserves, BalancePreserves, MarginPreserves, AdminPreserves DEF Next

-----------------------------------------------------------------------------
(* Theorems *)

\* No call sequence makes a balance, a sub-account balance, a margin bucket or
\* the vault's own token balance negative, for any tokens, users and amounts.
THEOREM TypeCorrect == Spec => []TypeOK
<1>1. TypeOK /\ [Next]_vars => TypeOK'
  BY StepTypes
<1> QED
  BY <1>1, InitTypes, PTL DEF Spec

-----------------------------------------------------------------------------
(* Conservation: what each write does to the sum of a ledger *)

Subs == SubIds \ {0}

\* The sum over the accounts R of what ledger b says of token t.
Total(b, R, t) == SumFunction([a \in R |-> b[a][t]])

\* The same for the sub-accounts of all traders.
SubTotal(h, t) == SumFunction([u \in Traders |-> SumFunction([s \in Subs |-> h[u][s][t]])])

\* Adding d to one entry leaves a ledger of integers.
LEMMA AddType ==
    ASSUME NEW R, NEW B, NEW b \in [R -> [B -> Int]],
           NEW u \in R, NEW k \in B, NEW d \in Int
    PROVE  Add(b, u, k, d) \in [R -> [B -> Int]]
<1> DEFINE row == [b[u] EXCEPT ![k] = b[u][k] + d]
<1>1. row \in [B -> Int]
  BY DEF row
<1>2. Add(b, u, k, d) = [b EXCEPT ![u] = row]
  BY DEF Add
<1> HIDE DEF row
<1> QED
  BY <1>1, <1>2

\* It adds d to the sum of its token, and to no other.
LEMMA AddTotal ==
    ASSUME NEW R, IsFiniteSet(R), NEW B, NEW b \in [R -> [B -> Int]],
           NEW u \in R, NEW k \in B, NEW d \in Int, NEW t \in B
    PROVE  Total(Add(b, u, k, d), R, t) = Total(b, R, t) + (IF t = k THEN d ELSE 0)
<1> DEFINE row == [b[u] EXCEPT ![k] = b[u][k] + d]
           c == Add(b, u, k, d)
           f == [a \in R |-> b[a][t]]
           g == [a \in R |-> c[a][t]]
<1>1. row \in [B -> Int] /\ \A y \in B : row[y] = b[u][y] + (IF y = k THEN d ELSE 0)
  OBVIOUS
<1>2. c = [b EXCEPT ![u] = row]
  BY DEF Add
<1>3. c \in [R -> [B -> Int]]
  BY AddType
<1> HIDE DEF row, c
<1>4. c[u] = row /\ \A x \in R \ {u} : c[x] = b[x]
  BY <1>2
<1>5. f \in [R -> Int] /\ g \in [R -> Int]
  BY <1>3
<1>6. \A x \in R \ {u} : g[x] = f[x]
  BY <1>4
<1>7. f[u] = b[u][t] /\ g[u] = b[u][t] + (IF t = k THEN d ELSE 0)
  BY <1>1, <1>4
<1>8. Total(b, R, t) = SumFunction(f) /\ Total(c, R, t) = SumFunction(g)
  BY DEF Total
<1> HIDE DEF f, g
<1>9. SumFunction(g) = SumFunction(f) + (g[u] - f[u])
  BY <1>5, <1>6, SumChange
<1>10. f[u] \in Int /\ SumFunction(f) \in Int
  BY <1>5, SumFunctionType
<1> QED
  BY <1>7, <1>8, <1>9, <1>10 DEF c

LEMMA TotalType ==
    ASSUME NEW R, IsFiniteSet(R), NEW B, NEW b \in [R -> [B -> Int]], NEW t \in B
    PROVE  Total(b, R, t) \in Int
<1> DEFINE f == [a \in R |-> b[a][t]]
<1>1. f \in [R -> Int]
  OBVIOUS
<1> HIDE DEF f
<1>2. SumFunction(f) \in Int
  BY <1>1, SumFunctionType
<1> QED
  BY <1>2 DEF Total, f

LEMMA MovedType ==
    ASSUME NEW R, NEW B, NEW b \in [R -> [B -> Int]],
           NEW from \in R, NEW to \in R, NEW k \in B, NEW d \in Int
    PROVE  Moved(b, from, to, k, d) \in [R -> [B -> Int]]
<1> DEFINE less == Add(b, from, k, -d)
<1>0. -d \in Int
  OBVIOUS
<1>1. less \in [R -> [B -> Int]]
  BY <1>0, AddType
<1> HIDE DEF less
<1>2. Add(less, to, k, d) \in [R -> [B -> Int]]
  BY <1>1, AddType
<1> QED
  BY <1>2 DEF Moved, less

\* Moving leaves every sum as it is, also from an account to itself.
LEMMA MovedTotal ==
    ASSUME NEW R, IsFiniteSet(R), NEW B, NEW b \in [R -> [B -> Int]],
           NEW from \in R, NEW to \in R, NEW k \in B, NEW d \in Int, NEW t \in B
    PROVE  Total(Moved(b, from, to, k, d), R, t) = Total(b, R, t)
<1> DEFINE less == Add(b, from, k, -d)
<1>1. -d \in Int
  OBVIOUS
<1>2. less \in [R -> [B -> Int]]
  BY <1>1, AddType
<1>3. Total(less, R, t) = Total(b, R, t) + (IF t = k THEN -d ELSE 0)
  BY <1>1, AddTotal
<1> HIDE DEF less
<1>4. Total(Add(less, to, k, d), R, t) = Total(less, R, t) + (IF t = k THEN d ELSE 0)
  BY <1>2, AddTotal
<1>5. Total(b, R, t) \in Int
  BY TotalType
<1> QED
  BY <1>3, <1>4, <1>5 DEF Moved, less

SubLedger == [Traders -> [Subs -> [Tokens -> Int]]]

SubAdd(h, u, s, k, d) == [h EXCEPT ![u][s][k] = @ + d]

LEMMA SubAddType ==
    ASSUME NEW h \in SubLedger, NEW u \in Traders, NEW s \in Subs, NEW k \in Tokens,
           NEW d \in Int
    PROVE  SubAdd(h, u, s, k, d) \in SubLedger
<1> DEFINE c == Add(h[u], s, k, d)
<1>1. h[u] \in [Subs -> [Tokens -> Int]]
  BY DEF SubLedger
<1>2. c \in [Subs -> [Tokens -> Int]]
  BY <1>1, AddType
<1>3. SubAdd(h, u, s, k, d) = [h EXCEPT ![u] = c]
  BY DEF SubAdd, Add
<1> HIDE DEF c
<1> QED
  BY <1>2, <1>3 DEF SubLedger

LEMMA SubTotalType ==
    ASSUME NEW h \in SubLedger, NEW t \in Tokens
    PROVE  SubTotal(h, t) \in Int
<1> DEFINE f == [u \in Traders |-> Total(h[u], Subs, t)]
<1>1. IsFiniteSet(Traders) /\ IsFiniteSet(Subs)
  BY VaultIsFinite, FS_Subset DEF Subs
<1>2. \A u \in Traders : Total(h[u], Subs, t) \in Int
  BY <1>1, TotalType DEF SubLedger
<1>3. f \in [Traders -> Int]
  BY <1>2
<1>4. SubTotal(h, t) = SumFunction(f)
  BY DEF SubTotal, Total
<1> HIDE DEF f
<1> QED
  BY <1>1, <1>3, <1>4, SumFunctionType

\* Adding d to one sub-account adds d to the sum of its token, and to no other.
LEMMA SubAddTotal ==
    ASSUME NEW h \in SubLedger, NEW u \in Traders, NEW s \in Subs, NEW k \in Tokens,
           NEW d \in Int, NEW t \in Tokens
    PROVE  SubTotal(SubAdd(h, u, s, k, d), t) = SubTotal(h, t) + (IF t = k THEN d ELSE 0)
<1> DEFINE c == Add(h[u], s, k, d)
           f == [v \in Traders |-> Total(h[v], Subs, t)]
           g == [v \in Traders |-> Total(SubAdd(h, u, s, k, d)[v], Subs, t)]
<1>1. \A v \in Traders : h[v] \in [Subs -> [Tokens -> Int]]
  BY DEF SubLedger
<1>2. c \in [Subs -> [Tokens -> Int]]
  BY <1>1, AddType
<1>3. SubAdd(h, u, s, k, d) = [h EXCEPT ![u] = c]
  BY DEF SubAdd, Add
<1>4. IsFiniteSet(Traders) /\ IsFiniteSet(Subs)
  BY VaultIsFinite, FS_Subset DEF Subs
<1>5. Total(c, Subs, t) = Total(h[u], Subs, t) + (IF t = k THEN d ELSE 0)
  BY <1>1, <1>4, AddTotal
<1>6. \A v \in Traders : Total(h[v], Subs, t) \in Int
  BY <1>1, <1>4, TotalType
<1>7. Total(c, Subs, t) \in Int
  BY <1>2, <1>4, TotalType
<1> HIDE DEF c
<1>8. /\ g[u] = Total(c, Subs, t)
      /\ \A v \in Traders \ {u} : g[v] = f[v]
  BY <1>3 DEF SubLedger
<1>9. f \in [Traders -> Int] /\ f[u] = Total(h[u], Subs, t)
  BY <1>6
<1>10. g \in [Traders -> Int]
  <2>1. \A v \in Traders : g[v] \in Int
    BY <1>7, <1>8, <1>9
  <2> QED
    BY <2>1
<1>11. SubTotal(h, t) = SumFunction(f) /\ SubTotal(SubAdd(h, u, s, k, d), t) = SumFunction(g)
  BY DEF SubTotal, Total
<1> HIDE DEF f, g
<1>12. SumFunction(g) = SumFunction(f) + (g[u] - f[u])
  BY <1>4, <1>8, <1>9, <1>10, SumChange
<1>13. SumFunction(f) \in Int
  BY <1>4, <1>9, SumFunctionType
<1> QED
  BY <1>5, <1>6, <1>8, <1>9, <1>11, <1>12, <1>13

-----------------------------------------------------------------------------
(* Conservation *)

Owed(b, h, t) == Total(b, Accounts, t) + SubTotal(h, t)

LEMMA LiabilitiesAreOwed ==
    /\ \A t \in Tokens : Liabilities(t) = Owed(balance, sub, t)
    /\ (\A t \in Tokens : Liabilities(t) = Owed(balance, sub, t))'
BY DEF Liabilities, SubSum, Owed, Total, SubTotal, Subs

LEMMA AccountsAreFinite == IsFiniteSet(Accounts)
<1>1. IsFiniteSet(Traders \cup {Treasury})
  BY VaultIsFinite, FS_AddElement
<1>2. IsFiniteSet((Traders \cup {Treasury}) \cup {Insurance})
  BY <1>1, FS_AddElement
<1>3. IsFiniteSet(((Traders \cup {Treasury}) \cup {Insurance}) \cup {SlpPool})
  BY <1>2, FS_AddElement
<1>4. Accounts = ((Traders \cup {Treasury}) \cup {Insurance}) \cup {SlpPool}
  BY DEF Accounts
<1> QED
  BY <1>3, <1>4

LEMMA IntLedgers ==
    ASSUME TypeOK
    PROVE  /\ balance \in [Accounts -> [Tokens -> Int]] /\ sub \in SubLedger
           /\ \A t \in Tokens : /\ Owed(balance, sub, t) \in Int
                                /\ held[t] \in Int /\ escrow[t] \in Int
<1>1. balance \in [Accounts -> [Tokens -> Int]]
  <2>1. balance \in [Accounts -> [Tokens -> Nat]]
    BY DEF TypeOK
  <2> QED
    BY <2>1
<1>2. sub \in SubLedger
  <2>1. sub \in [Traders -> [Subs -> [Tokens -> Nat]]]
    BY DEF TypeOK, Subs
  <2>2. \A u \in Traders : sub[u] \in [Subs -> [Tokens -> Int]]
    BY <2>1
  <2> QED
    BY <2>1, <2>2 DEF SubLedger
<1>3. ASSUME NEW t \in Tokens
      PROVE  Owed(balance, sub, t) \in Int /\ held[t] \in Int /\ escrow[t] \in Int
  <2>1. SubTotal(sub, t) \in Int
    BY <1>2, SubTotalType
  <2>2. Total(balance, Accounts, t) \in Int
    BY <1>1, AccountsAreFinite, TotalType
  <2> QED
    BY <2>1, <2>2 DEF Owed, TypeOK
<1> QED
  BY <1>1, <1>2, <1>3

\* What the vault owes and what it holds change by the same amount.
LEMMA Balanced ==
    ASSUME TypeOK, Conservation, NEW k \in Tokens, NEW n \in Int,
           \A t \in Tokens :
              /\ Owed(balance', sub', t)
                   = Owed(balance, sub, t) + (IF t = k THEN Unit * n ELSE 0)
              /\ held'[t] + escrow'[t] = held[t] + escrow[t] + (IF t = k THEN n ELSE 0)
    PROVE  Conservation'
<1> SUFFICES ASSUME NEW t \in Tokens
             PROVE  Owed(balance', sub', t) = Unit * (held'[t] + escrow'[t])
  BY LiabilitiesAreOwed DEF Conservation
<1> DEFINE h == held[t] + escrow[t]
<1>1. Owed(balance, sub, t) = Unit * h
  BY LiabilitiesAreOwed DEF Conservation
<1>2. h \in Int /\ Unit \in Int
  BY IntLedgers, VaultConstants
<1> HIDE DEF h
<1>3. Unit * (h + n) = Unit * h + Unit * n
  BY <1>2
<1>4. CASE t = k
  BY <1>1, <1>2, <1>3, <1>4 DEF h
<1>5. CASE t # k
  <2>1. Unit * h \in Int
    BY <1>2
  <2>2. Owed(balance', sub', t) = Unit * h /\ held'[t] + escrow'[t] = h
    BY <1>1, <1>2, <1>5, <2>1 DEF h
  <2> QED
    BY <2>2
<1> QED
  BY <1>4, <1>5

\* An amount that is added to one balance, or moved, as seen by Owed.
LEMMA OwedAfterAdd ==
    ASSUME TypeOK, NEW a \in Accounts, NEW k \in Tokens, NEW d \in Int, NEW t \in Tokens
    PROVE  Owed(Add(balance, a, k, d), sub, t)
             = Owed(balance, sub, t) + (IF t = k THEN d ELSE 0)
<1> DEFINE x == IF t = k THEN d ELSE 0
           b == Total(balance, Accounts, t)
           c == SubTotal(sub, t)
<1>1. Total(Add(balance, a, k, d), Accounts, t) = b + x
  BY IntLedgers, AccountsAreFinite, AddTotal
<1>2. b \in Int /\ x \in Int /\ c \in Int
  BY IntLedgers, AccountsAreFinite, TotalType, SubTotalType
<1>3. Owed(balance, sub, t) = b + c /\ Owed(Add(balance, a, k, d), sub, t) = (b + x) + c
  BY <1>1 DEF Owed
<1> HIDE DEF x, b, c
<1>4. (b + x) + c = (b + c) + x
  BY <1>2
<1> QED
  BY <1>3, <1>4 DEF x

LEMMA OwedAfterSubAdd ==
    ASSUME TypeOK, NEW u \in Traders, NEW s \in Subs, NEW k \in Tokens,
           NEW d \in Int, NEW t \in Tokens
    PROVE  Owed(balance, SubAdd(sub, u, s, k, d), t)
             = Owed(balance, sub, t) + (IF t = k THEN d ELSE 0)
<1> DEFINE x == IF t = k THEN d ELSE 0
           b == Total(balance, Accounts, t)
           c == SubTotal(sub, t)
<1>1. SubTotal(SubAdd(sub, u, s, k, d), t) = c + x
  BY IntLedgers, SubAddTotal
<1>2. b \in Int /\ x \in Int /\ c \in Int
  BY IntLedgers, AccountsAreFinite, TotalType, SubTotalType
<1>3. Owed(balance, sub, t) = b + c /\ Owed(balance, SubAdd(sub, u, s, k, d), t) = b + (c + x)
  BY <1>1 DEF Owed
<1> HIDE DEF x, b, c
<1>4. b + (c + x) = (b + c) + x
  BY <1>2
<1> QED
  BY <1>3, <1>4 DEF x

LEMMA OwedAfterMove ==
    ASSUME TypeOK, NEW b \in [Accounts -> [Tokens -> Int]],
           NEW from \in Accounts, NEW to \in Accounts,
           NEW k \in Tokens, NEW d \in Int, NEW t \in Tokens
    PROVE  Owed(Moved(b, from, to, k, d), sub, t) = Owed(b, sub, t)
BY AccountsAreFinite, MovedTotal DEF Owed

-----------------------------------------------------------------------------
(* Each action conserves *)

LEMMA UserConserves ==
    ASSUME TypeOK, Conservation, UserStep
    PROVE  Conservation'
<1>1. PICK u \in Traders, k \in Tokens :
        \/ \E n \in Natives : Deposit(u, k, n) \/ Withdraw(u, k, n) \/ SeedTreasury(u, k, n)
        \/ \E n \in Natives, s \in SubIds : DepositSub(u, s, k, n) \/ WithdrawSub(u, s, k, n)
        \/ \E s1, s2 \in SubIds, d \in Amounts : TransferBetweenSubs(u, s1, s2, k, d)
  BY DEF UserStep
<1>2. u \in Accounts /\ Treasury \in Accounts
  BY AccountNames
<1>3. \A n \in Natives : /\ n \in Int /\ -n \in Int /\ Unit * n \in Int
                        /\ -(Unit * n) \in Int /\ -(Unit * n) = Unit * (-n)
  <2>1. ASSUME NEW n \in Int PROVE -(Unit * n) = Unit * (-n)
    BY VaultConstants
  <2> QED
    BY <2>1, NativeUnits
<1>4. held \in [Tokens -> Nat] /\ escrow \in [Tokens -> Int]
  BY DEF TypeOK
<1>5. ASSUME NEW a \in Accounts, NEW m \in Int, Unit * m \in Int,
             balance' = Add(balance, a, k, Unit * m), sub' = sub,
             held' = [held EXCEPT ![k] = @ + m], escrow' = escrow
      PROVE  Conservation'
  <2>1. \A t \in Tokens : Owed(balance', sub', t)
                         = Owed(balance, sub, t) + (IF t = k THEN Unit * m ELSE 0)
    BY <1>5, OwedAfterAdd
  <2>2. \A t \in Tokens : held'[t] + escrow'[t] = held[t] + escrow[t] + (IF t = k THEN m ELSE 0)
    BY <1>4, <1>5
  <2> QED
    BY <2>1, <2>2, Balanced
<1>6. ASSUME NEW s \in Subs, NEW m \in Int, Unit * m \in Int,
             sub' = SubAdd(sub, u, s, k, Unit * m), balance' = balance,
             held' = [held EXCEPT ![k] = @ + m], escrow' = escrow
      PROVE  Conservation'
  <2>1. \A t \in Tokens : Owed(balance', sub', t)
                         = Owed(balance, sub, t) + (IF t = k THEN Unit * m ELSE 0)
    BY <1>6, OwedAfterSubAdd
  <2>2. \A t \in Tokens : held'[t] + escrow'[t] = held[t] + escrow[t] + (IF t = k THEN m ELSE 0)
    BY <1>4, <1>6
  <2> QED
    BY <2>1, <2>2, Balanced
<1>7. ASSUME NEW n \in Natives, Deposit(u, k, n) \/ SeedTreasury(u, k, n)
      PROVE  Conservation'
  BY <1>2, <1>3, <1>5, <1>7 DEF Deposit, SeedTreasury
<1>8. ASSUME NEW n \in Natives, Withdraw(u, k, n) PROVE Conservation'
  <2>1. /\ balance' = Add(balance, u, k, Unit * (-n)) /\ sub' = sub /\ escrow' = escrow
        /\ held' = [held EXCEPT ![k] = @ - n]
    BY <1>3, <1>8 DEF Withdraw
  <2>2. held' = [held EXCEPT ![k] = @ + (-n)]
    BY <1>3, <1>4, <2>1
  <2> QED
    BY <1>2, <1>3, <1>5, <2>1, <2>2
<1>9. ASSUME NEW n \in Natives, NEW s \in SubIds, DepositSub(u, s, k, n)
      PROVE  Conservation'
  BY <1>3, <1>6, <1>9 DEF DepositSub, SubAdd, Subs
<1>10. ASSUME NEW s \in Subs, NEW d \in Int
       PROVE  [sub EXCEPT ![u][s][k] = @ - d] = SubAdd(sub, u, s, k, -d)
  <2>1. sub[u][s][k] \in Int
    BY IntLedgers DEF SubLedger
  <2>2. sub[u][s][k] - d = sub[u][s][k] + (-d)
    BY <2>1
  <2> QED
    BY <2>2 DEF SubAdd
<1>11. ASSUME NEW n \in Natives, NEW s \in SubIds, WithdrawSub(u, s, k, n)
       PROVE  Conservation'
  <2>1. /\ s \in Subs /\ balance' = balance /\ escrow' = escrow
        /\ sub' = [sub EXCEPT ![u][s][k] = @ - Unit * n]
        /\ held' = [held EXCEPT ![k] = @ - n]
    BY <1>11 DEF WithdrawSub, Subs
  <2>2. sub' = SubAdd(sub, u, s, k, Unit * (-n))
    BY <1>3, <1>10, <2>1
  <2>3. held' = [held EXCEPT ![k] = @ + (-n)]
    BY <1>3, <1>4, <2>1
  <2> QED
    BY <1>3, <1>6, <2>1, <2>2, <2>3
<1>12. ASSUME NEW s1 \in SubIds, NEW s2 \in SubIds, NEW d \in Amounts,
              TransferBetweenSubs(u, s1, s2, k, d)
       PROVE  Conservation'
  <2> DEFINE less == [sub EXCEPT ![u][s1][k] = @ - d]
  <2>1. /\ s1 \in Subs /\ s2 \in Subs /\ s1 # s2 /\ d \in Int /\ -d \in Int
        /\ balance' = balance /\ held' = held /\ escrow' = escrow
        /\ sub' = [sub EXCEPT ![u][s1][k] = @ - d, ![u][s2][k] = @ + d]
    BY <1>12, VaultConstants DEF TransferBetweenSubs, Subs, chain
  <2>2. less = SubAdd(sub, u, s1, k, -d)
    BY <1>10, <2>1
  <2>3. less \in SubLedger /\ sub \in SubLedger
    BY <2>1, <2>2, IntLedgers, SubAddType
  <2>4. sub' = SubAdd(less, u, s2, k, d)
    <3>1. sub' = [less EXCEPT ![u] = [less[u] EXCEPT ![s2] =
                    [sub[u][s2] EXCEPT ![k] = sub[u][s2][k] + d]]]
      BY <2>1, <2>3 DEF SubLedger
    <3>2. less[u][s2] = sub[u][s2]
      BY <2>1, <2>3 DEF SubLedger
    <3> HIDE DEF less
    <3> QED
      BY <3>1, <3>2 DEF SubAdd
  <2> HIDE DEF less
  <2>5. ASSUME NEW t \in Tokens PROVE Owed(balance', sub', t) = Owed(balance, sub, t)
    <3>1. SubTotal(less, t) = SubTotal(sub, t) + (IF t = k THEN -d ELSE 0)
      BY <2>1, <2>2, <2>3, SubAddTotal
    <3>2. SubTotal(SubAdd(less, u, s2, k, d), t)
            = SubTotal(less, t) + (IF t = k THEN d ELSE 0)
      BY <2>1, <2>3, SubAddTotal
    <3>3. SubTotal(sub, t) \in Int
      BY <2>3, SubTotalType
    <3>4. SubTotal(sub', t) = SubTotal(less, t) + (IF t = k THEN d ELSE 0)
      BY <2>4, <3>2
    <3>5. SubTotal(sub', t) = SubTotal(sub, t)
      <4>1. CASE t = k
        BY <2>1, <3>1, <3>3, <3>4, <4>1
      <4>2. CASE t # k
        BY <3>1, <3>3, <3>4, <4>2
      <4> QED
        BY <4>1, <4>2
    <3> QED
      BY <2>1, <3>5 DEF Owed
  <2> QED
    BY <2>1, <2>5, LiabilitiesAreOwed DEF Conservation
<1> QED
  BY <1>1, <1>7, <1>8, <1>9, <1>11, <1>12

LEMMA BalanceConserves ==
    ASSUME TypeOK, Conservation, BridgeStep \/ BalanceStep
    PROVE  Conservation'
<1>1. held \in [Tokens -> Nat] /\ escrow \in [Tokens -> Int]
  BY DEF TypeOK
<1>2. balance \in [Accounts -> [Tokens -> Int]]
  BY IntLedgers
<1>3. ASSUME NEW u \in Traders, NEW k \in Tokens, NEW m \in Int, Unit * m \in Int,
             balance' = Add(balance, u, k, Unit * m), sub' = sub,
             escrow' = [escrow EXCEPT ![k] = @ + m], held' = held
      PROVE  Conservation'
  <2>1. \A t \in Tokens : Owed(balance', sub', t)
                         = Owed(balance, sub, t) + (IF t = k THEN Unit * m ELSE 0)
    BY <1>3, AccountNames, OwedAfterAdd
  <2>2. \A t \in Tokens : held'[t] + escrow'[t] = held[t] + escrow[t] + (IF t = k THEN m ELSE 0)
    BY <1>1, <1>3
  <2> QED
    BY <1>3, <2>1, <2>2, Balanced
<1>4. \A n \in Natives : /\ n \in Int /\ -n \in Int /\ Unit * n \in Int
                        /\ -(Unit * n) \in Int /\ -(Unit * n) = Unit * (-n)
  <2>1. ASSUME NEW n \in Int PROVE -(Unit * n) = Unit * (-n)
    BY VaultConstants
  <2> QED
    BY <2>1, NativeUnits
<1>5. ASSUME NEW u \in Traders, NEW k \in Tokens, NEW n \in Natives, Credit(u, k, n)
      PROVE  Conservation'
  BY <1>3, <1>4, <1>5 DEF Credit
<1>6. ASSUME NEW u \in Traders, NEW k \in Tokens, NEW n \in Natives, Debit(u, k, n)
      PROVE  Conservation'
  <2>1. /\ balance' = Add(balance, u, k, Unit * (-n)) /\ sub' = sub /\ held' = held
        /\ escrow' = [escrow EXCEPT ![k] = @ - n]
    BY <1>4, <1>6 DEF Debit
  <2>2. escrow' = [escrow EXCEPT ![k] = @ + (-n)]
    BY <1>1, <1>4, <2>1
  <2> QED
    BY <1>3, <1>4, <2>1, <2>2
<1>7. ASSUME NEW a \in Accounts, NEW b \in Accounts, NEW k \in Tokens,
             NEW d \in Amounts, MoveBalance(a, b, k, d)
      PROVE  Conservation'
  <2>1. /\ balance' = Moved(balance, a, b, k, d) /\ d \in Int
        /\ sub' = sub /\ held' = held /\ escrow' = escrow
    BY <1>7, VaultConstants DEF MoveBalance, chain
  <2>2. \A t \in Tokens : Owed(balance', sub', t) = Owed(balance, sub, t)
    BY <1>2, <2>1, OwedAfterMove
  <2> QED
    BY <2>1, <2>2, LiabilitiesAreOwed DEF Conservation
<1>8. ASSUME NEW a \in Accounts, NEW b \in Accounts, NEW ta \in Tokens,
             NEW tb \in Tokens, NEW da \in Amounts, NEW db \in Amounts,
             AtomicSwap(a, b, ta, da, tb, db)
      PROVE  Conservation'
  <2> DEFINE leg1 == Moved(balance, a, b, ta, da)
  <2>1. /\ balance' = Moved(leg1, b, a, tb, db) /\ da \in Int /\ db \in Int
        /\ sub' = sub /\ held' = held /\ escrow' = escrow
    BY <1>8, VaultConstants DEF AtomicSwap, chain
  <2>2. leg1 \in [Accounts -> [Tokens -> Int]]
    BY <1>2, <2>1, MovedType
  <2>3. \A t \in Tokens : Owed(leg1, sub, t) = Owed(balance, sub, t)
    BY <1>2, <2>1, OwedAfterMove
  <2> HIDE DEF leg1
  <2>4. \A t \in Tokens : Owed(balance', sub', t) = Owed(leg1, sub, t)
    BY <2>1, <2>2, OwedAfterMove
  <2> QED
    BY <2>1, <2>3, <2>4, LiabilitiesAreOwed DEF Conservation
<1> QED
  BY <1>5, <1>6, <1>7, <1>8 DEF BridgeStep, BalanceStep

\* What a seizure of margin does: the user's first token pays, or nothing does.
LEMMA SeizureMoves ==
    ASSUME TypeOK, NEW u \in Traders, NEW r \in {Treasury, Insurance},
           NEW d \in Amounts, TransferMargin(u, r, d)
    PROVE  \/ balance' = balance
           \/ \E t \in Tokens, paid \in Int : balance' = Moved(balance, u, r, t, paid)
<1> DEFINE paid(i) == IF balance[u][TokenOrder[i]] < d
                        THEN balance[u][TokenOrder[i]] ELSE d
<1>1. \/ balance' = balance
      \/ \E i \in DOMAIN TokenOrder :
            balance' = Moved(balance, u, r, TokenOrder[i], paid(i))
  BY Zenon DEF TransferMargin
<1>2. \A i \in DOMAIN TokenOrder : TokenOrder[i] \in Tokens
  BY DEF Tokens, Range
<1>3. \A i \in DOMAIN TokenOrder : paid(i) \in Int
  BY <1>2, IntLedgers, AccountNames, VaultConstants
<1> HIDE DEF paid
<1> QED
  BY <1>1, <1>2, <1>3

LEMMA MarginConserves ==
    ASSUME TypeOK, Conservation, MarginStep
    PROVE  Conservation'
<1>1. sub' = sub /\ held' = held /\ escrow' = escrow
  BY DEF MarginStep, LockMargin, UnlockMargin, LockIsolated, UnlockIsolated,
         RealizeIsolatedPnl, TransferMargin, chain
<1>2. ASSUME NEW u \in Traders, NEW r \in {Treasury, Insurance},
             NEW k \in Tokens, NEW paid \in Int, balance' = Moved(balance, u, r, k, paid)
      PROVE  \A t \in Tokens : Owed(balance', sub', t) = Owed(balance, sub, t)
  <2>1. u \in Accounts /\ r \in Accounts
    BY AccountNames
  <2>2. balance \in [Accounts -> [Tokens -> Int]]
    BY IntLedgers
  <2>3. \A t \in Tokens : Owed(Moved(balance, u, r, k, paid), sub, t) = Owed(balance, sub, t)
    BY <2>1, <2>2, OwedAfterMove
  <2> QED
    BY <1>1, <1>2, <2>3
<1>3. \/ balance' = balance
      \/ \E u \in Traders, r \in {Treasury, Insurance}, t \in Tokens, paid \in Int :
            balance' = Moved(balance, u, r, t, paid)
  <2>1. ASSUME NEW u \in Traders, NEW r \in {Treasury, Insurance},
               NEW d \in Amounts, TransferMargin(u, r, d)
        PROVE  \/ balance' = balance
               \/ \E t \in Tokens, paid \in Int : balance' = Moved(balance, u, r, t, paid)
    BY <2>1, SeizureMoves
  <2> QED
    BY <2>1 DEF MarginStep, LockMargin, UnlockMargin, LockIsolated, UnlockIsolated,
                RealizeIsolatedPnl
<1>4. \A t \in Tokens : Owed(balance', sub', t) = Owed(balance, sub, t)
  BY <1>1, <1>2, <1>3
<1> QED
  BY <1>1, <1>4, LiabilitiesAreOwed DEF Conservation

\* Whatever mix of deposits, withdrawals, sub-account transfers, bridge calls,
\* swaps and seizures: what the vault owes in a token is what it holds and what
\* is escrowed for it on the EVM side.
THEOREM Conserved == Spec => []Conservation
<1>1. Init => Conservation
  <2> SUFFICES ASSUME Init, NEW t \in Tokens PROVE Liabilities(t) = Unit * (held[t] + escrow[t])
    BY DEF Conservation
  <2>1. held[t] = 0 /\ escrow[t] = 0
    BY DEF Init
  <2> DEFINE f == [a \in Accounts |-> balance[a][t]]
             g == [u \in Traders |-> SubSum(u, t)]
  <2>2. SumFunction(f) = 0
    <3>1. f \in [Accounts -> Int] /\ \A a \in Accounts : f[a] = 0
      BY DEF Init
    <3> HIDE DEF f
    <3> QED
      BY <3>1, AccountsAreFinite, SumZero
  <2>3. ASSUME NEW u \in Traders PROVE SubSum(u, t) = 0
    <3> DEFINE h == [s \in SubIds \ {0} |-> sub[u][s][t]]
    <3>1. h \in [SubIds \ {0} -> Int] /\ \A s \in SubIds \ {0} : h[s] = 0
      BY DEF Init
    <3>2. IsFiniteSet(SubIds \ {0})
      BY VaultIsFinite, FS_Subset
    <3> HIDE DEF h
    <3>3. SumFunction(h) = 0
      BY <3>1, <3>2, SumZero
    <3> QED
      BY <3>3 DEF h, SubSum
  <2>4. SumFunction(g) = 0
    <3>1. g \in [Traders -> Int] /\ \A u \in Traders : g[u] = 0
      BY <2>3
    <3> HIDE DEF g
    <3> QED
      BY <3>1, VaultIsFinite, SumZero
  <2> HIDE DEF f, g
  <2>5. Liabilities(t) = SumFunction(f) + SumFunction(g)
    BY DEF Liabilities, f, g
  <2> QED
    BY <2>1, <2>2, <2>4, <2>5, VaultConstants
<1>2. ASSUME TypeOK, Conservation, [Next]_vars PROVE Conservation'
  <2>1. CASE UNCHANGED vars
    BY <1>2, <2>1, LiabilitiesAreOwed DEF vars, chain, Conservation
  <2>2. CASE AdminStep
    BY <1>2, <2>2, LiabilitiesAreOwed
       DEF AdminStep, AddAuthorizedCaller, UpdateCollateralConfig, OracleMoves,
           chain, Conservation
  <2> QED
    BY <1>2, <2>1, <2>2, UserConserves, BalanceConserves, MarginConserves DEF Next
<1> QED
  BY <1>1, <1>2, TypeCorrect, PTL DEF Spec
-----------------------------------------------------------------------------
(* Margin: the totals and the buckets they stand for *)

\* Adding d to one entry changes the sum of its row by d.
LEMMA RowSum ==
    ASSUME NEW R, NEW B, IsFiniteSet(B), NEW f \in [R -> [B -> Int]],
           NEW u \in R, NEW k \in B, NEW d \in Int
    PROVE  SumFunction(Add(f, u, k, d)[u]) = SumFunction(f[u]) + d
<1> DEFINE g == f[u]
           row == [g EXCEPT ![k] = g[k] + d]
<1>1. g \in [B -> Int]
  OBVIOUS
<1>2. g[k] \in Int
  BY <1>1
<1>3. row[k] = g[k] + d /\ row \in [B -> Int]
  BY <1>1, <1>2
<1>8. row \in [B -> Int] /\ g \in [B -> Int]
  BY <1>1, <1>2
<1>9. \A y \in B \ {k} : row[y] = g[y]
  BY <1>1
<1>4. Add(f, u, k, d)[u] = row
  BY DEF Add
<1> HIDE DEF g, row
<1>5. SumFunction(row) = SumFunction(g) + (row[k] - g[k])
  BY <1>8, <1>9, SumChange
<1>6. SumFunction(g) \in Int
  BY <1>1, SumFunctionType
<1>7. SumFunction(row) = SumFunction(g) + d
  BY <1>2, <1>3, <1>5, <1>6
<1> QED
  BY <1>4, <1>7 DEF g

\* The sums of the buckets are integers.
LEMMA BucketSums ==
    ASSUME TypeOK, NEW v \in Traders
    PROVE  CrossSum(v) \in Int /\ IsoSum(v) \in Int
<1>1. cross[v] \in [PosIds -> Int] /\ iso[v] \in [PosIds -> Int]
  BY DEF TypeOK
<1> QED
  BY <1>1, VaultIsFinite, SumFunctionType DEF CrossSum, IsoSum

\* What a step may do to the margin of trader v: nothing; change the cross
\* buckets and their total alike, or the isolated ones, growing only by what is
\* free; or lower the cross total and no bucket.
Unpledged(v)  == cross'[v] = cross[v] /\ iso'[v] = iso[v]
                 /\ crossTotal'[v] = crossTotal[v] /\ isoTotal'[v] = isoTotal[v]

Covered(v, d) == d > 0 => d <= FreeForLock(v) /\ balance' = balance /\ price' = price

CrossMoves(v, d) ==
    /\ SumFunction(cross'[v]) = CrossSum(v) + d /\ crossTotal'[v] = crossTotal[v] + d
    /\ iso'[v] = iso[v] /\ isoTotal'[v] = isoTotal[v]
    /\ Covered(v, d)

IsoMoves(v, d) ==
    /\ SumFunction(iso'[v]) = IsoSum(v) + d /\ isoTotal'[v] = isoTotal[v] + d
    /\ cross'[v] = cross[v] /\ crossTotal'[v] = crossTotal[v]
    /\ Covered(v, d)

Seized(v) ==
    /\ cross' = cross /\ crossTotal'[v] < crossTotal[v]
    /\ iso'[v] = iso[v] /\ isoTotal'[v] = isoTotal[v]

MarginEffect(v) ==
    \/ Unpledged(v)
    \/ \E d \in Int : CrossMoves(v, d)
    \/ \E d \in Int : IsoMoves(v, d)
    \/ Seized(v)

\* A write to one cross bucket and its total, of a user u.
LEMMA CrossWrite ==
    ASSUME TypeOK, NEW u \in Traders, NEW p \in PosIds, NEW d \in Int,
           cross' = Add(cross, u, p, d), crossTotal' = [crossTotal EXCEPT ![u] = @ + d],
           iso' = iso, isoTotal' = isoTotal, Covered(u, d), NEW v \in Traders
    PROVE  MarginEffect(v)
<1>1. cross \in [Traders -> [PosIds -> Int]] /\ crossTotal \in [Traders -> Int]
  BY DEF TypeOK
<1>2. CASE v = u
  <2>0. SumFunction(Add(cross, u, p, d)[u]) = SumFunction(cross[u]) + d
    <3>1. cross \in [Traders -> [PosIds -> Int]]
      BY <1>1
    <3>2. IsFiniteSet(PosIds)
      BY VaultIsFinite
    <3> QED
      BY <3>1, <3>2, RowSum
  <2>1. SumFunction(cross'[v]) = CrossSum(v) + d
    BY <1>2, <2>0 DEF CrossSum
  <2>2. crossTotal'[v] = crossTotal[v] + d
    BY <1>1, <1>2
  <2> QED
    BY <1>2, <2>1, <2>2 DEF MarginEffect, CrossMoves
<1>3. CASE v # u
  <2>1. cross'[v] = cross[v] /\ crossTotal'[v] = crossTotal[v]
    BY <1>1, <1>3 DEF Add
  <2> QED
    BY <2>1 DEF MarginEffect, Unpledged
<1> QED
  BY <1>2, <1>3

\* The same for an isolated bucket.
LEMMA IsoWrite ==
    ASSUME TypeOK, NEW u \in Traders, NEW p \in PosIds, NEW d \in Int,
           iso' = Add(iso, u, p, d), isoTotal' = [isoTotal EXCEPT ![u] = @ + d],
           cross' = cross, crossTotal' = crossTotal, Covered(u, d), NEW v \in Traders
    PROVE  MarginEffect(v)
<1>1. iso \in [Traders -> [PosIds -> Int]] /\ isoTotal \in [Traders -> Int]
  BY DEF TypeOK
<1>2. CASE v = u
  <2>0. SumFunction(Add(iso, u, p, d)[u]) = SumFunction(iso[u]) + d
    <3>1. iso \in [Traders -> [PosIds -> Int]]
      BY <1>1
    <3>2. IsFiniteSet(PosIds)
      BY VaultIsFinite
    <3> QED
      BY <3>1, <3>2, RowSum
  <2>1. SumFunction(iso'[v]) = IsoSum(v) + d
    BY <1>2, <2>0 DEF IsoSum
  <2>2. isoTotal'[v] = isoTotal[v] + d
    BY <1>1, <1>2
  <2> QED
    BY <1>2, <2>1, <2>2 DEF MarginEffect, IsoMoves
<1>3. CASE v # u
  <2>1. iso'[v] = iso[v] /\ isoTotal'[v] = isoTotal[v]
    BY <1>1, <1>3 DEF Add
  <2> QED
    BY <2>1 DEF MarginEffect, Unpledged
<1> QED
  BY <1>2, <1>3

LEMMA MarginStepEffect ==
    ASSUME TypeOK, MarginStep, NEW v \in Traders
    PROVE  MarginEffect(v)
<1>1. crossTotal \in [Traders -> Int] /\ isoTotal \in [Traders -> Int]
  BY DEF TypeOK
<1>2. ASSUME NEW u \in Traders, NEW p \in PosIds
      PROVE  cross[u][p] \in Nat /\ iso[u][p] \in Nat
  BY DEF TypeOK
<1>3. ASSUME NEW u \in Traders, NEW p \in PosIds, NEW d \in Amounts,
             LockMargin(u, p, d) \/ LockIsolated(u, p, d)
      PROVE  MarginEffect(v)
  <2>1. d \in Int /\ Covered(u, d)
    BY <1>3, VaultConstants DEF LockMargin, LockIsolated, Covered
  <2> QED
    BY <1>3, <2>1, CrossWrite, IsoWrite DEF LockMargin, LockIsolated
<1>4. ASSUME NEW u \in Traders, NEW p \in PosIds, NEW d \in Amounts, UnlockMargin(u, p, d)
      PROVE  MarginEffect(v)
  <2>1. -d \in Int /\ Covered(u, -d)
    BY <1>4, VaultConstants DEF UnlockMargin, Covered
  <2>2. crossTotal' = [crossTotal EXCEPT ![u] = @ + (-d)]
    BY <1>1, <1>4, VaultConstants DEF UnlockMargin
  <2> QED
    BY <1>4, <2>1, <2>2, CrossWrite DEF UnlockMargin
<1>5. ASSUME NEW u \in Traders, NEW p \in PosIds, NEW d \in Nat,
             iso' = Add(iso, u, p, -d), isoTotal' = [isoTotal EXCEPT ![u] = @ - d],
             cross' = cross, crossTotal' = crossTotal
      PROVE  MarginEffect(v)
  <2>1. -d \in Int /\ Covered(u, -d)
    BY DEF Covered
  <2>2. isoTotal' = [isoTotal EXCEPT ![u] = @ + (-d)]
    BY <1>1, <1>5
  <2> QED
    BY <1>5, <2>1, <2>2, IsoWrite
<1>6. ASSUME NEW u \in Traders, NEW p \in PosIds, NEW d \in Amounts, UnlockIsolated(u, p, d)
      PROVE  MarginEffect(v)
  <2>1. d \in Nat
    BY VaultConstants
  <2> QED
    BY <1>5, <1>6, <2>1 DEF UnlockIsolated
<1>7. ASSUME NEW u \in Traders, NEW p \in PosIds, NEW pnl \in Losses,
             RealizeIsolatedPnl(u, p, pnl)
      PROVE  MarginEffect(v)
  <2> DEFINE consumed == Consumed(iso[u][p], pnl)
  <2>1. pnl \in Int
    BY VaultConstants
  <2>2. consumed \in Nat
    BY <1>2, <2>1 DEF Consumed
  <2>3. /\ iso' = Add(iso, u, p, -consumed)
        /\ isoTotal' = [isoTotal EXCEPT ![u] = @ - consumed]
        /\ cross' = cross /\ crossTotal' = crossTotal
    BY <1>7 DEF RealizeIsolatedPnl
  <2> HIDE DEF consumed
  <2> QED
    BY <1>5, <2>2, <2>3
<1>8. ASSUME NEW u \in Traders, NEW r \in {Treasury, Insurance},
             NEW d \in Amounts, TransferMargin(u, r, d)
      PROVE  MarginEffect(v)
  <2>1. /\ crossTotal' = [crossTotal EXCEPT ![u] = @ - d] /\ d > 0 /\ d \in Nat
        /\ cross' = cross /\ iso' = iso /\ isoTotal' = isoTotal
    BY <1>8, VaultConstants DEF TransferMargin
  <2>2. v = u => crossTotal'[v] < crossTotal[v]
    BY <1>1, <2>1
  <2>3. v # u => crossTotal'[v] = crossTotal[v]
    BY <1>1, <2>1
  <2> QED
    BY <2>1, <2>2, <2>3 DEF MarginEffect, Unpledged, Seized
<1> QED
  BY <1>3, <1>4, <1>6, <1>7, <1>8 DEF MarginStep

\* Every step has one of these effects on every trader.
LEMMA StepEffect ==
    ASSUME TypeOK, [Next]_vars, NEW v \in Traders
    PROVE  MarginEffect(v)
<1>1. CASE MarginStep
  BY <1>1, MarginStepEffect
<1>2. CASE UserStep
  <2>1. UNCHANGED locks
    <3>1. ASSUME NEW u \in Traders, NEW t \in Tokens, NEW n \in Natives,
                 Deposit(u, t, n) \/ Withdraw(u, t, n) \/ SeedTreasury(u, t, n)
          PROVE  UNCHANGED locks
      BY <3>1 DEF Deposit, Withdraw, SeedTreasury
    <3>2. ASSUME NEW u \in Traders, NEW t \in Tokens, NEW n \in Natives, NEW s \in SubIds,
                 DepositSub(u, s, t, n) \/ WithdrawSub(u, s, t, n)
          PROVE  UNCHANGED locks
      BY <3>2 DEF DepositSub, WithdrawSub
    <3>3. ASSUME NEW u \in Traders, NEW t \in Tokens, NEW s1 \in SubIds, NEW s2 \in SubIds,
                 NEW d \in Amounts, TransferBetweenSubs(u, s1, s2, t, d)
          PROVE  UNCHANGED locks
      BY <3>3 DEF TransferBetweenSubs
    <3> QED
      BY <1>2, <3>1, <3>2, <3>3, Zenon DEF UserStep
  <2> QED
    BY <2>1 DEF locks, MarginEffect, Unpledged
<1>3. CASE BridgeStep \/ BalanceStep
  BY <1>3 DEF BridgeStep, BalanceStep, Credit, Debit, MoveBalance, AtomicSwap, locks,
              MarginEffect, Unpledged
<1>4. CASE AdminStep
  BY <1>4 DEF AdminStep, AddAuthorizedCaller, UpdateCollateralConfig, OracleMoves, locks,
              MarginEffect, Unpledged
<1>5. CASE UNCHANGED vars
  BY <1>5 DEF vars, locks, MarginEffect, Unpledged
<1> QED
  BY <1>1, <1>2, <1>3, <1>4, <1>5 DEF Next

\* The cached total of a trader's cross buckets never exceeds their sum, and the
\* total of the isolated buckets is exact, whatever is locked, released, settled
\* and seized.
THEOREM TotalsBounded == Spec => []TotalsBoundedByBuckets
<1>1. ASSUME Init PROVE TotalsBoundedByBuckets
  <2> SUFFICES ASSUME NEW u \in Traders
               PROVE  crossTotal[u] <= CrossSum(u) /\ isoTotal[u] = IsoSum(u)
    BY DEF TotalsBoundedByBuckets
  <2>1. cross[u] \in [PosIds -> Int] /\ iso[u] \in [PosIds -> Int]
        /\ \A p \in PosIds : cross[u][p] = 0 /\ iso[u][p] = 0
    BY <1>1 DEF Init
  <2>2. CrossSum(u) = 0 /\ IsoSum(u) = 0
    BY <2>1, VaultIsFinite, SumZero DEF CrossSum, IsoSum
  <2>3. crossTotal[u] = 0 /\ isoTotal[u] = 0
    BY <1>1 DEF Init
  <2> QED
    BY <2>2, <2>3
<1>2. ASSUME TypeOK, TotalsBoundedByBuckets, [Next]_vars PROVE TotalsBoundedByBuckets'
  <2> SUFFICES ASSUME NEW v \in Traders
               PROVE  crossTotal'[v] <= SumFunction(cross'[v])
                      /\ isoTotal'[v] = SumFunction(iso'[v])
    BY DEF TotalsBoundedByBuckets, CrossSum, IsoSum
  <2>1. crossTotal[v] <= CrossSum(v) /\ isoTotal[v] = IsoSum(v)
    BY <1>2 DEF TotalsBoundedByBuckets
  <2>2. crossTotal[v] \in Int /\ isoTotal[v] \in Int /\ crossTotal'[v] \in Int
    <3>1. TypeOK'
      BY <1>2, StepTypes
    <3> QED
      BY <1>2, <3>1 DEF TypeOK
  <2>3. CrossSum(v) \in Int /\ IsoSum(v) \in Int
    BY <1>2, BucketSums
  <2>4. CASE Unpledged(v)
    BY <2>1, <2>4 DEF Unpledged, CrossSum, IsoSum
  <2>5. ASSUME NEW d \in Int, CrossMoves(v, d)
        PROVE  crossTotal'[v] <= SumFunction(cross'[v]) /\ isoTotal'[v] = SumFunction(iso'[v])
    BY <2>1, <2>2, <2>3, <2>5 DEF CrossMoves, IsoSum
  <2>6. ASSUME NEW d \in Int, IsoMoves(v, d)
        PROVE  crossTotal'[v] <= SumFunction(cross'[v]) /\ isoTotal'[v] = SumFunction(iso'[v])
    BY <2>1, <2>2, <2>3, <2>6 DEF IsoMoves, CrossSum
  <2>7. CASE Seized(v)
    BY <2>1, <2>2, <2>3, <2>7 DEF Seized, CrossSum, IsoSum
  <2> QED
    BY <1>2, <2>4, <2>5, <2>6, <2>7, StepEffect DEF MarginEffect
<1> QED
  BY <1>1, <1>2, TypeCorrect, PTL DEF Spec

\* Of all calls only a seizure of margin widens the gap between a trader's cross
\* buckets and their total, and it does so by lowering the total.
THEOREM GapsOnlyBySeizure == Spec => OnlySeizuresOpenGaps
<1>1. ASSUME TypeOK, [Next]_vars, NEW v \in Traders, Gap(v)' > Gap(v)
      PROVE  cross' = cross /\ crossTotal'[v] < crossTotal[v]
  <2>1. Gap(v) = CrossSum(v) - crossTotal[v] /\ Gap(v)' = SumFunction(cross'[v]) - crossTotal'[v]
    BY DEF Gap, CrossSum
  <2>2. CrossSum(v) \in Int /\ crossTotal[v] \in Int
    BY <1>1, BucketSums DEF TypeOK
  <2>3. ~Unpledged(v)
    BY <1>1, <2>1, <2>2 DEF Unpledged, CrossSum
  <2>4. ASSUME NEW d \in Int, CrossMoves(v, d) \/ IsoMoves(v, d) PROVE FALSE
    <3>1. CASE CrossMoves(v, d)
      BY <1>1, <2>1, <2>2, <3>1 DEF CrossMoves
    <3>2. CASE IsoMoves(v, d)
      BY <1>1, <2>1, <2>2, <3>2 DEF IsoMoves, CrossSum
    <3> QED
      BY <2>4, <3>1, <3>2
  <2>5. Seized(v)
    BY <1>1, <2>3, <2>4, StepEffect DEF MarginEffect
  <2> QED
    BY <2>5 DEF Seized
<1>2. TypeOK /\ [Next]_vars =>
        [\A u \in Traders :
            Gap(u)' > Gap(u) => cross' = cross /\ crossTotal[u]' < crossTotal[u]]_vars
  BY <1>1
<1> QED
  BY <1>2, TypeCorrect, PTL DEF Spec, OnlySeizuresOpenGaps

\* What the balances in row are worth at prices pr.
ValueAt(pr, t, x) == (((x * pr[t]) \div PRECISION) * (BPS - Haircut[t])) \div BPS
Worth(pr, row)    == SumFunction([t \in Tokens |-> ValueAt(pr, t, row[t])])

LEMMA CollateralIsWorth ==
    ASSUME NEW u \in Traders
    PROVE  /\ TotalCollateral(u) = Worth(price, balance[u])
           /\ TotalCollateral(u)' = Worth(price', balance'[u])
BY DEF TotalCollateral, CollateralValue, Worth, ValueAt

\* The value of a trader's tokens is an integer.
LEMMA WorthType ==
    ASSUME NEW pr \in [Tokens -> Prices], NEW row \in [Tokens -> Nat]
    PROVE  Worth(pr, row) \in Int
<1> DEFINE f == [t \in Tokens |-> ValueAt(pr, t, row[t])]
<1>1. ASSUME NEW t \in Tokens PROVE f[t] \in Int
  <2> DEFINE gross == (row[t] * pr[t]) \div PRECISION
             kept == BPS - Haircut[t]
  <2>1. row[t] \in Int
    OBVIOUS
  <2>2. pr[t] \in Int
    <3>1. pr[t] \in Prices
      OBVIOUS
    <3>2. \A x \in Prices : x \in Int
      BY VaultConstants
    <3> HIDE DEF gross, kept
    <3> QED
      BY <3>1, <3>2, Zenon
  <2>3. kept \in Int
    BY VaultConstants
  <2>4. gross \in Int
    BY <2>1, <2>2, TimesInt, DivInt, VaultConstants
  <2> HIDE DEF gross, kept
  <2>5. (gross * kept) \div BPS \in Int
    BY <2>3, <2>4, TimesInt, DivInt, VaultConstants
  <2> QED
    BY <2>5 DEF gross, kept, ValueAt
<1>2. f \in [Tokens -> Int]
  BY <1>1
<1> HIDE DEF f
<1>3. SumFunction(f) \in Int
  BY <1>2, VaultIsFinite, SumFunctionType
<1> QED
  BY <1>3 DEF f, Worth

LEMMA CollateralType ==
    ASSUME TypeOK, NEW u \in Traders
    PROVE  TotalCollateral(u) \in Int
<1>1. price \in [Tokens -> Prices] /\ balance[u] \in [Tokens -> Nat]
  BY AccountNames DEF TypeOK
<1> QED
  BY <1>1, WorthType, CollateralIsWorth

\* The same collateral is never pledged twice: as long as nothing was seized
\* from under a trader's buckets, a step that adds to them, cross or isolated,
\* leaves all of them together within what the trader's tokens are worth.
THEOREM PledgedOnce == Spec => NoDoublePledge
<1>1. ASSUME TypeOK, TotalsBoundedByBuckets, [Next]_vars, NEW v \in Traders,
             Gap(v) = 0, Pledged(v)' > Pledged(v)
      PROVE  Pledged(v)' <= TotalCollateral(v)'
  <2>1. /\ CrossSum(v) \in Int /\ IsoSum(v) \in Int /\ crossTotal[v] \in Int
        /\ TotalCollateral(v) \in Int
    BY <1>1, BucketSums, CollateralType DEF TypeOK
  <2>2. crossTotal[v] = CrossSum(v) /\ isoTotal[v] = IsoSum(v)
    BY <1>1, <2>1 DEF TotalsBoundedByBuckets, Gap
  <2>3. /\ Pledged(v) = CrossSum(v) + IsoSum(v)
        /\ Pledged(v)' = SumFunction(cross'[v]) + SumFunction(iso'[v])
    BY DEF Pledged, CrossSum, IsoSum
  <2>4. \E d \in Int : Pledged(v)' = Pledged(v) + d /\ Covered(v, d)
    <3>1. ASSUME NEW d \in Int, CrossMoves(v, d)
          PROVE  Pledged(v)' = Pledged(v) + d
      <4>1. Pledged(v)' = (CrossSum(v) + d) + IsoSum(v)
        BY <2>3, <3>1 DEF CrossMoves, IsoSum
      <4> QED
        BY <2>1, <2>3, <4>1
    <3>2. ASSUME NEW d \in Int, IsoMoves(v, d)
          PROVE  Pledged(v)' = Pledged(v) + d
      <4>1. Pledged(v)' = CrossSum(v) + (IsoSum(v) + d)
        BY <2>3, <3>2 DEF IsoMoves, CrossSum
      <4> QED
        BY <2>1, <2>3, <4>1
    <3>3. ~Unpledged(v) /\ ~Seized(v)
      <4>1. Pledged(v) \in Int
        BY <2>1, <2>3
      <4>2. Pledged(v)' # Pledged(v)
        BY <1>1, <4>1
      <4> QED
        BY <2>3, <4>2 DEF Unpledged, Seized, CrossSum, IsoSum
    <3>4. \/ \E d \in Int : CrossMoves(v, d)
          \/ \E d \in Int : IsoMoves(v, d)
      BY <1>1, <3>3, StepEffect DEF MarginEffect
    <3> QED
      BY <3>1, <3>2, <3>4 DEF CrossMoves, IsoMoves
  <2>5. PICK d \in Int : Pledged(v)' = Pledged(v) + d /\ Covered(v, d)
    BY <2>4
  <2>6. d > 0
    BY <1>1, <2>1, <2>3, <2>5
  <2>7. d <= TotalCollateral(v) - crossTotal[v] - isoTotal[v]
        /\ balance' = balance /\ price' = price
    BY <2>5, <2>6 DEF Covered, FreeForLock
  <2>8. TotalCollateral(v)' = TotalCollateral(v)
    BY <2>7 DEF TotalCollateral, CollateralValue
  <2> QED
    BY <2>1, <2>2, <2>3, <2>5, <2>7, <2>8
<1>2. TypeOK /\ TotalsBoundedByBuckets /\ [Next]_vars =>
        [\A u \in Traders : Gap(u) = 0 /\ Pledged(u)' > Pledged(u) =>
                               Pledged(u)' <= TotalCollateral(u)']_vars
  BY <1>1
<1> QED
  BY <1>2, TypeCorrect, TotalsBounded, PTL DEF Spec, NoDoublePledge
\* Every token is worth at least one and none has a haircut.
AtPar == (\A q \in Prices : q >= PRECISION) /\ (\A t \in Tokens : Haircut[t] = 0)

\* Then the value of a trader's tokens covers the units held of any one token.
LEMMA WorthItsTokens ==
    ASSUME AtPar, NEW pr \in [Tokens -> Prices], NEW row \in [Tokens -> Nat],
           NEW k \in Tokens
    PROVE  Worth(pr, row) >= row[k]
<1> DEFINE f == [t \in Tokens |-> ValueAt(pr, t, row[t])]
<1>1. ASSUME NEW t \in Tokens PROVE f[t] \in Nat /\ f[t] >= row[t]
  <2> DEFINE x == row[t]
             gross == (x * pr[t]) \div PRECISION
  <2>1. x \in Nat
    OBVIOUS
  <2>2. pr[t] \in Nat /\ pr[t] >= PRECISION
    BY VaultConstants DEF AtPar
  <2>3. BPS \in Nat \ {0} /\ PRECISION \in Nat \ {0} /\ Haircut[t] = 0
    BY VaultConstants DEF AtPar
  <2> HIDE DEF x
  <2>4. gross \in Nat /\ gross >= x
    BY <2>1, <2>2, <2>3, AtLeastPar
  <2>5. f[t] = (gross * BPS) \div BPS
    BY <2>3 DEF ValueAt, x
  <2> HIDE DEF gross
  <2>6. (gross * BPS) \div BPS \in Nat /\ (gross * BPS) \div BPS >= gross
    BY <2>3, <2>4, AtLeastPar
  <2>7. f[t] \in Nat /\ f[t] >= x
    <3> HIDE DEF f
    <3> QED
      BY <2>1, <2>4, <2>5, <2>6
  <2> QED
    BY <2>7 DEF x
<1>2. f \in [Tokens -> Nat] /\ f \in [Tokens -> Int]
  BY <1>1
<1>3. Worth(pr, row) = SumFunction(f)
  BY DEF Worth
<1>4. f[k] >= row[k] /\ row[k] \in Nat
  BY <1>1
<1> HIDE DEF f
<1>5. SumFunction(f) \in Nat /\ f[k] <= SumFunction(f)
  BY <1>2, VaultIsFinite, SumFunctionType
<1>6. f[k] \in Nat
  BY <1>2
<1> QED
  BY <1>3, <1>4, <1>5, <1>6

\* Tokens leave a master balance for a wallet by a withdrawal only.
LEMMA LeavesByWithdrawal ==
    ASSUME TypeOK, [Next]_vars, NEW u \in Traders, NEW t \in Tokens,
           balance'[u][t] < balance[u][t], held'[t] < held[t]
    PROVE  \E n \in Natives : Withdraw(u, t, n)
<1>1. balance[u][t] \in Nat /\ held \in [Tokens -> Nat] /\ balance \in [Accounts -> [Tokens -> Nat]]
      /\ u \in Accounts
  BY AccountNames DEF TypeOK
<1>2. held' # held /\ balance' # balance
  BY <1>1
<1>3. UserStep
  BY <1>2 DEF Next, vars, chain, BridgeStep, BalanceStep, MarginStep, AdminStep, Credit, Debit,
              MoveBalance, AtomicSwap, LockMargin, UnlockMargin, LockIsolated, UnlockIsolated,
              RealizeIsolatedPnl, TransferMargin, AddAuthorizedCaller,
              UpdateCollateralConfig, OracleMoves
<1>4. ASSUME NEW v \in Traders, NEW k \in Tokens, NEW n \in Natives,
             held' = [held EXCEPT ![k] = @ + n]
      PROVE  FALSE
  <2>1. n \in Nat
    BY NativeUnits
  <2> QED
    BY <1>1, <1>4, <2>1
<1>5. ASSUME NEW v \in Traders, NEW k \in Tokens, NEW n \in Natives, Withdraw(v, k, n)
      PROVE  Withdraw(u, t, n)
  <2>1. held' = [held EXCEPT ![k] = @ - n]
        /\ balance' = Add(balance, v, k, -(Unit * n))
    BY <1>5 DEF Withdraw
  <2>2. k = t
    BY <1>1, <2>1
  <2>3. v = u
    BY <1>1, <2>1 DEF Add
  <2> QED
    BY <1>5, <2>2, <2>3
<1>6. ASSUME NEW v \in Traders, NEW k \in Tokens
      PROVE  /\ \A n \in Natives : ~Deposit(v, k, n) /\ ~SeedTreasury(v, k, n)
             /\ \A n \in Natives, s \in SubIds : ~DepositSub(v, s, k, n) /\ ~WithdrawSub(v, s, k, n)
             /\ \A s1, s2 \in SubIds, d \in Amounts : ~TransferBetweenSubs(v, s1, s2, k, d)
  BY <1>2, <1>4 DEF Deposit, SeedTreasury, DepositSub, WithdrawSub, TransferBetweenSubs, chain
<1> QED
  BY <1>3, <1>5, <1>6 DEF UserStep

\* While every token counts for at least one, no withdrawal from the master
\* balance takes a trader's equity below the margins of the open positions.
\* (Below one the guard, which compares units and not values, allows it.)
THEOREM WithdrawalsKeepEquity ==
    ASSUME AtPar
    PROVE  Spec => WithdrawKeepsEquity
<1>1. ASSUME TypeOK, TypeOK', [Next]_vars, NEW u \in Traders, NEW t \in Tokens,
             balance'[u][t] < balance[u][t], held'[t] < held[t]
      PROVE  TotalCollateral(u)' >= CrossSum(u)'
  <2>1. PICK n \in Natives : Withdraw(u, t, n)
    BY <1>1, LeavesByWithdrawal
  <2>2. /\ balance' = Add(balance, u, t, -(Unit * n))
        /\ balance[u][t] - Unit * n >= CrossSum(u) /\ cross' = cross
    BY <2>1 DEF Withdraw, RiskLockedMargin, locks
  <2>3. balance \in [Accounts -> [Tokens -> Nat]] /\ u \in Accounts /\ Unit * n \in Nat
    BY <1>1, AccountNames, NativeUnits DEF TypeOK
  <2>4. balance[u][t] \in Nat
    BY <2>3
  <2>5. balance'[u][t] = balance[u][t] - Unit * n
    BY <2>2, <2>3, <2>4 DEF Add
  <2>6. price' \in [Tokens -> Prices] /\ balance'[u] \in [Tokens -> Nat]
    BY <1>1, <2>3 DEF TypeOK
  <2>7. TotalCollateral(u)' >= balance'[u][t] /\ TotalCollateral(u)' \in Int
    BY <2>6, CollateralIsWorth, WorthItsTokens, WorthType
  <2>8. CrossSum(u)' = CrossSum(u) /\ CrossSum(u) \in Int
    BY <1>1, <2>2, BucketSums DEF CrossSum
  <2> QED
    BY <2>2, <2>3, <2>4, <2>5, <2>7, <2>8
<1>2. TypeOK /\ TypeOK' /\ [Next]_vars =>
        [\A u \in Traders :
          ((Gap(u) = 0 /\ \E t \in Tokens : /\ balance[u][t]' < balance[u][t]
                                           /\ held[t]' < held[t])
             => TotalCollateral(u)' >= CrossSum(u)')]_vars
  BY <1>1
<1> QED
  BY <1>2, TypeCorrect, PTL DEF Spec, WithdrawKeepsEquity
=============================================================================
