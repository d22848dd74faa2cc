----------------------------- MODULE Positions -----------------------------
(***************************************************************************)
(* What the trade page shows of a user's perp positions (packages/         *)
(* frontend): usePositions merges the indexer's rows with the positions    *)
(* this browser opened, which the session store keeps in localStorage;     *)
(* PositionsTable closes them and watches for liquidations; the history    *)
(* blotter merges the recorded closes with a scan of recent events.        *)
(*                                                                         *)
(* The tabs of a browser share the storage but not the store: a tab reads  *)
(* the storage when it loads and overwrites it with each change of its     *)
(* own.  The index lags behind the chain, and the answers to its readers   *)
(* arrive late and in any order.                                           *)
(***************************************************************************)
EXTENDS WalletTx, Integers, Sequences, FiniteSets

CONSTANTS
    Positions, Tabs, Accounts, NoAccount,
    Owner,         \* the account of each position
    Offline,       \* model value: the rows of a tab that has none
    Pnls,          \* the net PnL a close may end with
    Word,          \* 2^64, the weight of an i128's high half
    LiqWindow,     \* ledgers the liquidation watcher looks back
    MaxLedgers,    \* bound on the events of the chain
    MaxAnswers     \* bound on the answers under way to a tab

ASSUME PositionsConstants ==
    /\ Tabs \subseteq Flows /\ Positions \subseteq Calls
    /\ NoAccount \notin Accounts /\ Owner \in [Positions -> Accounts]
    /\ Pnls \subseteq Int /\ Word \in Nat \ {0} /\ MaxLedgers \in Nat

VARIABLES
    log,         \* the events of the contracts
    indexed,     \* how many of them the indexer has applied
    held,        \* the positions on the chain
    remembered,  \* positions whose opening run returned an id
    session,     \* each tab's session store
    storage,     \* localStorage
    account,     \* the wallet's account in each tab
    rows,        \* indexerRows, or Offline for null
    answers,     \* of the indexer, under way to a tab
    parsing,     \* closes whose events a tab asked for
    processed    \* processedTxs: transactions its PositionsTable has handled

eventVars == <<log, held>>
tabVars == <<remembered, session, storage, account, rows, answers, parsing, processed>>
positionsVars == <<eventVars, indexed, txVars, tabVars>>

Trade(k, n) == [kind |-> k, pnl |-> n]
NoTrade == Trade("none", 0)
TradeRow == [kind : {"none", "user", "liquidation"}, pnl : Int]

Store == [positions : SUBSET Positions, trades : [Positions -> TradeRow]]
RowsAnswer == [rows : SUBSET Positions, guarded : BOOLEAN]

EmptyStore == [positions |-> {}, trades |-> [p \in Positions |-> NoTrade]]

PositionsTypeOK ==
    /\ TxTypeOK
    /\ Len(log) <= MaxLedgers /\ indexed \in 0 .. Len(log)
    /\ held \in [Positions -> {"none", "open", "closed"}]
    /\ remembered \subseteq Positions
    /\ session \in [Tabs -> Store] /\ storage \in Store
    /\ account \in [Tabs -> Accounts \cup {NoAccount}]
    /\ rows \in [Tabs -> {Offline} \cup SUBSET Positions]
    /\ answers \in [Tabs -> SUBSET RowsAnswer]
    /\ parsing \in [Tabs -> SUBSET Positions]
    /\ processed \in [Tabs -> SUBSET Nat]

PositionsInit ==
    /\ TxInit
    /\ log = << >> /\ indexed = 0
    /\ held = [p \in Positions |-> "none"]
    /\ remembered = {}
    /\ session = [t \in Tabs |-> EmptyStore] /\ storage = EmptyStore
    /\ account = [t \in Tabs |-> NoAccount]
    /\ rows = [t \in Tabs |-> Offline]
    /\ answers = [t \in Tabs |-> {}]
    /\ parsing = [t \in Tabs |-> {}]
    /\ processed = [t \in Tabs |-> {}]

-----------------------------------------------------------------------------
(* The chain and the index *)

Publish(e) == Len(log) < MaxLedgers /\ log' = Append(log, e)

Event(k, p, n, x) == [tag |-> k, position |-> p, pnl |-> n, tx |-> x]

\* A transaction bears the number of its first event.
NewTx == Len(log) + 1

Events(k, p, ledgers) ==
    {l \in ledgers : log[l].tag = k /\ log[l].position = p}

\* By the form's market order, by a fill of the book or by a pending order that is
\* executed: each has its own event.
OpenPosition(p, k) ==
    /\ held[p] = "none"
    /\ held' = [held EXCEPT ![p] = "open"]
    /\ Publish(Event(k, p, 0, NewTx))
    /\ UNCHANGED <<indexed, txVars, tabVars>>

\* A close that a tab sent is included.
ClosePosition(x, pnl) ==
    /\ Include(x, TRUE) /\ held[x.call] = "open"
    /\ held' = [held EXCEPT ![x.call] = "closed"]
    /\ Publish(Event("posclose", x.call, pnl, NewTx))
    /\ UNCHANGED <<indexed, tabVars>>

CloseFails(x) ==
    /\ Include(x, FALSE) \/ Expire(x)
    /\ UNCHANGED <<eventVars, indexed, tabVars>>

\* A liquidation reduces the position or closes it; the event is the same.  One
\* transaction may liquidate several times.
Liquidate(p, all) ==
    /\ held[p] = "open"
    /\ held' = IF all THEN [held EXCEPT ![p] = "closed"] ELSE held
    /\ \/ Publish(Event("liq", p, 0, NewTx))
       \/ /\ log # << >> /\ log[Len(log)].tag = "liq"
          /\ Publish(Event("liq", p, 0, log[Len(log)].tx))
    /\ UNCHANGED <<indexed, txVars, tabVars>>

\* The watcher applies the next event; module Indexer tells how.
IndexNext ==
    /\ indexed < Len(log) /\ indexed' = indexed + 1
    /\ UNCHANGED <<eventVars, txVars, tabVars>>

\* listOpenPositions: posopen inserts a row, other openings do not; posclose and
\* liq delete it.
ListOpenPositions(a) ==
    {p \in Positions :
        /\ Owner[p] = a
        /\ Events("posopen", p, 1 .. indexed) # {}
        /\ \A k \in {"posclose", "liq"} : Events(k, p, 1 .. indexed) = {}}

-----------------------------------------------------------------------------
(* The session store *)

\* zustand's persist writes the whole store of the tab with each change.
SetStore(t, s) ==
    /\ session' = [session EXCEPT ![t] = s]
    /\ storage' = s

Without(s, p) == [s EXCEPT !.positions = @ \ {p}]
WithTrade(s, p, r) == [s EXCEPT !.trades[p] = r]

\* The run that opened p returns its id to the order form, maybe late.
AddPosition(t, p) ==
    /\ Events("posopen", p, DOMAIN log) # {} /\ p \notin remembered
    /\ remembered' = remembered \cup {p}
    /\ SetStore(t, [session[t] EXCEPT !.positions = @ \cup {p}])
    /\ UNCHANGED <<eventVars, indexed, txVars, account, rows, answers, parsing, processed>>

\* The page is loaded again; the wallet reconnects by itself.
Reload(t) ==
    /\ session' = [session EXCEPT ![t] = storage]
    /\ rows' = [rows EXCEPT ![t] = Offline]
    /\ answers' = [answers EXCEPT ![t] = {}]
    /\ parsing' = [parsing EXCEPT ![t] = {}]
    /\ processed' = [processed EXCEPT ![t] = {}]
    /\ EndRun(t, "none") /\ UNCHANGED live
    /\ UNCHANGED <<eventVars, indexed, remembered, storage, account>>

-----------------------------------------------------------------------------
(* usePositions *)

\* A request reads the index.  The answer to a periodic one is dropped when the
\* address changes before it comes; one that a WebSocket message set off is not.
Fetch(t, guarded) ==
    /\ account[t] # NoAccount /\ Cardinality(answers[t]) < MaxAnswers
    /\ answers' = [answers EXCEPT ![t] =
          @ \cup {[rows |-> ListOpenPositions(account[t]), guarded |-> guarded]}]
    /\ UNCHANGED <<eventVars, indexed, txVars, remembered, session, storage,
                   account, rows, parsing, processed>>

\* Mutant: an answer is used only when there are no rows yet.
DeliverOnce(t, a) ==
    /\ a \in answers[t]
    /\ rows' = [rows EXCEPT ![t] = IF @ = Offline THEN a.rows ELSE @]
    /\ answers' = [answers EXCEPT ![t] = @ \ {a}]
    /\ UNCHANGED <<eventVars, indexed, txVars, remembered, session, storage,
                   account, parsing, processed>>

Deliver(t, a) ==
    /\ a \in answers[t]
    /\ rows' = [rows EXCEPT ![t] = a.rows]
    /\ answers' = [answers EXCEPT ![t] = @ \ {a}]
    /\ UNCHANGED <<eventVars, indexed, txVars, remembered, session, storage,
                   account, parsing, processed>>

\* The indexer cannot be reached.  The fallback on the chain answers nothing.
RowsFail(t) ==
    /\ account[t] # NoAccount
    /\ rows' = [rows EXCEPT ![t] = Offline]
    /\ UNCHANGED <<eventVars, indexed, txVars, remembered, session, storage,
                   account, answers, parsing, processed>>

\* The wallet's account changes.  The rows of the former one stay until an
\* answer comes, unless the wallet is disconnected.
SwitchAccount(t, a) ==
    /\ account[t] # a
    /\ account' = [account EXCEPT ![t] = a]
    /\ rows' = IF a = NoAccount THEN [rows EXCEPT ![t] = Offline] ELSE rows
    /\ answers' = [answers EXCEPT ![t] = {b \in @ : ~b.guarded}]
    /\ UNCHANGED <<eventVars, indexed, txVars, remembered, session, storage,
                   parsing, processed>>

Displayed(t) ==
    session[t].positions \cup IF rows[t] = Offline THEN {} ELSE rows[t]

-----------------------------------------------------------------------------
(* PositionsTable *)

\* The user closes a position of his; the call of another's is refused.
StartClose(t, p) ==
    /\ step[t] = "idle" /\ p \in Displayed(t) /\ Owner[p] = account[t]
    /\ StartRun(t) /\ Invoke(t, p)
    /\ UNCHANGED <<eventVars, indexed, live, tabVars>>

SendClose(t) == Send(t) /\ UNCHANGED <<eventVars, indexed, tabVars>>

\* The run succeeds, or so it seems: the position leaves the session store, and
\* the tab asks for the events of its close.
CloseReturns(t) ==
    /\ ReturnsValue(t) \/ ReturnsBlindly(t)
    /\ parsing' = [parsing EXCEPT ![t] = @ \cup {calling[t]}]
    /\ SetStore(t, Without(session[t], calling[t]))
    /\ EndRun(t, "none")
    /\ UNCHANGED <<eventVars, indexed, remembered, account, rows, answers, processed>>

\* The run throws or times out: nothing changes here, whatever the chain does.
CloseEnds(t) ==
    /\ Throws(t) \/ TimesOut(t)
    /\ EndRun(t, "none")
    /\ UNCHANGED <<eventVars, indexed, tabVars>>

\* decodeI128, from the two halves of the value.
Decode(n) ==
    LET hi == n \div Word
        lo == n % Word
    IN  IF hi >= 0 THEN hi * Word + lo
        ELSE IF lo = 0 THEN (hi + 1) * Word
        ELSE hi * Word - (Word - lo)

\* Mutant: the close is recorded before its event is found.
CloseParsedUnseen(t, p) ==
    /\ p \in parsing[t]
    /\ SetStore(t, WithTrade(session[t], p, Trade("user", 0)))
    /\ parsing' = [parsing EXCEPT ![t] = @ \ {p}]
    /\ UNCHANGED <<eventVars, indexed, txVars, remembered, account, rows, answers, processed>>

\* parseCloseEvents finds the close among the events around the ledger the
\* answer named, and it is recorded; or it finds nothing, and nothing is.
CloseParsed(t, p) ==
    /\ p \in parsing[t]
    /\ parsing' = [parsing EXCEPT ![t] = @ \ {p}]
    /\ \/ \E l \in Events("posclose", p, DOMAIN log) :
             SetStore(t, WithTrade(session[t], p, Trade("user", Decode(log[l].pnl))))
       \/ UNCHANGED <<session, storage>>
    /\ UNCHANGED <<eventVars, indexed, txVars, remembered, account, rows, answers, processed>>

Recent == {l \in DOMAIN log : l + LiqWindow >= Len(log)}

\* Another table of the trade page is chosen and then this one again, which starts
\* anew.  While it is hidden nothing is noticed, and nothing ever has to be.
ChooseTable(t) ==
    /\ processed' = [processed EXCEPT ![t] = {}]
    /\ UNCHANGED <<eventVars, indexed, txVars, remembered, session, storage, account,
                   rows, answers, parsing>>

\* Recent liquidations of the account's displayed positions, in transactions that
\* are not handled yet; of one transaction, the first.
Unhandled(t) ==
    {l \in Recent :
        /\ log[l].tag = "liq" /\ log[l].tx \notin processed[t]
        /\ Owner[log[l].position] = account[t]
        /\ log[l].position \in Displayed(t)}

News(t) == {l \in Unhandled(t) : \A m \in Unhandled(t) : log[m].tx = log[l].tx => l <= m}

\* useLiquidationWatcher.  A request that fails finds none, this time and the next.
NoticeLiquidations(t) ==
    LET gone == {log[l].position : l \in News(t)}
    IN  /\ News(t) # {}
        /\ processed' = [processed EXCEPT ![t] = @ \cup {log[l].tx : l \in News(t)}]
        /\ SetStore(t, [positions |-> session[t].positions \ gone,
                        trades |-> [p \in Positions |->
                                      IF p \in gone THEN Trade("liquidation", 0)
                                      ELSE session[t].trades[p]]])
        /\ UNCHANGED <<eventVars, indexed, txVars, remembered, account, rows, answers,
                       parsing>>

-----------------------------------------------------------------------------
(* The history blotter *)

Known(t) == session[t].positions \cup {p \in Positions : session[t].trades[p] # NoTrade}

\* fetchOnChainClosedTrades: closes of the positions the store knows, and the
\* account's liquidations where there is no close.  Events only leave the scanned
\* window, so what an earlier scan found is still found here.
ScannedTrade(t, p) ==
    LET closes == IF p \in Known(t) THEN Events("posclose", p, DOMAIN log) ELSE {}
        liqs == IF Owner[p] = account[t] THEN Events("liq", p, DOMAIN log) ELSE {}
    IN  IF account[t] = NoAccount THEN NoTrade
        ELSE IF closes # {} THEN Trade("user", Decode(log[CHOOSE l \in closes : TRUE].pnl))
        ELSE IF liqs # {} THEN Trade("liquidation", 0)
        ELSE NoTrade

\* What was scanned overrides what was recorded.
History(t) ==
    [p \in Positions |-> IF ScannedTrade(t, p) # NoTrade THEN ScannedTrade(t, p)
                         ELSE session[t].trades[p]]

-----------------------------------------------------------------------------
TabStep(t) ==
    \/ \E p \in Positions : AddPosition(t, p) \/ StartClose(t, p) \/ CloseParsed(t, p)
    \/ \E g \in BOOLEAN : Fetch(t, g)
    \/ \E a \in answers[t] : Deliver(t, a)
    \/ \E a \in Accounts \cup {NoAccount} : SwitchAccount(t, a)
    \/ RowsFail(t) \/ SendClose(t) \/ CloseReturns(t) \/ CloseEnds(t)
    \/ ChooseTable(t) \/ NoticeLiquidations(t) \/ Reload(t)

PositionsNext ==
    \/ \E p \in Positions :
          \/ \E k \in {"posopen", "clobfill", "exorder"} : OpenPosition(p, k)
          \/ \E all \in BOOLEAN : Liquidate(p, all)
    \/ \E x \in Tx : CloseFails(x) \/ \E n \in Pnls : ClosePosition(x, n)
    \/ IndexNext
    \/ \E t \in Tabs : TabStep(t)

\* The indexer polls; the tabs poll it; an answer that was sent arrives.  Nothing is
\* assumed of the watcher, whose table may be hidden and whose requests may fail.
PositionsFairness ==
    /\ WF_positionsVars(IndexNext)
    /\ \A t \in Tabs :
          /\ WF_positionsVars(\E g \in BOOLEAN : Fetch(t, g))
          /\ \A a \in RowsAnswer : WF_positionsVars(Deliver(t, a))

PositionsSpec == PositionsInit /\ [][PositionsNext]_positionsVars /\ PositionsFairness

-----------------------------------------------------------------------------
(* Properties *)

\* Every trade the blotter shows happened: a close has its event on the chain, and
\* so has a liquidation, although a run may report a success that was none and the
\* tabs write over each other's storage.
HistoryIsTrue ==
    \A t \in Tabs, p \in Positions :
        LET trade == History(t)[p]
        IN  /\ trade.kind = "user" => Events("posclose", p, DOMAIN log) # {}
            /\ trade.kind = "liquidation" => Events("liq", p, DOMAIN log) # {}

\* A close is shown with the PnL it was made with, a profit or a loss: what
\* decodeI128 says of itself.
HistoryPnlIsTrue ==
    \A t \in Tabs, p \in Positions :
        LET trade == History(t)[p]
        IN  trade.kind = "user" =>
                \E l \in Events("posclose", p, DOMAIN log) : trade.pnl = log[l].pnl

Shown(t, p) ==
    /\ held[p] = "open" /\ account[t] = Owner[p] /\ rows[t] # Offline
    /\ Events("posopen", p, DOMAIN log) # {} /\ Events("liq", p, DOMAIN log) = {}

\* While the indexer can be reached, a position of the connected account comes to
\* be displayed and stays, in whatever order answers arrive, if it was opened by a
\* market order and not liquidated in part: of others the indexer has no row.
OpenPositionsAppear ==
    \A t \in Tabs, p \in Positions :
        <>[]Shown(t, p) => <>[](p \in Displayed(t))
=============================================================================
