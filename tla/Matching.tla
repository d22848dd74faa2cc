------------------------------ MODULE Matching ------------------------------
(***************************************************************************)
(* Limit orders from the book to the settlement: the CLOB contract keeps   *)
(* the orders (contracts/stellax-clob), the indexer follows its events,    *)
(* and the keeper's matcher (workers/clob-matcher.ts) pairs the orders the *)
(* index shows open and submits a settlement for each pair.  A settlement  *)
(* the matcher stopped waiting for may still be included, and a tick the   *)
(* worker loop gave up goes on next to its successor.                      *)
(***************************************************************************)
EXTENDS Indexer

LOCAL INSTANCE SequencesExt

CONSTANTS
    Book,      \* for each order id: its trader, side, price and size
    Runs,      \* ticks of the matcher that may be in progress at a time
    MaxPairs   \* maxFillsPerTick

ASSUME MatchingConstants ==
    /\ Orders = 1 .. Cardinality(Orders)
    /\ DOMAIN Book = Orders
    /\ \A o \in Orders : Book[o].long \in BOOLEAN /\ Book[o].price \in Nat
                         /\ Book[o].size \in Nat \ {0}

VARIABLES
    clob,      \* the orders the contract stores
    expired,   \* those whose expiry has passed
    todo,      \* for each run, the pairs it has yet to settle
    sent       \* settlements that may still be included

chainVars == <<clob, expired>>
vars == <<log, indexVars, chainVars, todo, sent>>

Pair == {p \in [buy : Orders, sell : Orders] : Book[p.buy].long /\ ~Book[p.sell].long}

TypeOK ==
    /\ IndexTypeOK
    /\ clob \in [Orders -> OrderRow]
    /\ expired \subseteq Orders
    /\ todo \in [Runs -> Seq(Pair)]
    /\ sent \subseteq Pair

Init ==
    /\ IndexInit
    /\ clob = [o \in Orders |-> NoRow]
    /\ expired = {}
    /\ todo = [r \in Runs |-> << >>]
    /\ sent = {}

-----------------------------------------------------------------------------
(* The contract *)

Publish(e) == Len(log) < MaxLedgers /\ log' = Append(log, e)

\* Order ids are given in the order of the placements.
PlaceOrder(o) ==
    /\ clob[o] = NoRow /\ \A p \in 1 .. o - 1 : clob[p] # NoRow
    /\ clob' = [clob EXCEPT ![o] = [status |-> "open", left |-> Book[o].size]]
    /\ Publish([tag |-> "ordplace", order |-> o, size |-> Book[o].size])
    /\ UNCHANGED <<indexVars, expired, todo, sent>>

\* The trader may cancel an order that has expired, too.
CancelOrder(o) ==
    /\ clob[o].status = "open"
    /\ clob' = [clob EXCEPT ![o].status = "cancelled"]
    /\ Publish([tag |-> "ordcancel", order |-> o])
    /\ UNCHANGED <<indexVars, expired, todo, sent>>

\* No event tells of it: the contract marks the order in a call it then fails,
\* which takes the mark back.
OrderExpires(o) ==
    /\ clob[o].status = "open" /\ o \notin expired
    /\ expired' = expired \cup {o}
    /\ UNCHANGED <<log, indexVars, clob, todo, sent>>

Live(o) == clob[o].status = "open" /\ o \notin expired

Crosses(p) == Book[p.buy].price >= Book[p.sell].price

FillSize(p) ==
    IF clob[p.buy].left < clob[p.sell].left THEN clob[p.buy].left
                                            ELSE clob[p.sell].left

CanSettle(p) == Live(p.buy) /\ Live(p.sell) /\ Crosses(p)

\* Mutant: only the sell order is updated.
SettleSellSide(p) ==
    /\ CanSettle(p)
    /\ clob' = [clob EXCEPT ![p.sell] = Filled(@, FillSize(p))]
    /\ Publish([tag |-> "settled", buy |-> p.buy, sell |-> p.sell, size |-> FillSize(p)])

\* settle_matched_orders.
Settle(p) ==
    /\ CanSettle(p)
    /\ clob' = [o \in Orders |-> IF o \in {p.buy, p.sell}
                                   THEN Filled(clob[o], FillSize(p)) ELSE clob[o]]
    /\ Publish([tag |-> "settled", buy |-> p.buy, sell |-> p.sell, size |-> FillSize(p)])

-----------------------------------------------------------------------------
(* The matcher *)

BidFirst(a, b) ==
    Book[a].price > Book[b].price \/ (Book[a].price = Book[b].price /\ a < b)
AskFirst(a, b) ==
    Book[a].price < Book[b].price \/ (Book[a].price = Book[b].price /\ a < b)

\* Walk the sorted sides and pair the orders that meet, until none do; the later
\* one of two orders of one trader is let go.
Walk(open, checksTraders, Meet(_)) ==
    LET bids == SetToSortSeq({o \in open : Book[o].long}, BidFirst)
        asks == SetToSortSeq({o \in open : ~Book[o].long}, AskFirst)
        pair(i, j) == [buy |-> bids[i], sell |-> asks[j]]
        walk[i \in 1 .. Len(bids) + 1, j \in 1 .. Len(asks) + 1, n \in 0 .. MaxPairs] ==
          IF i > Len(bids) \/ j > Len(asks) \/ n = MaxPairs THEN << >>
          ELSE IF checksTraders /\ Book[bids[i]].trader = Book[asks[j]].trader
            THEN IF bids[i] > asks[j] THEN walk[i + 1, j, n] ELSE walk[i, j + 1, n]
          ELSE IF Meet(pair(i, j)) THEN <<pair(i, j)>> \o walk[i + 1, j + 1, n + 1]
          ELSE << >>
    IN  walk[1, 1, 0]

\* Mutant: equal prices do not meet.
MatchBookStrict(open) ==
    LET Passes(p) == Book[p.buy].price > Book[p.sell].price
    IN  Walk(open, TRUE, Passes)

MatchBook(open) == Walk(open, TRUE, Crosses)

\* getOpenOrders leaves exhausted orders out.
Snapshot == {o \in ListOpenOrders : orders[o].left > 0}

\* A tick asks the index.  A run starts next to another one when the worker
\* loop has given that one up.
MatcherTick(r) ==
    /\ todo[r] = << >>
    /\ todo' = [todo EXCEPT ![r] = MatchBook(Snapshot)]
    /\ UNCHANGED <<log, indexVars, chainVars, sent>>

\* An attempt to settle the next pair reaches the network.
Submit(r, p) ==
    /\ todo[r] # << >> /\ p = Head(todo[r])
    /\ sent' = sent \cup {p}
    /\ UNCHANGED <<log, indexVars, chainVars, todo>>

\* The answer is there, or the attempts are used up.
NextPair(r) ==
    /\ todo[r] # << >>
    /\ todo' = [todo EXCEPT ![r] = Tail(@)]
    /\ UNCHANGED <<log, indexVars, chainVars, sent>>

MatcherRestart ==
    /\ todo' = [r \in Runs |-> << >>]
    /\ UNCHANGED <<log, indexVars, chainVars, sent>>

\* The settlement is included and succeeds.
Settled(p) ==
    /\ p \in sent /\ Settle(p)
    /\ sent' = sent \ {p}
    /\ UNCHANGED <<indexVars, expired, todo>>

\* It fails, as when a trader's margin does not cover the fill, or its time
\* bounds pass.
NotSettled(p) ==
    /\ p \in sent
    /\ sent' = sent \ {p}
    /\ UNCHANGED <<log, indexVars, chainVars, todo>>

-----------------------------------------------------------------------------
Next ==
    \/ \E o \in Orders : PlaceOrder(o) \/ CancelOrder(o) \/ OrderExpires(o)
    \/ IndexerStep /\ UNCHANGED <<chainVars, todo, sent>>
    \/ \E r \in Runs :
          \/ MatcherTick(r) \/ NextPair(r)
          \/ \E p \in Pair : Submit(r, p)
    \/ MatcherRestart
    \/ \E p \in Pair : Settled(p) \/ NotSettled(p)

\* The poll loops of the indexer and of the matcher run for ever.  An attempt
\* that is made again and again reaches the network at times, and a settlement
\* that is sent again and again is included at times: the traders' margin
\* covers it.
Fairness ==
    /\ WF_vars(PollStep /\ UNCHANGED <<chainVars, todo, sent>>)
    /\ \A r \in Runs : WF_vars(MatcherTick(r) \/ NextPair(r))
    /\ \A r \in Runs, p \in Pair : SF_vars(Submit(r, p))
    /\ \A p \in Pair : SF_vars(Settled(p))

Spec == Init /\ [][Next]_vars /\ Fairness

-----------------------------------------------------------------------------
(* Properties *)

\* When the index has caught up it shows each order as the contract has it,
\* expiry aside.  A tick that was cut short makes it count fills twice, and then
\* it may hide what an order has left, but it never shows an order that is gone:
\* whoever replays a placement also replays what closed the order.
BookFollowsChain ==
    CaughtUp /\ skipped = {} =>
        \A o \in Orders :
            /\ faults = 0 => orders[o] = clob[o]
            /\ orders[o].left <= clob[o].left
            /\ orders[o].status = "open" => clob[o].status = "open"

\* A pair is settled at most once, although a settlement is tried again after
\* its answer was lost and the next tick reads an index that lags behind: a
\* settlement fills one of its orders.
SettledOnce ==
    \A l, m \in DOMAIN log :
        /\ l < m
        /\ log[l].tag = "settled" /\ log[m].tag = "settled"
        => log[l].buy # log[m].buy \/ log[l].sell # log[m].sell

Crossed ==
    \E p \in Pair : CanSettle(p) /\ Book[p.buy].trader # Book[p.sell].trader

\* What keeps the matcher from a pair: an order the index does not show as it
\* is, one that can no longer be filled, and two orders of one trader.
Obstructed ==
    \/ \E o \in Orders : (orders[o].status = "open") # Live(o)
    \/ \E o, p \in Orders :
          /\ Live(o) /\ Live(p) /\ Book[o].trader = Book[p].trader
          /\ Book[o].long /\ ~Book[p].long

\* A crossed book does not stay crossed: orders that can be filled are settled,
\* whatever requests fail, unless something obstructs the matcher for ever.
CrossedBookClears == []<>(~Crossed \/ Obstructed)
=============================================================================
