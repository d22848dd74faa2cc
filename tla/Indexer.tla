------------------------------- MODULE Indexer ------------------------------
(***************************************************************************)
(* The event indexer (packages/indexer): a watcher polls the RPC node for  *)
(* the contracts' events from a stored cursor on, applies each of them to  *)
(* an SQLite store, and moves the cursor when a tick ends.  The API reads  *)
(* the store from the same process, so it never sees half a page.          *)
(*                                                                         *)
(* The chain is the environment.  Every ledger holds one event, so a ledger *)
(* number is an index of log; the node keeps the last Retention of them    *)
(* and answers a range error to a start outside of what it keeps.  A row's *)
(* size and filled_size are abstracted to what is left, floored at zero,   *)
(* and the tables that are only inserted into (trades, liquidations,       *)
(* deposits) to how often each event was applied, counted up to two.       *)
(***************************************************************************)
EXTENDS Naturals, Sequences, FiniteSets

CONSTANTS
    Orders, Positions,
    Lookback,     \* initialLookbackLedgers
    PageLimit,
    Retention,    \* ledgers the RPC node keeps
    MaxLedgers,   \* bound on the ledgers of the chain
    MaxFaults     \* bound on the ticks that end before their cursor is stored

ASSUME IndexerConstants ==
    /\ {Lookback, Retention, MaxLedgers, MaxFaults} \subseteq Nat
    /\ PageLimit \in Nat \ {0}

VARIABLES
    log,       \* the events the contracts published
    cursor,    \* the first ledger that is not scanned yet, 0 when none is stored
    scan,      \* the tick in progress: the ledger to ask for, 0 when there is none
    lastSeen,  \* its lastLedger
    positions, \* rows of the positions table
    orders,    \* rows of the orders table
    applied,   \* for each event, how many of its rows are in the other tables
    skipped,   \* ledgers a tick gave up
    faults     \* ticks that ended before their cursor was stored

indexVars == <<cursor, scan, lastSeen, positions, orders, applied, skipped, faults>>

NoRow == [status |-> "none", left |-> 0]

OrderRow == [status : {"none", "open", "filled", "cancelled"}, left : Nat]

Ledgers == 1 .. MaxLedgers

IndexTypeOK ==
    /\ Len(log) <= MaxLedgers
    /\ cursor \in 0 .. MaxLedgers + 1
    /\ scan \in 0 .. MaxLedgers + 1 /\ lastSeen \in 0 .. MaxLedgers + 1
    /\ positions \subseteq Positions
    /\ orders \in [Orders -> OrderRow]
    /\ applied \in [Ledgers -> 0 .. 2]
    /\ skipped \subseteq Ledgers
    /\ faults \in 0 .. MaxFaults

IndexInit ==
    /\ log = << >>
    /\ cursor = 0 /\ scan = 0 /\ lastSeen = 0
    /\ positions = {}
    /\ orders = [o \in Orders |-> NoRow]
    /\ applied = [l \in Ledgers |-> 0]
    /\ skipped = {}
    /\ faults = 0

Larger(a, b) == IF a > b THEN a ELSE b

Latest == Len(log)
Oldest == IF Latest > Retention THEN Latest - Retention + 1 ELSE 1
MinStart == IF Latest > Lookback THEN Latest - Lookback ELSE 1

-----------------------------------------------------------------------------
(* What an event does to the store *)

\* Events whose tag the watcher does not know change nothing: clobfill (the
\* positions a CLOB fill opens), exorder (those a pending order opens) and
\* riskclose (those that auto-deleveraging closes).
AfterPositions(rows, e) ==
    CASE e.tag = "posopen" -> rows \cup {e.position}
      [] e.tag \in {"posclose", "liq"} -> rows \ {e.position}
      [] OTHER -> rows

\* fillOrder: a no-op on an order that is not in the table.
Filled(row, size) ==
    IF row.status = "none" THEN row
    ELSE IF size >= row.left THEN [status |-> "filled", left |-> 0]
    ELSE [row EXCEPT !.left = @ - size]

PlacedOrCancelled(rows, e) ==
    CASE e.tag = "ordplace" ->
           [rows EXCEPT ![e.order] = [status |-> "open", left |-> e.size]]
      [] e.tag = "ordcancel" ->
           [rows EXCEPT ![e.order].status = IF @ = "none" THEN @ ELSE "cancelled"]
      [] OTHER -> rows

\* Mutant: a fill is applied to the buy order only.
AfterOrdersBuySide(rows, e) ==
    IF e.tag = "settled" THEN [rows EXCEPT ![e.buy] = Filled(@, e.size)]
                         ELSE PlacedOrCancelled(rows, e)

AfterOrders(rows, e) ==
    IF e.tag = "settled"
      THEN [o \in Orders |-> IF o \in {e.buy, e.sell} THEN Filled(rows[o], e.size)
                             ELSE rows[o]]
      ELSE PlacedOrCancelled(rows, e)

\* The tables after the ledgers from first to last, applied in that order.
PositionsAfter(first, last) ==
    LET f[l \in first - 1 .. last] ==
          IF l = first - 1 THEN positions ELSE AfterPositions(f[l - 1], log[l])
    IN  f[last]

OrdersAfter(first, last) ==
    LET f[l \in first - 1 .. last] ==
          IF l = first - 1 THEN orders ELSE AfterOrders(f[l - 1], log[l])
    IN  f[last]

Persist(first, last) ==
    /\ positions' = PositionsAfter(first, last)
    /\ orders' = OrdersAfter(first, last)
    /\ applied' = [l \in Ledgers |->
                     IF l \in first .. last /\ applied[l] < 2 THEN applied[l] + 1
                     ELSE applied[l]]

-----------------------------------------------------------------------------
(* A tick of the watcher *)

Fault == faults < MaxFaults /\ faults' = faults + 1

\* The ledgers that no tick will ask for again when the cursor moves to start,
\* also those of which a tick that was cut short had applied a part.
SkipTo(start) == skipped' = skipped \cup {l \in 1 .. start - 1 : l >= cursor}

\* resolveStartLedger.  A cursor behind the look-back window is clamped to it.
StartTick ==
    LET start == IF cursor >= MinStart THEN cursor ELSE MinStart
    IN  /\ scan = 0 /\ Latest > 0
        /\ start <= Latest \/ faults < MaxFaults
        /\ scan' = start /\ lastSeen' = start
        /\ cursor' = IF cursor = 0 THEN 0 ELSE start
        /\ SkipTo(start)
        /\ UNCHANGED <<log, positions, orders, applied, faults>>

\* The first request of a tick starts outside of what the node keeps: the
\* cursor is reset to the oldest ledger, and the next tick scans again.
RangeError ==
    /\ scan # 0 /\ scan = lastSeen
    /\ scan \notin Oldest .. Latest
    /\ Fault
    /\ cursor' = Oldest /\ scan' = 0 /\ lastSeen' = 0
    /\ SkipTo(Oldest)
    /\ UNCHANGED <<log, positions, orders, applied>>

InRange == scan # 0 /\ (scan # lastSeen \/ scan \in Oldest .. Latest)

\* A full page: its cursor leads to the next one.
FullPage ==
    LET last == scan + PageLimit - 1
    IN  /\ InRange /\ last <= Latest
        /\ Persist(scan, last)
        /\ scan' = last + 1 /\ lastSeen' = last
        /\ UNCHANGED <<log, cursor, skipped, faults>>

\* The last page, which may be empty, ends the tick.
LastPage ==
    /\ InRange /\ scan + PageLimit - 1 > Latest
    /\ Persist(scan, Latest)
    /\ cursor' = Larger(lastSeen, Latest) + 1
    /\ scan' = 0 /\ lastSeen' = 0
    /\ UNCHANGED <<log, skipped, faults>>

\* Mutant: a tick that fails stores how far it came, and more.
RequestFailsStored ==
    /\ scan # 0 /\ Fault
    /\ cursor' = Latest + 1 /\ scan' = 0 /\ lastSeen' = 0
    /\ UNCHANGED <<log, positions, orders, applied, skipped>>

\* A request fails and the tick ends; what earlier pages brought stays.
RequestFails ==
    /\ scan # 0 /\ Fault
    /\ scan' = 0 /\ lastSeen' = 0
    /\ UNCHANGED <<log, cursor, positions, orders, applied, skipped>>

\* The process stops in the middle of a page.
IndexerCrash ==
    /\ scan # 0 /\ Fault
    /\ \E last \in {l \in scan .. Latest : l < scan + PageLimit} : Persist(scan, last)
    /\ scan' = 0 /\ lastSeen' = 0
    /\ UNCHANGED <<log, cursor, skipped>>

PollStep == StartTick \/ RangeError \/ FullPage \/ LastPage

IndexerStep == PollStep \/ RequestFails \/ IndexerCrash

-----------------------------------------------------------------------------
(* The API *)

\* GET /positions and GET /orders.
ListOpenPositions == positions
ListOpenOrders == {o \in Orders : orders[o].status = "open"}

-----------------------------------------------------------------------------
(* Properties of the index *)

CaughtUp == scan = 0 /\ cursor = Latest + 1

\* No event falls through the pages: what lies behind the stored cursor was
\* applied, or given up because it left the look-back window or the node's range,
\* whatever failed and wherever the process stopped.  A cursor stored too early loses fills for good.
NothingSkipped ==
    \A l \in 1 .. cursor - 1 : applied[l] > 0 \/ l \in skipped
=============================================================================
